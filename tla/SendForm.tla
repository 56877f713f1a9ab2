------------------------------- MODULE SendForm -------------------------------
(***************************************************************************)
(* Filling in a send, its review and what lets it go (screens/Send.tsx),   *)
(* with the wallet's contacts (contacts.ts, Contacts.tsx).  What the form  *)
(* asks of the worker is answered late, and the person may go on meanwhile.*)
(* How a send goes once it starts is SendFlow's.                           *)
(***************************************************************************)
EXTENDS Naturals, FiniteSets, SequencesExt, TLC

CONSTANTS
    Addresses, Amounts, None,
    Names,      \* of contacts; each has two spellings that read alike
    Spendable, Fee,
    MaxPayments, \* MAX_PAYMENTS
    Rare,       \* see RareThings
    MaxEdits,   \* bound: changes to the form and to contacts
    MaxReviews, \* bound: reviews
    MaxVisits   \* bound: times the screen opens

\* "changes mind": the review is left, or the screen, while the password is being checked.
\* "enters twice": the password is entered again meanwhile.  "long message": a request's message is
\* not kept as it came (cleanNote).  "refilled request": a failed send with a request's note is filled
\* in again.  "link while sending": one is opened then.  "saves twice": two changes to contacts overlap.
RareThings == {"changes mind", "enters twice", "long message", "refilled request", "link while sending", "saves twice"}
ASSUME FormAssumption ==
    /\ {None, "none", "mine"} \cap Addresses = {} /\ Rare \subseteq RareThings
    /\ Amounts \subseteq Nat \ {0} /\ MaxPayments \in Nat \ {0}
    /\ {Spendable, Fee, MaxEdits, MaxReviews, MaxVisits} \subseteq Nat

VARIABLES
    contacts, saving,    \* what is kept; changes found allowed and not yet kept
    screen, form, draft, \* the form's payments, note, request's name (by its address), what it filled
    checking,            \* the form Review was pressed with, while it is checked
    step, review,        \* "form" or "review"; what the review shows
    agreed, approved, askLustration, \* the last two: the review each was given on, or 0
    verifying,           \* sends waiting for their password's check
    job,                 \* the send under way, or how it ended
    recorded,            \* what the last recorded send paid
    together, began, leftEarly, \* history: payments as typed; sends; reviews left while theirs was on its way
    edits, reviews, visits      \* bounds

kept == <<contacts, saving>>
consent == <<agreed, approved, askLustration>>
sheet == <<step, review, consent>>
history == <<together, began, leftEarly>>
bounds == <<edits, reviews, visits>>
vars == <<kept, screen, form, draft, checking, sheet, verifying, job, recorded, history, bounds>>

Empty == [to |-> None, amt |-> 0]
Whole(p) == p.to # None /\ p.amt > 0
NoNote == "none"
Blank == [pays |-> <<Empty>>, note |-> NoNote, meta |-> None, filled |-> NoNote, fee |-> "usual"]
NoDraft == [Blank EXCEPT !.pays = <<>>]
NoForm == NoDraft
NoReview == [no |-> 0, pays |-> <<>>, label |-> None, note |-> NoNote, odd |-> FALSE]
NoJob == [state |-> "none", sends |-> NoReview, mine |-> FALSE]
Running == job.state = "running"

Init ==
    /\ contacts = {} /\ saving = <<>>
    /\ screen = "away" /\ form = Blank /\ draft = NoDraft /\ checking = NoForm
    /\ step = "form" /\ review = NoReview /\ agreed = FALSE /\ approved = 0 /\ askLustration = 0
    /\ verifying = <<>> /\ job = NoJob /\ recorded = <<>>
    /\ together = {} /\ began = {} /\ leftEarly = {}
    /\ edits = 0 /\ reviews = 0 /\ visits = 0

(* The form *)

\* While a send runs, or a sent one shows, the form is not there.
Editable == screen = "send" /\ step = "form" /\ job.state \in {"none", "failed"} /\ edits < MaxEdits

Fills(f) ==
    /\ form' = f /\ edits' = edits + 1
    /\ together' = together \cup {f.pays[i] : i \in {j \in 1..Len(f.pays) : Whole(f.pays[j])}}

DropName(f) == [f EXCEPT !.meta = None]

\* The request's name goes, and its message while the note is still what it filled in.
DropRequest(f) == [f EXCEPT !.meta = None, !.filled = NoNote, !.note = IF @ = f.filled THEN NoNote ELSE @]

Requests == [to : Addresses, amt : {0} \cup Amounts, said : BOOLEAN]
PaysTo(p, r) == [to |-> r.to, amt |-> IF r.amt > 0 THEN r.amt ELSE p.amt]
\* Without a message, a note the person wrote stays, one an earlier request filled in goes.
ApplyText(f, r) ==
    [DropRequest(f) EXCEPT
        !.pays[1] = PaysTo(@, r),
        !.meta = IF r.said THEN r.to ELSE None,
        !.filled = IF r.said THEN r.to ELSE NoNote,
        !.note = IF r.said THEN r.to ELSE @]

TypeAddress ==
    /\ Editable
    /\ \E i \in 1..Len(form.pays), a \in Addresses \cup {None} :
        Fills([IF i = 1 THEN DropRequest(form) ELSE form EXCEPT !.pays[i].to = a])
    /\ UNCHANGED <<kept, screen, draft, checking, sheet, verifying, job, recorded, began, leftEarly, reviews, visits>>

TypeAmount ==
    /\ Editable
    /\ \E i \in 1..Len(form.pays), n \in Amounts : Fills([form EXCEPT !.pays[i].amt = n])
    /\ UNCHANGED <<kept, screen, draft, checking, sheet, verifying, job, recorded, began, leftEarly, reviews, visits>>

TypeNote ==
    /\ Editable /\ form.note # "mine" /\ Fills([form EXCEPT !.note = "mine"])
    /\ UNCHANGED <<kept, screen, draft, checking, sheet, verifying, job, recorded, began, leftEarly, reviews, visits>>

\* Low, Medium and High are usual; a custom fee may be too high, or too low to confirm.
ChooseFee ==
    /\ Editable /\ Fills([form EXCEPT !.fee = IF @ = "odd" THEN "usual" ELSE "odd"])
    /\ UNCHANGED <<kept, screen, draft, checking, sheet, verifying, job, recorded, began, leftEarly, reviews, visits>>

\* Pasted into the field or scanned for it: a request for one added fills its payment only.
Request ==
    /\ Editable
    /\ \E r \in Requests, i \in 1..Len(form.pays) :
        Fills(IF i = 1 THEN ApplyText(form, r) ELSE [form EXCEPT !.pays[i] = PaysTo(@, r)])
    /\ UNCHANGED <<kept, screen, draft, checking, sheet, verifying, job, recorded, began, leftEarly, reviews, visits>>

PickContact ==
    /\ Editable
    /\ \E c \in contacts, i \in 1..Len(form.pays) :
        Fills([IF i = 1 THEN DropRequest(form) ELSE form EXCEPT !.pays[i].to = c.to])
    /\ UNCHANGED <<kept, screen, draft, checking, sheet, verifying, job, recorded, began, leftEarly, reviews, visits>>

\* The recipient open is checked first; any that is whole may be the one.
AddRecipient ==
    /\ Editable /\ Len(form.pays) < MaxPayments
    /\ \E i \in 1..Len(form.pays) : Whole(form.pays[i])
    /\ Fills([form EXCEPT !.pays = Append(@, Empty)])
    /\ UNCHANGED <<kept, screen, draft, checking, sheet, verifying, job, recorded, began, leftEarly, reviews, visits>>

RemoveRecipient ==
    /\ Editable /\ Len(form.pays) > 1
    /\ \E i \in 1..Len(form.pays) :
        Fills([IF i = 1 THEN DropRequest(form) ELSE form EXCEPT !.pays = RemoveAt(@, i)])
    /\ UNCHANGED <<kept, screen, draft, checking, sheet, verifying, job, recorded, began, leftEarly, reviews, visits>>

Clear ==
    /\ Editable /\ form # Blank /\ Fills(Blank)
    /\ agreed' = FALSE /\ askLustration' = 0 /\ review' = NoReview
    /\ UNCHANGED <<kept, screen, draft, checking, step, approved, verifying, job, recorded, began, leftEarly, reviews, visits>>

(* Coming and going *)

PasswordWaits == \E v \in ToSet(verifying) : v.sends.no = review.no
ItsSendRuns == Running /\ job.mine /\ job.sends.no = review.no
LeftEarly(early) == leftEarly' = leftEarly \cup {n \in {review.no} : step = "review" /\ early}

Holds(f) == Len(f.pays) > 1 \/ f.pays[1] # Empty
Restored(d) == IF "long message" \in Rare THEN [d EXCEPT !.filled = NoNote] ELSE d
Starts(f) ==
    /\ screen' = "send" /\ visits' = visits + 1
    /\ form' = f /\ together' = together \cup {f.pays[i] : i \in {j \in 1..Len(f.pays) : Whole(f.pays[j])}}
    /\ checking' = NoForm /\ step' = "form" /\ review' = NoReview
    /\ agreed' = FALSE /\ approved' = 0 /\ askLustration' = 0
    /\ draft' = NoDraft \* of no use until the screen is left, which replaces it
    /\ UNCHANGED <<kept, verifying, recorded, began, leftEarly, edits, reviews>>

\* From the menu, from "Send to" a contact, or with the form of a send that failed.
Come ==
    /\ screen # "send" /\ visits < MaxVisits /\ verifying = <<>>
    /\ job' = [job EXCEPT !.mine = job.state = "sent"]
    /\ \/ Starts(IF draft = NoDraft THEN Blank ELSE Restored(draft))
       \/ /\ screen = "contacts"
          /\ \E c \in contacts : Starts([Blank EXCEPT !.pays[1].to = c.to])
Refill ==
    /\ Editable /\ job.state = "failed"
    /\ job.sends.note \in Addresses => "refilled request" \in Rare
    /\ Fills([Blank EXCEPT !.pays = job.sends.pays, !.note = job.sends.note,
                           !.fee = IF job.sends.odd THEN "odd" ELSE "usual"])
    /\ agreed' = FALSE /\ askLustration' = 0 /\ review' = NoReview /\ job' = NoJob
    /\ UNCHANGED <<kept, screen, draft, checking, step, approved, verifying, recorded, began, leftEarly, reviews, visits>>

\* keepSendDraft refuses what the last recorded send paid.
Leave ==
    /\ screen = "send" /\ (verifying = <<>> \/ "changes mind" \in Rare)
    /\ screen' \in {"away", "contacts"}
    /\ draft' = IF Running \/ ~Holds(form) \/ form.pays = recorded THEN NoDraft ELSE form
    /\ form' = Blank /\ checking' = NoForm /\ step' = "form" /\ review' = NoReview
    /\ agreed' = FALSE /\ approved' = 0 /\ askLustration' = 0
    /\ job' = IF Running THEN [job EXCEPT !.mine = FALSE] ELSE NoJob
    /\ LeftEarly(PasswordWaits)
    /\ UNCHANGED <<kept, verifying, recorded, together, began, bounds>>

\* One opened from elsewhere: the form starts over from it, and a review open closes.
PaymentLink ==
    /\ visits < MaxVisits /\ edits < MaxEdits
    /\ Running => "link while sending" \in Rare
    /\ verifying = <<>> \/ "changes mind" \in Rare
    /\ \E r \in Requests :
        /\ form' = ApplyText(Blank, r)
        /\ together' = together \cup {p \in {form'.pays[1]} : Whole(p)}
    /\ IF screen = "send" THEN UNCHANGED <<checking, job>>
       ELSE checking' = NoForm /\ job' = [job EXCEPT !.mine = job.state = "sent"]
    /\ screen' = "send" /\ visits' = visits + 1 /\ edits' = edits + 1
    /\ step' = "form" /\ review' = NoReview /\ agreed' = FALSE /\ askLustration' = 0
    /\ approved' = (IF step = "form" THEN approved ELSE 0) /\ draft' = NoDraft
    /\ LeftEarly(PasswordWaits \/ ItsSendRuns)
    /\ UNCHANGED <<kept, verifying, recorded, began, reviews>>

(* The review *)

PressReview ==
    /\ screen = "send" /\ step = "form" /\ job.state \in {"none", "failed"}
    /\ checking = NoForm /\ reviews < MaxReviews
    /\ checking' = form
    /\ UNCHANGED <<kept, screen, form, draft, sheet, verifying, job, recorded, history, bounds>>

Total(pays) == FoldSeq(LAMBDA p, n : p.amt + n, 0, pays)
CanPay(pays) ==
    /\ \A i \in 1..Len(pays) : Whole(pays[i])
    /\ IsInjective([i \in 1..Len(pays) |-> pays[i].to])
    /\ Total(pays) + Fee <= Spendable

PressedAmountsNow ==
    [checking EXCEPT !.pays = [i \in 1..Len(checking.pays) |->
        IF i <= Len(form.pays) THEN [checking.pays[i] EXCEPT !.amt = form.pays[i].amt] ELSE checking.pays[i]]]
\* The form as it was pressed, whatever it says by now.
Pressed == checking

ReviewOf(f, n) == [no |-> n, pays |-> f.pays, label |-> f.meta, note |-> f.note, odd |-> f.fee = "odd"]

Checked ==
    /\ checking # NoForm
    /\ \/ CanPay(checking.pays) /\ ~Running
          /\ review' = ReviewOf(Pressed, reviews + 1) /\ reviews' = reviews + 1
          /\ step' = "review" /\ agreed' = FALSE
       \/ UNCHANGED <<review, reviews, step, agreed>>
    /\ checking' = NoForm
    /\ UNCHANGED <<kept, screen, form, draft, approved, askLustration, verifying, job, recorded, history, edits, visits>>

ForgottenAsk == UNCHANGED approved /\ askLustration' = 0

\* What was given holds until the review closes.
Forgotten == approved' = 0 /\ askLustration' = 0
Closes ==
    /\ step' = "form" /\ LeftEarly(PasswordWaits)
    /\ IF step = "review" THEN Forgotten ELSE UNCHANGED <<approved, askLustration>>

Edit ==
    /\ screen = "send" /\ step = "review" /\ ~Running
    /\ verifying = <<>> \/ "changes mind" \in Rare
    /\ Closes
    /\ UNCHANGED <<kept, screen, form, draft, checking, review, agreed, verifying, job, recorded, together, began, bounds>>

AgreeToFee ==
    /\ screen = "send" /\ step = "review" /\ ~Running /\ review.odd /\ verifying = <<>>
    /\ agreed' = ~agreed
    /\ UNCHANGED <<kept, screen, form, draft, checking, step, review, approved, askLustration, verifying, job, recorded, history, bounds>>

FeeNeedsAgreement == review.odd /\ ~agreed

(* Sending *)

\* By the approval given on review `by`.  A send already running takes no other.
StartSend(s, by, accept) ==
    /\ askLustration' = 0
    /\ IF Running THEN UNCHANGED <<job, began>>
       ELSE
         /\ job' = [state |-> "running", sends |-> s, mine |-> screen = "send"]
         /\ began' = began \cup {[no |-> s.no, by |-> by, accept |-> accept, open |-> step = "review" /\ review.no = s.no]}

\* With the review as it was when the password was entered.
ConfirmSend ==
    /\ screen = "send" /\ step = "review" /\ ~Running /\ ~FeeNeedsAgreement /\ approved = 0
    /\ verifying = <<>> \/ ("enters twice" \in Rare /\ Len(verifying) < 2)
    /\ verifying' = Append(verifying, [sends |-> review, accept |-> askLustration])
    /\ UNCHANGED <<kept, screen, form, draft, checking, sheet, job, recorded, history, bounds>>

Verified ==
    /\ verifying # <<>> /\ verifying' = Tail(verifying)
    /\ \/ /\ approved' = Head(verifying).sends.no
          /\ StartSend(Head(verifying).sends, Head(verifying).sends.no, Head(verifying).accept)
       \/ UNCHANGED <<approved, askLustration, job, began>> \* a wrong one
    /\ UNCHANGED <<kept, screen, form, draft, checking, step, review, agreed, recorded, together, leftEarly, bounds>>

\* "Send anyway", the password given.
SendAgain ==
    /\ screen = "send" /\ step = "review" /\ ~Running /\ ~FeeNeedsAgreement /\ approved # 0 /\ verifying = <<>>
    /\ StartSend(review, approved, askLustration)
    /\ UNCHANGED <<kept, screen, form, draft, checking, step, review, agreed, approved, verifying, recorded, together, leftEarly, bounds>>

RequiresLustration ==
    /\ Running /\ \A s \in began : s.no = job.sends.no => s.accept = 0
    /\ job' = NoJob
    /\ askLustration' = IF job.mine THEN job.sends.no ELSE askLustration
    /\ UNCHANGED <<kept, screen, form, draft, checking, step, review, agreed, approved, verifying, recorded, together, began, leftEarly, bounds>>

Emptied == [Blank EXCEPT !.fee = form.fee]
\* Sent, or it may have been.
Goes ==
    /\ Running
    /\ job' = [job EXCEPT !.state = "sent"]
    /\ recorded' = job.sends.pays /\ draft' = NoDraft
    /\ IF job.mine THEN form' = Emptied /\ review' = NoReview /\ Closes
                   ELSE UNCHANGED <<form, review, step, approved, askLustration, leftEarly>>
    /\ UNCHANGED <<kept, screen, checking, agreed, verifying, together, began, bounds>>

\* Before or after it was recorded.
Fails ==
    /\ Running
    /\ job' = [job EXCEPT !.state = "failed"]
    /\ \/ recorded' = job.sends.pays /\ draft' = NoDraft
       \/ UNCHANGED <<recorded, draft>>
    /\ IF job.mine THEN Closes ELSE UNCHANGED <<step, approved, askLustration, leftEarly>>
    /\ UNCHANGED <<kept, screen, form, checking, review, agreed, verifying, together, began, bounds>>

Dismiss ==
    /\ screen = "send" /\ job.state \in {"sent", "failed"}
    /\ job' = NoJob
    /\ UNCHANGED <<kept, screen, form, draft, checking, sheet, verifying, recorded, history, bounds>>

(* Contacts *)

Spellings == [key : Names, as : {1, 2}]

\* nameKey: case, spaces and look-alike characters do not tell two names apart.
NameKey(n) == n.key
Namesake(n, but) == \E c \in contacts \ but : NameKey(c.name) = NameKey(n)
Known(a) == \E c \in contacts : c.to = a

MaySave == edits < MaxEdits /\ (saving = <<>> \/ "saves twice" \in Rare)
Saves(change) == saving' = Append(saving, change) /\ edits' = edits + 1

\* On its own page, or the recipient of the send just made.
AddContact ==
    /\ MaySave
    /\ \E n \in Spellings, a \in Addresses :
        /\ \/ screen = "contacts"
           \/ screen = "send" /\ job.state = "sent" /\ job.mine /\ Len(job.sends.pays) = 1 /\ a = job.sends.pays[1].to
        /\ ~Known(a) /\ ~Namesake(n, {})
        /\ Saves([old |-> {}, new |-> {[name |-> n, to |-> a]}])
    /\ UNCHANGED <<contacts, screen, form, draft, checking, sheet, verifying, job, recorded, history, reviews, visits>>

RenameContact ==
    /\ screen = "contacts" /\ MaySave
    /\ \E c \in contacts, n \in Spellings :
        c.name # n /\ ~Namesake(n, {c}) /\ Saves([old |-> {c}, new |-> {[c EXCEPT !.name = n]}])
    /\ UNCHANGED <<contacts, screen, form, draft, checking, sheet, verifying, job, recorded, history, reviews, visits>>

RemoveContact ==
    /\ screen = "contacts" /\ MaySave
    /\ \E c \in contacts : Saves([old |-> {c}, new |-> {}])
    /\ UNCHANGED <<contacts, screen, form, draft, checking, sheet, verifying, job, recorded, history, reviews, visits>>

Kept ==
    /\ saving # <<>> /\ saving' = Tail(saving)
    /\ contacts' = (contacts \ Head(saving).old) \cup Head(saving).new
    /\ UNCHANGED <<screen, form, draft, checking, sheet, verifying, job, recorded, history, bounds>>

ShowContacts ==
    /\ screen = "away" /\ screen' = "contacts"
    /\ UNCHANGED <<kept, form, draft, checking, sheet, verifying, job, recorded, history, bounds>>

Fill == TypeAddress \/ TypeAmount \/ TypeNote \/ ChooseFee \/ Request \/ PickContact \/ AddRecipient \/ RemoveRecipient \/ Clear
Visit == Come \/ Refill \/ Leave \/ PaymentLink \/ ShowContacts
Review == PressReview \/ Checked \/ Edit \/ AgreeToFee
Send == ConfirmSend \/ Verified \/ SendAgain \/ RequiresLustration \/ Goes \/ Fails \/ Dismiss
Contacts == AddContact \/ RenameContact \/ RemoveContact \/ Kept

Next == Fill \/ Visit \/ Review \/ Send \/ Contacts
Spec == Init /\ [][Next]_vars

Symmetry == Permutations(Addresses) \cup Permutations(Names)

-----------------------------------------------------------------------------
\* Every payment on the review stood in the form just so: a change made while the checks run pairs no
\* recipient with another's amount (review(), the snapshot it takes before its awaits).
PaysWhatWasTyped == step = "review" => ToSet(review.pays) \subseteq together

\* A name or a note that came with a request is shown, and kept, only with a payment to the address
\* the request was for, however the recipient came to change (applyText, dropRequest, the draft).
NameOfItsRequest ==
    step = "review" =>
        /\ review.label \in {None, review.pays[1].to}
        /\ review.note \in Addresses => review.note = review.pays[1].to

\* A send begins on its own review, still open, by an approval given on that very review, and publishes
\* coins only when the network asked it there; what comes from another review comes from one that was left
\* while its password was checked or its send ran (send, confirmWith*, the effect that forgets both).
ConfirmedOnItsReview ==
    \A s \in began :
        /\ s.by # 0 /\ ((s.open /\ s.by = s.no) \/ s.by \in leftEarly)
        /\ s.accept \in {0, s.no} \cup leftEarly

\* "Consent to publish the coins is given on the review it was asked on" (Send.tsx, where step changes).
ConsentOnItsReview == \A s \in began : s.accept \in {0, s.no}

=============================================================================

---------------------------- MODULE SendFormProofs ----------------------------
(***************************************************************************)
(* Proofs about SendForm, for any addresses and amounts, and any number of *)
(* edits, reviews and visits.                                              *)
(***************************************************************************)
EXTENDS SendForm, SequenceTheorems, TLAPS

\* A request's message that outlives the request breaks NameOfItsRequest: see the README.
RequestsKept == Rare \cap {"long message", "refilled request"} = {}

(* Payments as typed, with nothing left out *)

Typed(f) == \A i \in 1..Len(f.pays) : Whole(f.pays[i]) => f.pays[i] \in together

TypedInv == Typed(form) /\ Typed(checking) /\ PaysWhatWasTyped

(* A name and a note with the payment of their request *)

Payments == [to : Addresses \cup {None}, amt : Nat]
Notes == Addresses \cup {"none", "mine"}
Forms == [pays : Seq(Payments), note : Notes, meta : Addresses \cup {None}, filled : Addresses \cup {"none"},
          fee : {"usual", "odd"}]

\* The note a request filled in, and its name, go with the first payment, to its address.
Belongs(f) ==
    f.pays # <<>> =>
        /\ f.meta \in {None, f.pays[1].to}
        /\ f.note \in Addresses => f.note = f.filled /\ f.note = f.pays[1].to

Reviews == [no : Nat, pays : Seq(Payments), label : Addresses \cup {None}, note : Notes, odd : BOOLEAN]

Contact == [name : Spellings, to : Addresses]
Jobs == [state : {"none", "running", "sent", "failed"}, sends : Reviews, mine : BOOLEAN]

FormsType ==
    /\ form \in Forms /\ form.pays # <<>>
    /\ checking \in Forms /\ (checking = NoForm \/ checking.pays # <<>>)
    /\ draft \in Forms /\ (draft = NoDraft \/ draft.pays # <<>>)
SheetType ==
    /\ screen \in {"away", "contacts", "send"} /\ step \in {"form", "review"}
    /\ review \in Reviews /\ (step = "review" => review.pays # <<>>) /\ reviews \in Nat
    /\ approved \in Nat /\ askLustration \in Nat
SendsType ==
    /\ verifying \in Seq([sends : Reviews, accept : Nat])
    /\ \A i \in 1..Len(verifying) : verifying[i].sends.pays # <<>>
    /\ job \in Jobs /\ (job.state # "none" => job.sends.pays # <<>>)
ContactsType == contacts \subseteq Contact /\ saving \in Seq([old : SUBSET Contact, new : SUBSET Contact])

FormType == FormsType /\ SheetType /\ SendsType /\ ContactsType

NameInv == FormType /\ Belongs(form) /\ Belongs(checking) /\ Belongs(draft) /\ NameOfItsRequest

(* What was given to the review that is open *)

OpenReview(n) == screen = "send" /\ step = "review" /\ review.no = n

\* What was given on review n counts while it is open; later only if it was left early.
Given(n) == OpenReview(n) \/ n \in leftEarly

WaitsForItsReview(v) ==
    v.sends.no # 0 /\ Given(v.sends.no) /\ v.accept \in {0, v.sends.no} \cup leftEarly

ReviewInv ==
    /\ \A v \in ToSet(verifying) : WaitsForItsReview(v)
    /\ approved # 0 => Given(approved)
    /\ askLustration # 0 => Given(askLustration)
    /\ step = "review" => screen = "send" /\ checking = NoForm /\ review.no # 0
    /\ checking # NoForm => screen = "send"
    /\ Running /\ job.mine => Given(job.sends.no)
    /\ ConfirmedOnItsReview

-----------------------------------------------------------------------------
(* What an edit makes of the form *)

Edited(f, g) == g \in Forms /\ g.pays # <<>> /\ (Belongs(f) => Belongs(g))

LEMMA Strings == "none" \notin Addresses /\ "mine" \notin Addresses /\ None \notin Addresses
BY FormAssumption

LEMMA RequestFields ==
    ASSUME NEW r \in Requests
    PROVE  r.to \in Addresses /\ r.amt \in Nat /\ r.said \in BOOLEAN
<1>1. Amounts \subseteq Nat  BY FormAssumption
<1>2. r.to \in Addresses /\ r.said \in BOOLEAN /\ r.amt \in {0} \cup Amounts  BY DEF Requests
<1>3. CASE r.amt = 0  BY <1>2, <1>3
<1>4. CASE r.amt \in Amounts
  <2>1. r.amt \in Nat  BY <1>1, <1>4, Zenon
  <2> QED BY <1>2, <2>1
<1> QED BY <1>2, <1>3, <1>4

LEMMA EmptyPayment == Empty \in Payments /\ ~Whole(Empty) /\ Empty.to = None
BY DEF Empty, Payments, Whole

LEMMA BlankForm ==
    /\ Blank \in Forms /\ Blank.pays = <<Empty>> /\ Blank.pays # <<>> /\ Len(Blank.pays) = 1 /\ Blank.pays[1] = Empty
    /\ Blank.note = "none" /\ Blank.meta = None /\ Blank.filled = "none"
    /\ Belongs(Blank)
<1>1. <<Empty>> \in Seq(Payments)  BY EmptyPayment
<1>2. Blank \in Forms  BY <1>1 DEF Blank, Forms, NoNote, Notes
<1>3. Blank.pays = <<Empty>> /\ Blank.note = "none" /\ Blank.meta = None /\ Blank.filled = "none"  BY DEF Blank, NoNote
<1>4. <<Empty>> # <<>> /\ Len(<<Empty>>) = 1 /\ <<Empty>>[1] = Empty  OBVIOUS
<1> QED BY <1>2, <1>3, <1>4, Strings DEF Belongs

LEMMA NoFormForm == NoForm \in Forms /\ NoForm.pays = <<>> /\ Belongs(NoForm)
<1>1. NoForm = [Blank EXCEPT !.pays = <<>>]  BY DEF NoForm, NoDraft
<1>2. <<>> \in Seq(Payments)  OBVIOUS
<1> HIDE DEF NoForm
<1>3. NoForm \in Forms /\ NoForm.pays = <<>>  BY <1>1, <1>2, BlankForm DEF Forms
<1> QED BY <1>3 DEF Belongs

\* One payment written over.
LEMMA PaymentSet ==
    ASSUME NEW f \in Forms, f.pays # <<>>, NEW i \in 1..Len(f.pays), NEW p \in Payments
    PROVE  /\ [f EXCEPT !.pays = [f.pays EXCEPT ![i] = p]] \in Forms
           /\ [f EXCEPT !.pays = [f.pays EXCEPT ![i] = p]].pays # <<>>
           /\ [f EXCEPT !.pays = [f.pays EXCEPT ![i] = p]].pays[1] = IF i = 1 THEN p ELSE f.pays[1]
           /\ Len([f EXCEPT !.pays = [f.pays EXCEPT ![i] = p]].pays) = Len(f.pays)
<1> DEFINE s == [f.pays EXCEPT ![i] = p]
           g == [f EXCEPT !.pays = s]
<1>1. f.pays \in Seq(Payments)  BY DEF Forms
<1>2. /\ s \in Seq(Payments) /\ Len(s) = Len(f.pays)
      /\ \A j \in 1..Len(f.pays) : s[j] = IF j = i THEN p ELSE f.pays[j]
  BY <1>1, ExceptSeq
<1>3. Len(f.pays) \in Nat /\ Len(f.pays) # 0  BY <1>1, EmptySeq, LenProperties
<1>4. s # <<>> /\ s[1] = IF i = 1 THEN p ELSE f.pays[1]
  BY <1>2, <1>3
<1> HIDE DEF s
<1>5. g \in Forms /\ g.pays = s  BY <1>2 DEF Forms
<1> HIDE DEF g
<1>6. g \in Forms /\ g.pays # <<>> /\ g.pays[1] = (IF i = 1 THEN p ELSE f.pays[1]) /\ Len(g.pays) = Len(f.pays)
  BY <1>2, <1>4, <1>5
<1> QED BY <1>6 DEF g, s

LEMMA PaymentOf ==
    ASSUME NEW f \in Forms, NEW i \in 1..Len(f.pays)
    PROVE  f.pays[i] \in Payments
<1>1. f.pays \in Seq(Payments)  BY DEF Forms
<1> QED BY <1>1, LenProperties

\* dropRequest: the name goes, and the note with it if it was the request's.
LEMMA RequestDropped ==
    ASSUME NEW f \in Forms
    PROVE  /\ DropRequest(f) \in Forms /\ DropRequest(f).pays = f.pays /\ DropRequest(f).meta = None
           /\ f.pays # <<>> /\ Belongs(f) => DropRequest(f).note \notin Addresses
<1> DEFINE n == IF f.note = f.filled THEN NoNote ELSE f.note
           g == [f EXCEPT !.meta = None, !.filled = NoNote, !.note = n]
<1>1. n \in Notes  BY DEF NoNote, Notes, Forms
<1>2. f.pays # <<>> /\ Belongs(f) => n \notin Addresses  BY Strings DEF Belongs, NoNote
<1>3. DropRequest(f) = g  BY DEF DropRequest
<1> HIDE DEF n
<1>4. g \in Forms /\ g.pays = f.pays /\ g.meta = None /\ g.note = n  BY <1>1 DEF Forms, NoNote
<1> QED BY <1>2, <1>3, <1>4

\* The form an edit of payment i starts from.
From(f, i) == IF i = 1 THEN DropRequest(f) ELSE f
LEMMA FromForm ==
    ASSUME NEW f \in Forms, f.pays # <<>>, NEW i
    PROVE  /\ From(f, i) \in Forms /\ From(f, i).pays = f.pays
           /\ i # 1 => From(f, i) = f
           /\ i = 1 => From(f, i).meta = None
           /\ i = 1 /\ Belongs(f) => From(f, i).note \notin Addresses
BY RequestDropped DEF From

\* The recipient of a payment replaced: a request's name and note stay only with another.
LEMMA RecipientSet ==
    ASSUME NEW f \in Forms, f.pays # <<>>, NEW i \in 1..Len(f.pays), NEW a \in Addresses \cup {None}
    PROVE  Edited(f, [From(f, i) EXCEPT !.pays[i].to = a])
<1> DEFINE d == From(f, i)
           p == [d.pays[i] EXCEPT !.to = a]
           g == [d EXCEPT !.pays = [d.pays EXCEPT ![i] = p]]
<1>1. /\ d \in Forms /\ d.pays = f.pays /\ (i # 1 => d = f) /\ (i = 1 => d.meta = None)
      /\ (i = 1 /\ Belongs(f) => d.note \notin Addresses)
  BY FromForm
<1>2. [From(f, i) EXCEPT !.pays[i].to = a] = g  OBVIOUS
<1> HIDE DEF d
<1>3. d.pays[i] \in Payments  BY <1>1, PaymentOf
<1>4. p \in Payments  BY <1>3 DEF Payments
<1> HIDE DEF p
<1>5. g \in Forms /\ g.pays # <<>> /\ g.pays[1] = IF i = 1 THEN p ELSE d.pays[1]
  BY <1>1, <1>4, PaymentSet
<1>6. g.meta = d.meta /\ g.note = d.note /\ g.filled = d.filled  BY <1>1 DEF Forms
<1> HIDE DEF g
<1>7. ASSUME Belongs(f) PROVE Belongs(g)
  <2>1. CASE i = 1  BY <2>1, <1>1, <1>6, <1>7 DEF Belongs
  <2>2. CASE i # 1  BY <2>2, <1>1, <1>5, <1>6, <1>7 DEF Belongs
  <2> QED BY <2>1, <2>2
<1> QED BY <1>2, <1>5, <1>7 DEF Edited

LEMMA AmountSet ==
    ASSUME NEW f \in Forms, f.pays # <<>>, NEW i \in 1..Len(f.pays), NEW n \in Nat
    PROVE  Edited(f, [f EXCEPT !.pays[i].amt = n])
<1> DEFINE p == [f.pays[i] EXCEPT !.amt = n]
           g == [f EXCEPT !.pays = [f.pays EXCEPT ![i] = p]]
<1>1. [f EXCEPT !.pays[i].amt = n] = g  OBVIOUS
<1>2. f.pays[i] \in Payments  BY PaymentOf
<1>3. p \in Payments /\ p.to = f.pays[i].to  BY <1>2 DEF Payments
<1> HIDE DEF p
<1>4. g \in Forms /\ g.pays # <<>> /\ g.pays[1] = IF i = 1 THEN p ELSE f.pays[1]  BY <1>3, PaymentSet
<1>5. g.meta = f.meta /\ g.note = f.note /\ g.filled = f.filled  BY DEF Forms
<1> HIDE DEF g
<1>6. g.pays[1].to = f.pays[1].to  BY <1>3, <1>4
<1> QED BY <1>1, <1>4, <1>5, <1>6 DEF Edited, Belongs

\* A request read into the first payment brings its own name and note.
LEMMA RequestRead ==
    ASSUME NEW f \in Forms, f.pays # <<>>, NEW r \in Requests
    PROVE  Edited(f, ApplyText(f, r)) /\ Len(ApplyText(f, r).pays) = Len(f.pays)
<1> DEFINE d == DropRequest(f)
           p == PaysTo(d.pays[1], r)
           e == [d EXCEPT !.pays = [d.pays EXCEPT ![1] = p]]
           g == [e EXCEPT !.meta = IF r.said THEN r.to ELSE None,
                          !.filled = IF r.said THEN r.to ELSE NoNote,
                          !.note = IF r.said THEN r.to ELSE d.note]
<1>1. /\ d \in Forms /\ d.pays = f.pays /\ d.meta = None
      /\ Belongs(f) => d.note \notin Addresses
  BY RequestDropped
<1>2. r.to \in Addresses /\ r.amt \in Nat /\ r.said \in BOOLEAN  BY RequestFields
<1>3. 1 \in 1..Len(d.pays)
  <2>1. f.pays \in Seq(Payments)  BY DEF Forms
  <2>2. Len(f.pays) \in Nat /\ Len(f.pays) # 0  BY <2>1, EmptySeq, LenProperties
  <2> QED BY <2>2, <1>1
<1>4. ApplyText(f, r) = g
  BY <1>1, <1>3 DEF ApplyText, Forms
<1> HIDE DEF d
<1>5. d.pays[1] \in Payments  BY <1>1, <1>3, PaymentOf
<1>6. p \in Payments /\ p.to = r.to  BY <1>2, <1>5 DEF PaysTo, Payments
<1> HIDE DEF p
<1>7. e \in Forms /\ e.pays # <<>> /\ e.pays[1] = p /\ Len(e.pays) = Len(d.pays)  BY <1>1, <1>3, <1>6, PaymentSet
<1> HIDE DEF e
<1>8. /\ g \in Forms /\ g.pays = e.pays
      /\ g.meta = (IF r.said THEN r.to ELSE None) /\ g.filled = (IF r.said THEN r.to ELSE NoNote)
      /\ g.note = (IF r.said THEN r.to ELSE d.note)
  <2>1. d.note \in Notes  BY <1>1 DEF Forms
  <2> QED BY <1>2, <1>7, <2>1 DEF Forms, Notes, NoNote
<1> HIDE DEF g
<1>9. ASSUME Belongs(f) PROVE Belongs(g)
  BY <1>1, <1>2, <1>6, <1>7, <1>8, <1>9 DEF Belongs
<1> QED BY <1>1, <1>4, <1>7, <1>8, <1>9 DEF Edited

\* One for an added payment fills that payment only.
LEMMA RequestAdded ==
    ASSUME NEW f \in Forms, f.pays # <<>>, NEW i \in 1..Len(f.pays), i # 1, NEW r \in Requests
    PROVE  Edited(f, [f EXCEPT !.pays[i] = PaysTo(@, r)])
<1> DEFINE p == PaysTo(f.pays[i], r)
           g == [f EXCEPT !.pays = [f.pays EXCEPT ![i] = p]]
<1>1. [f EXCEPT !.pays[i] = PaysTo(@, r)] = g  OBVIOUS
<1>2. f.pays[i] \in Payments  BY PaymentOf
<1>3. r.to \in Addresses /\ r.amt \in Nat  BY RequestFields
<1>4. p \in Payments  BY <1>2, <1>3 DEF PaysTo, Payments
<1> HIDE DEF p
<1>5. g \in Forms /\ g.pays # <<>> /\ g.pays[1] = f.pays[1]  BY <1>4, PaymentSet
<1>6. g.meta = f.meta /\ g.note = f.note /\ g.filled = f.filled  BY DEF Forms
<1> HIDE DEF g
<1> QED BY <1>1, <1>5, <1>6 DEF Edited, Belongs

LEMMA NoteSet ==
    ASSUME NEW f \in Forms, f.pays # <<>>
    PROVE  Edited(f, [f EXCEPT !.note = "mine"])
<1> DEFINE g == [f EXCEPT !.note = "mine"]
<1>1. g \in Forms /\ g.pays = f.pays /\ g.meta = f.meta /\ g.note = "mine"  BY DEF Forms, Notes
<1> HIDE DEF g
<1>2. Edited(f, g)  BY <1>1, Strings DEF Edited, Belongs
<1> QED BY <1>2 DEF g

LEMMA FeeSet ==
    ASSUME NEW f \in Forms, f.pays # <<>>, NEW fee \in {"usual", "odd"}
    PROVE  Edited(f, [f EXCEPT !.fee = fee])
<1> DEFINE g == [f EXCEPT !.fee = fee]
<1>1. g \in Forms /\ g.pays = f.pays /\ g.meta = f.meta /\ g.note = f.note /\ g.filled = f.filled  BY DEF Forms
<1> HIDE DEF g
<1>2. Edited(f, g)  BY <1>1 DEF Edited, Belongs
<1> QED BY <1>2 DEF g

LEMMA PaymentAdded ==
    ASSUME NEW f \in Forms, f.pays # <<>>
    PROVE  Edited(f, [f EXCEPT !.pays = Append(@, Empty)])
<1> DEFINE s == Append(f.pays, Empty)
           g == [f EXCEPT !.pays = s]
<1>1. f.pays \in Seq(Payments)  BY DEF Forms
<1>2. s \in Seq(Payments) /\ s # <<>> /\ \A j \in 1..Len(f.pays) : s[j] = f.pays[j]
  BY <1>1, EmptyPayment, AppendProperties
<1>3. Len(f.pays) \in Nat /\ Len(f.pays) # 0  BY <1>1, EmptySeq, LenProperties
<1>4. s[1] = f.pays[1]  BY <1>2, <1>3
<1> HIDE DEF s
<1>5. g \in Forms /\ g.pays = s /\ g.meta = f.meta /\ g.note = f.note /\ g.filled = f.filled  BY <1>2 DEF Forms
<1> HIDE DEF g
<1>6. Edited(f, g)  BY <1>2, <1>4, <1>5 DEF Edited, Belongs
<1> QED BY <1>6 DEF g, s

\* A payment removed: the next one moves up, and a request's name does not go with it.
LEMMA PaymentRemoved ==
    ASSUME NEW f \in Forms, f.pays # <<>>, Len(f.pays) > 1, NEW i \in 1..Len(f.pays)
    PROVE  Edited(f, [From(f, i) EXCEPT !.pays = RemoveAt(@, i)])
<1> DEFINE d == From(f, i)
           s == RemoveAt(d.pays, i)
           g == [d EXCEPT !.pays = s]
<1>1. /\ d \in Forms /\ d.pays = f.pays /\ (i # 1 => d = f) /\ (i = 1 => d.meta = None)
      /\ (i = 1 /\ Belongs(f) => d.note \notin Addresses)
  BY FromForm
<1>2. f.pays \in Seq(Payments) /\ Len(f.pays) \in Nat  BY LenProperties DEF Forms
<1>3. s = SubSeq(f.pays, 1, i - 1) \o SubSeq(f.pays, i + 1, Len(f.pays))  BY <1>1 DEF RemoveAt
<1> DEFINE b == SubSeq(f.pays, 1, i - 1)
           c == SubSeq(f.pays, i + 1, Len(f.pays))
<1>4. b \in Seq(Payments) /\ Len(b) = i - 1 /\ (i # 1 => b[1] = f.pays[1])
  <2>1. CASE i = 1
    <3>1. b = <<>>  BY <2>1, <1>2, SubSeqProperties
    <3> QED BY <2>1, <3>1
  <2>2. CASE i # 1
    <3>1. /\ b \in Seq(Payments) /\ Len(b) = IF 1 <= i - 1 THEN i - 1 - 1 + 1 ELSE 0
          /\ \A j \in 1..(i - 1 - 1 + 1) : b[j] = f.pays[1 + j - 1]
      BY <1>2, SubSeqProperties
    <3> QED BY <2>2, <3>1, <1>2
  <2> QED BY <2>1, <2>2
<1>5. c \in Seq(Payments) /\ Len(c) = Len(f.pays) - i
  <2>1. CASE i = Len(f.pays)
    <3>1. c = <<>>  BY <2>1, <1>2, SubSeqProperties
    <3> QED BY <2>1, <3>1
  <2>2. CASE i # Len(f.pays)
    <3>1. c \in Seq(Payments) /\ Len(c) = IF i + 1 <= Len(f.pays) THEN Len(f.pays) - (i + 1) + 1 ELSE 0
      BY <1>2, SubSeqProperties
    <3> QED BY <2>2, <3>1, <1>2
  <2> QED BY <2>1, <2>2
<1> HIDE DEF b, c, d
<1>6. /\ s \in Seq(Payments) /\ Len(s) = Len(f.pays) - 1
      /\ i # 1 => s[1] = f.pays[1]
  <2>1. /\ b \o c \in Seq(Payments) /\ Len(b \o c) = Len(b) + Len(c)
        /\ \A j \in 1..Len(b) + Len(c) : (b \o c)[j] = IF j <= Len(b) THEN b[j] ELSE c[j - Len(b)]
    BY <1>4, <1>5, ConcatProperties
  <2>2. s = b \o c  BY <1>3 DEF b, c
  <2>3. Len(b) + Len(c) = Len(f.pays) - 1  BY <1>2, <1>4, <1>5
  <2>4. i # 1 => 1 \in 1..Len(b) + Len(c) /\ 1 <= Len(b)  BY <1>2, <1>4, <2>3
  <2> HIDE DEF s
  <2> QED BY <2>1, <2>2, <2>3, <2>4, <1>4
<1>7. s # <<>>  BY <1>6, <1>2, EmptySeq
<1> HIDE DEF s
<1>8. g \in Forms /\ g.pays = s /\ g.meta = d.meta /\ g.note = d.note /\ g.filled = d.filled  BY <1>1, <1>6 DEF Forms
<1> HIDE DEF g
<1>9. ASSUME Belongs(f) PROVE Belongs(g)
  <2>1. CASE i = 1  BY <2>1, <1>1, <1>8, <1>9 DEF Belongs
  <2>2. CASE i # 1  BY <2>2, <1>1, <1>6, <1>7, <1>8, <1>9 DEF Belongs
  <2> QED BY <2>1, <2>2
<1>10. Edited(f, g)  BY <1>7, <1>8, <1>9 DEF Edited
<1> QED BY <1>10 DEF g, s, d

-----------------------------------------------------------------------------
(* Steps *)

\* The worker, the password and the send go on beside it.
Beside == UNCHANGED <<kept, screen, draft, checking, step, verifying, job>>

EditsForm ==
    \E f : /\ Fills(f) /\ Edited(form, f)
           /\ Beside /\ step = "form" /\ reviews' = reviews
           /\ review' = review \/ review' = NoReview
           /\ screen = "send" /\ verifying' = verifying
           /\ began' = began /\ leftEarly' = leftEarly
           /\ approved' = approved /\ (askLustration' = askLustration \/ askLustration' = 0)

\* Every edit is one of these.
LEMMA FillEdits ==
    ASSUME FormType, Fill
    PROVE  EditsForm
<1>1. form \in Forms /\ form.pays # <<>>  BY DEF FormType, FormsType
<1>2. ASSUME NEW f, Fills(f), Edited(form, f), Editable,
             UNCHANGED <<kept, screen, draft, checking, sheet, verifying, job, recorded, began, leftEarly, reviews, visits>>
      PROVE  EditsForm
  BY <1>2 DEF EditsForm, Beside, Editable, sheet, consent, kept
<1>3. CASE TypeAddress
  <2>1. PICK i \in 1..Len(form.pays), a \in Addresses \cup {None} :
          Fills([From(form, i) EXCEPT !.pays[i].to = a])
    BY <1>3 DEF TypeAddress, From
  <2> QED BY <1>1, <1>2, <1>3, <2>1, RecipientSet DEF TypeAddress
<1>4. CASE TypeAmount
  <2>1. PICK i \in 1..Len(form.pays), n \in Amounts : Fills([form EXCEPT !.pays[i].amt = n])
    BY <1>4 DEF TypeAmount
  <2>2. Amounts \subseteq Nat  BY FormAssumption
  <2> QED BY <1>1, <1>2, <1>4, <2>1, <2>2, AmountSet DEF TypeAmount
<1>5. CASE TypeNote
  BY <1>1, <1>2, <1>5, NoteSet DEF TypeNote
<1>6. CASE ChooseFee
  <2>1. PICK fee \in {"usual", "odd"} : [form EXCEPT !.fee = IF @ = "odd" THEN "usual" ELSE "odd"] = [form EXCEPT !.fee = fee]
    OBVIOUS
  <2> QED BY <1>1, <1>2, <1>6, <2>1, FeeSet DEF ChooseFee
<1>7. CASE Request
  <2>1. PICK r \in Requests, i \in 1..Len(form.pays) :
          Fills(IF i = 1 THEN ApplyText(form, r) ELSE [form EXCEPT !.pays[i] = PaysTo(@, r)])
    BY <1>7 DEF Request
  <2>2. CASE i = 1  BY <1>1, <1>2, <1>7, <2>1, <2>2, RequestRead DEF Request
  <2>3. CASE i # 1  BY <1>1, <1>2, <1>7, <2>1, <2>3, RequestAdded DEF Request
  <2> QED BY <2>2, <2>3
<1>8. CASE PickContact
  <2>1. PICK c \in contacts, i \in 1..Len(form.pays) : Fills([From(form, i) EXCEPT !.pays[i].to = c.to])
    BY <1>8 DEF PickContact, From
  <2>2. c.to \in Addresses  BY <2>1 DEF FormType, ContactsType, Contact
  <2> QED BY <1>1, <1>2, <1>8, <2>1, <2>2, RecipientSet DEF PickContact
<1>9. CASE AddRecipient
  BY <1>1, <1>2, <1>9, PaymentAdded DEF AddRecipient
<1>10. CASE RemoveRecipient
  <2>1. PICK i \in 1..Len(form.pays) : Fills([From(form, i) EXCEPT !.pays = RemoveAt(@, i)])
    BY <1>10 DEF RemoveRecipient, From
  <2> QED BY <1>1, <1>2, <1>10, <2>1, PaymentRemoved DEF RemoveRecipient
<1>11. CASE Clear
  <2>1. Edited(form, Blank)  BY BlankForm DEF Edited
  <2> QED BY <1>11, <2>1 DEF Clear, EditsForm, Beside, Editable, kept
<1> QED BY <1>3, <1>4, <1>5, <1>6, <1>7, <1>8, <1>9, <1>10, <1>11 DEF Fill

LEMMA NoReviewType == NoReview \in Reviews /\ NoReview.pays = <<>>
BY DEF NoReview, Reviews, Notes, NoNote

LEMMA NoJobType == NoJob \in Jobs /\ NoJob.state = "none"
BY NoReviewType DEF NoJob, Jobs

LEMMA FormInit == Init => FormType /\ TypedInv /\ NameInv /\ ReviewInv
<1> SUFFICES ASSUME Init PROVE FormType /\ TypedInv /\ NameInv /\ ReviewInv
    OBVIOUS
<1>1. form = Blank /\ checking = NoForm /\ draft = NoForm /\ review = NoReview /\ job = NoJob /\ step = "form"
  BY DEF Init, NoForm
<1>2. FormType
  <2>1. <<>> \in Seq([sends : Reviews, accept : Nat]) /\ <<>> \in Seq([old : SUBSET Contact, new : SUBSET Contact])
        /\ Len(<<>>) = 0
    OBVIOUS
  <2>2. screen = "away" /\ approved = 0 /\ askLustration = 0 /\ verifying = <<>> /\ reviews = 0
        /\ contacts = {} /\ saving = <<>>
    BY DEF Init
  <2>3. form \in Forms /\ checking \in Forms /\ draft \in Forms /\ form.pays # <<>>  BY <1>1, BlankForm, NoFormForm
  <2>4. review \in Reviews /\ job \in Jobs /\ job.state = "none"  BY <1>1, NoReviewType, NoJobType
  <2>5. \A i \in 1..Len(verifying) : verifying[i].sends.pays # <<>>  BY <2>1, <2>2
  <2>6. FormsType  BY <1>1, <2>3 DEF FormsType, NoForm
  <2>7. SheetType  BY <1>1, <2>2, <2>4 DEF SheetType
  <2>8. SendsType  BY <2>1, <2>2, <2>4, <2>5 DEF SendsType
  <2>9. ContactsType  BY <2>1, <2>2 DEF ContactsType
  <2> QED BY <2>6, <2>7, <2>8, <2>9 DEF FormType
<1>3. Typed(form) /\ Typed(checking)
  <2>1. Typed(Blank)  BY BlankForm, EmptyPayment DEF Typed
  <2>2. Typed(NoForm)
    <3>1. Len(<<>>) = 0 /\ 1..0 = {}  OBVIOUS
    <3> QED BY <3>1, NoFormForm DEF Typed
  <2> QED BY <1>1, <2>1, <2>2
<1>4. PaysWhatWasTyped /\ NameOfItsRequest  BY <1>1 DEF PaysWhatWasTyped, NameOfItsRequest
<1>5. ReviewInv
  <2>1. ToSet(<<>>) = {}  BY DEF ToSet
  <2>2. approved = 0 /\ askLustration = 0 /\ verifying = <<>> /\ began = {}  BY DEF Init
  <2> QED BY <1>1, <2>1, <2>2, NoJobType DEF ReviewInv, ConfirmedOnItsReview, Running
<1> QED BY <1>1, <1>2, <1>3, <1>4, <1>5, BlankForm, NoFormForm DEF TypedInv, NameInv

\* A form restored, filled in again, or begun for a contact or a link.
LEMMA RestoredForm ==
    ASSUME NEW d \in Forms
    PROVE  /\ Restored(d) \in Forms /\ Restored(d).pays = d.pays
           /\ RequestsKept => Restored(d) = d
<1> DEFINE g == [d EXCEPT !.filled = NoNote]
<1>1. g \in Forms /\ g.pays = d.pays  BY DEF Forms, NoNote
<1> HIDE DEF g
<1>2. Restored(d) = IF "long message" \in Rare THEN g ELSE d  BY DEF Restored, g
<1> QED BY <1>1, <1>2 DEF RequestsKept

Refilled == [Blank EXCEPT !.pays = job.sends.pays, !.note = job.sends.note,
                          !.fee = IF job.sends.odd THEN "odd" ELSE "usual"]
LEMMA RefilledForm ==
    ASSUME FormType, job.state = "failed"
    PROVE  /\ Refilled \in Forms /\ Refilled.pays # <<>>
           /\ Refilled.note = job.sends.note /\ Refilled.meta = None
<1>1. job.sends \in Reviews /\ job.sends.pays # <<>>  BY DEF FormType, SendsType, Jobs
<1>2. job.sends.pays \in Seq(Payments) /\ job.sends.note \in Notes  BY <1>1 DEF Reviews
<1>3. Refilled \in Forms /\ Refilled.pays = job.sends.pays /\ Refilled.note = job.sends.note /\ Refilled.meta = None
  BY <1>2, BlankForm DEF Refilled, Forms
<1> QED BY <1>1, <1>3

LEMMA ContactForm ==
    ASSUME NEW a \in Addresses
    PROVE  Edited(Blank, [Blank EXCEPT !.pays[1].to = a])
<1>1. From(Blank, 1) = Blank
  <2>1. DropRequest(Blank) = [Blank EXCEPT !.meta = None, !.filled = NoNote, !.note = NoNote]
    BY BlankForm DEF DropRequest, NoNote
  <2>2. [Blank EXCEPT !.meta = None, !.filled = NoNote, !.note = NoNote] = Blank
    <3> DEFINE g == [Blank EXCEPT !.meta = None, !.filled = NoNote, !.note = NoNote]
    <3>1. g \in Forms /\ g.pays = Blank.pays /\ g.note = Blank.note /\ g.meta = Blank.meta /\ g.filled = Blank.filled
          /\ g.fee = Blank.fee /\ Blank \in Forms
      BY BlankForm DEF Forms, NoNote, Notes
    <3> HIDE DEF g
    <3>2. g = Blank  BY <3>1 DEF Forms
    <3> QED BY <3>2 DEF g
  <2> QED BY <2>1, <2>2 DEF From
<1>2. 1 \in 1..Len(Blank.pays)  BY BlankForm
<1>3. Edited(Blank, [From(Blank, 1) EXCEPT !.pays[1].to = a])  BY <1>2, BlankForm, RecipientSet
<1> QED BY <1>1, <1>3

(* Types *)

LEMMA FormsLeft == FormsType /\ UNCHANGED <<form, checking, draft>> => FormsType'
BY DEF FormsType
LEMMA SheetLeft ==
    SheetType /\ UNCHANGED <<screen, step, review, reviews, approved, askLustration>> => SheetType'
BY DEF SheetType
LEMMA SendsLeft == SendsType /\ UNCHANGED <<verifying, job>> => SendsType'
BY DEF SendsType
LEMMA ContactsLeft == ContactsType /\ UNCHANGED kept => ContactsType'
BY DEF ContactsType, kept

\* A send begun, or its job replaced.
LEMMA JobSet ==
    ASSUME SendsType, verifying' = verifying, NEW j \in Jobs, job' = j, j.state # "none" => j.sends.pays # <<>>
    PROVE  SendsType'
BY DEF SendsType

LEMMA JobMine ==
    ASSUME SendsType, NEW m \in BOOLEAN
    PROVE  /\ [job EXCEPT !.mine = m] \in Jobs
           /\ [job EXCEPT !.mine = m].state # "none" => [job EXCEPT !.mine = m].sends.pays # <<>>
<1> DEFINE j == [job EXCEPT !.mine = m]
<1>1. j \in Jobs /\ j.sends = job.sends /\ j.state = job.state  BY DEF SendsType, Jobs
<1> HIDE DEF j
<1>2. j \in Jobs /\ (j.state # "none" => j.sends.pays # <<>>)  BY <1>1 DEF SendsType
<1> QED BY <1>2 DEF j

LEMMA JobEnds ==
    ASSUME SendsType, Running, NEW st \in {"sent", "failed"}, job' = [job EXCEPT !.state = st], verifying' = verifying
    PROVE  SendsType'
<1> DEFINE j == [job EXCEPT !.state = st]
<1>1. job \in Jobs /\ job.sends.pays # <<>>  BY DEF SendsType, Running
<1>2. j \in Jobs /\ j.sends = job.sends  BY <1>1 DEF Jobs
<1> HIDE DEF j
<1>3. job' = j  BY DEF j
<1> QED BY <1>1, <1>2, <1>3, JobSet

LEMMA SendStarts ==
    ASSUME SheetType, SendsType, NEW r \in Reviews, r.pays # <<>>, NEW by, NEW accept, StartSend(r, by, accept)
    PROVE  job' \in Jobs /\ (job'.state # "none" => job'.sends.pays # <<>>)
<1> DEFINE j == [state |-> "running", sends |-> r, mine |-> screen = "send"]
<1>1. j \in Jobs /\ j.sends = r  BY DEF Jobs
<1> HIDE DEF j
<1>2. job' = job \/ job' = j  BY DEF StartSend, j
<1> QED BY <1>1, <1>2 DEF SendsType

\* What the screen starts from, and what is left of it.
LEMMA StartsType ==
    ASSUME FormType, NEW f \in Forms, f.pays # <<>>, Starts(f), NEW m \in BOOLEAN, job' = [job EXCEPT !.mine = m]
    PROVE  FormType'
<1>1. FormsType'  BY NoFormForm DEF Starts, FormsType, NoForm
<1>2. SheetType'  BY NoReviewType DEF Starts, FormType, SheetType
<1>3. SendsType'  BY JobMine, JobSet DEF Starts, FormType
<1>4. ContactsType'  BY ContactsLeft DEF Starts, FormType
<1> QED BY <1>1, <1>2, <1>3, <1>4 DEF FormType

LEMMA StartForm ==
    ASSUME FormType
    PROVE  LET f == IF draft = NoDraft THEN Blank ELSE Restored(draft)
           IN  f \in Forms /\ f.pays # <<>>
<1>1. draft \in Forms /\ (draft = NoDraft \/ draft.pays # <<>>)  BY DEF FormType, FormsType
<1> QED BY <1>1, BlankForm, RestoredForm

LEMMA ReviewOfForm ==
    ASSUME NEW f \in Forms, NEW n \in Nat
    PROVE  ReviewOf(f, n) \in Reviews /\ ReviewOf(f, n).pays = f.pays /\ ReviewOf(f, n).no = n
           /\ ReviewOf(f, n).label = f.meta /\ ReviewOf(f, n).note = f.note
BY DEF ReviewOf, Reviews, Forms

LEMMA VisitType == FormType /\ Visit => FormType'
<1> SUFFICES ASSUME FormType, Visit PROVE FormType'
    OBVIOUS
<1>0. FormsType /\ SheetType /\ SendsType /\ ContactsType  BY DEF FormType
<1>1. CASE Come
  <2>1. job' = [job EXCEPT !.mine = job.state = "sent"]  BY <1>1 DEF Come
  <2>2. (job.state = "sent") \in BOOLEAN  OBVIOUS
  <2>3. CASE Starts(IF draft = NoDraft THEN Blank ELSE Restored(draft))
    BY <2>1, <2>2, <2>3, StartForm, StartsType
  <2>4. CASE \E c \in contacts : Starts([Blank EXCEPT !.pays[1].to = c.to])
    <3>1. PICK c \in contacts : Starts([Blank EXCEPT !.pays[1].to = c.to])  BY <2>4
    <3>2. c.to \in Addresses  BY <1>0, <3>1 DEF ContactsType, Contact
    <3>3. Edited(Blank, [Blank EXCEPT !.pays[1].to = c.to])  BY <3>2, ContactForm
    <3> HIDE DEF Starts
    <3> QED BY <2>1, <2>2, <3>1, <3>3, StartsType DEF Edited
  <2> QED BY <1>1, <2>3, <2>4 DEF Come
<1>2. CASE Refill
  <2>1. job.state = "failed" /\ form' = Refilled /\ job' = NoJob
        /\ UNCHANGED <<kept, screen, draft, checking, step, approved, verifying, reviews>>
        /\ askLustration' = 0 /\ review' = NoReview /\ step = "form"
    BY <1>2 DEF Refill, Fills, Refilled, Editable
  <2>2. Refilled \in Forms /\ Refilled.pays # <<>>  BY <2>1, RefilledForm
  <2>3. FormsType'  BY <1>0, <2>1, <2>2 DEF FormsType
  <2>4. SheetType'  BY <1>0, <2>1, NoReviewType DEF SheetType
  <2>5. SendsType'  BY <1>0, <2>1, NoJobType, JobSet
  <2> QED BY <1>0, <2>1, <2>3, <2>4, <2>5, ContactsLeft DEF FormType
<1>3. CASE Leave
  <2>1. draft' \in {NoDraft, form} /\ form' = Blank /\ checking' = NoForm  BY <1>3 DEF Leave
  <2>2. FormsType'  BY <1>0, <2>1, BlankForm, NoFormForm DEF FormsType, NoForm
  <2>3. SheetType'  BY <1>0, <1>3, NoReviewType DEF Leave, SheetType, bounds
  <2>4. verifying' = verifying /\ (job' = [job EXCEPT !.mine = FALSE] \/ job' = NoJob)  BY <1>3 DEF Leave
  <2>5. SendsType'  BY <1>0, <2>4, JobMine, JobSet, NoJobType
  <2>6. ContactsType'  BY <1>0, <1>3, ContactsLeft DEF Leave
  <2> QED BY <2>2, <2>3, <2>5, <2>6 DEF FormType
<1>4. CASE PaymentLink
  <2>1. PICK r \in Requests : form' = ApplyText(Blank, r)  BY <1>4 DEF PaymentLink
  <2>2. form' \in Forms /\ form'.pays # <<>>  BY <2>1, BlankForm, RequestRead DEF Edited
  <2>3. checking' \in {checking, NoForm} /\ draft' = NoDraft  BY <1>4 DEF PaymentLink
  <2>4. FormsType'  BY <1>0, <2>2, <2>3, NoFormForm DEF FormsType, NoForm
  <2>5. SheetType'  BY <1>0, <1>4, NoReviewType DEF PaymentLink, SheetType
  <2>6. verifying' = verifying /\ kept' = kept /\ (job' = job \/ job' = [job EXCEPT !.mine = job.state = "sent"])
    BY <1>4 DEF PaymentLink
  <2>7. SendsType'
    <3>1. (job.state = "sent") \in BOOLEAN  OBVIOUS
    <3> QED BY <1>0, <2>6, <3>1, JobMine, JobSet, SendsLeft
  <2> QED BY <1>0, <2>4, <2>5, <2>6, <2>7, ContactsLeft DEF FormType
<1>5. CASE ShowContacts
  <2>1. UNCHANGED <<form, checking, draft, step, review, reviews, approved, askLustration, verifying, job>> /\ kept' = kept
    BY <1>5 DEF ShowContacts, sheet, consent, bounds
  <2>2. SheetType'  BY <1>0, <1>5, <2>1 DEF ShowContacts, SheetType
  <2> QED BY <1>0, <2>1, <2>2, FormsLeft, SendsLeft, ContactsLeft DEF FormType
<1> QED BY <1>1, <1>2, <1>3, <1>4, <1>5 DEF Visit

LEMMA FillType == FormType /\ Fill => FormType'
<1> SUFFICES ASSUME FormType, Fill PROVE FormType'
    OBVIOUS
<1>0. FormsType /\ SheetType /\ SendsType /\ ContactsType  BY DEF FormType
<1>1. PICK f : /\ Fills(f) /\ Edited(form, f)
               /\ Beside /\ step = "form" /\ reviews' = reviews
               /\ review' = review \/ review' = NoReview
               /\ approved' = approved /\ (askLustration' = askLustration \/ askLustration' = 0)
  BY FillEdits DEF EditsForm
<1>2. FormsType'  BY <1>0, <1>1 DEF Fills, Edited, Beside, FormsType
<1>3. SheetType'  BY <1>0, <1>1, NoReviewType DEF Beside, SheetType
<1>4. SendsType' /\ ContactsType'  BY <1>0, <1>1, SendsLeft, ContactsLeft DEF Beside
<1> QED BY <1>2, <1>3, <1>4 DEF FormType

LEMMA ReviewStepType == FormType /\ Review => FormType'
<1> SUFFICES ASSUME FormType, Review PROVE FormType'
    OBVIOUS
<1>0. FormsType /\ SheetType /\ SendsType /\ ContactsType  BY DEF FormType
<1>1. CASE PressReview
  <2>1. checking' = form /\ UNCHANGED <<form, draft, screen, step, review, reviews, approved, askLustration, verifying, job, kept>>
    BY <1>1 DEF PressReview, sheet, consent, bounds
  <2>2. FormsType'  BY <1>0, <2>1 DEF FormsType
  <2> QED BY <1>0, <2>1, <2>2, SheetLeft, SendsLeft, ContactsLeft DEF FormType
<1>2. CASE Checked
  <2>1. /\ checking # NoForm /\ checking' = NoForm
        /\ UNCHANGED <<form, draft, screen, approved, askLustration, verifying, job, kept>>
        /\ \/ review' = ReviewOf(checking, reviews + 1) /\ reviews' = reviews + 1 /\ step' = "review"
           \/ UNCHANGED <<review, reviews, step>>
    BY <1>2 DEF Checked, Pressed
  <2>2. FormsType'  BY <1>0, <2>1, NoFormForm DEF FormsType
  <2>3. checking \in Forms /\ checking.pays # <<>> /\ reviews + 1 \in Nat  BY <1>0, <2>1 DEF FormsType, SheetType
  <2>4. ReviewOf(checking, reviews + 1) \in Reviews /\ ReviewOf(checking, reviews + 1).pays # <<>>
    BY <2>3, ReviewOfForm
  <2>5. SheetType'
    <3>1. CASE UNCHANGED <<review, reviews, step>>  BY <1>0, <2>1, <3>1, SheetLeft
    <3>2. CASE review' = ReviewOf(checking, reviews + 1) /\ reviews' = reviews + 1 /\ step' = "review"
      BY <1>0, <2>1, <2>3, <2>4, <3>2 DEF SheetType
    <3> QED BY <2>1, <3>1, <3>2
  <2> QED BY <1>0, <2>1, <2>2, <2>5, SendsLeft, ContactsLeft DEF FormType
<1>3. CASE Edit
  <2>1. /\ step' = "form" /\ approved' \in {approved, 0} /\ askLustration' \in {askLustration, 0}
        /\ UNCHANGED <<form, checking, draft, screen, review, reviews, verifying, job, kept>>
    BY <1>3 DEF Edit, Closes, Forgotten, bounds
  <2>2. SheetType'  BY <1>0, <2>1 DEF SheetType
  <2> QED BY <1>0, <2>1, <2>2, FormsLeft, SendsLeft, ContactsLeft DEF FormType
<1>4. CASE AgreeToFee
  <2>1. UNCHANGED <<form, checking, draft, screen, step, review, reviews, approved, askLustration, verifying, job, kept>>
    BY <1>4 DEF AgreeToFee, bounds
  <2> QED BY <1>0, <2>1, FormsLeft, SheetLeft, SendsLeft, ContactsLeft DEF FormType
<1> QED BY <1>1, <1>2, <1>3, <1>4 DEF Review

\* The send first in line, and the line without it.
LEMMA FirstVerified ==
    ASSUME SendsType, verifying # <<>>
    PROVE  /\ Head(verifying).sends \in Reviews /\ Head(verifying).sends.pays # <<>>
           /\ Head(verifying) = verifying[1] /\ Head(verifying).accept \in Nat
           /\ Tail(verifying) \in Seq([sends : Reviews, accept : Nat])
           /\ \A i \in 1..Len(Tail(verifying)) : Tail(verifying)[i].sends.pays # <<>>
           /\ Len(verifying) = 1 => Tail(verifying) = <<>>
<1> DEFINE S == [sends : Reviews, accept : Nat]
<1>1. verifying \in Seq(S) /\ (\A i \in 1..Len(verifying) : verifying[i].sends.pays # <<>>)  BY DEF SendsType
<1>2. Len(verifying) \in Nat /\ Len(verifying) # 0 /\ verifying[1] \in S
  <2>1. Len(verifying) \in Nat /\ Len(verifying) # 0  BY <1>1, EmptySeq, LenProperties
  <2>2. 1 \in 1..Len(verifying)  BY <2>1
  <2> QED BY <1>1, <2>1, <2>2, LenProperties
<1> HIDE DEF S
<1>3. /\ Head(verifying) = verifying[1] /\ Tail(verifying) \in Seq(S) /\ Len(Tail(verifying)) = Len(verifying) - 1
      /\ \A i \in 1..Len(Tail(verifying)) : Tail(verifying)[i] = verifying[i + 1]
  BY <1>1, HeadTailProperties
<1>4. \A i \in 1..Len(Tail(verifying)) : Tail(verifying)[i].sends.pays # <<>>
  <2> TAKE i \in 1..Len(Tail(verifying))
  <2>1. i + 1 \in 1..Len(verifying)  BY <1>2, <1>3
  <2> QED BY <1>1, <1>3, <2>1
<1>5. ASSUME Len(verifying) = 1 PROVE Tail(verifying) = <<>>
  <2>1. Len(Tail(verifying)) = 0 /\ Tail(verifying) \in Seq(S)  BY <1>3, <1>5
  <2> QED BY <2>1, EmptySeq
<1>6. verifying[1].sends \in Reviews /\ verifying[1].accept \in Nat /\ 1 \in 1..Len(verifying)  BY <1>2 DEF S
<1>7. Head(verifying).sends \in Reviews /\ Head(verifying).sends.pays # <<>> /\ Head(verifying).accept \in Nat
  BY <1>1, <1>3, <1>6
<1>8. Tail(verifying) \in Seq([sends : Reviews, accept : Nat])  BY <1>3 DEF S
<1> QED BY <1>3, <1>4, <1>5, <1>7, <1>8

LEMMA SendType == FormType /\ Send => FormType'
<1> SUFFICES ASSUME FormType, Send PROVE FormType'
    OBVIOUS
<1>0. FormsType /\ SheetType /\ SendsType /\ ContactsType  BY DEF FormType
<1>1. CASE ConfirmSend
  <2>1. /\ step = "review" /\ verifying' = Append(verifying, [sends |-> review, accept |-> askLustration])
        /\ UNCHANGED <<form, checking, draft, screen, step, review, reviews, approved, askLustration, job, kept>>
    BY <1>1 DEF ConfirmSend, sheet, consent, bounds
  <2>2. SendsType'
    <3> DEFINE x == [sends |-> review, accept |-> askLustration]
               S == [sends : Reviews, accept : Nat]
    <3>1. x \in S /\ x.sends.pays # <<>>  BY <1>0, <2>1 DEF SheetType
    <3>2. verifying \in Seq(S)  BY <1>0 DEF SendsType
    <3>3. verifying' = Append(verifying, x)  BY <2>1
    <3> HIDE DEF x
    <3>4. /\ verifying' \in Seq(S) /\ Len(verifying') = Len(verifying) + 1
          /\ \A i \in 1..Len(verifying) : verifying'[i] = verifying[i]
          /\ verifying'[Len(verifying) + 1] = x
      <4> HIDE DEF S
      <4> QED BY <3>1, <3>2, <3>3, AppendProperties
    <3>5. \A i \in 1..Len(verifying') : verifying'[i].sends.pays # <<>>
      <4> TAKE i \in 1..Len(verifying')
      <4>1. Len(verifying) \in Nat  BY <3>2, LenProperties
      <4>2. CASE i = Len(verifying) + 1  BY <3>1, <3>4, <4>2
      <4>3. CASE i \in 1..Len(verifying)  BY <1>0, <3>4, <4>3 DEF SendsType
      <4> QED BY <3>4, <4>1, <4>2, <4>3
    <3> QED BY <1>0, <2>1, <3>4, <3>5 DEF SendsType
  <2> QED BY <1>0, <2>1, <2>2, FormsLeft, SheetLeft, ContactsLeft DEF FormType
<1>2. CASE Verified
  <2>1. /\ verifying # <<>> /\ verifying' = Tail(verifying)
        /\ UNCHANGED <<form, checking, draft, screen, step, review, reviews, kept>>
    BY <1>2 DEF Verified, bounds
  <2>2. approved' \in Nat /\ askLustration' \in Nat
    <3>1. Head(verifying).sends.no \in Nat  BY <1>0, <2>1, FirstVerified DEF Reviews
    <3> QED BY <1>0, <1>2, <3>1 DEF Verified, StartSend, SheetType
  <2>3. job' \in Jobs /\ (job'.state # "none" => job'.sends.pays # <<>>)
    <3>1. job' = job \/ StartSend(Head(verifying).sends, Head(verifying).sends.no, Head(verifying).accept)  BY <1>2 DEF Verified
    <3>2. CASE job' = job  BY <1>0, <3>2 DEF SendsType
    <3>3. CASE StartSend(Head(verifying).sends, Head(verifying).sends.no, Head(verifying).accept)
      BY <1>0, <2>1, <3>3, FirstVerified, SendStarts
    <3> QED BY <3>1, <3>2, <3>3
  <2>4. SheetType'  BY <1>0, <2>1, <2>2 DEF SheetType
  <2>5. SendsType'
    <3>1. \A i \in 1..Len(verifying') : verifying'[i].sends.pays # <<>>  BY <1>0, <2>1, FirstVerified
    <3>2. verifying' \in Seq([sends : Reviews, accept : Nat])  BY <1>0, <2>1, FirstVerified
    <3> QED BY <2>3, <3>1, <3>2 DEF SendsType
  <2> QED BY <1>0, <2>1, <2>4, <2>5, FormsLeft, ContactsLeft DEF FormType
<1>3. CASE SendAgain
  <2>1. /\ step = "review" /\ StartSend(review, approved, askLustration)
        /\ UNCHANGED <<form, checking, draft, screen, step, review, reviews, approved, verifying, kept>>
    BY <1>3 DEF SendAgain, bounds
  <2>2. review \in Reviews /\ review.pays # <<>>  BY <1>0, <2>1 DEF SheetType
  <2>3. job' \in Jobs /\ (job'.state # "none" => job'.sends.pays # <<>>)  BY <1>0, <2>1, <2>2, SendStarts
  <2>4. SheetType'  BY <1>0, <2>1 DEF SheetType, StartSend
  <2>5. SendsType'  BY <1>0, <2>1, <2>3 DEF SendsType
  <2> QED BY <1>0, <2>1, <2>4, <2>5, FormsLeft, ContactsLeft DEF FormType
<1>4. CASE RequiresLustration
  <2>1. /\ job' = NoJob /\ askLustration' = (IF job.mine THEN job.sends.no ELSE askLustration)
        /\ UNCHANGED <<form, checking, draft, screen, step, review, reviews, approved, verifying, kept>>
    BY <1>4 DEF RequiresLustration, bounds
  <2>2. SendsType'  BY <1>0, <2>1, NoJobType, JobSet
  <2>3. SheetType'
    <3>1. job.sends.no \in Nat  BY <1>0 DEF SendsType, Jobs, Reviews
    <3> QED BY <1>0, <2>1, <3>1 DEF SheetType
  <2> QED BY <1>0, <2>1, <2>2, <2>3, FormsLeft, ContactsLeft DEF FormType
<1>5. CASE Goes
  <2>1. /\ Running /\ job' = [job EXCEPT !.state = "sent"] /\ draft' = NoDraft
        /\ UNCHANGED <<checking, screen, reviews, verifying, kept>>
    BY <1>5 DEF Goes, bounds
  <2>2. SendsType'  BY <1>0, <2>1, JobEnds
  <2>3. form' = Emptied \/ form' = form  BY <1>5 DEF Goes
  <2>4. Edited(Blank, Emptied)
    <3>1. form.fee \in {"usual", "odd"}  BY <1>0 DEF FormsType, Forms
    <3> QED BY <3>1, BlankForm, FeeSet DEF Emptied
  <2>5. FormsType'  BY <1>0, <2>1, <2>3, <2>4, NoFormForm DEF FormsType, Edited, NoForm
  <2>6. SheetType'  BY <1>0, <1>5, <2>1, NoReviewType DEF Goes, SheetType, Closes, Forgotten
  <2> QED BY <1>0, <2>1, <2>2, <2>5, <2>6, ContactsLeft DEF FormType
<1>6. CASE Fails
  <2>1. /\ Running /\ job' = [job EXCEPT !.state = "failed"] /\ draft' \in {draft, NoDraft}
        /\ UNCHANGED <<form, checking, screen, review, reviews, verifying, kept>>
    BY <1>6 DEF Fails, bounds
  <2>2. SendsType'  BY <1>0, <2>1, JobEnds
  <2>3. FormsType'  BY <1>0, <2>1, NoFormForm DEF FormsType, NoForm
  <2>4. SheetType'  BY <1>0, <1>6, <2>1 DEF Fails, SheetType, Closes, Forgotten
  <2> QED BY <1>0, <2>1, <2>2, <2>3, <2>4, ContactsLeft DEF FormType
<1>7. CASE Dismiss
  <2>1. job' = NoJob /\ UNCHANGED <<form, checking, draft, screen, step, review, reviews, approved, askLustration, verifying, kept>>
    BY <1>7 DEF Dismiss, sheet, consent, bounds
  <2>2. SendsType'  BY <1>0, <2>1, NoJobType, JobSet
  <2> QED BY <1>0, <2>1, <2>2, FormsLeft, SheetLeft, ContactsLeft DEF FormType
<1> QED BY <1>1, <1>2, <1>3, <1>4, <1>5, <1>6, <1>7 DEF Send

\* Changes to contacts touch nothing of the form and its sends.
LEMMA ContactsBeside ==
    Contacts => UNCHANGED <<screen, form, draft, checking, sheet, verifying, job, recorded, history, reviews, visits>>
BY DEF Contacts, AddContact, RenameContact, RemoveContact, Kept, bounds

LEMMA ContactsStepType == FormType /\ Contacts => FormType'
<1> SUFFICES ASSUME FormType, Contacts PROVE FormType'
    OBVIOUS
<1> DEFINE C == [old : SUBSET Contact, new : SUBSET Contact]
<1>0. FormsType /\ SheetType /\ SendsType /\ ContactsType  BY DEF FormType
<1>1. FormsType' /\ SheetType' /\ SendsType'
  BY <1>0, ContactsBeside, FormsLeft, SheetLeft, SendsLeft DEF sheet, consent
<1>2. contacts \subseteq Contact /\ saving \in Seq(C)  BY <1>0 DEF ContactsType
<1>3. ASSUME NEW x \in C, Saves(x), contacts' = contacts PROVE ContactsType'
  <2>1. saving' = Append(saving, x)  BY <1>3 DEF Saves
  <2> HIDE DEF C
  <2>2. saving' \in Seq(C)  BY <1>2, <1>3, <2>1, AppendProperties
  <2> QED BY <1>2, <1>3, <2>2 DEF ContactsType, C
<1>4. CASE AddContact
  <2>1. PICK n \in Spellings, a \in Addresses : Saves([old |-> {}, new |-> {[name |-> n, to |-> a]}])
    BY <1>4 DEF AddContact
  <2>2. [old |-> {}, new |-> {[name |-> n, to |-> a]}] \in C  BY <2>1 DEF Contact
  <2>3. contacts' = contacts  BY <1>4 DEF AddContact
  <2> QED BY <1>0, <1>1, <1>3, <2>1, <2>2, <2>3 DEF FormType
<1>5. CASE RenameContact
  <2>1. PICK c \in contacts, n \in Spellings : Saves([old |-> {c}, new |-> {[c EXCEPT !.name = n]}])
    BY <1>5 DEF RenameContact
  <2>2. c \in Contact /\ [c EXCEPT !.name = n] \in Contact  BY <1>2, <2>1 DEF Contact
  <2>3. [old |-> {c}, new |-> {[c EXCEPT !.name = n]}] \in C  BY <2>2
  <2>4. contacts' = contacts  BY <1>5 DEF RenameContact
  <2> QED BY <1>0, <1>1, <1>3, <2>1, <2>3, <2>4 DEF FormType
<1>6. CASE RemoveContact
  <2>1. PICK c \in contacts : Saves([old |-> {c}, new |-> {}])  BY <1>6 DEF RemoveContact
  <2>2. [old |-> {c}, new |-> {}] \in C  BY <1>2, <2>1
  <2>3. contacts' = contacts  BY <1>6 DEF RemoveContact
  <2> QED BY <1>0, <1>1, <1>3, <2>1, <2>2, <2>3 DEF FormType
<1>7. CASE Kept
  <2>1. saving # <<>> /\ saving' = Tail(saving) /\ contacts' = (contacts \ Head(saving).old) \cup Head(saving).new
    BY <1>7 DEF Kept
  <2>2. Head(saving) \in C /\ saving' \in Seq(C)
    <3> HIDE DEF C
    <3> QED BY <1>2, <2>1, HeadTailProperties
  <2>3. Head(saving).new \subseteq Contact  BY <2>2
  <2>4. contacts' \subseteq Contact  BY <1>2, <2>1, <2>3
  <2> QED BY <1>1, <2>2, <2>4 DEF FormType, ContactsType
<1> QED BY <1>4, <1>5, <1>6, <1>7 DEF Contacts

LEMMA TypeStep == FormType /\ [Next]_vars => FormType'
<1>1. FormType /\ UNCHANGED vars => FormType'
  BY FormsLeft, SheetLeft, SendsLeft, ContactsLeft DEF FormType, vars, sheet, consent, bounds, kept
<1> QED BY <1>1, FillType, VisitType, ReviewStepType, SendType, ContactsStepType DEF Next

(* Payments as typed *)

\* Whatever a form is filled with counts as typed.
LEMMA FilledTyped ==
    ASSUME NEW f, form' = f,
           together' = together \cup {f.pays[i] : i \in {j \in 1..Len(f.pays) : Whole(f.pays[j])}}
    PROVE  Typed(form)' /\ together \subseteq together'
BY DEF Typed

LEMMA TypedLeft ==
    ASSUME TypedInv, together \subseteq together', Typed(form)', checking' \in {checking, NoForm},
           step' = "form" \/ (step' = step /\ review' = review)
    PROVE  TypedInv'
<1>1. Typed(checking)'
  <2>1. CASE checking' = checking  BY <2>1 DEF TypedInv, Typed
  <2>2. CASE checking' = NoForm
    <3>1. Len(<<>>) = 0 /\ 1..0 = {}  OBVIOUS
    <3> QED BY <3>1, <2>2, NoFormForm DEF Typed
  <2> QED BY <2>1, <2>2
<1>2. PaysWhatWasTyped'  BY DEF TypedInv, PaysWhatWasTyped
<1> QED BY <1>1, <1>2 DEF TypedInv

\* The checks take the form as it was pressed, and only a whole one.
LEMMA CheckedTyped == FormType /\ TypedInv /\ Checked => TypedInv'
<1> SUFFICES ASSUME FormType, TypedInv, Checked PROVE TypedInv'
    OBVIOUS
<1>0. form' = form /\ together' = together /\ checking' = NoForm  BY DEF Checked, history
<1>1. Typed(form)'  BY <1>0 DEF TypedInv, Typed
<1>2. CASE UNCHANGED <<review, reviews, step, agreed>>  BY <1>0, <1>1, <1>2, TypedLeft
<1>3. CASE CanPay(checking.pays) /\ review' = ReviewOf(Pressed, reviews + 1)
  <2>1. checking \in Forms /\ reviews + 1 \in Nat  BY DEF FormType, FormsType, SheetType
  <2>2. review'.pays = checking.pays  BY <1>3, <2>1, ReviewOfForm DEF Pressed
  <2>3. \A i \in 1..Len(checking.pays) : checking.pays[i] \in together  BY <1>3 DEF CanPay, TypedInv, Typed
  <2>4. ToSet(checking.pays) \subseteq together  BY <2>3 DEF ToSet
  <2>5. PaysWhatWasTyped'  BY <1>0, <2>2, <2>4 DEF PaysWhatWasTyped
  <2>6. Typed(checking)'
    <3>1. Len(<<>>) = 0 /\ 1..0 = {}  OBVIOUS
    <3> QED BY <3>1, <1>0, NoFormForm DEF Typed
  <2> QED BY <1>1, <2>5, <2>6 DEF TypedInv
<1> QED BY <1>2, <1>3 DEF Checked

LEMMA TypedStep == FormType /\ TypedInv /\ [Next]_vars => TypedInv'
<1> SUFFICES ASSUME FormType, TypedInv, [Next]_vars PROVE TypedInv'
    OBVIOUS
<1>0. ASSUME form' = form, together' = together, checking' \in {checking, NoForm},
             step' = "form" \/ (step' = step /\ review' = review)
      PROVE  TypedInv'
  <2>1. Typed(form)'  BY <1>0 DEF TypedInv, Typed
  <2> QED BY <1>0, <2>1, TypedLeft
<1>1. ASSUME NEW f, Starts(f) PROVE TypedInv'
  <2>1. Typed(form)' /\ together \subseteq together'  BY <1>1, FilledTyped DEF Starts
  <2> QED BY <1>1, <2>1, TypedLeft DEF Starts
<1>2. CASE Fill
  <2>1. PICK f : Fills(f) /\ Beside /\ step = "form"  BY <1>2, FillEdits DEF EditsForm
  <2>2. Typed(form)' /\ together \subseteq together'  BY <2>1, FilledTyped DEF Fills
  <2> QED BY <2>1, <2>2, TypedLeft DEF Beside
<1>3. CASE Come
  <2>1. \E f : Starts(f)  BY <1>3 DEF Come
  <2> QED BY <1>1, <2>1
<1>4. CASE Refill
  <2>1. Fills(Refilled) /\ UNCHANGED <<checking, step>> /\ step = "form"  BY <1>4 DEF Refill, Refilled, Editable
  <2>2. Typed(form)' /\ together \subseteq together'  BY <2>1, FilledTyped DEF Fills
  <2> QED BY <2>1, <2>2, TypedLeft
<1>5. CASE Leave
  <2>1. form' = Blank /\ checking' = NoForm /\ step' = "form" /\ together' = together  BY <1>5 DEF Leave, history
  <2>2. Typed(form)'  BY <2>1, BlankForm, EmptyPayment DEF Typed
  <2> QED BY <2>1, <2>2, TypedLeft
<1>6. CASE PaymentLink
  <2>1. PICK r \in Requests :
          form' = ApplyText(Blank, r) /\ together' = together \cup {p \in {form'.pays[1]} : Whole(p)}
    BY <1>6 DEF PaymentLink
  <2>2. Len(form'.pays) = 1  BY <2>1, BlankForm, RequestRead
  <2>3. Typed(form)'  BY <2>1, <2>2 DEF Typed
  <2>4. checking' \in {checking, NoForm} /\ step' = "form"  BY <1>6 DEF PaymentLink
  <2> QED BY <2>1, <2>3, <2>4, TypedLeft
<1>7. CASE ShowContacts  BY <1>0, <1>7 DEF ShowContacts, history, sheet
<1>8. CASE PressReview
  <2>1. checking' = form /\ UNCHANGED <<form, together, step, review>>  BY <1>8 DEF PressReview, history, sheet
  <2>2. Typed(form)' /\ Typed(checking)'  BY <2>1 DEF TypedInv, Typed
  <2>3. PaysWhatWasTyped'  BY <2>1 DEF TypedInv, PaysWhatWasTyped
  <2> QED BY <2>2, <2>3 DEF TypedInv
<1>9. CASE Checked  BY <1>9, CheckedTyped
<1>10. CASE Edit  BY <1>0, <1>10 DEF Edit, Closes, history
<1>11. CASE AgreeToFee  BY <1>0, <1>11 DEF AgreeToFee, history
<1>12. CASE Send
  <2>1. CASE Goes
    <3>1. together' = together /\ checking' = checking  BY <2>1 DEF Goes, history
    <3>2. CASE job.mine
      <4>1. form' = Emptied /\ step' = "form"  BY <2>1, <3>2 DEF Goes, Closes
      <4>2. Emptied.pays = <<Empty>>  BY BlankForm DEF Emptied, Forms
      <4>3. Typed(form)'
        <5>1. Len(<<Empty>>) = 1 /\ <<Empty>>[1] = Empty  OBVIOUS
        <5> QED BY <4>1, <4>2, <5>1, EmptyPayment DEF Typed
      <4> QED BY <3>1, <4>1, <4>3, TypedLeft
    <3>3. CASE ~job.mine  BY <1>0, <2>1, <3>1, <3>3 DEF Goes
    <3> QED BY <3>2, <3>3
  <2>2. CASE Fails  BY <1>0, <2>2 DEF Fails, Closes, history
  <2>3. CASE ConfirmSend \/ Verified \/ SendAgain
    BY <1>0, <2>3 DEF ConfirmSend, Verified, SendAgain, sheet, history
  <2>4. CASE RequiresLustration \/ Dismiss
    BY <1>0, <2>4 DEF RequiresLustration, Dismiss, sheet, history
  <2> QED BY <1>12, <2>1, <2>2, <2>3, <2>4 DEF Send
<1>13. CASE Contacts  BY <1>0, <1>13, ContactsBeside DEF sheet, history
<1>14. CASE UNCHANGED vars  BY <1>0, <1>14 DEF vars, sheet, history
<1> QED BY <1>2, <1>3, <1>4, <1>5, <1>6, <1>7, <1>8, <1>9, <1>10, <1>11, <1>12, <1>13, <1>14 DEF Next, Visit, Review

\* Every payment the review shows stood in the form just so, whatever was edited, refilled, or come back
\* to, or opened by a link, while it was checked (review(), the snapshot it takes before its awaits).
THEOREM ReviewShowsWhatWasTyped == Spec => []PaysWhatWasTyped
<1>1. Init => FormType /\ TypedInv  BY FormInit
<1>2. FormType /\ TypedInv /\ [Next]_vars => FormType' /\ TypedInv'  BY TypeStep, TypedStep
<1>3. TypedInv => PaysWhatWasTyped  BY DEF TypedInv
<1> QED BY <1>1, <1>2, <1>3, PTL DEF Spec

(* Names and notes with their payment *)

LEMMA NameLeft ==
    ASSUME NameInv, FormType', Belongs(form'), checking' \in {checking, NoForm, form},
           draft' \in {draft, NoDraft, form},
           step' = "form" \/ (step' = step /\ review' = review)
    PROVE  NameInv'
<1>1. Belongs(checking') /\ Belongs(draft')  BY NoFormForm DEF NameInv, NoForm
<1>2. NameOfItsRequest'  BY DEF NameInv, NameOfItsRequest
<1> QED BY <1>1, <1>2 DEF NameInv

LEMMA CheckedName == NameInv /\ Checked /\ FormType' => NameInv'
<1> SUFFICES ASSUME NameInv, Checked, FormType' PROVE NameInv'
    OBVIOUS
<1>0. form' = form /\ draft' = draft /\ checking # NoForm /\ checking' = NoForm  BY DEF Checked
<1>1. Belongs(form')  BY <1>0 DEF NameInv
<1>2. CASE UNCHANGED <<review, reviews, step, agreed>>  BY <1>0, <1>1, <1>2, NameLeft
<1>3. CASE review' = ReviewOf(Pressed, reviews + 1)
  <2>1. checking \in Forms /\ checking.pays # <<>> /\ reviews + 1 \in Nat
    BY <1>0 DEF NameInv, FormType, FormsType, SheetType
  <2>2. review'.pays = checking.pays /\ review'.label = checking.meta /\ review'.note = checking.note
    BY <1>3, <2>1, ReviewOfForm DEF Pressed
  <2>3. NameOfItsRequest'  BY <2>1, <2>2 DEF NameInv, Belongs, NameOfItsRequest
  <2>4. Belongs(checking')  BY <1>0, NoFormForm
  <2>5. Belongs(draft')  BY <1>0 DEF NameInv
  <2> QED BY <1>1, <2>3, <2>4, <2>5 DEF NameInv
<1> QED BY <1>2, <1>3 DEF Checked

LEMMA NameStep ==
    ASSUME RequestsKept
    PROVE  NameInv /\ [Next]_vars => NameInv'
<1> SUFFICES ASSUME NameInv, [Next]_vars PROVE NameInv'
    OBVIOUS
<1>0. FormType /\ FormType' /\ Belongs(form) /\ Belongs(draft)  BY TypeStep DEF NameInv
<1>1. ASSUME form' = form, checking' \in {checking, NoForm, form}, draft' \in {draft, NoDraft, form},
             step' = "form" \/ (step' = step /\ review' = review)
      PROVE  NameInv'
  BY <1>0, <1>1, NameLeft
<1>2. ASSUME NEW f, Starts(f), Belongs(f) PROVE NameInv'
  BY <1>0, <1>2, NameLeft DEF Starts
<1>3. CASE Fill
  <2>1. PICK f : Fills(f) /\ Edited(form, f) /\ Beside /\ step = "form"  BY <1>0, <1>3, FillEdits DEF EditsForm
  <2>2. Belongs(form')  BY <1>0, <2>1 DEF Fills, Edited
  <2> QED BY <1>0, <2>1, <2>2, NameLeft DEF Beside
<1>4. CASE Come
  <2>1. CASE Starts(IF draft = NoDraft THEN Blank ELSE Restored(draft))
    <3>1. Belongs(IF draft = NoDraft THEN Blank ELSE Restored(draft))
      <4>1. draft \in Forms  BY <1>0 DEF FormType, FormsType
      <4> QED BY <1>0, <4>1, BlankForm, RestoredForm
    <3> QED BY <1>2, <2>1, <3>1
  <2>2. CASE \E c \in contacts : Starts([Blank EXCEPT !.pays[1].to = c.to])
    <3>1. PICK c \in contacts : Starts([Blank EXCEPT !.pays[1].to = c.to])  BY <2>2
    <3>2. c.to \in Addresses  BY <1>0, <3>1 DEF FormType, ContactsType, Contact
    <3>3. Belongs([Blank EXCEPT !.pays[1].to = c.to])  BY <3>2, ContactForm, BlankForm DEF Edited
    <3> HIDE DEF Starts
    <3> QED BY <1>2, <3>1, <3>3
  <2> QED BY <1>4, <2>1, <2>2 DEF Come
<1>5. CASE Refill
  <2>1. form' = Refilled /\ UNCHANGED <<draft, checking, step>> /\ step = "form" /\ job.state = "failed"
    BY <1>5 DEF Refill, Fills, Refilled, Editable
  <2>2. job.sends.note \notin Addresses  BY <1>5 DEF Refill, RequestsKept
  <2>3. Belongs(Refilled)  BY <1>0, <2>1, <2>2, RefilledForm DEF Belongs
  <2>4. Belongs(form')  BY <2>1, <2>3
  <2> QED BY <1>0, <2>1, <2>4, NameLeft
<1>6. CASE Leave
  <2>1. form' = Blank /\ checking' = NoForm /\ step' = "form" /\ draft' \in {NoDraft, form}  BY <1>6 DEF Leave
  <2>2. Belongs(form')  BY <2>1, BlankForm
  <2> QED BY <1>0, <2>1, <2>2, NameLeft
<1>7. CASE PaymentLink
  <2>1. PICK r \in Requests : form' = ApplyText(Blank, r)  BY <1>7 DEF PaymentLink
  <2>2. Belongs(form')  BY <2>1, BlankForm, RequestRead DEF Edited
  <2>3. checking' \in {checking, NoForm} /\ step' = "form" /\ draft' = NoDraft  BY <1>7 DEF PaymentLink
  <2> QED BY <1>0, <2>2, <2>3, NameLeft
<1>8. CASE ShowContacts  BY <1>1, <1>8 DEF ShowContacts, sheet
<1>9. CASE PressReview  BY <1>1, <1>9 DEF PressReview, sheet
<1>10. CASE Checked  BY <1>0, <1>10, CheckedName
<1>11. CASE Edit  BY <1>1, <1>11 DEF Edit, Closes
<1>12. CASE AgreeToFee  BY <1>1, <1>12 DEF AgreeToFee
<1>13. CASE Send
  <2>1. CASE Goes
    <3>1. checking' = checking /\ draft' = NoDraft  BY <2>1 DEF Goes
    <3>2. CASE job.mine
      <4>1. form' = Emptied /\ step' = "form"  BY <2>1, <3>2 DEF Goes, Closes
      <4>2. form.fee \in {"usual", "odd"}  BY <1>0 DEF FormType, FormsType, Forms
      <4>3. Belongs(Emptied)  BY <4>2, BlankForm, FeeSet DEF Emptied, Edited
      <4>4. Belongs(form')  BY <4>1, <4>3
      <4> QED BY <1>0, <3>1, <4>1, <4>4, NameLeft
    <3>3. CASE ~job.mine  BY <1>1, <2>1, <3>1, <3>3 DEF Goes
    <3> QED BY <3>2, <3>3
  <2>2. CASE Fails  BY <1>1, <2>2 DEF Fails, Closes
  <2>3. CASE ConfirmSend \/ Verified \/ SendAgain
    BY <1>1, <2>3 DEF ConfirmSend, Verified, SendAgain, sheet
  <2>4. CASE RequiresLustration \/ Dismiss
    BY <1>1, <2>4 DEF RequiresLustration, Dismiss, sheet
  <2> QED BY <1>13, <2>1, <2>2, <2>3, <2>4 DEF Send
<1>14. CASE Contacts  BY <1>1, <1>14, ContactsBeside DEF sheet
<1>15. CASE UNCHANGED vars  BY <1>1, <1>15 DEF vars, sheet
<1> QED BY <1>3, <1>4, <1>5, <1>6, <1>7, <1>8, <1>9, <1>10, <1>11, <1>12, <1>13, <1>14, <1>15 DEF Next, Visit, Review

\* A name or note that came with a request is shown only with a payment to the request's address,
\* however recipients are replaced, removed, refilled or restored (dropRequest, applyText, the draft).
THEOREM NamesGoWithTheirPayment ==
    ASSUME RequestsKept
    PROVE  Spec => []NameOfItsRequest
<1>1. Init => NameInv  BY FormInit
<1>2. NameInv /\ [Next]_vars => NameInv'  BY NameStep
<1>3. NameInv => NameOfItsRequest  BY DEF NameInv
<1> QED BY <1>1, <1>2, <1>3, PTL DEF Spec

(* Sends from their review *)

\* The sheet stays as it is, or the form stays in its place.
LEMMA ReviewLeft ==
    ASSUME ReviewInv, UNCHANGED <<step, review, began, leftEarly>>, screen' = screen,
           ToSet(verifying)' \subseteq ToSet(verifying),
           approved' = approved, askLustration' = askLustration, checking' = checking,
           job' = job \/ ~Running'
    PROVE  ReviewInv'
<1>1. ConfirmedOnItsReview'  BY DEF ReviewInv, ConfirmedOnItsReview
<1>2. \A n : Given(n)' <=> Given(n)  BY DEF Given, OpenReview
<1>3. \A v \in ToSet(verifying)' : WaitsForItsReview(v)'  BY <1>2 DEF ReviewInv, WaitsForItsReview
<1> QED BY <1>1, <1>2, <1>3 DEF ReviewInv, Running

\* The form comes: a review that was open has left early whatever of it is still on its way.
LEMMA ReviewCloses ==
    ASSUME ReviewInv, step \in {"form", "review"}, step' = "form", began' = began, ToSet(verifying)' = ToSet(verifying),
           leftEarly \subseteq leftEarly',
           step = "review" /\ PasswordWaits => review.no \in leftEarly',
           step = "review" /\ Running' /\ job'.mine /\ ItsSendRuns => review.no \in leftEarly',
           approved' = 0 \/ (step = "form" /\ approved' = approved),
           askLustration' = 0 \/ (step = "form" /\ askLustration' = askLustration),
           Running' /\ job'.mine => Running /\ job.mine /\ job'.sends = job.sends,
           checking' = NoForm \/ screen' = "send"
    PROVE  ReviewInv'
<1>1. ConfirmedOnItsReview'  BY DEF ReviewInv, ConfirmedOnItsReview
<1>2. ASSUME NEW n, Given(n), step = "form" PROVE Given(n)'  BY <1>2 DEF Given, OpenReview
<1>3. \A v \in ToSet(verifying)' : WaitsForItsReview(v)'
  <2> TAKE v \in ToSet(verifying)'
  <2>1. WaitsForItsReview(v) /\ v \in ToSet(verifying)  BY DEF ReviewInv
  <2>2. Given(v.sends.no)'
    <3>1. CASE OpenReview(v.sends.no)
      BY <2>1, <3>1 DEF OpenReview, PasswordWaits, Given
    <3>2. CASE v.sends.no \in leftEarly  BY <3>2 DEF Given
    <3> QED BY <2>1, <3>1, <3>2 DEF WaitsForItsReview, Given
  <2> QED BY <2>1, <2>2 DEF WaitsForItsReview
<1>4. Running' /\ job'.mine => Given(job.sends.no)'
  <2> SUFFICES ASSUME Running', job'.mine PROVE Given(job.sends.no)'
      OBVIOUS
  <2>1. Running /\ job.mine /\ job'.sends = job.sends /\ Given(job.sends.no)  BY DEF ReviewInv
  <2>2. job.sends.no \in leftEarly'
    BY <2>1 DEF Given, OpenReview, ItsSendRuns
  <2> QED BY <2>1, <2>2 DEF Given
<1>5. (approved # 0)' => Given(approved)'  BY <1>2 DEF ReviewInv, Given, OpenReview
<1>6. (askLustration # 0)' => Given(askLustration)'  BY <1>2 DEF ReviewInv, Given, OpenReview
<1> QED BY <1>1, <1>3, <1>4, <1>5, <1>6 DEF ReviewInv

LEMMA OffTheReview ==
    ASSUME FormType, ReviewInv, screen # "send" \/ checking # NoForm
    PROVE  step = "form"
BY DEF FormType, SheetType, ReviewInv

LEMMA VisitReview == FormType /\ ReviewInv /\ Visit => ReviewInv'
<1> SUFFICES ASSUME FormType, ReviewInv, Visit PROVE ReviewInv'
    OBVIOUS
<1>0. job \in Jobs /\ step \in {"form", "review"}  BY DEF FormType, SendsType, SheetType
<1>1. CASE Come
  <2>1. /\ screen # "send" /\ step' = "form" /\ checking' = NoForm /\ approved' = 0 /\ askLustration' = 0
        /\ UNCHANGED <<verifying, began, leftEarly>> /\ job' = [job EXCEPT !.mine = job.state = "sent"]
    BY <1>1 DEF Come, Starts
  <2>2. ~(Running' /\ job'.mine)  BY <1>0, <2>1 DEF Running, Jobs
  <2>3. step = "form"  BY <2>1, OffTheReview
  <2> QED BY <1>0, <2>1, <2>2, <2>3, ReviewCloses
<1>2. CASE Refill
  <2>1. /\ step = "form" /\ screen = "send" /\ job' = NoJob /\ askLustration' = 0
        /\ UNCHANGED <<screen, step, approved, verifying, began, leftEarly>>
    BY <1>2 DEF Refill, Editable
  <2>2. ~Running'  BY <2>1, NoJobType DEF Running
  <2> QED BY <1>0, <2>1, <2>2, ReviewCloses
<1>3. CASE Leave
  <2>1. /\ step' = "form" /\ checking' = NoForm /\ approved' = 0 /\ askLustration' = 0
        /\ UNCHANGED <<verifying, began>> /\ LeftEarly(PasswordWaits)
        /\ job' = IF Running THEN [job EXCEPT !.mine = FALSE] ELSE NoJob
    BY <1>3 DEF Leave
  <2>2. ~(Running' /\ job'.mine)  BY <1>0, <2>1, NoJobType DEF Running, Jobs
  <2> QED BY <1>0, <2>1, <2>2, ReviewCloses DEF LeftEarly
<1>4. CASE PaymentLink
  <2>1. /\ step' = "form" /\ screen' = "send" /\ askLustration' = 0
        /\ approved' = (IF step = "form" THEN approved ELSE 0)
        /\ UNCHANGED <<verifying, began>> /\ LeftEarly(PasswordWaits \/ ItsSendRuns)
        /\ (job' = job \/ job' = [job EXCEPT !.mine = job.state = "sent"])
    BY <1>4 DEF PaymentLink
  <2>2. Running' /\ job'.mine => job' = job  BY <1>0, <2>1 DEF Running, Jobs
  <2>3. Running' /\ job'.mine => Running /\ job.mine /\ job'.sends = job.sends  BY <2>2 DEF Running
  <2> QED BY <1>0, <2>1, <2>3, ReviewCloses DEF LeftEarly
<1>5. CASE ShowContacts
  <2>1. screen # "send" /\ UNCHANGED <<step, review, approved, askLustration, verifying, job, checking, began, leftEarly>>
    BY <1>5 DEF ShowContacts, sheet, consent, history
  <2>2. step = "form" /\ checking = NoForm  BY <2>1, OffTheReview DEF ReviewInv
  <2> QED BY <1>0, <2>1, <2>2, ReviewCloses DEF Running
<1> QED BY <1>1, <1>2, <1>3, <1>4, <1>5 DEF Visit

LEMMA ReviewReview == FormType /\ ReviewInv /\ Review => ReviewInv'
<1> SUFFICES ASSUME FormType, ReviewInv, Review PROVE ReviewInv'
    OBVIOUS
<1>0. step \in {"form", "review"} /\ reviews \in Nat  BY DEF FormType, SheetType
<1>1. CASE PressReview
  <2>1. step = "form" /\ screen = "send"
        /\ UNCHANGED <<screen, step, review, approved, askLustration, verifying, job, began, leftEarly>>
    BY <1>1 DEF PressReview, sheet, consent, history
  <2> QED BY <1>0, <2>1, ReviewCloses DEF Running
<1>2. CASE Checked
  <2>1. /\ checking # NoForm /\ checking' = NoForm
        /\ UNCHANGED <<screen, approved, askLustration, verifying, job, began, leftEarly>>
    BY <1>2 DEF Checked, history
  <2>2. step = "form" /\ screen = "send"  BY <2>1, OffTheReview DEF ReviewInv
  <2>3. CASE step' = step  BY <1>0, <2>1, <2>2, <2>3, ReviewCloses DEF Running
  <2>4. CASE ~Running /\ step' = "review" /\ review' = ReviewOf(Pressed, reviews + 1)
    <3>1. ConfirmedOnItsReview'  BY <2>1 DEF ReviewInv, ConfirmedOnItsReview
    <3>2. \A n : Given(n) => Given(n)'  BY <2>1, <2>2 DEF Given, OpenReview
    <3>3. \A v \in ToSet(verifying)' : WaitsForItsReview(v)'  BY <2>1, <3>2 DEF ReviewInv, WaitsForItsReview
    <3>4. review'.no # 0  BY <1>0, <2>4 DEF ReviewOf
    <3> QED BY <2>1, <2>2, <2>4, <3>1, <3>2, <3>3, <3>4 DEF ReviewInv, Running
  <2> QED BY <1>2, <2>3, <2>4 DEF Checked
<1>3. CASE Edit
  <2>1. ~Running /\ step' = "form" /\ approved' = 0 /\ askLustration' = 0 /\ screen' = "send" /\ LeftEarly(PasswordWaits)
        /\ UNCHANGED <<verifying, job, began>>
    BY <1>3 DEF Edit, Closes, Forgotten
  <2> QED BY <1>0, <2>1, ReviewCloses DEF LeftEarly, Running
<1>4. CASE AgreeToFee
  BY <1>4, ReviewLeft DEF AgreeToFee, history
<1> QED BY <1>1, <1>2, <1>3, <1>4 DEF Review

\* A send of review r that starts by approval `by`, or is not taken as another runs.
LEMMA SendStartsGiven ==
    ASSUME FormType, ReviewInv, NEW r \in Reviews, NEW by \in Nat, NEW accept \in Nat, StartSend(r, by, accept),
           UNCHANGED <<screen, step, review, checking, leftEarly>>, ToSet(verifying)' \subseteq ToSet(verifying),
           approved' = by, by # 0, Given(by), Given(r.no),
           (OpenReview(r.no) /\ by = r.no) \/ by \in leftEarly,
           accept \in {0, r.no} \cup leftEarly
    PROVE  ReviewInv'
<1>1. \A n : Given(n)' <=> Given(n)  BY DEF Given, OpenReview
<1>2. \A v \in ToSet(verifying)' : WaitsForItsReview(v)'  BY <1>1 DEF ReviewInv, WaitsForItsReview
<1>3. ConfirmedOnItsReview'
  <2> DEFINE b == [no |-> r.no, by |-> by, accept |-> accept, open |-> step = "review" /\ review.no = r.no]
  <2>1. began' = began \/ began' = began \cup {b}  BY DEF StartSend
  <2>2. b.no = r.no /\ b.by = by /\ b.accept = accept /\ (OpenReview(r.no) => b.open)  BY DEF OpenReview
  <2> HIDE DEF b
  <2> SUFFICES ASSUME NEW s \in began'
               PROVE  /\ s.by # 0 /\ ((s.open /\ s.by = s.no) \/ s.by \in leftEarly')
                      /\ s.accept \in {0, s.no} \cup leftEarly'
      BY DEF ConfirmedOnItsReview
  <2>3. CASE s \in began  BY <2>3 DEF ReviewInv, ConfirmedOnItsReview
  <2>4. CASE s = b  BY <2>2, <2>4
  <2> QED BY <2>1, <2>3, <2>4
<1>4. Running' /\ job'.mine => Given(job.sends.no)'
  <2>1. CASE job' = job  BY <1>1, <2>1 DEF ReviewInv, Running
  <2>2. CASE job' = [state |-> "running", sends |-> r, mine |-> screen = "send"]
    <3>1. job'.sends = r  BY <2>2
    <3> QED BY <1>1, <3>1
  <2> QED BY <2>1, <2>2 DEF StartSend
<1>5. askLustration' = 0  BY DEF StartSend
<1> QED BY <1>1, <1>2, <1>3, <1>4, <1>5 DEF ReviewInv

\* The line of passwords with one more at its end, and without its first.
LEMMA LineSets ==
    ASSUME SendsType
    PROVE  /\ \A x : ToSet(Append(verifying, x)) = ToSet(verifying) \cup {x}
           /\ verifying # <<>> => Head(verifying) \in ToSet(verifying) /\ ToSet(Tail(verifying)) \subseteq ToSet(verifying)
<1> DEFINE S == [sends : Reviews, accept : Nat]
<1>1. verifying \in Seq(S)  BY DEF SendsType
<1> HIDE DEF S
<1>2. Len(verifying) \in Nat /\ DOMAIN verifying = 1..Len(verifying)  BY <1>1, LenProperties
<1>3. ASSUME NEW x PROVE ToSet(Append(verifying, x)) = ToSet(verifying) \cup {x}
  <2>1. /\ Len(Append(verifying, x)) = Len(verifying) + 1 /\ DOMAIN Append(verifying, x) = 1..(Len(verifying) + 1)
        /\ \A i \in 1..Len(verifying) : Append(verifying, x)[i] = verifying[i]
        /\ Append(verifying, x)[Len(verifying) + 1] = x
    <3>1. verifying \in Seq(S \cup {x}) /\ x \in S \cup {x}  BY <1>1
    <3>2. Append(verifying, x) \in Seq(S \cup {x})  BY <3>1, AppendProperties
    <3> QED BY <3>1, <3>2, AppendProperties, LenProperties
  <2> QED BY <1>2, <2>1 DEF ToSet
<1>4. ASSUME verifying # <<>>
      PROVE  Head(verifying) \in ToSet(verifying) /\ ToSet(Tail(verifying)) \subseteq ToSet(verifying)
  <2>1. /\ Head(verifying) = verifying[1] /\ Tail(verifying) \in Seq(S) /\ Len(Tail(verifying)) = Len(verifying) - 1
        /\ \A i \in 1..Len(Tail(verifying)) : Tail(verifying)[i] = verifying[i + 1]
    BY <1>1, <1>4, HeadTailProperties
  <2>2. Len(verifying) # 0  BY <1>1, <1>4, EmptySeq
  <2>3. DOMAIN Tail(verifying) = 1..Len(Tail(verifying))  BY <2>1, LenProperties
  <2> QED BY <1>2, <2>1, <2>2, <2>3 DEF ToSet
<1> QED BY <1>3, <1>4

LEMMA SendReview == FormType /\ ReviewInv /\ Send => ReviewInv'
<1> SUFFICES ASSUME FormType, ReviewInv, Send PROVE ReviewInv'
    OBVIOUS
<1>0. SheetType /\ SendsType /\ job \in Jobs /\ step \in {"form", "review"}  BY DEF FormType, SendsType, SheetType
<1>1. CASE ConfirmSend
  <2> DEFINE x == [sends |-> review, accept |-> askLustration]
  <2>1. /\ screen = "send" /\ step = "review"
        /\ ToSet(verifying)' = ToSet(verifying) \cup {x}
        /\ UNCHANGED <<screen, step, review, approved, askLustration, job, checking, began, leftEarly>>
    BY <1>0, <1>1, LineSets DEF ConfirmSend, sheet, consent, history
  <2>2. x.sends = review /\ x.accept = askLustration  OBVIOUS
  <2> HIDE DEF x
  <2>3. ConfirmedOnItsReview'  BY <2>1 DEF ReviewInv, ConfirmedOnItsReview
  <2>4. \A n : Given(n)' <=> Given(n)  BY <2>1 DEF Given, OpenReview
  <2>5. WaitsForItsReview(x)
    <3>1. review.no # 0 /\ Given(review.no)  BY <2>1 DEF ReviewInv, Given, OpenReview
    <3>2. askLustration \in {0, review.no} \cup leftEarly  BY DEF ReviewInv, Given, OpenReview
    <3> QED BY <2>2, <3>1, <3>2 DEF WaitsForItsReview
  <2>6. \A v \in ToSet(verifying)' : WaitsForItsReview(v)'
    <3> TAKE v \in ToSet(verifying)'
    <3>1. WaitsForItsReview(v)  BY <2>1, <2>5 DEF ReviewInv
    <3> QED BY <2>1, <2>4, <3>1 DEF WaitsForItsReview
  <2> QED BY <2>1, <2>3, <2>4, <2>6 DEF ReviewInv, Running
<1>2. CASE Verified
  <2> DEFINE v == Head(verifying)
  <2>1. v \in ToSet(verifying) /\ ToSet(verifying)' \subseteq ToSet(verifying)
    BY <1>0, <1>2, LineSets DEF Verified
  <2>2. v.sends \in Reviews /\ v.accept \in Nat /\ v.sends.no \in Nat
    BY <1>0, <1>2, FirstVerified DEF Verified, Reviews
  <2>3. WaitsForItsReview(v)  BY <2>1 DEF ReviewInv
  <2>4. UNCHANGED <<screen, step, review, checking, leftEarly>>  BY <1>2 DEF Verified
  <2>5. CASE approved' = v.sends.no /\ StartSend(v.sends, v.sends.no, v.accept)
    <3> HIDE DEF v
    <3> QED BY <2>1, <2>2, <2>3, <2>4, <2>5, SendStartsGiven DEF WaitsForItsReview, Given
  <2>6. CASE UNCHANGED <<approved, askLustration, job, began>>
    BY <2>1, <2>4, <2>6, ReviewLeft
  <2> QED BY <1>2, <2>5, <2>6 DEF Verified
<1>3. CASE SendAgain
  <2>1. /\ screen = "send" /\ step = "review" /\ approved # 0 /\ StartSend(review, approved, askLustration)
        /\ UNCHANGED <<screen, step, review, checking, leftEarly, approved, verifying>>
    BY <1>3 DEF SendAgain
  <2>2. Given(approved) /\ Given(review.no) /\ ((OpenReview(review.no) /\ approved = review.no) \/ approved \in leftEarly)
    BY <2>1 DEF ReviewInv, Given, OpenReview
  <2>3. askLustration \in {0, review.no} \cup leftEarly  BY DEF ReviewInv, Given, OpenReview
  <2>4. review \in Reviews /\ approved \in Nat /\ askLustration \in Nat  BY <1>0 DEF SheetType
  <2> QED BY <2>1, <2>2, <2>3, <2>4, SendStartsGiven
<1>4. CASE RequiresLustration
  <2>1. /\ Running /\ job' = NoJob /\ askLustration' = (IF job.mine THEN job.sends.no ELSE askLustration)
        /\ UNCHANGED <<screen, step, review, approved, verifying, checking, began, leftEarly>>
    BY <1>4 DEF RequiresLustration
  <2>2. ~Running'  BY <2>1, NoJobType DEF Running
  <2>3. \A n : Given(n)' <=> Given(n)  BY <2>1 DEF Given, OpenReview
  <2>4. askLustration' # 0 => Given(askLustration)'
    <3>1. CASE job.mine
      <4>1. askLustration' = job.sends.no /\ Given(job.sends.no)  BY <2>1, <3>1 DEF ReviewInv
      <4> QED BY <2>3, <4>1 DEF Given, OpenReview
    <3>2. CASE ~job.mine
      <4>1. askLustration' = askLustration  BY <2>1, <3>2
      <4> QED BY <2>1, <4>1 DEF ReviewInv, Given, OpenReview
    <3> QED BY <3>1, <3>2
  <2>5. ConfirmedOnItsReview'  BY <2>1 DEF ReviewInv, ConfirmedOnItsReview
  <2>6. \A v \in ToSet(verifying)' : WaitsForItsReview(v)'  BY <2>1, <2>3 DEF ReviewInv, WaitsForItsReview
  <2>7. approved' # 0 => Given(approved)'  BY <2>1 DEF ReviewInv, Given, OpenReview
  <2> QED BY <2>1, <2>2, <2>4, <2>5, <2>6, <2>7 DEF ReviewInv
<1>5. CASE Goes \/ Fails
  <2>1. /\ UNCHANGED <<screen, verifying, checking, began>>
        /\ IF job.mine THEN Closes ELSE UNCHANGED <<step, approved, askLustration, leftEarly>>
        /\ ~job.mine => review' = review
    BY <1>5 DEF Goes, Fails
  <2>2. ~Running'  BY <1>0, <1>5 DEF Goes, Fails, Running, Jobs
  <2>3. CASE job.mine
    <3>1. checking' = NoForm \/ screen' = "send"  BY <2>1 DEF ReviewInv
    <3> QED BY <1>0, <2>1, <2>2, <2>3, <3>1, ReviewCloses DEF Closes, Forgotten, LeftEarly
  <2>4. CASE ~job.mine  BY <2>1, <2>2, <2>4, ReviewLeft
  <2> QED BY <2>3, <2>4
<1>6. CASE Dismiss
  <2>1. /\ job' = NoJob
        /\ UNCHANGED <<screen, step, review, approved, askLustration, verifying, checking, began, leftEarly>>
    BY <1>6 DEF Dismiss, sheet, consent, history
  <2>2. ~Running'  BY <2>1, NoJobType DEF Running
  <2> QED BY <2>1, <2>2, ReviewLeft
<1> QED BY <1>1, <1>2, <1>3, <1>4, <1>5, <1>6 DEF Send

LEMMA ReviewStep == FormType /\ ReviewInv /\ [Next]_vars => ReviewInv'
<1> SUFFICES ASSUME FormType, ReviewInv PROVE [Next]_vars => ReviewInv'
    OBVIOUS
<1>1. ASSUME Fill PROVE ReviewInv'
  <2>1. /\ step = "form" /\ step' = "form" /\ screen' = "send"
        /\ UNCHANGED <<verifying, approved, job, began, leftEarly>>
        /\ (askLustration' = askLustration \/ askLustration' = 0)
    BY <1>1, FillEdits DEF EditsForm, Beside
  <2> QED BY <2>1, ReviewCloses DEF Running
<1>2. ASSUME Contacts \/ UNCHANGED vars PROVE ReviewInv'
  <2>1. UNCHANGED <<screen, step, review, approved, askLustration, verifying, job, checking, began, leftEarly>>
    BY <1>2, ContactsBeside DEF vars, sheet, consent, history
  <2> QED BY <2>1, ReviewLeft
<1> QED BY <1>1, <1>2, VisitReview, ReviewReview, SendReview DEF Next

\* A send begins on its own review, still open, by an approval given there; only a review left while its
\* password was checked, or its send ran, lets one go elsewhere (send, confirmWith*, approved, askLustration).
THEOREM SendsFromItsReview == Spec => []ConfirmedOnItsReview
<1>1. Init => FormType /\ ReviewInv  BY FormInit
<1>2. FormType /\ ReviewInv /\ [Next]_vars => FormType' /\ ReviewInv'  BY TypeStep, ReviewStep
<1>3. ReviewInv => ConfirmedOnItsReview  BY DEF ReviewInv
<1> QED BY <1>1, <1>2, <1>3, PTL DEF Spec

===============================================================================

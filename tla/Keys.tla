-------------------------------- MODULE Keys --------------------------------
(***************************************************************************)
(* The ways into a wallet, and out of it: its envelope (storage/           *)
(* envelope.ts), the password, passkey and seed phrase that open it, and    *)
(* the backup file (app/accounts.ts), with the forms that ask for them.     *)
(*                                                                         *)
(* A password hash takes a second and a passkey's sheet as long as the      *)
(* person takes.  Each operation reads the wallet's record, works, and      *)
(* writes one field of the record as it is by then; a form that is left     *)
(* does not stop its operation, so two may be under way, and the app's own  *)
(* housekeeping is under way beside them.                                   *)
(*                                                                         *)
(* Encryption is a box: what is in it, the key it takes, what it is bound   *)
(* to.  Opening one with another key, or beside other text, fails.          *)
(* The lock, and who may work on a wallet at all, are in Session.           *)
(***************************************************************************)
EXTENDS Naturals, TLC

CONSTANTS
    Password, Phrase,   \* model values
    None,
    MaxWallets,         \* bound: wallets on this device at a time
    MaxFresh,           \* bound: random salts and keys drawn
    MaxOps,             \* bound: operations begun
    MaxAlterations,     \* bound: parts of backup files changed on their way
    Rare                \* "read first": the password changes while an export
                        \* that has read the record reads the notes

ASSUME KeysAssumption ==
    /\ MaxWallets \in Nat \ {0} /\ MaxFresh \in Nat /\ MaxOps \in Nat /\ MaxAlterations \in Nat
    /\ Rare \subseteq {"read first"}
    \* None is no key and no passkey
    /\ None \notin {"raw"} \X Nat \X {None}
    /\ None \notin [secret : {"passkey"} \X Nat \X {None},
                    wrapped : [key : {"passkey"} \X Nat \X {None}, plain : {"raw"} \X Nat \X {None}, aad : {None}]]

VARIABLES
    records,    \* each wallet's record in the database
    noted,      \* its sealed log: when the password changed, the contacts
    jobs,       \* what is under way
    files,      \* backup files, as they are by now
    fresh,      \* random values drawn so far; also the time
    ops,        \* operations begun
    alterations,
    words,      \* each wallet's seed phrase (history variable)
    told,       \* what the person was told holds; and whether a note that the password
                \* changed was lost since the last file was saved (history variable)
    exported    \* files as they were saved, and what of (history variable)

vars == <<records, noted, jobs, files, fresh, ops, alterations, words, told, exported>>

Wallets == 1 .. MaxWallets
Slots == {"form", "behind"}

-----------------------------------------------------------------------------
(* Boxes and keys. *)

Raw(n) == <<"raw", n, None>>
Derived(pw, kdf) == <<"password", pw, kdf>>
Prf(n) == <<"passkey", n, None>>
SeedUnlockKey(phrase) == <<"phrase", phrase, None>>

Box(key, plain, aad) == [key |-> key, plain |-> plain, aad |-> aad]
Torn == Box(<<"lost", None, None>>, None, None)
Opens(key, box, aad) == box.key = key /\ box.aad = aad

Old(n) == [salt |-> n, cost |-> "old"]
Default(n) == [salt |-> n, cost |-> "default"]
Weak(kdf) == kdf.cost = "old"

SealSeed(phrase, pw, n, kdf) ==
    [kdf |-> kdf, wrapped |-> Box(Derived(pw, kdf), Raw(n), None), seed |-> Box(Raw(n), phrase, None)]

PasswordOpens(envelope, pw) == Opens(Derived(pw, envelope.kdf), envelope.wrapped, None)
ContentKey(envelope) == envelope.wrapped.plain
SeedOpens(envelope, content) == Opens(content, envelope.seed, None)

\* The mistake of a content key of its own for each password.
WithNewKey(envelope, pw, n) == SealSeed(envelope.seed.plain, pw, n, Default(n))
\* The content key wrapped anew; the seed stays as it is.
WithNewPassword(envelope, pw, n) ==
    [envelope EXCEPT !.kdf = Default(n), !.wrapped = Box(Derived(pw, Default(n)), ContentKey(envelope), None)]

\* The mistake of binding the start block and the date to nothing.
ReadableButHead(file) == <<file.kdf, file.wrapped, file.seed>>
\* The part of a file anyone can read.
Readable(file) == <<file.head, file.kdf, file.wrapped, file.seed>>
Everything(file) == <<Readable(file), file.bound>>

SealBackup(at, envelope, contacts, pw, n) ==
    LET head == [version |-> 3, head |-> at, kdf |-> envelope.kdf, seed |-> envelope.seed,
                 wrapped |-> Box(Derived(pw, envelope.kdf), Raw(n), None), bound |-> Torn, sealed |-> Torn]
        bound == [head EXCEPT !.bound = Box(Raw(n), ContentKey(envelope), Readable(head))] IN
    [bound EXCEPT !.sealed = Box(ContentKey(envelope), contacts, Everything(bound))]

\* A file of an older version: the envelope as it was, the contacts in clear.
LegacyFile(at, envelope, contacts) ==
    [version |-> 2, head |-> at, kdf |-> envelope.kdf, seed |-> envelope.seed,
     wrapped |-> envelope.wrapped, bound |-> Torn, sealed |-> Box(None, contacts, None)]

\* What opening a file comes to: an answer, and the content key.
OpenBackup(file, pw) ==
    LET inner == file.wrapped.plain
        content == file.bound.plain IN
    IF ~Opens(Derived(pw, file.kdf), file.wrapped, None) THEN [said |-> "wrong password", content |-> None]
    ELSE IF /\ Opens(inner, file.bound, Readable(file))
            /\ Opens(content, file.sealed, Everything(file))
            /\ Opens(content, file.seed, None)
         THEN [said |-> "restored", content |-> content]
         ELSE [said |-> "altered", content |-> None]

OpenLegacy(file, pw) ==
    IF ~Opens(Derived(pw, file.kdf), file.wrapped, None) THEN [said |-> "wrong password", content |-> None]
    ELSE IF Opens(file.wrapped.plain, file.seed, None) THEN [said |-> "restored", content |-> file.wrapped.plain]
         ELSE [said |-> "altered", content |-> None]

-----------------------------------------------------------------------------
Nothing == [op |-> "none", w |-> 0, read |-> None, pw |-> None, new |-> None]

TypeOK ==
    /\ fresh \in 0 .. MaxFresh /\ ops \in 0 .. MaxOps /\ alterations \in 0 .. MaxAlterations
    /\ \A w \in Wallets : records[w] = None \/ records[w].kdf.cost \in {"old", "default"}
    /\ \A s \in Slots : jobs[s].w \in 0 .. MaxWallets
    /\ exported \subseteq [file : {e.file : e \in exported}, pw : Password, phrase : Phrase, contacts : 0 .. 2]

NewRecord(envelope, phraseWrap, backupAt) ==
    [envelope |-> envelope, phraseWrap |-> phraseWrap, passkey |-> None, confirm |-> TRUE, backupAt |-> backupAt]

\* Before this device had a wallet, an older version of the app saved a file.
Init ==
    /\ records = [w \in Wallets |-> None]
    /\ noted = [w \in Wallets |-> [changedAt |-> 0, contacts |-> 0]]
    /\ jobs = [s \in Slots |-> Nothing]
    /\ \E p \in Phrase, pw \in Password : files = {LegacyFile(1, SealSeed(p, pw, 1, Old(1)), 1)}
    /\ fresh = 1 /\ ops = 0 /\ alterations = 0
    /\ words = [w \in Wallets |-> None]
    /\ told = [w \in Wallets |-> None]
    /\ exported = {}

Live == {w \in Wallets : records[w] # None}
\* A wallet's name is its own for good; here it is taken again once nothing
\* under way is about it.
Unused == {w \in Wallets : records[w] = None /\ \A s \in Slots : jobs[s].w # w}
Draw(n) == fresh + n <= MaxFresh /\ fresh' = fresh + n
Tick == ops < MaxOps /\ ops' = ops + 1

\* The mistake of writing back the copy the operation began with.
PatchStale(w, read, field, value) ==
    IF records[w] = None THEN records ELSE [records EXCEPT ![w] = [read EXCEPT ![field] = value]]
\* One field of the record as it is now; a wallet removed meanwhile has none.
Patch(w, read, field, value) ==
    IF records[w] = None THEN records ELSE [records EXCEPT ![w] = [@ EXCEPT ![field] = value]]

\* Only the envelope that was read may be replaced.
Unchanged(w, read) == records[w] # None /\ records[w].envelope.kdf.salt = read.envelope.kdf.salt

-----------------------------------------------------------------------------
(* Operations begin: the record is read, and what the person gave is proved *)
(* against it.  What is wrong is refused and changes nothing.               *)

\* A form that is left while its operation works makes room for another.
Begins(op, w, pw, new) ==
    /\ w \in Live
    /\ \E s \in Slots :
        /\ jobs[s].op = "none" /\ (s = "behind" => jobs["form"].op # "none")
        /\ jobs' = [jobs EXCEPT ![s] = [op |-> op, w |-> w, read |-> records[w], pw |-> pw, new |-> new]]

Proven(w, pw) == PasswordOpens(records[w].envelope, pw)

\* Settings, the lock screen: an operation a person asks for.
Asked(op, w, pw, new) ==
    /\ Tick /\ Begins(op, w, pw, new)
    /\ UNCHANGED <<records, noted, files, fresh, alterations, words, told, exported>>

BeginChange(w, pw, new) == Proven(w, pw) /\ Asked("change", w, pw, new)
BeginReset(w, new) == w \in Live /\ records[w].phraseWrap # None /\ Opens(SeedUnlockKey(words[w]), records[w].phraseWrap, None) /\ Asked("reset", w, None, new)
BeginPasskey(w, pw) == Proven(w, pw) /\ records[w].passkey = None /\ Asked("passkey", w, pw, None)
BeginConfirmOff(w, pw) == records[w].confirm /\ Proven(w, pw) /\ Asked("confirm off", w, pw, None)
BeginConfirmOffPasskey(w) == records[w].confirm /\ records[w].passkey # None /\ Asked("confirm off", w, None, None)
BeginExport(w, pw) ==
    /\ Proven(w, pw) /\ Asked("export", w, pw, None)
BeginUnlock(w, pw) == Proven(w, pw) /\ Asked("unlock", w, pw, None)
BeginUnlockPasskey(w) == records[w].passkey # None /\ Asked("unlock", w, None, None)

-----------------------------------------------------------------------------
(* Operations end. *)

Ends(s, op) == jobs[s].op = op /\ jobs' = [jobs EXCEPT ![s] = Nothing]
Tells(w, field, value) == told' = IF records[w] = None THEN told ELSE [told EXCEPT ![w] = [@ EXCEPT ![field] = value]]

\* The password a change or a reset sets, and the note of that is still to be
\* written; "the password was changed elsewhere in the meantime" when another
\* got there first.
SetsPassword(s, w, new) ==
    /\ Draw(1)
    /\ IF Unchanged(w, jobs[s].read)
       THEN /\ records' = Patch(w, jobs[s].read, "envelope", WithNewPassword(jobs[s].read.envelope, new, fresh + 1))
            /\ Tells(w, "password", new)
            /\ jobs' = [jobs EXCEPT ![s].op = "note"]
       ELSE jobs' = [jobs EXCEPT ![s] = Nothing] /\ UNCHANGED <<records, told>>
    /\ UNCHANGED <<noted, files, ops, alterations, words, exported>>

FinishChange(s) == jobs[s].op = "change" /\ SetsPassword(s, jobs[s].w, jobs[s].new)

\* The wallet unlocks before the note.
FinishReset(s) == jobs[s].op = "reset" /\ SetsPassword(s, jobs[s].w, jobs[s].new)

\* notePasswordChanged: the backup file there was still opens with the old password.
NotePasswordChanged(s) ==
    /\ Ends(s, "note") /\ jobs[s].w \in Live
    /\ noted' = [noted EXCEPT ![jobs[s].w].changedAt = fresh]
    /\ UNCHANGED <<records, files, fresh, ops, alterations, words, told, exported>>

\* A lock got there before the note, or the unlock that ends a reset; or it
\* could not be written, or the app was closed.  The new password stays.
LosesNote(s) ==
    /\ Ends(s, "note") /\ Tells(jobs[s].w, "unsaid", TRUE)
    /\ UNCHANGED <<records, noted, files, fresh, ops, alterations, words, exported>>

\* The system's sheet made a passkey, and its secret wraps the content key
\* the password opened.
FinishPasskey(s) ==
    /\ Ends(s, "passkey") /\ Draw(1)
    /\ LET j == jobs[s]
           passkey == [secret |-> Prf(fresh + 1), wrapped |-> Box(Prf(fresh + 1), ContentKey(j.read.envelope), None)] IN
       records' = Patch(j.w, j.read, "passkey", passkey) /\ Tells(j.w, "passkey", TRUE)
    /\ UNCHANGED <<noted, files, ops, alterations, words, exported>>

\* A sheet that is closed, a device that does not answer.
GivesUp(s) ==
    /\ jobs[s].op = "passkey" /\ Ends(s, "passkey")
    /\ UNCHANGED <<records, noted, files, fresh, ops, alterations, words, told, exported>>

DisablePasskey(w) ==
    /\ w \in Live /\ records[w].passkey # None
    /\ records' = Patch(w, records[w], "passkey", None) /\ Tells(w, "passkey", FALSE)
    /\ UNCHANGED <<noted, jobs, files, fresh, ops, alterations, words, exported>>

FinishConfirmOff(s) ==
    /\ Ends(s, "confirm off")
    /\ records' = Patch(jobs[s].w, jobs[s].read, "confirm", FALSE) /\ Tells(jobs[s].w, "confirm", FALSE)
    /\ UNCHANGED <<noted, files, fresh, ops, alterations, words, exported>>

ConfirmOn(w) ==
    /\ w \in Live /\ ~records[w].confirm
    /\ records' = Patch(w, records[w], "confirm", TRUE) /\ Tells(w, "confirm", TRUE)
    /\ UNCHANGED <<noted, jobs, files, fresh, ops, alterations, words, exported>>

\* The notes read, sealed beside the envelope that was read first, saved,
\* and the wallet marked as backed up.
FinishExport(s) ==
    /\ Ends(s, "export") /\ Draw(1)
    /\ LET j == jobs[s]
           file == SealBackup(fresh + 1, j.read.envelope, noted[j.w].contacts, j.pw, fresh + 1) IN
       /\ "read first" \in Rare \/ Unchanged(j.w, j.read)
       /\ files' = files \union {file}
       /\ exported' = exported \union {[file |-> file, pw |-> j.pw, phrase |-> words[j.w], contacts |-> noted[j.w].contacts]}
       /\ records' = Patch(j.w, j.read, "backupAt", fresh + 1)
       /\ told' = IF records[j.w] = None THEN told ELSE [told EXCEPT ![j.w] = [@ EXCEPT !.backup = j.pw, !.unsaid = FALSE]]
    /\ UNCHANGED <<noted, ops, alterations, words>>

\* An unlock keeps the phrase's wrapping it made on a wallet that has none,
\* and with the password in hand makes an old envelope stronger.
FinishUnlock(s) ==
    /\ jobs[s].op = "unlock"
    /\ LET j == jobs[s]
           made == Box(SeedUnlockKey(j.read.envelope.seed.plain), ContentKey(j.read.envelope), None)
           now == records[j.w] IN
       /\ records' = IF now # None /\ now.phraseWrap = None THEN Patch(j.w, j.read, "phraseWrap", made) ELSE records
       /\ jobs' = [jobs EXCEPT ![s] = IF now # None /\ j.pw # None /\ Weak(now.envelope.kdf) /\ PasswordOpens(now.envelope, j.pw)
                                      THEN [j EXCEPT !.op = "strengthen", !.read = now] ELSE Nothing]
    /\ UNCHANGED <<noted, files, fresh, ops, alterations, words, told, exported>>

Strengthen(s) ==
    /\ Ends(s, "strengthen") /\ Draw(1)
    /\ LET j == jobs[s] IN
       records' = IF Unchanged(j.w, j.read) THEN Patch(j.w, j.read, "envelope", WithNewPassword(j.read.envelope, j.pw, fresh + 1)) ELSE records
    /\ UNCHANGED <<noted, files, ops, alterations, words, told, exported>>

-----------------------------------------------------------------------------
(* Wallets are made, restored and removed; files are changed. *)

Made(w, record, phrase, contacts, pw, backup) ==
    /\ records' = [records EXCEPT ![w] = record]
    /\ noted' = [noted EXCEPT ![w] = [changedAt |-> 0, contacts |-> contacts]]
    /\ words' = [words EXCEPT ![w] = phrase]
    /\ told' = [told EXCEPT ![w] = [password |-> pw, passkey |-> FALSE, confirm |-> TRUE, backup |-> backup, unsaid |-> FALSE]]

CreateAccount(w, phrase, pw) ==
    /\ w \in Unused /\ Draw(1)
    /\ LET envelope == SealSeed(phrase, pw, fresh + 1, Default(fresh + 1)) IN
       Made(w, NewRecord(envelope, Box(SeedUnlockKey(phrase), ContentKey(envelope), None), 0), phrase, 0, pw, None)
    /\ UNCHANGED <<jobs, files, ops, alterations, exported>>

\* The contacts, on an unlocked wallet.
AddContact(w) ==
    /\ w \in Live /\ noted[w].contacts < 1
    /\ noted' = [noted EXCEPT ![w].contacts = @ + 1]
    /\ UNCHANGED <<records, jobs, files, fresh, ops, alterations, words, told, exported>>

\* What is not a list of contacts is none.
Listed(box) == IF box = Torn THEN 0 ELSE box.plain
Answers(file, pw) == IF file.version = 3 THEN OpenBackup(file, pw) ELSE OpenLegacy(file, pw)

ImportFile(w, file, pw) ==
    /\ w \in Unused
    /\ Answers(file, pw).said = "restored"
    /\ LET content == Answers(file, pw).content
           envelope == [kdf |-> file.kdf, wrapped |-> Box(Derived(pw, file.kdf), content, None), seed |-> file.seed]
           phrase == file.seed.plain IN
       Made(w, NewRecord(envelope, Box(SeedUnlockKey(phrase), content, None), file.head),
            phrase, Listed(file.sealed), pw, IF file.version = 3 THEN pw ELSE None)
    /\ UNCHANGED <<jobs, files, fresh, ops, alterations, exported>>

DeleteAccount(w) ==
    /\ w \in Live
    /\ records' = [records EXCEPT ![w] = None] /\ told' = [told EXCEPT ![w] = None]
    /\ UNCHANGED <<noted, jobs, files, fresh, ops, alterations, words, exported>>

\* A file is damaged, or put together from two, where it is kept: one part of
\* it becomes that of another file.
Parts == {"head", "kdf", "wrapped", "seed", "bound", "sealed"}
Alter(file, other, part) ==
    /\ \A s \in Slots : jobs[s].op = "none"
    /\ alterations < MaxAlterations /\ alterations' = alterations + 1
    /\ other[part] # file[part]
    /\ files' = (files \ {file}) \union {[file EXCEPT ![part] = other[part]]}
    /\ UNCHANGED <<records, noted, jobs, fresh, ops, words, told, exported>>
TornFile == [version |-> 3, head |-> MaxFresh + 1, kdf |-> Default(MaxFresh + 1), wrapped |-> Torn, seed |-> Torn, bound |-> Torn, sealed |-> Torn]

Forms(w) ==
    \/ \E pw \in Password :
          \/ \E new \in Password : BeginChange(w, pw, new)
          \/ BeginPasskey(w, pw) \/ BeginConfirmOff(w, pw) \/ BeginExport(w, pw) \/ BeginUnlock(w, pw)
    \/ \E new \in Password : BeginReset(w, new)
    \/ BeginConfirmOffPasskey(w) \/ BeginUnlockPasskey(w)
    \/ DisablePasskey(w) \/ ConfirmOn(w) \/ AddContact(w) \/ DeleteAccount(w)

Finishes(s) ==
    FinishChange(s) \/ FinishReset(s) \/ NotePasswordChanged(s) \/ LosesNote(s) \/ FinishPasskey(s) \/ GivesUp(s)
        \/ FinishConfirmOff(s) \/ FinishExport(s) \/ FinishUnlock(s) \/ Strengthen(s)

Next ==
    \/ \E w \in Live : Forms(w)
    \/ \E s \in Slots : Finishes(s)
    \/ \E w \in Unused, pw \in Password :
          \/ \E phrase \in Phrase : CreateAccount(w, phrase, pw)
          \/ \E file \in files : ImportFile(w, file, pw)
    \/ \E file \in files, other \in files \union {TornFile}, part \in Parts : Alter(file, other, part)

Spec == Init /\ [][Next]_vars

\* Passwords are interchangeable.
Alike == Permutations(Password)

-----------------------------------------------------------------------------
(* What holds. *)

(* Every way in opens the same wallet: some password does, the passkey and  *)
(* the seed phrase do where they are set up, and each gives the content key *)
(* the seed is under, and so the wallet's own words, whatever password      *)
(* changes, resets, restores and housekeeping came between (sealSeed,       *)
(* withNewPassword, enablePasskey, keepSeedUnlock, openBackup).             *)
WaysInAgree ==
    \A w \in Live : LET r == records[w] IN
        /\ r.envelope.seed.plain = words[w]
        /\ \E pw \in Password : PasswordOpens(r.envelope, pw) /\ SeedOpens(r.envelope, ContentKey(r.envelope))
        /\ r.passkey # None => Opens(r.passkey.secret, r.passkey.wrapped, None) /\ SeedOpens(r.envelope, r.passkey.wrapped.plain)
        /\ r.phraseWrap # None => Opens(SeedUnlockKey(words[w]), r.phraseWrap, None) /\ SeedOpens(r.envelope, r.phraseWrap.plain)

(* What the person was told last holds: the password told to be the         *)
(* wallet's opens it and no other does, a passkey set up is kept and one    *)
(* turned off is gone, and sends are confirmed unless that was turned off.  *)
(* No operation that began earlier brings an older record back (the comment *)
(* on patch in accounts.ts, the salt check).  And that the last file saved  *)
(* still opens with an older password is said whenever it does (Settings,   *)
(* the backup page; passwordChangedAt), once the note of the change is      *)
(* written, and unless a lock or a failure lost it.                         *)
NoteUnderWay(w) == \E s \in Slots : jobs[s].op = "note" /\ jobs[s].w = w
AckedStays ==
    \A w \in Live : LET r == records[w] IN
        /\ \A pw \in Password : PasswordOpens(r.envelope, pw) <=> pw = told[w].password
        /\ (r.passkey # None) = told[w].passkey /\ r.confirm = told[w].confirm
        /\ told[w].backup # None /\ told[w].backup # told[w].password =>
              noted[w].changedAt > r.backupAt \/ NoteUnderWay(w) \/ told[w].unsaid

(* What a restore says is so, of every file there is and every password     *)
(* typed.  "Restored" from a version 3 file: it is, part by part, one that  *)
(* was saved under that password, and gives the words and contacts of that  *)
(* wallet then.  "Changed since it was made": it was.  "Wrong password" of  *)
(* a file nothing was done to: it is (sealBackup, openBackup, readablePart).*)
AnswersTrue ==
    \A file \in files, pw \in Password :
        LET said == Answers(file, pw).said
            saved == {e \in exported : e.file = file} IN
        file.version = 3 =>
            /\ said = "restored" => \E e \in saved : e.pw = pw /\ e.phrase = file.seed.plain /\ e.contacts = Listed(file.sealed)
            /\ said = "altered" => saved = {}
            /\ said = "wrong password" => \A e \in saved : e.pw # pw
=============================================================================

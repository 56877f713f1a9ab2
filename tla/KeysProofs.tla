------------------------------ MODULE KeysProofs ------------------------------
(***************************************************************************)
(* The ways into a wallet agree, what was acknowledged stays, and what a   *)
(* restore answers is so: proofs about Keys for any number of wallets,     *)
(* passwords, operations, random draws and altered files.  And, sharing    *)
(* nothing with these, proofs about Receive, for any number of payments,   *)
(* visits and rescans.                                                     *)
(***************************************************************************)
EXTENDS Keys, Receive, WellFoundedInduction, TLAPS

(* What a box can be, a record, a file *)

RawKey == {"raw"} \X Nat \X {None}
Kdf == [salt : Nat, cost : {"old", "default"}]
PasswordKey == {"password"} \X Password \X Kdf
PhraseKey == {"phrase"} \X Phrase \X {None}
PasskeyKey == {"passkey"} \X Nat \X {None}
BoxOf(keys, plains) == [key : keys, plain : plains, aad : {None}]

Wrap == BoxOf(PasswordKey, RawKey)
SeedBox == BoxOf(RawKey, Phrase)
Envelope == [kdf : Kdf, wrapped : Wrap, seed : SeedBox]
PhraseWrap == BoxOf(PhraseKey, RawKey)
Passkey == [secret : PasskeyKey, wrapped : BoxOf(PasskeyKey, RawKey)]
Record == [envelope : Envelope, phraseWrap : PhraseWrap \cup {None}, passkey : Passkey \cup {None},
           confirm : BOOLEAN, backupAt : Nat]

Meta == Nat \X Kdf \X Wrap \X SeedBox
Bound == [key : RawKey, plain : RawKey, aad : Meta]
Sealed == [key : RawKey, plain : Nat, aad : Meta \X Bound]
Saved == [version : {3}, head : Nat, kdf : Kdf, wrapped : Wrap, seed : SeedBox, bound : Bound, sealed : Sealed]
Export == [file : Saved, pw : Password, phrase : Phrase, contacts : Nat]

Op == {"none", "change", "reset", "passkey", "confirm off", "export", "unlock", "strengthen", "note"}
Job == [op : Op, w : 0 .. MaxWallets, read : Record \cup {None}, pw : Password \cup {None}, new : Password \cup {None}]
Told == [password : Password, passkey : BOOLEAN, confirm : BOOLEAN, backup : Password \cup {None}, unsaid : BOOLEAN]

\* Files are put together of parts that were made: nobody makes a box without its key.
File == [version : {2, 3}, head : Nat, kdf : Kdf, wrapped : Wrap \cup {Torn}, seed : SeedBox \cup {Torn},
         bound : {e.file.bound : e \in exported} \cup {Torn},
         sealed : {e.file.sealed : e \in exported} \cup BoxOf({None}, Nat) \cup {Torn}]

KeysType ==
    /\ records \in [Wallets -> Record \cup {None}]
    /\ noted \in [Wallets -> [changedAt : Nat, contacts : Nat]]
    /\ jobs \in [Slots -> Job]
    /\ files \subseteq File
    /\ fresh \in Nat
    /\ words \in [Wallets -> Phrase \cup {None}]
    /\ told \in [Wallets -> Told \cup {None}]
    /\ exported \subseteq Export

(* Every way in gives the key of the seed *)

GoodEnvelope(envelope, phrase) ==
    /\ envelope.wrapped.key[3] = envelope.kdf
    /\ envelope.seed.key = envelope.wrapped.plain
    /\ envelope.seed.plain = phrase

GoodRecord(r, phrase) ==
    /\ GoodEnvelope(r.envelope, phrase)
    /\ r.passkey # None => r.passkey.wrapped.key = r.passkey.secret /\ r.passkey.wrapped.plain = ContentKey(r.envelope)
    /\ r.phraseWrap # None => r.phraseWrap.key = SeedUnlockKey(phrase) /\ r.phraseWrap.plain = ContentKey(r.envelope)

SameInside(v, w) == v.seed = w.seed /\ v.wrapped.plain = w.wrapped.plain

\* What an operation read is the wallet's, whatever became of the wallet since.
GoodJob(j) ==
    j.op # "none" =>
        /\ j.w \in Wallets /\ j.read # None
        /\ GoodEnvelope(j.read.envelope, words[j.w])
        /\ records[j.w] # None => SameInside(j.read.envelope, records[j.w].envelope)
        /\ j.op \in {"change", "reset"} => j.new \in Password
        /\ j.op \in {"export", "strengthen"} => j.pw \in Password /\ PasswordOpens(j.read.envelope, j.pw)

GoodWays ==
    /\ \A w \in Wallets : records[w] # None => GoodRecord(records[w], words[w]) /\ told[w] \in Told
    /\ \A s \in Slots : GoodJob(jobs[s])

(* What was saved opens *)

WellMade(e) ==
    /\ e.file.wrapped.key = Derived(e.pw, e.file.kdf)
    /\ e.file.bound.key = e.file.wrapped.plain /\ e.file.bound.aad = Readable(e.file)
    /\ e.file.sealed.key = e.file.bound.plain /\ e.file.sealed.aad = Everything(e.file)
    /\ e.file.sealed.plain = e.contacts
    /\ e.file.seed.key = e.file.bound.plain /\ e.file.seed.plain = e.phrase
GoodExports == \A e \in exported : WellMade(e)

(* What was told holds *)

SaltsDrawn ==
    /\ \A w \in Wallets : records[w] # None => records[w].envelope.kdf.salt <= fresh
    /\ \A s \in Slots : jobs[s].op # "none" => jobs[s].read.envelope.kdf.salt <= fresh
    /\ \A f \in files : f.wrapped # Torn => f.wrapped.key[3].salt <= fresh
    /\ \A e \in exported : e.file.head <= fresh

\* An envelope is replaced by one with a salt of its own.
SaltTells ==
    \A s \in Slots : jobs[s].op # "none" /\ records[jobs[s].w] # None
                        /\ jobs[s].read.envelope.kdf.salt = records[jobs[s].w].envelope.kdf.salt
        => jobs[s].read.envelope = records[jobs[s].w].envelope

\* The time of a note to come is later than that of any file saved with an older password.
Holds(r, t, n, now, note) ==
    /\ r.envelope.wrapped.key = Derived(t.password, r.envelope.kdf)
    /\ (r.passkey # None) = t.passkey /\ r.confirm = t.confirm
    /\ t.backup # None => r.backupAt <= now
    /\ t.backup # None /\ t.backup # t.password => r.backupAt < now /\ (n.changedAt > r.backupAt \/ note \/ t.unsaid)
ToldHolds == \A w \in Wallets : records[w] # None => Holds(records[w], told[w], noted[w], fresh, NoteUnderWay(w))

WaysInv == KeysType /\ GoodWays /\ GoodExports
AckedInv == SaltsDrawn /\ SaltTells /\ ToldHolds

(* Keys and boxes *)

LEMMA Keys ==
    /\ \A n \in Nat : Raw(n) \in RawKey /\ Prf(n) \in PasskeyKey
    /\ \A pw \in Password, kdf \in Kdf : Derived(pw, kdf) \in PasswordKey /\ Derived(pw, kdf)[3] = kdf /\ Derived(pw, kdf)[2] = pw
    /\ \A phrase \in Phrase : SeedUnlockKey(phrase) \in PhraseKey
    /\ \A k \in PasswordKey : k[2] \in Password /\ k[3] \in Kdf /\ k = Derived(k[2], k[3])
    /\ \A k \in RawKey : k # None /\ k # <<"lost", None, None>>
    /\ \A k \in PasswordKey : k # <<"lost", None, None>>
<1>1. \A n \in Nat : Raw(n) \in RawKey /\ Prf(n) \in PasskeyKey  BY DEF Raw, Prf, RawKey, PasskeyKey
<1>2. \A pw \in Password, kdf \in Kdf : Derived(pw, kdf) \in PasswordKey /\ Derived(pw, kdf)[3] = kdf /\ Derived(pw, kdf)[2] = pw
  BY DEF Derived, PasswordKey
<1>3. \A phrase \in Phrase : SeedUnlockKey(phrase) \in PhraseKey  BY DEF SeedUnlockKey, PhraseKey
<1>4. \A k \in PasswordKey : k[2] \in Password /\ k[3] \in Kdf /\ k = Derived(k[2], k[3])  BY DEF Derived, PasswordKey
<1>5. \A k \in RawKey : k # None  BY KeysAssumption DEF RawKey
<1>6. \A k \in RawKey : k # <<"lost", None, None>>  BY DEF RawKey
<1>7. \A k \in PasswordKey : k # <<"lost", None, None>>  BY DEF PasswordKey
<1> QED BY <1>1, <1>2, <1>3, <1>4, <1>5, <1>6, <1>7

(* Operations on one record *)

\* The fields of a record.
Fields(r, envelope, phraseWrap, passkey, confirm, backupAt) ==
    /\ r \in Record
    /\ r.envelope = envelope /\ r.phraseWrap = phraseWrap /\ r.passkey = passkey
    /\ r.confirm = confirm /\ r.backupAt = backupAt

LEMMA PatchedFields ==
    ASSUME NEW r \in Record
    PROVE  /\ \A v \in Envelope : Fields([r EXCEPT !["envelope"] = v], v, r.phraseWrap, r.passkey, r.confirm, r.backupAt)
           /\ \A v \in PhraseWrap : Fields([r EXCEPT !["phraseWrap"] = v], r.envelope, v, r.passkey, r.confirm, r.backupAt)
           /\ \A v \in Passkey \cup {None} : Fields([r EXCEPT !["passkey"] = v], r.envelope, r.phraseWrap, v, r.confirm, r.backupAt)
           /\ \A v \in BOOLEAN : Fields([r EXCEPT !["confirm"] = v], r.envelope, r.phraseWrap, r.passkey, v, r.backupAt)
           /\ \A v \in Nat : Fields([r EXCEPT !["backupAt"] = v], r.envelope, r.phraseWrap, r.passkey, r.confirm, v)
<1>1. \A v \in Envelope : Fields([r EXCEPT !["envelope"] = v], v, r.phraseWrap, r.passkey, r.confirm, r.backupAt)
  BY DEF Fields, Record
<1>2. \A v \in PhraseWrap : Fields([r EXCEPT !["phraseWrap"] = v], r.envelope, v, r.passkey, r.confirm, r.backupAt)
  BY DEF Fields, Record
<1>3. \A v \in Passkey \cup {None} : Fields([r EXCEPT !["passkey"] = v], r.envelope, r.phraseWrap, v, r.confirm, r.backupAt)
  BY DEF Fields, Record
<1>4. \A v \in BOOLEAN : Fields([r EXCEPT !["confirm"] = v], r.envelope, r.phraseWrap, r.passkey, v, r.backupAt)
  BY DEF Fields, Record
<1>5. \A v \in Nat : Fields([r EXCEPT !["backupAt"] = v], r.envelope, r.phraseWrap, r.passkey, r.confirm, v)
  BY DEF Fields, Record
<1> QED BY <1>1, <1>2, <1>3, <1>4, <1>5

\* A patch changes one wallet's record, and a wallet that is gone has none.
OneChanged(new, old, w, r) ==
    /\ new \in [Wallets -> Record \cup {None}]
    /\ new[w] = (IF old[w] = None THEN None ELSE r)
    /\ \A u \in Wallets : u # w => new[u] = old[u]

LEMMA PatchChanges ==
    ASSUME KeysType, NEW w \in Wallets, NEW read, NEW field, NEW v, NEW r, r = [records[w] EXCEPT ![field] = v],
           records[w] # None => r \in Record
    PROVE  OneChanged(Patch(w, read, field, v), records, w, r)
<1>1. records \in [Wallets -> Record \cup {None}]  BY DEF KeysType
<1>2. CASE records[w] = None  BY <1>1, <1>2 DEF Patch, OneChanged
<1>3. CASE records[w] # None
  <2>1. Patch(w, read, field, v) = [records EXCEPT ![w] = r]  BY <1>3 DEF Patch
  <2> QED BY <1>1, <1>3, <2>1 DEF OneChanged
<1> QED BY <1>2, <1>3

LEMMA TellsType ==
    ASSUME KeysType, GoodWays, NEW w \in Wallets, NEW field, NEW v, Tells(w, field, v),
           \/ field = "password" /\ v \in Password
           \/ field \in {"passkey", "confirm", "unsaid"} /\ v \in BOOLEAN
           \/ field = "backup" /\ v \in Password \cup {None}
    PROVE  /\ told' \in [Wallets -> Told \cup {None}]
           /\ \A u \in Wallets : told[u] \in Told => told'[u] \in Told
<1>1. told \in [Wallets -> Told \cup {None}] /\ (records[w] # None => told[w] \in Told)
  BY DEF KeysType, GoodWays
<1>2. CASE records[w] = None  BY <1>1, <1>2 DEF Tells
<1>3. CASE records[w] # None
  <2> DEFINE t == told[w]
             n == [t EXCEPT ![field] = v]
  <2>1. t \in Told  BY <1>1, <1>3
  <2>2. told' = [told EXCEPT ![w] = n]  BY <1>3 DEF Tells
  <2> HIDE DEF t
  <2>3. n \in Told  BY <2>1 DEF Told
  <2> HIDE DEF n
  <2> QED BY <1>1, <2>2, <2>3
<1> QED BY <1>2, <1>3

(* The ways in, step by step *)

Moves(u) ==
    records'[u] # None =>
        /\ records[u] # None
        /\ GoodRecord(records'[u], words[u])
        /\ SameInside(records'[u].envelope, records[u].envelope)
        /\ told'[u] \in Told
\* A password that was set leaves the note of it to be written.
ToNote(s) == jobs[s].op # "none" /\ jobs'[s] = [jobs[s] EXCEPT !.op = "note"]
Goes(s) == jobs'[s] = jobs[s] \/ jobs'[s].op = "none" \/ GoodJob(jobs[s])' \/ ToNote(s)

LEMMA WaysMove ==
    ASSUME KeysType, KeysType', GoodWays, words' = words,
           \A u \in Wallets : Moves(u), \A s \in Slots : Goes(s)
    PROVE  GoodWays'
<1>1. ASSUME NEW w \in Wallets, records'[w] # None  PROVE GoodRecord(records[w], words[w])' /\ (told[w] \in Told)'
  BY <1>1 DEF Moves, GoodRecord, GoodEnvelope
<1>2. ASSUME NEW s \in Slots  PROVE GoodJob(jobs[s])'
  <2>1. CASE jobs'[s] = jobs[s] /\ jobs[s].op # "none"
    <3> DEFINE j == jobs[s]
    <3>1. GoodJob(j) /\ j.op # "none"  BY <2>1 DEF GoodWays
    <3>2. j.w \in Wallets /\ j.read # None  BY <3>1 DEF GoodJob
    <3>3. GoodEnvelope(j.read.envelope, words[j.w])  BY <3>1 DEF GoodJob
    <3>4. records'[j.w] # None => SameInside(j.read.envelope, records'[j.w].envelope)
      BY <3>1, <3>2 DEF GoodJob, Moves, SameInside
    <3>5. /\ j.op \in {"change", "reset"} => j.new \in Password
          /\ j.op \in {"export", "strengthen"} => j.pw \in Password /\ PasswordOpens(j.read.envelope, j.pw)
      BY <3>1 DEF GoodJob
    <3>6. jobs'[s] = j  BY <2>1
    <3> HIDE DEF j
    <3> QED BY <3>2, <3>3, <3>4, <3>5, <3>6 DEF GoodJob, GoodEnvelope
  <2>2. CASE jobs'[s].op = "none"  BY <2>2 DEF GoodJob
  <2>3. CASE jobs'[s] = jobs[s] /\ jobs[s].op = "none"  BY <2>3 DEF GoodJob
  <2>4. CASE ToNote(s)
    <3> DEFINE j == jobs[s]
    <3>1. GoodJob(j) /\ j.op # "none" /\ j \in Job  BY <2>4 DEF GoodWays, ToNote, KeysType
    <3>2. j.w \in Wallets /\ j.read # None /\ GoodEnvelope(j.read.envelope, words[j.w])  BY <3>1 DEF GoodJob
    <3>3. records'[j.w] # None => SameInside(j.read.envelope, records'[j.w].envelope)
      BY <3>1, <3>2 DEF GoodJob, Moves, SameInside
    <3>4. jobs'[s] = [j EXCEPT !.op = "note"]  BY <2>4 DEF ToNote
    <3> HIDE DEF j
    <3>5. jobs'[s].op = "note" /\ jobs'[s].w = j.w /\ jobs'[s].read = j.read  BY <3>1, <3>4 DEF Job
    <3> QED BY <3>2, <3>3, <3>5 DEF GoodJob, GoodEnvelope
  <2> QED BY <2>1, <2>2, <2>3, <2>4 DEF Goes
<1> QED BY <1>1, <1>2 DEF GoodWays

LEMMA WalletStays ==
    ASSUME KeysType, GoodWays, NEW u \in Wallets, records'[u] = records[u],
           told[u] \in Told => told'[u] \in Told
    PROVE  Moves(u)
BY DEF GoodWays, Moves, SameInside

LEMMA PatchMoves ==
    ASSUME KeysType, GoodWays, NEW w \in Wallets, NEW read, NEW field, NEW v, NEW r,
           r = [records[w] EXCEPT ![field] = v], records' = Patch(w, read, field, v),
           records[w] # None => r \in Record /\ GoodRecord(r, words[w]) /\ SameInside(r.envelope, records[w].envelope),
           \A u \in Wallets : told[u] \in Told => told'[u] \in Told
    PROVE  records' \in [Wallets -> Record \cup {None}] /\ \A u \in Wallets : Moves(u)
<1>1. OneChanged(records', records, w, r)  BY PatchChanges
<1>2. ASSUME NEW u \in Wallets  PROVE Moves(u)
  <2>1. CASE u # w  BY <1>1, <2>1, WalletStays DEF OneChanged
  <2>2. CASE u = w /\ records[w] = None  BY <1>1, <2>2 DEF OneChanged, Moves
  <2>3. CASE u = w /\ records[w] # None
    <3>1. records'[w] = r  BY <1>1, <2>3 DEF OneChanged
    <3>2. told'[w] \in Told  BY <2>3 DEF GoodWays
    <3> QED BY <2>3, <3>1, <3>2 DEF Moves
  <2> QED BY <2>1, <2>2, <2>3
<1> QED BY <1>1, <1>2 DEF OneChanged

LEMMA LiveGood ==
    ASSUME KeysType, GoodWays, NEW w \in Wallets, records[w] # None
    PROVE  /\ records[w] \in Record /\ GoodRecord(records[w], words[w]) /\ told[w] \in Told
           /\ GoodEnvelope(records[w].envelope, words[w]) /\ records[w].envelope \in Envelope
<1>1. records[w] \in Record  BY DEF KeysType
<1> QED BY <1>1 DEF GoodWays, GoodRecord, Record

LEMMA JobGood ==
    ASSUME KeysType, GoodWays, NEW s \in Slots, jobs[s].op # "none"
    PROVE  /\ jobs[s].w \in Wallets /\ jobs[s].read \in Record /\ jobs[s].read.envelope \in Envelope
           /\ GoodEnvelope(jobs[s].read.envelope, words[jobs[s].w])
           /\ records[jobs[s].w] # None => SameInside(jobs[s].read.envelope, records[jobs[s].w].envelope)
           /\ jobs[s].op \in {"change", "reset"} => jobs[s].new \in Password
           /\ jobs[s].op \in {"export", "strengthen"} => jobs[s].pw \in Password /\ PasswordOpens(jobs[s].read.envelope, jobs[s].pw)
           /\ jobs[s] \in Job
<1>1. GoodJob(jobs[s]) /\ jobs[s] \in Job  BY DEF GoodWays, KeysType
<1>2. jobs[s].read \in Record \cup {None}  BY <1>1 DEF Job
<1>3. jobs[s].read # None  BY <1>1 DEF GoodJob
<1>4. jobs[s].read \in Record  BY <1>2, <1>3
<1>5. jobs[s].read.envelope \in Envelope  BY <1>4 DEF Record
<1> QED BY <1>1, <1>4, <1>5 DEF GoodJob

LEMMA WalletNumbers == Wallets \subseteq 0 .. MaxWallets /\ 0 \in 0 .. MaxWallets /\ 0 \notin Wallets
<1>1. MaxWallets \in Nat \ {0}  BY KeysAssumption, Zenon
<1> QED BY <1>1 DEF Wallets

LEMMA NothingIsNone == Nothing \in Job /\ Nothing.op = "none" /\ Nothing.w \notin Wallets
<1>1. 0 \in 0 .. MaxWallets /\ 0 \notin Wallets  BY WalletNumbers
<1>2. None \in Record \cup {None} /\ None \in Password \cup {None} /\ "none" \in Op  BY DEF Op
<1> QED BY <1>1, <1>2, Zenon DEF Nothing, Job

LEMMA OneJobMoves ==
    ASSUME KeysType, NEW s \in Slots, NEW j \in Job, jobs' = [jobs EXCEPT ![s] = j], j.op = "none" \/ GoodJob(jobs[s])'
    PROVE  jobs' \in [Slots -> Job] /\ \A x \in Slots : Goes(x)
BY DEF KeysType, Goes

LEMMA JobEnds ==
    ASSUME KeysType, NEW s \in Slots, jobs' = [jobs EXCEPT ![s] = Nothing]
    PROVE  jobs' \in [Slots -> Job] /\ \A x \in Slots : Goes(x)
BY NothingIsNone, OneJobMoves

LEMMA JobToNote ==
    ASSUME KeysType, NEW s \in Slots, jobs[s].op # "none", jobs' = [jobs EXCEPT ![s].op = "note"]
    PROVE  jobs' \in [Slots -> Job] /\ \A x \in Slots : Goes(x)
<1> DEFINE j == [jobs[s] EXCEPT !.op = "note"]
<1>1. jobs \in [Slots -> Job] /\ jobs[s] \in Job  BY DEF KeysType
<1>2. j \in Job  BY <1>1 DEF Job, Op
<1>3. jobs' = [jobs EXCEPT ![s] = j]  OBVIOUS
<1> HIDE DEF j
<1>4. jobs' \in [Slots -> Job] /\ jobs'[s] = j /\ \A x \in Slots : x # s => jobs'[x] = jobs[x]  BY <1>1, <1>2, <1>3
<1>5. ToNote(s)  BY <1>4 DEF ToNote, j
<1> QED BY <1>4, <1>5 DEF Goes

LEMMA JobsStay ==
    ASSUME KeysType, jobs' = jobs
    PROVE  jobs' \in [Slots -> Job] /\ \A x \in Slots : Goes(x)
BY DEF KeysType, Goes

LEMMA FilesStay ==
    ASSUME KeysType, exported' = exported, files' = files
    PROVE  (files \subseteq File)' /\ (exported \subseteq Export)'
<1>1. File' = File  BY DEF File
<1> QED BY <1>1 DEF KeysType

LEMMA NewEnvelope ==
    ASSUME NEW r \in Record, NEW phrase \in Phrase, GoodRecord(r, phrase), NEW old \in Envelope, SameInside(old, r.envelope),
           GoodEnvelope(old, phrase), NEW pw \in Password, NEW n \in Nat, NEW v, v = WithNewPassword(old, pw, n)
    PROVE  /\ v \in Envelope /\ v.kdf = Default(n) /\ v.wrapped.key = Derived(pw, Default(n))
           /\ Fields([r EXCEPT !["envelope"] = v], v, r.phraseWrap, r.passkey, r.confirm, r.backupAt)
           /\ GoodRecord([r EXCEPT !["envelope"] = v], phrase) /\ SameInside([r EXCEPT !["envelope"] = v].envelope, r.envelope)
<1> DEFINE kdf == Default(n)
           box == Box(Derived(pw, kdf), ContentKey(old), None)
<1>1. kdf \in Kdf  BY DEF Default, Kdf
<1>2. old.wrapped \in Wrap /\ ContentKey(old) \in RawKey  BY DEF Envelope, ContentKey, Wrap, BoxOf
<1>3. Derived(pw, kdf) \in PasswordKey /\ Derived(pw, kdf)[3] = kdf  BY <1>1, Keys
<1> HIDE DEF kdf
<1>4. box \in Wrap /\ box.key = Derived(pw, kdf) /\ box.plain = ContentKey(old)
  BY <1>2, <1>3 DEF Box, Wrap, BoxOf
<1>5. v = [old EXCEPT !.kdf = kdf, !.wrapped = box]  BY DEF WithNewPassword, kdf
<1> HIDE DEF box
<1>6. v \in Envelope /\ v.kdf = kdf /\ v.wrapped = box /\ v.seed = old.seed
  BY <1>1, <1>4, <1>5 DEF Envelope
<1>7. SameInside(v, r.envelope)  BY <1>4, <1>6 DEF SameInside, ContentKey
<1>8. GoodEnvelope(v, phrase)
  BY <1>3, <1>4, <1>6, <1>7 DEF GoodEnvelope, ContentKey
<1> DEFINE new == [r EXCEPT !["envelope"] = v]
<1>9. Fields(new, v, r.phraseWrap, r.passkey, r.confirm, r.backupAt)  BY <1>6, PatchedFields
<1>10. v.kdf = Default(n) /\ v.wrapped.key = Derived(pw, Default(n))  BY <1>4, <1>6 DEF kdf
<1> HIDE DEF new
<1>11. GoodRecord(new, phrase)
  BY <1>7, <1>8, <1>9 DEF GoodRecord, Fields, SameInside, ContentKey
<1>12. SameInside(new.envelope, r.envelope)  BY <1>7, <1>9 DEF Fields
<1> QED BY <1>6, <1>9, <1>10, <1>11, <1>12 DEF new

\* A record with another field than its envelope is as good as that field.
LEMMA OtherField ==
    ASSUME NEW r \in Record, NEW phrase, GoodRecord(r, phrase), NEW n \in Record, n.envelope = r.envelope,
           n.passkey = r.passkey \/ n.passkey = None
             \/ (n.passkey.wrapped.key = n.passkey.secret /\ n.passkey.wrapped.plain = ContentKey(r.envelope)),
           n.phraseWrap = r.phraseWrap
             \/ (n.phraseWrap.key = SeedUnlockKey(phrase) /\ n.phraseWrap.plain = ContentKey(r.envelope))
    PROVE  GoodRecord(n, phrase) /\ SameInside(n.envelope, r.envelope)
BY DEF GoodRecord, SameInside

(* The actions keep the ways in *)

LEMMA AskedKeeps ==
    ASSUME KeysType, GoodWays, GoodExports, NEW op \in {"change", "reset", "passkey", "confirm off", "export", "unlock"},
           NEW w \in Wallets, NEW pw \in Password \cup {None}, NEW new \in Password \cup {None}, Asked(op, w, pw, new),
           op \in {"change", "reset"} => new \in Password, op = "export" => pw \in Password /\ Proven(w, pw)
    PROVE  WaysInv'
<1>1. records[w] # None  BY DEF Asked, Begins, Live
<1>2. /\ records[w] \in Record /\ GoodRecord(records[w], words[w]) /\ records[w].envelope \in Envelope
      /\ GoodEnvelope(records[w].envelope, words[w])
  BY <1>1, LiveGood
<1> DEFINE j == [op |-> op, w |-> w, read |-> records[w], pw |-> pw, new |-> new]
<1>3. PICK s \in Slots : jobs' = [jobs EXCEPT ![s] = j]  BY DEF Asked, Begins
<1>4. UNCHANGED <<records, noted, files, fresh, words, told, exported>>  BY DEF Asked
<1>5. w \in 0 .. MaxWallets  BY WalletNumbers
<1>6. op \in Op  BY DEF Op
<1>7. j \in Job  BY <1>2, <1>5, <1>6, Zenon DEF Job
<1>14. jobs'[s] = j  BY <1>3 DEF KeysType
<1>8. GoodJob(jobs[s])'
  <2>1. SameInside(records[w].envelope, records[w].envelope)  BY DEF SameInside
  <2>2. op = "export" => pw \in Password /\ PasswordOpens(records[w].envelope, pw)  BY DEF Proven
  <2>3. jobs'[s].op = op /\ jobs'[s].w = w /\ jobs'[s].read = records[w] /\ jobs'[s].pw = pw /\ jobs'[s].new = new
    <3>1. j.op = op /\ j.w = w /\ j.read = records[w] /\ j.pw = pw /\ j.new = new  OBVIOUS
    <3> HIDE DEF j
    <3> QED BY <1>14, <3>1
  <2>4. records[w] # None /\ words' = words /\ records' = records  BY <1>1, <1>4
  <2>5. records[w] # None /\ GoodEnvelope(records[w].envelope, words'[w])  BY <1>1, <1>2, <2>4
  <2>6. op # "strengthen" /\ (op \in {"change", "reset"} => new \in Password)  OBVIOUS
  <2>7. SameInside(records[w].envelope, records'[w].envelope)  BY <2>1, <2>4
  <2> HIDE DEF j
  <2> QED BY <2>2, <2>3, <2>4, <2>5, <2>6, <2>7 DEF GoodJob, GoodEnvelope, PasswordOpens
<1> HIDE DEF j
<1>9. jobs' \in [Slots -> Job] /\ \A x \in Slots : Goes(x)  BY <1>3, <1>7, <1>8, OneJobMoves
<1>10. (files \subseteq File)' /\ (exported \subseteq Export)'  BY <1>4, FilesStay
<1>11. KeysType'  BY <1>4, <1>9, <1>10 DEF KeysType
<1>12. \A u \in Wallets : Moves(u)  BY <1>4, WalletStays
<1>13. GoodWays'  BY <1>4, <1>9, <1>11, <1>12, WaysMove
<1>15. GoodExports'  BY <1>4 DEF GoodExports, WellMade
<1> QED BY <1>11, <1>13, <1>15 DEF WaysInv

LEMMA BeginKeeps ==
    ASSUME WaysInv, NEW w \in Wallets,
           \/ \E pw \in Password :
                \/ \E new \in Password : BeginChange(w, pw, new)
                \/ BeginPasskey(w, pw) \/ BeginConfirmOff(w, pw) \/ BeginExport(w, pw) \/ BeginUnlock(w, pw)
           \/ \E new \in Password : BeginReset(w, new)
           \/ BeginConfirmOffPasskey(w) \/ BeginUnlockPasskey(w)
    PROVE  WaysInv'
<1>0. KeysType /\ GoodWays /\ GoodExports  BY DEF WaysInv
<1>1. ASSUME NEW pw \in Password, NEW new \in Password, BeginChange(w, pw, new)  PROVE WaysInv'
  BY <1>0, <1>1, AskedKeeps DEF BeginChange
<1>2. ASSUME NEW pw \in Password, BeginPasskey(w, pw)  PROVE WaysInv'
  BY <1>0, <1>2, AskedKeeps DEF BeginPasskey
<1>3. ASSUME NEW pw \in Password, BeginConfirmOff(w, pw)  PROVE WaysInv'
  BY <1>0, <1>3, AskedKeeps DEF BeginConfirmOff
<1>4. ASSUME NEW pw \in Password, BeginExport(w, pw)  PROVE WaysInv'
  BY <1>0, <1>4, AskedKeeps DEF BeginExport
<1>5. ASSUME NEW pw \in Password, BeginUnlock(w, pw)  PROVE WaysInv'
  BY <1>0, <1>5, AskedKeeps DEF BeginUnlock
<1>6. ASSUME NEW new \in Password, BeginReset(w, new)  PROVE WaysInv'
  BY <1>0, <1>6, AskedKeeps DEF BeginReset
<1>7. CASE BeginConfirmOffPasskey(w)  BY <1>0, <1>7, AskedKeeps DEF BeginConfirmOffPasskey
<1>8. CASE BeginUnlockPasskey(w)  BY <1>0, <1>8, AskedKeeps DEF BeginUnlockPasskey
<1> QED BY <1>1, <1>2, <1>3, <1>4, <1>5, <1>6, <1>7, <1>8

LEMMA FreshNext == ASSUME KeysType, Draw(1)  PROVE fresh' = fresh + 1 /\ fresh' \in Nat
BY DEF KeysType, Draw

\* What a step that leaves the files alone comes to.
LEMMA WaysKept ==
    ASSUME WaysInv, UNCHANGED <<files, words, exported>>, fresh' \in Nat,
           records' \in [Wallets -> Record \cup {None}], noted' \in [Wallets -> [changedAt : Nat, contacts : Nat]],
           jobs' \in [Slots -> Job], told' \in [Wallets -> Told \cup {None}],
           \A u \in Wallets : Moves(u), \A s \in Slots : Goes(s)
    PROVE  WaysInv'
<1>1. (files \subseteq File)' /\ (exported \subseteq Export)'  BY FilesStay DEF WaysInv
<1>2. KeysType'  BY <1>1 DEF KeysType, WaysInv
<1>3. GoodWays'  BY <1>2, WaysMove DEF WaysInv
<1>4. GoodExports'  BY DEF GoodExports, WellMade, WaysInv
<1> QED BY <1>2, <1>3, <1>4 DEF WaysInv

LEMMA NoteTyped ==
    ASSUME KeysType, NEW w \in Wallets, noted' = [noted EXCEPT ![w].changedAt = fresh]
    PROVE  /\ noted' \in [Wallets -> [changedAt : Nat, contacts : Nat]] /\ noted'[w].changedAt = fresh
           /\ \A u \in Wallets : u # w => noted'[u] = noted[u]
<1>1. noted \in [Wallets -> [changedAt : Nat, contacts : Nat]] /\ fresh \in Nat  BY DEF KeysType
<1> DEFINE n == [noted[w] EXCEPT !.changedAt = fresh]
<1>2. noted[w] \in [changedAt : Nat, contacts : Nat]  BY <1>1
<1>3. n \in [changedAt : Nat, contacts : Nat] /\ n.changedAt = fresh  BY <1>1, <1>2
<1>4. noted' = [noted EXCEPT ![w] = n]  OBVIOUS
<1> HIDE DEF n
<1> QED BY <1>1, <1>3, <1>4

LEMMA SetsPasswordKeeps ==
    ASSUME WaysInv, NEW s \in Slots, jobs[s].op \in {"change", "reset"},
           SetsPassword(s, jobs[s].w, jobs[s].new)
    PROVE  WaysInv'
<1> DEFINE w == jobs[s].w
           old == jobs[s].read.envelope
           new == jobs[s].new
           v == WithNewPassword(old, new, fresh + 1)
           r == [records[w] EXCEPT !["envelope"] = v]
<1>0. KeysType /\ GoodWays  BY DEF WaysInv
<1>1. /\ w \in Wallets /\ old \in Envelope /\ GoodEnvelope(old, words[w]) /\ new \in Password
      /\ records[w] # None => SameInside(old, records[w].envelope)
  BY <1>0, JobGood
<1>2. fresh' \in Nat /\ fresh + 1 \in Nat  BY <1>0, FreshNext DEF SetsPassword
<1>3. UNCHANGED <<noted, files, words, exported>>  BY DEF SetsPassword
<1>6. noted' \in [Wallets -> [changedAt : Nat, contacts : Nat]]  BY <1>0, <1>3 DEF KeysType
<1>4. CASE Unchanged(w, jobs[s].read)
  <2>1. records' = Patch(w, jobs[s].read, "envelope", v) /\ Tells(w, "password", new)
        /\ jobs' = [jobs EXCEPT ![s].op = "note"]
    BY <1>4 DEF SetsPassword
  <2>2. records[w] # None => r \in Record /\ GoodRecord(r, words[w]) /\ SameInside(r.envelope, records[w].envelope)
    <3>1. SUFFICES ASSUME records[w] # None  PROVE r \in Record /\ GoodRecord(r, words[w]) /\ SameInside(r.envelope, records[w].envelope)
      OBVIOUS
    <3>2. records[w] \in Record /\ GoodRecord(records[w], words[w])  BY <1>0, <1>1, <3>1, LiveGood
    <3>3. words[w] \in Phrase
      BY <1>1 DEF GoodEnvelope, Envelope, SeedBox, BoxOf
    <3> HIDE DEF w, old, new
    <3> QED BY <1>1, <1>2, <3>1, <3>2, <3>3, NewEnvelope DEF Fields
  <2>3. told' \in [Wallets -> Told \cup {None}] /\ \A u \in Wallets : told[u] \in Told => told'[u] \in Told
    BY <1>0, <1>1, <2>1, TellsType
  <2>4. jobs' \in [Slots -> Job] /\ \A x \in Slots : Goes(x)  BY <1>0, <2>1, JobToNote
  <2> HIDE DEF w, v, old, new
  <2>5. records' \in [Wallets -> Record \cup {None}] /\ \A u \in Wallets : Moves(u)
    BY <1>0, <1>1, <2>1, <2>2, <2>3, PatchMoves
  <2> QED BY <1>2, <1>3, <1>6, <2>3, <2>4, <2>5, WaysKept
<1>5. CASE ~Unchanged(w, jobs[s].read)
  <2>1. UNCHANGED <<records, told>> /\ jobs' = [jobs EXCEPT ![s] = Nothing]  BY <1>5 DEF SetsPassword
  <2>2. \A u \in Wallets : Moves(u)  BY <1>0, <2>1, WalletStays
  <2>3. jobs' \in [Slots -> Job] /\ \A x \in Slots : Goes(x)  BY <1>0, <2>1, JobEnds
  <2> QED BY <1>0, <1>2, <1>3, <1>6, <2>1, <2>2, <2>3, WaysKept DEF KeysType
<1> QED BY <1>4, <1>5

LEMMA PatchKeeps ==
    ASSUME WaysInv, NEW w \in Wallets, NEW read, NEW field, NEW v, NEW r,
           r = [records[w] EXCEPT ![field] = v], records' = Patch(w, read, field, v),
           records[w] # None => r \in Record /\ GoodRecord(r, words[w]) /\ SameInside(r.envelope, records[w].envelope),
           told' \in [Wallets -> Told \cup {None}], \A u \in Wallets : told[u] \in Told => told'[u] \in Told,
           jobs' \in [Slots -> Job], \A s \in Slots : Goes(s), fresh' \in Nat,
           UNCHANGED <<noted, files, words, exported>>
    PROVE  WaysInv'
<1>0. KeysType /\ GoodWays  BY DEF WaysInv
<1>1. records' \in [Wallets -> Record \cup {None}] /\ \A u \in Wallets : Moves(u)
  BY <1>0, PatchMoves
<1>2. noted' \in [Wallets -> [changedAt : Nat, contacts : Nat]]  BY <1>0 DEF KeysType
<1> QED BY <1>1, <1>2, WaysKept

LEMMA StrengthenKeeps == ASSUME WaysInv, NEW s \in Slots, Strengthen(s)  PROVE WaysInv'
<1> DEFINE w == jobs[s].w
           old == jobs[s].read.envelope
           pw == jobs[s].pw
           v == WithNewPassword(old, pw, fresh + 1)
           r == [records[w] EXCEPT !["envelope"] = v]
<1>0. KeysType /\ GoodWays  BY DEF WaysInv
<1>1. jobs[s].op = "strengthen" /\ jobs' = [jobs EXCEPT ![s] = Nothing]  BY DEF Strengthen, Ends
<1>2. /\ w \in Wallets /\ old \in Envelope /\ GoodEnvelope(old, words[w]) /\ pw \in Password
      /\ records[w] # None => SameInside(old, records[w].envelope)
  BY <1>0, <1>1, JobGood
<1>3. fresh' \in Nat /\ fresh + 1 \in Nat  BY <1>0, FreshNext DEF Strengthen
<1>4. jobs' \in [Slots -> Job] /\ \A x \in Slots : Goes(x)  BY <1>0, <1>1, JobEnds
<1>5. UNCHANGED <<noted, files, words, told, exported>>  BY DEF Strengthen
<1>6. told' \in [Wallets -> Told \cup {None}] /\ \A u \in Wallets : told[u] \in Told => told'[u] \in Told
  BY <1>0, <1>5 DEF KeysType
<1>7. CASE Unchanged(w, jobs[s].read)
  <2>1. records' = Patch(w, jobs[s].read, "envelope", v)  BY <1>7 DEF Strengthen
  <2>2. records[w] # None => r \in Record /\ GoodRecord(r, words[w]) /\ SameInside(r.envelope, records[w].envelope)
    <3>1. SUFFICES ASSUME records[w] # None  PROVE r \in Record /\ GoodRecord(r, words[w]) /\ SameInside(r.envelope, records[w].envelope)
      OBVIOUS
    <3>2. records[w] \in Record /\ GoodRecord(records[w], words[w])  BY <1>0, <1>2, <3>1, LiveGood
    <3>3. words[w] \in Phrase  BY <1>2 DEF GoodEnvelope, Envelope, SeedBox, BoxOf
    <3> HIDE DEF w, old, pw
    <3> QED BY <1>2, <1>3, <3>1, <3>2, <3>3, NewEnvelope DEF Fields
  <2> HIDE DEF w, v, old, pw
  <2> QED BY <1>2, <1>3, <1>4, <1>5, <1>6, <2>1, <2>2, PatchKeeps
<1>8. CASE ~Unchanged(w, jobs[s].read)
  <2>1. records' = records  BY <1>8 DEF Strengthen
  <2>2. \A u \in Wallets : Moves(u)  BY <1>0, <1>5, <2>1, WalletStays
  <2> QED BY <1>0, <1>3, <1>4, <1>5, <1>6, <2>1, <2>2, WaysKept DEF KeysType
<1> QED BY <1>7, <1>8

LEMMA PasskeyMade ==
    ASSUME NEW n \in Nat, NEW content \in RawKey, NEW p, p = [secret |-> Prf(n), wrapped |-> Box(Prf(n), content, None)]
    PROVE  p \in Passkey /\ p # None /\ p.wrapped.key = p.secret /\ p.wrapped.plain = content
<1>1. Prf(n) \in PasskeyKey  BY Keys
<1>2. p \in Passkey  BY <1>1 DEF Passkey, Box, BoxOf
<1>3. None \notin Passkey  BY KeysAssumption, Zenon DEF Passkey, BoxOf, PasskeyKey, RawKey
<1>4. p.wrapped.key = p.secret /\ p.wrapped.plain = content  BY DEF Box
<1> QED BY <1>2, <1>3, <1>4

LEMMA FinishPasskeyKeeps == ASSUME WaysInv, NEW s \in Slots, FinishPasskey(s)  PROVE WaysInv'
<1> DEFINE w == jobs[s].w
           read == jobs[s].read
           old == jobs[s].read.envelope
           v == [secret |-> Prf(fresh + 1), wrapped |-> Box(Prf(fresh + 1), ContentKey(old), None)]
           r == [records[w] EXCEPT !["passkey"] = v]
<1>0. KeysType /\ GoodWays  BY DEF WaysInv
<1>1. jobs[s].op = "passkey" /\ jobs' = [jobs EXCEPT ![s] = Nothing]  BY DEF FinishPasskey, Ends
<1>2. /\ w \in Wallets /\ old \in Envelope
      /\ records[w] # None => SameInside(old, records[w].envelope)
  BY <1>0, <1>1, JobGood
<1>3. fresh' \in Nat /\ fresh + 1 \in Nat  BY <1>0, FreshNext DEF FinishPasskey
<1>4. jobs' \in [Slots -> Job] /\ \A x \in Slots : Goes(x)  BY <1>0, <1>1, JobEnds
<1>5. UNCHANGED <<noted, files, words, exported>>  BY DEF FinishPasskey
<1>6. records' = Patch(w, read, "passkey", v) /\ Tells(w, "passkey", TRUE)  BY DEF FinishPasskey
<1>7. told' \in [Wallets -> Told \cup {None}] /\ \A u \in Wallets : told[u] \in Told => told'[u] \in Told
  BY <1>0, <1>2, <1>6, TellsType
<1>8. ContentKey(old) \in RawKey  BY <1>2 DEF Envelope, ContentKey, Wrap, BoxOf
<1>9. records[w] # None => r \in Record /\ GoodRecord(r, words[w]) /\ SameInside(r.envelope, records[w].envelope)
  <2>1. SUFFICES ASSUME records[w] # None  PROVE r \in Record /\ GoodRecord(r, words[w]) /\ SameInside(r.envelope, records[w].envelope)
    OBVIOUS
  <2>2. records[w] \in Record /\ GoodRecord(records[w], words[w])  BY <1>0, <1>2, <2>1, LiveGood
  <2>3. ContentKey(old) = ContentKey(records[w].envelope)  BY <1>2, <2>1 DEF SameInside, ContentKey
  <2>4. v \in Passkey /\ v.wrapped.key = v.secret /\ v.wrapped.plain = ContentKey(old)  BY <1>3, <1>8, PasskeyMade
  <2> HIDE DEF v, w, old
  <2>5. Fields(r, records[w].envelope, records[w].phraseWrap, v, records[w].confirm, records[w].backupAt)
    BY <2>2, <2>4, PatchedFields
  <2> HIDE DEF r
  <2> QED BY <2>2, <2>3, <2>4, <2>5, OtherField DEF Fields
<1> HIDE DEF w, v, read
<1> QED BY <1>2, <1>3, <1>4, <1>5, <1>6, <1>7, <1>9, PatchKeeps

LEMMA ConfirmFieldGood ==
    ASSUME KeysType, GoodWays, NEW w \in Wallets, records[w] # None
    PROVE  /\ \A v \in BOOLEAN : LET r == [records[w] EXCEPT !["confirm"] = v] IN
                  r \in Record /\ GoodRecord(r, words[w]) /\ SameInside(r.envelope, records[w].envelope)
           /\ \A v \in Nat : LET r == [records[w] EXCEPT !["backupAt"] = v] IN
                  r \in Record /\ GoodRecord(r, words[w]) /\ SameInside(r.envelope, records[w].envelope)
           /\ LET r == [records[w] EXCEPT !["passkey"] = None] IN
                  r \in Record /\ GoodRecord(r, words[w]) /\ SameInside(r.envelope, records[w].envelope)
<1> DEFINE o == records[w]
<1>1. o \in Record /\ GoodRecord(o, words[w])  BY LiveGood
<1> HIDE DEF o
<1>2. ASSUME NEW v \in BOOLEAN, NEW r, r = [o EXCEPT !["confirm"] = v]
      PROVE  r \in Record /\ GoodRecord(r, words[w]) /\ SameInside(r.envelope, o.envelope)
  <2>1. Fields(r, o.envelope, o.phraseWrap, o.passkey, v, o.backupAt)  BY <1>1, <1>2, PatchedFields
  <2> QED BY <1>1, <2>1, OtherField DEF Fields
<1>3. ASSUME NEW v \in Nat, NEW r, r = [o EXCEPT !["backupAt"] = v]
      PROVE  r \in Record /\ GoodRecord(r, words[w]) /\ SameInside(r.envelope, o.envelope)
  <2>1. Fields(r, o.envelope, o.phraseWrap, o.passkey, o.confirm, v)  BY <1>1, <1>3, PatchedFields
  <2> QED BY <1>1, <2>1, OtherField DEF Fields
<1>4. ASSUME NEW r, r = [o EXCEPT !["passkey"] = None]
      PROVE  r \in Record /\ GoodRecord(r, words[w]) /\ SameInside(r.envelope, o.envelope)
  <2>1. Fields(r, o.envelope, o.phraseWrap, None, o.confirm, o.backupAt)  BY <1>1, <1>4, PatchedFields
  <2> QED BY <1>1, <2>1, OtherField DEF Fields
<1> QED BY <1>2, <1>3, <1>4 DEF o

LEMMA FinishConfirmOffKeeps == ASSUME WaysInv, NEW s \in Slots, FinishConfirmOff(s)  PROVE WaysInv'
<1> DEFINE w == jobs[s].w
           read == jobs[s].read
           r == [records[w] EXCEPT !["confirm"] = FALSE]
<1>0. KeysType /\ GoodWays  BY DEF WaysInv
<1>1. jobs[s].op = "confirm off" /\ jobs' = [jobs EXCEPT ![s] = Nothing]  BY DEF FinishConfirmOff, Ends
<1>2. w \in Wallets  BY <1>0, <1>1, JobGood
<1>3. fresh' \in Nat  BY <1>0 DEF FinishConfirmOff, KeysType
<1>4. jobs' \in [Slots -> Job] /\ \A x \in Slots : Goes(x)  BY <1>0, <1>1, JobEnds
<1>5. UNCHANGED <<noted, files, words, exported>>  BY DEF FinishConfirmOff
<1>6. records' = Patch(w, read, "confirm", FALSE) /\ Tells(w, "confirm", FALSE)  BY DEF FinishConfirmOff
<1>7. told' \in [Wallets -> Told \cup {None}] /\ \A u \in Wallets : told[u] \in Told => told'[u] \in Told
  BY <1>0, <1>2, <1>6, TellsType
<1> HIDE DEF w, read
<1>8. records[w] # None => r \in Record /\ GoodRecord(r, words[w]) /\ SameInside(r.envelope, records[w].envelope)
  BY <1>0, <1>2, ConfirmFieldGood
<1> QED BY <1>2, <1>3, <1>4, <1>5, <1>6, <1>7, <1>8, PatchKeeps

LEMMA ConfirmOnKeeps == ASSUME WaysInv, NEW w \in Wallets, ConfirmOn(w)  PROVE WaysInv'
<1> DEFINE read == records[w]
           r == [records[w] EXCEPT !["confirm"] = TRUE]
<1>0. KeysType /\ GoodWays  BY DEF WaysInv
<1>1. fresh' \in Nat /\ jobs' = jobs  BY <1>0 DEF ConfirmOn, KeysType
<1>2. jobs' \in [Slots -> Job] /\ \A x \in Slots : Goes(x)  BY <1>0, <1>1, JobsStay
<1>3. UNCHANGED <<noted, files, words, exported>>  BY DEF ConfirmOn
<1>4. records' = Patch(w, read, "confirm", TRUE) /\ Tells(w, "confirm", TRUE)  BY DEF ConfirmOn
<1>5. told' \in [Wallets -> Told \cup {None}] /\ \A u \in Wallets : told[u] \in Told => told'[u] \in Told
  BY <1>0, <1>4, TellsType
<1>6. records[w] # None => r \in Record /\ GoodRecord(r, words[w]) /\ SameInside(r.envelope, records[w].envelope)
  BY <1>0, ConfirmFieldGood
<1> HIDE DEF read
<1> QED BY <1>1, <1>2, <1>3, <1>4, <1>5, <1>6, PatchKeeps

LEMMA DisablePasskeyKeeps == ASSUME WaysInv, NEW w \in Wallets, DisablePasskey(w)  PROVE WaysInv'
<1> DEFINE read == records[w]
           r == [records[w] EXCEPT !["passkey"] = None]
<1>0. KeysType /\ GoodWays  BY DEF WaysInv
<1>1. fresh' \in Nat /\ jobs' = jobs  BY <1>0 DEF DisablePasskey, KeysType
<1>2. jobs' \in [Slots -> Job] /\ \A x \in Slots : Goes(x)  BY <1>0, <1>1, JobsStay
<1>3. UNCHANGED <<noted, files, words, exported>>  BY DEF DisablePasskey
<1>4. records' = Patch(w, read, "passkey", None) /\ Tells(w, "passkey", FALSE)  BY DEF DisablePasskey
<1>5. told' \in [Wallets -> Told \cup {None}] /\ \A u \in Wallets : told[u] \in Told => told'[u] \in Told
  BY <1>0, <1>4, TellsType
<1>6. records[w] # None => r \in Record /\ GoodRecord(r, words[w]) /\ SameInside(r.envelope, records[w].envelope)
  BY <1>0, ConfirmFieldGood
<1> HIDE DEF read
<1> QED BY <1>1, <1>2, <1>3, <1>4, <1>5, <1>6, PatchKeeps

LEMMA SmallKeep ==
    ASSUME WaysInv
    PROVE  /\ \A s \in Slots : GivesUp(s) => WaysInv'
           /\ \A w \in Wallets : AddContact(w) => WaysInv'
           /\ \A w \in Wallets : DeleteAccount(w) => WaysInv'
<1>0. KeysType /\ GoodWays  BY DEF WaysInv
<1>1. ASSUME NEW s \in Slots, GivesUp(s)  PROVE WaysInv'
  <2>1. jobs' = [jobs EXCEPT ![s] = Nothing] /\ UNCHANGED <<records, noted, files, fresh, words, told, exported>>
    BY <1>1 DEF GivesUp, Ends
  <2>2. jobs' \in [Slots -> Job] /\ \A x \in Slots : Goes(x)  BY <1>0, <2>1, JobEnds
  <2>3. \A u \in Wallets : Moves(u)  BY <1>0, <2>1, WalletStays
  <2> QED BY <1>0, <2>1, <2>2, <2>3, WaysKept DEF KeysType
<1>2. ASSUME NEW w \in Wallets, AddContact(w)  PROVE WaysInv'
  <2>1. UNCHANGED <<records, jobs, files, fresh, words, told, exported>>  BY <1>2 DEF AddContact
  <2>2. noted' \in [Wallets -> [changedAt : Nat, contacts : Nat]]
    <3> DEFINE n == [noted[w] EXCEPT !.contacts = @ + 1]
    <3>1. noted \in [Wallets -> [changedAt : Nat, contacts : Nat]]  BY <1>0 DEF KeysType
    <3>2. n \in [changedAt : Nat, contacts : Nat]  BY <3>1
    <3>3. noted' = [noted EXCEPT ![w] = n]  BY <1>2 DEF AddContact
    <3> HIDE DEF n
    <3> QED BY <3>1, <3>2, <3>3
  <2>3. jobs' \in [Slots -> Job] /\ \A x \in Slots : Goes(x)  BY <1>0, <2>1, JobsStay
  <2>4. \A u \in Wallets : Moves(u)  BY <1>0, <2>1, WalletStays
  <2> QED BY <1>0, <2>1, <2>2, <2>3, <2>4, WaysKept DEF KeysType
<1>3. ASSUME NEW w \in Wallets, DeleteAccount(w)  PROVE WaysInv'
  <2>1. UNCHANGED <<noted, jobs, files, fresh, words, exported>>  BY <1>3 DEF DeleteAccount
  <2>2. records' = [records EXCEPT ![w] = None] /\ told' = [told EXCEPT ![w] = None]  BY <1>3 DEF DeleteAccount
  <2>3. records' \in [Wallets -> Record \cup {None}] /\ told' \in [Wallets -> Told \cup {None}]
    BY <1>0, <2>2 DEF KeysType
  <2>4. jobs' \in [Slots -> Job] /\ \A x \in Slots : Goes(x)  BY <1>0, <2>1, JobsStay
  <2>5. ASSUME NEW u \in Wallets  PROVE Moves(u)
    <3>1. CASE u = w  BY <1>0, <2>2, <3>1 DEF KeysType, Moves
    <3>2. CASE u # w
      <4>1. records'[u] = records[u] /\ told'[u] = told[u]  BY <1>0, <2>2, <3>2 DEF KeysType
      <4> QED BY <1>0, <4>1, WalletStays
    <3> QED BY <3>1, <3>2
  <2> QED BY <1>0, <2>1, <2>3, <2>4, <2>5, WaysKept DEF KeysType
<1> QED BY <1>1, <1>2, <1>3

LEMMA PasswordsKeep == ASSUME WaysInv, NEW s \in Slots, FinishChange(s) \/ FinishReset(s)  PROVE WaysInv'
BY SetsPasswordKeeps DEF FinishChange, FinishReset

LEMMA NotesKeep == ASSUME WaysInv, NEW s \in Slots, NotePasswordChanged(s) \/ LosesNote(s)  PROVE WaysInv'
<1>0. KeysType /\ GoodWays  BY DEF WaysInv
<1>1. jobs[s].op = "note" /\ jobs' = [jobs EXCEPT ![s] = Nothing] /\ UNCHANGED <<records, files, fresh, words, exported>>
  BY DEF NotePasswordChanged, LosesNote, Ends
<1>2. jobs[s].w \in Wallets  BY <1>0, <1>1, JobGood
<1>3. jobs' \in [Slots -> Job] /\ \A x \in Slots : Goes(x)  BY <1>0, <1>1, JobEnds
<1>4. CASE NotePasswordChanged(s)
  <2>1. noted' = [noted EXCEPT ![jobs[s].w].changedAt = fresh] /\ told' = told  BY <1>4 DEF NotePasswordChanged
  <2>2. noted' \in [Wallets -> [changedAt : Nat, contacts : Nat]]  BY <1>0, <1>2, <2>1, NoteTyped
  <2>3. \A u \in Wallets : Moves(u)  BY <1>0, <1>1, <2>1, WalletStays
  <2> QED BY <1>0, <1>1, <1>3, <2>1, <2>2, <2>3, WaysKept DEF KeysType
<1>5. CASE LosesNote(s)
  <2>1. Tells(jobs[s].w, "unsaid", TRUE) /\ noted' = noted  BY <1>5 DEF LosesNote
  <2>2. told' \in [Wallets -> Told \cup {None}] /\ \A u \in Wallets : told[u] \in Told => told'[u] \in Told
    BY <1>0, <1>2, <2>1, TellsType
  <2>3. \A u \in Wallets : Moves(u)  BY <1>0, <1>1, <2>2, WalletStays
  <2> QED BY <1>0, <1>1, <1>3, <2>1, <2>2, <2>3, WaysKept DEF KeysType
<1> QED BY <1>4, <1>5

LEMMA FinishUnlockKeeps == ASSUME WaysInv, NEW s \in Slots, FinishUnlock(s)  PROVE WaysInv'
<1> DEFINE w == jobs[s].w
           read == jobs[s].read
           old == jobs[s].read.envelope
           now == records[w]
           v == Box(SeedUnlockKey(old.seed.plain), ContentKey(old), None)
           r == [records[w] EXCEPT !["phraseWrap"] = v]
           goes == [jobs[s] EXCEPT !.op = "strengthen", !.read = now]
<1>0. KeysType /\ GoodWays  BY DEF WaysInv
<1>1. jobs[s].op = "unlock"  BY DEF FinishUnlock
<1>2. /\ w \in Wallets /\ old \in Envelope /\ GoodEnvelope(old, words[w])
      /\ records[w] # None => SameInside(old, records[w].envelope)
      /\ jobs[s] \in Job
  BY <1>0, <1>1, JobGood
<1>3. UNCHANGED <<noted, files, fresh, words, told, exported>>  BY DEF FinishUnlock
<1>4. told' \in [Wallets -> Told \cup {None}] /\ (\A u \in Wallets : told[u] \in Told => told'[u] \in Told)
      /\ fresh' \in Nat /\ noted' \in [Wallets -> [changedAt : Nat, contacts : Nat]]
  BY <1>0, <1>3 DEF KeysType
<1>5. records' = IF now # None /\ now.phraseWrap = None THEN Patch(w, read, "phraseWrap", v) ELSE records
  BY DEF FinishUnlock
<1>6. jobs' = [jobs EXCEPT ![s] = IF now # None /\ jobs[s].pw # None /\ Weak(now.envelope.kdf) /\ PasswordOpens(now.envelope, jobs[s].pw)
                                  THEN goes ELSE Nothing]
  BY DEF FinishUnlock
<1>7. records' \in [Wallets -> Record \cup {None}] /\ \A u \in Wallets : Moves(u)
  <2>1. CASE now # None /\ now.phraseWrap = None
    <3>1. records[w] \in Record /\ GoodRecord(records[w], words[w])  BY <1>0, <1>2, <2>1, LiveGood
    <3>2. /\ old.seed.plain = words[w] /\ old.seed.plain \in Phrase /\ ContentKey(old) \in RawKey
      BY <1>2 DEF GoodEnvelope, Envelope, SeedBox, BoxOf, ContentKey, Wrap
    <3>3. ContentKey(old) = ContentKey(records[w].envelope)  BY <1>2, <2>1 DEF SameInside, ContentKey
    <3>4. v \in PhraseWrap /\ v.key = SeedUnlockKey(words[w]) /\ v.plain = ContentKey(old)
      <4>1. SeedUnlockKey(words[w]) \in PhraseKey  BY <3>2, Keys
      <4> QED BY <3>2, <4>1 DEF PhraseWrap, BoxOf, Box
    <3>5. records' = Patch(w, read, "phraseWrap", v)  BY <1>5, <2>1
    <3> HIDE DEF v, w, old, now, read
    <3>6. Fields(r, records[w].envelope, v, records[w].passkey, records[w].confirm, records[w].backupAt)
      BY <3>1, <3>4, PatchedFields
    <3> DEFINE n == r
    <3>7. n = [records[w] EXCEPT !["phraseWrap"] = v]  OBVIOUS
    <3> HIDE DEF r, n
    <3>8. r \in Record /\ GoodRecord(r, words[w]) /\ SameInside(r.envelope, records[w].envelope)
      BY <3>1, <3>3, <3>4, <3>6, OtherField DEF Fields
    <3> QED BY <1>0, <1>2, <1>4, <3>5, <3>8, PatchMoves DEF r
  <2>2. CASE ~(now # None /\ now.phraseWrap = None)
    <3>1. records' = records  BY <1>5, <2>2
    <3> QED BY <1>0, <1>3, <3>1, WalletStays DEF KeysType
  <2> QED BY <2>1, <2>2
<1>8. jobs' \in [Slots -> Job] /\ \A x \in Slots : Goes(x)
  <2>1. CASE now # None /\ jobs[s].pw # None /\ Weak(now.envelope.kdf) /\ PasswordOpens(now.envelope, jobs[s].pw)
    <3>1. jobs' = [jobs EXCEPT ![s] = goes]  BY <1>6, <2>1
    <3>2. now \in Record /\ GoodEnvelope(now.envelope, words[w])  BY <1>0, <1>2, <2>1, LiveGood
    <3>3. /\ goes \in Job
          /\ goes.op = "strengthen" /\ goes.w = w /\ goes.read = now /\ goes.pw = jobs[s].pw
      <4> DEFINE j == jobs[s]
      <4>1. j \in Job  BY <1>2
      <4>2. goes = [j EXCEPT !.op = "strengthen", !.read = now] /\ j.w = w /\ j.pw = jobs[s].pw  OBVIOUS
      <4> HIDE DEF j, goes, now, w
      <4> QED BY <3>2, <4>1, <4>2 DEF Job, Op
    <3>4. jobs'[s] = goes  BY <1>0, <3>1 DEF KeysType
    <3>5. jobs[s].pw \in Password  BY <1>2, <2>1 DEF Job
    <3>6. records'[w] # None => SameInside(now.envelope, records'[w].envelope)
      BY <1>2, <1>7 DEF Moves, SameInside
    <3>7. GoodEnvelope(now.envelope, words'[w]) /\ now # None  BY <1>3, <2>1, <3>2
    <3>8. PasswordOpens(now.envelope, jobs[s].pw) /\ w \in Wallets  BY <1>2, <2>1
    <3> HIDE DEF goes, now, w
    <3>9. GoodJob(jobs[s])'
      BY <3>3, <3>4, <3>5, <3>6, <3>7, <3>8 DEF GoodJob, GoodEnvelope, PasswordOpens
    <3> QED BY <1>0, <3>1, <3>3, <3>9, OneJobMoves
  <2>2. CASE ~(now # None /\ jobs[s].pw # None /\ Weak(now.envelope.kdf) /\ PasswordOpens(now.envelope, jobs[s].pw))
    <3>1. jobs' = [jobs EXCEPT ![s] = Nothing]  BY <1>6, <2>2
    <3> QED BY <1>0, <3>1, JobEnds
  <2> QED BY <2>1, <2>2
<1> QED BY <1>3, <1>4, <1>7, <1>8, WaysKept

(* Files *)

LEMMA FileFields ==
    ASSUME KeysType, NEW f \in files
    PROVE  /\ f \in File
           /\ f.version \in {2, 3} /\ f.head \in Nat /\ f.kdf \in Kdf
           /\ f.wrapped \in Wrap \cup {Torn} /\ f.seed \in SeedBox \cup {Torn}
           /\ (f.bound = Torn \/ \E e \in exported : f.bound = e.file.bound)
           /\ (f.sealed = Torn \/ f.sealed \in BoxOf({None}, Nat) \/ \E e \in exported : f.sealed = e.file.sealed)
BY DEF KeysType, File

LEMMA ExportFields ==
    ASSUME KeysType, NEW e \in exported
    PROVE  /\ e.file \in Saved /\ e.pw \in Password /\ e.phrase \in Phrase /\ e.contacts \in Nat
           /\ e.file.version = 3 /\ e.file.head \in Nat /\ e.file.kdf \in Kdf /\ e.file.wrapped \in Wrap
           /\ e.file.seed \in SeedBox /\ e.file.bound \in Bound /\ e.file.sealed \in Sealed
<1>1. e \in Export  BY DEF KeysType
<1>2. e.file \in Saved /\ e.pw \in Password /\ e.phrase \in Phrase /\ e.contacts \in Nat  BY <1>1 DEF Export
<1> QED BY <1>2 DEF Saved

LEMMA TornIs == Torn.key = <<"lost", None, None>>
BY DEF Torn, Box

\* A file is its parts.
LEMMA SameFile ==
    ASSUME NEW f \in File, NEW g \in Saved, f.version = 3, Everything(f) = Everything(g), f.sealed = g.sealed
    PROVE  f = g
<1>1. f.bound = g.bound /\ Readable(f) = Readable(g)  BY DEF Everything
<1>2. f.head = g.head /\ f.kdf = g.kdf /\ f.wrapped = g.wrapped /\ f.seed = g.seed  BY <1>1 DEF Readable
<1>3. g.version = 3  BY DEF Saved
<1>4. f = [version |-> f.version, head |-> f.head, kdf |-> f.kdf, wrapped |-> f.wrapped, seed |-> f.seed, bound |-> f.bound, sealed |-> f.sealed]
  BY Zenon DEF File
<1>5. g = [version |-> g.version, head |-> g.head, kdf |-> g.kdf, wrapped |-> g.wrapped, seed |-> g.seed, bound |-> g.bound, sealed |-> g.sealed]
  BY Zenon DEF Saved
<1> QED BY <1>1, <1>2, <1>3, <1>4, <1>5, Zenon

\* What a restore that succeeds was given.
Restored(f, pw, content) ==
    /\ f.wrapped \in Wrap /\ f.wrapped.key = Derived(pw, f.kdf)
    /\ content \in RawKey
    /\ f.seed \in SeedBox /\ f.seed.key = content
    /\ f.version = 3 => \E e \in exported : e.file = f /\ e.pw = pw

LEMMA RestoredIs ==
    ASSUME KeysType, GoodExports, NEW f \in files, NEW pw \in Password, Answers(f, pw).said = "restored"
    PROVE  Restored(f, pw, Answers(f, pw).content)
<1>0. /\ f \in File /\ f.version \in {2, 3} /\ f.kdf \in Kdf
      /\ f.wrapped \in Wrap \cup {Torn} /\ f.seed \in SeedBox \cup {Torn}
      /\ (f.bound = Torn \/ \E e \in exported : f.bound = e.file.bound)
      /\ (f.sealed = Torn \/ f.sealed \in BoxOf({None}, Nat) \/ \E e \in exported : f.sealed = e.file.sealed)
  BY FileFields
<1>1. Opens(Derived(pw, f.kdf), f.wrapped, None)
  BY DEF Answers, OpenBackup, OpenLegacy
<1>2. Derived(pw, f.kdf) \in PasswordKey /\ Derived(pw, f.kdf)[2] = pw  BY <1>0, Keys
<1>3. f.wrapped.key = Derived(pw, f.kdf) /\ f.wrapped \in Wrap
  <2>1. f.wrapped.key = Derived(pw, f.kdf)  BY <1>1 DEF Opens
  <2>2. Derived(pw, f.kdf) # <<"lost", None, None>>  BY <1>2, Keys
  <2>3. f.wrapped # Torn  BY <2>1, <2>2, TornIs
  <2> QED BY <1>0, <2>1, <2>3
<1>4. f.wrapped.plain \in RawKey  BY <1>3 DEF Wrap, BoxOf
<1>5. CASE f.version = 3
  <2> DEFINE content == f.bound.plain
  <2>1. Answers(f, pw) = OpenBackup(f, pw)  BY <1>5 DEF Answers
  <2>2. /\ Opens(f.wrapped.plain, f.bound, Readable(f)) /\ Opens(content, f.sealed, Everything(f))
        /\ Opens(content, f.seed, None)
    BY <1>1, <2>1 DEF OpenBackup
  <2>3. OpenBackup(f, pw).content = content  BY <1>1, <2>2 DEF OpenBackup
  <2>4. f.bound # Torn  BY <1>4, <2>2, TornIs, Keys DEF Opens
  <2>5. PICK d \in exported : f.bound = d.file.bound  BY <1>0, <2>4
  <2>6. d.file.bound \in Bound  BY ExportFields
  <2>7. content \in RawKey  BY <2>5, <2>6 DEF Bound
  <2>8. f.sealed.key = content /\ f.sealed.aad = Everything(f) /\ f.seed.key = content  BY <2>2 DEF Opens
  <2>9. f.sealed # Torn /\ f.sealed \notin BoxOf({None}, Nat)  BY <2>7, <2>8, TornIs, Keys DEF BoxOf
  <2>10. PICK e \in exported : f.sealed = e.file.sealed  BY <1>0, <2>9
  <2>11. e.file \in Saved /\ e.pw \in Password /\ e.file.wrapped \in Wrap /\ e.file.kdf \in Kdf  BY ExportFields
  <2>12. WellMade(e)  BY DEF GoodExports
  <2>13. Everything(e.file) = Everything(f)  BY <2>8, <2>10, <2>12 DEF WellMade
  <2>14. f = e.file  BY <1>0, <1>5, <2>10, <2>11, <2>13, SameFile
  <2>15. e.pw = pw
    <3>1. Derived(e.pw, f.kdf) = Derived(pw, f.kdf)  BY <1>3, <2>12, <2>14 DEF WellMade
    <3>2. Derived(e.pw, f.kdf)[2] = e.pw  BY <1>0, <2>11, Keys
    <3> QED BY <1>2, <3>1, <3>2
  <2>16. f.seed \in SeedBox  BY <1>0, <2>7, <2>8, TornIs, Keys
  <2> QED BY <1>3, <2>1, <2>3, <2>7, <2>8, <2>14, <2>15, <2>16 DEF Restored
<1>6. CASE f.version # 3
  <2>1. Answers(f, pw) = OpenLegacy(f, pw)  BY <1>6 DEF Answers
  <2>2. Opens(f.wrapped.plain, f.seed, None)  BY <1>1, <2>1 DEF OpenLegacy
  <2>3. OpenLegacy(f, pw).content = f.wrapped.plain  BY <1>1, <2>2 DEF OpenLegacy
  <2>4. f.seed.key = f.wrapped.plain  BY <2>2 DEF Opens
  <2>5. f.seed \in SeedBox  BY <1>0, <1>4, <2>4, TornIs, Keys
  <2> QED BY <1>3, <1>4, <1>6, <2>1, <2>3, <2>4, <2>5 DEF Restored
<1> QED BY <1>5, <1>6

LEMMA MadeKeeps ==
    ASSUME WaysInv, NEW w \in Unused, NEW record \in Record, NEW phrase \in Phrase, NEW contacts \in Nat,
           NEW pw \in Password, NEW backup \in Password \cup {None}, GoodRecord(record, phrase),
           Made(w, record, phrase, contacts, pw, backup), UNCHANGED <<jobs, files, exported>>, fresh' \in Nat
    PROVE  WaysInv'
<1>0. KeysType /\ GoodWays /\ GoodExports /\ w \in Wallets  BY DEF WaysInv, Unused
<1> DEFINE n == [changedAt |-> 0, contacts |-> contacts]
           t == [password |-> pw, passkey |-> FALSE, confirm |-> TRUE, backup |-> backup, unsaid |-> FALSE]
<1>1. /\ records' = [records EXCEPT ![w] = record] /\ noted' = [noted EXCEPT ![w] = n]
      /\ words' = [words EXCEPT ![w] = phrase] /\ told' = [told EXCEPT ![w] = t]
  BY DEF Made
<1>2. n \in [changedAt : Nat, contacts : Nat] /\ t \in Told  BY DEF Told
<1> HIDE DEF n, t
<1>3. (files \subseteq File)' /\ (exported \subseteq Export)'  BY <1>0, FilesStay
<1>4. /\ records' \in [Wallets -> Record \cup {None}] /\ noted' \in [Wallets -> [changedAt : Nat, contacts : Nat]]
      /\ words' \in [Wallets -> Phrase \cup {None}] /\ told' \in [Wallets -> Told \cup {None}]
      /\ records'[w] = record /\ words'[w] = phrase /\ told'[w] = t
      /\ \A u \in Wallets : u # w => records'[u] = records[u] /\ words'[u] = words[u] /\ told'[u] = told[u]
  BY <1>0, <1>1, <1>2 DEF KeysType
<1>5. KeysType'  BY <1>0, <1>3, <1>4 DEF KeysType
<1>6. ASSUME NEW u \in Wallets, records'[u] # None  PROVE GoodRecord(records[u], words[u])' /\ (told[u] \in Told)'
  <2>1. CASE u = w  BY <1>2, <1>4, <2>1 DEF GoodRecord, GoodEnvelope
  <2>2. CASE u # w  BY <1>0, <1>4, <1>6, <2>2 DEF GoodWays, GoodRecord, GoodEnvelope
  <2> QED BY <2>1, <2>2
<1>7. ASSUME NEW s \in Slots  PROVE GoodJob(jobs[s])'
  <2>1. CASE jobs[s].op = "none"  BY <2>1 DEF GoodJob
  <2>2. CASE jobs[s].op # "none"
    <3>1. GoodJob(jobs[s])  BY <1>0 DEF GoodWays
    <3>2. jobs[s].w \in Wallets /\ jobs[s].w # w  BY <2>2, <3>1 DEF GoodJob, Unused
    <3>3. records'[jobs[s].w] = records[jobs[s].w] /\ words'[jobs[s].w] = words[jobs[s].w]  BY <1>4, <3>2
    <3> QED BY <3>1, <3>3 DEF GoodJob, GoodEnvelope
  <2> QED BY <2>1, <2>2
<1>8. GoodWays'  BY <1>6, <1>7 DEF GoodWays
<1>9. GoodExports'  BY <1>0 DEF GoodExports, WellMade
<1> QED BY <1>5, <1>8, <1>9 DEF WaysInv

LEMMA DrawsFresh ==
    ASSUME NEW phrase \in Phrase, NEW pw \in Password, NEW n \in Nat, NEW kdf \in Kdf, NEW v, v = SealSeed(phrase, pw, n, kdf)
    PROVE  v \in Envelope /\ GoodEnvelope(v, phrase) /\ v.kdf = kdf /\ v.wrapped.key = Derived(pw, kdf) /\ ContentKey(v) = Raw(n)
<1>1. Raw(n) \in RawKey /\ Derived(pw, kdf) \in PasswordKey /\ Derived(pw, kdf)[3] = kdf  BY Keys
<1>2. Box(Derived(pw, kdf), Raw(n), None) \in Wrap /\ Box(Raw(n), phrase, None) \in SeedBox
  BY <1>1 DEF Box, Wrap, SeedBox, BoxOf
<1>3. v.kdf = kdf /\ v.wrapped = Box(Derived(pw, kdf), Raw(n), None) /\ v.seed = Box(Raw(n), phrase, None)  BY DEF SealSeed
<1>4. v \in Envelope  BY <1>2 DEF SealSeed, Envelope
<1> QED BY <1>1, <1>3, <1>4 DEF GoodEnvelope, ContentKey, Box

IsNew(r, envelope, at) == r.envelope = envelope /\ r.passkey = None /\ r.confirm = TRUE /\ r.backupAt = at

LEMMA NewRecordGood ==
    ASSUME NEW v \in Envelope, NEW phrase \in Phrase, GoodEnvelope(v, phrase), NEW h \in Nat,
           NEW b, b = Box(SeedUnlockKey(phrase), ContentKey(v), None)
    PROVE  NewRecord(v, b, h) \in Record /\ GoodRecord(NewRecord(v, b, h), phrase) /\ IsNew(NewRecord(v, b, h), v, h)
<1> DEFINE r == NewRecord(v, b, h)
<1>1. ContentKey(v) \in RawKey /\ SeedUnlockKey(phrase) \in PhraseKey
  BY Keys DEF ContentKey, Envelope, Wrap, BoxOf
<1>2. b \in PhraseWrap /\ b.key = SeedUnlockKey(phrase) /\ b.plain = ContentKey(v)  BY <1>1 DEF Box, PhraseWrap, BoxOf
<1>3. r = [envelope |-> v, phraseWrap |-> b, passkey |-> None, confirm |-> TRUE, backupAt |-> h]  BY DEF NewRecord
<1> HIDE DEF r
<1>4. r \in Record  BY <1>2, <1>3 DEF Record
<1>5. r.envelope = v /\ r.passkey = None /\ r.confirm = TRUE /\ r.backupAt = h /\ r.phraseWrap = b  BY <1>3
<1>6. r \in Record /\ GoodRecord(r, phrase) /\ IsNew(r, v, h)  BY <1>2, <1>4, <1>5 DEF GoodRecord, IsNew
<1> QED BY <1>6 DEF r

LEMMA CreatedGood ==
    ASSUME NEW phrase \in Phrase, NEW pw \in Password, NEW n \in Nat, NEW v, v = SealSeed(phrase, pw, n, Default(n)),
           NEW b, b = Box(SeedUnlockKey(phrase), ContentKey(v), None), NEW h \in Nat
    PROVE  /\ NewRecord(v, b, h) \in Record /\ GoodRecord(NewRecord(v, b, h), phrase) /\ IsNew(NewRecord(v, b, h), v, h)
           /\ v.kdf = Default(n) /\ v.wrapped.key = Derived(pw, Default(n))
<1>1. Default(n) \in Kdf  BY DEF Default, Kdf
<1>2. v \in Envelope /\ GoodEnvelope(v, phrase) /\ v.kdf = Default(n) /\ v.wrapped.key = Derived(pw, Default(n))
  BY <1>1, DrawsFresh
<1> QED BY <1>2, NewRecordGood

LEMMA CreateKeeps ==
    ASSUME WaysInv, NEW w \in Unused, NEW phrase \in Phrase, NEW pw \in Password, CreateAccount(w, phrase, pw)
    PROVE  WaysInv'
<1> DEFINE v == SealSeed(phrase, pw, fresh + 1, Default(fresh + 1))
           b == Box(SeedUnlockKey(phrase), ContentKey(v), None)
           r == NewRecord(v, b, 0)
<1>1. fresh + 1 \in Nat /\ fresh' \in Nat /\ 0 \in Nat  BY FreshNext DEF CreateAccount, KeysType, WaysInv
<1>2. Made(w, r, phrase, 0, pw, None) /\ UNCHANGED <<jobs, files, exported>>  BY DEF CreateAccount
<1>3. r \in Record /\ GoodRecord(r, phrase)  BY <1>1, CreatedGood
<1> HIDE DEF r
<1> QED BY <1>1, <1>2, <1>3, MadeKeeps

\* The envelope of a restored wallet.
LEMMA ImportedGood ==
    ASSUME NEW f, NEW pw \in Password, NEW content, Restored(f, pw, content), f.kdf \in Kdf,
           NEW v, v = [kdf |-> f.kdf, wrapped |-> Box(Derived(pw, f.kdf), content, None), seed |-> f.seed]
    PROVE  /\ v \in Envelope /\ GoodEnvelope(v, f.seed.plain) /\ f.seed.plain \in Phrase /\ ContentKey(v) = content
           /\ v.kdf = f.kdf /\ v.wrapped.key = Derived(pw, f.kdf)
<1>1. Derived(pw, f.kdf) \in PasswordKey /\ Derived(pw, f.kdf)[3] = f.kdf  BY Keys
<1>2. content \in RawKey /\ f.seed \in SeedBox /\ f.seed.key = content  BY DEF Restored
<1> DEFINE b == Box(Derived(pw, f.kdf), content, None)
<1>3. b \in Wrap /\ b.key = Derived(pw, f.kdf) /\ b.plain = content  BY <1>1, <1>2 DEF Box, Wrap, BoxOf
<1> HIDE DEF b
<1>4. v = [kdf |-> f.kdf, wrapped |-> b, seed |-> f.seed]  BY DEF b
<1>5. v.kdf = f.kdf /\ v.wrapped = b /\ v.seed = f.seed  BY <1>4
<1>6. v \in Envelope  BY <1>2, <1>3, <1>4 DEF Envelope
<1>7. f.seed.plain \in Phrase  BY <1>2 DEF SeedBox, BoxOf
<1> QED BY <1>1, <1>2, <1>3, <1>5, <1>6, <1>7 DEF GoodEnvelope, ContentKey

LEMMA ImportKeeps ==
    ASSUME WaysInv, NEW w \in Unused, NEW f \in files, NEW pw \in Password, ImportFile(w, f, pw)
    PROVE  WaysInv'
<1> DEFINE content == Answers(f, pw).content
           envelope == [kdf |-> f.kdf, wrapped |-> Box(Derived(pw, f.kdf), content, None), seed |-> f.seed]
           phrase == f.seed.plain
           record == NewRecord(envelope, Box(SeedUnlockKey(phrase), content, None), f.head)
           contacts == Listed(f.sealed)
           backup == IF f.version = 3 THEN pw ELSE None
<1>0. KeysType /\ GoodExports  BY DEF WaysInv
<1>1. Restored(f, pw, content)  BY <1>0, RestoredIs DEF ImportFile
<1>2. Made(w, record, phrase, contacts, pw, backup) /\ UNCHANGED <<jobs, files, fresh, exported>>  BY DEF ImportFile
<1>3. f.kdf \in Kdf /\ f.head \in Nat  BY <1>0, FileFields
<1> HIDE DEF content
<1>8. envelope = [kdf |-> f.kdf, wrapped |-> Box(Derived(pw, f.kdf), content, None), seed |-> f.seed] /\ phrase = f.seed.plain
  OBVIOUS
<1> HIDE DEF envelope, phrase
<1>4. envelope \in Envelope /\ GoodEnvelope(envelope, phrase) /\ phrase \in Phrase /\ ContentKey(envelope) = content
  BY <1>1, <1>3, <1>8, ImportedGood
<1>5. contacts \in Nat
  <2>1. f.sealed = Torn \/ f.sealed \in BoxOf({None}, Nat) \/ \E e \in exported : f.sealed = e.file.sealed  BY <1>0, FileFields
  <2>2. CASE f.sealed = Torn  BY <2>2 DEF Listed
  <2>3. CASE f.sealed \in BoxOf({None}, Nat)  BY <2>3 DEF Listed, BoxOf
  <2>4. ASSUME NEW e \in exported, f.sealed = e.file.sealed  PROVE contacts \in Nat
    <3>1. e.file.sealed \in Sealed  BY <1>0, ExportFields
    <3> QED BY <2>4, <3>1 DEF Listed, Sealed
  <2> QED BY <2>1, <2>2, <2>3, <2>4
<1> HIDE DEF contacts
<1>6. record \in Record /\ GoodRecord(record, phrase)  BY <1>3, <1>4, NewRecordGood
<1>7. fresh' \in Nat /\ backup \in Password \cup {None}  BY <1>0, <1>2 DEF KeysType
<1> HIDE DEF record, backup
<1> QED BY <1>2, <1>4, <1>5, <1>6, <1>7, MadeKeeps

LEMMA SealedFile ==
    ASSUME NEW at \in Nat, NEW envelope \in Envelope, NEW contacts \in Nat, NEW pw \in Password, NEW n \in Nat,
           NEW phrase, GoodEnvelope(envelope, phrase), NEW f, f = SealBackup(at, envelope, contacts, pw, n),
           NEW e, e = [file |-> f, pw |-> pw, phrase |-> phrase, contacts |-> contacts]
    PROVE  e \in Export /\ WellMade(e) /\ f.version = 3 /\ f.head = at /\ f.kdf = envelope.kdf
           /\ f.wrapped.key = Derived(pw, envelope.kdf) /\ f \in Saved
<1> DEFINE kdf == envelope.kdf
           seed == envelope.seed
           content == ContentKey(envelope)
           wrapped == Box(Derived(pw, kdf), Raw(n), None)
           readable == <<at, kdf, wrapped, seed>>
           bound == Box(Raw(n), content, readable)
           sealed == Box(content, contacts, <<readable, bound>>)
<1>1. /\ kdf \in Kdf /\ seed \in SeedBox /\ content \in RawKey /\ seed.key = content /\ seed.plain = phrase /\ seed.plain \in Phrase
  BY DEF Envelope, ContentKey, Wrap, SeedBox, BoxOf, GoodEnvelope
<1>2. Raw(n) \in RawKey /\ Derived(pw, kdf) \in PasswordKey  BY <1>1, Keys
<1>3. f = [version |-> 3, head |-> at, kdf |-> kdf, seed |-> seed, wrapped |-> wrapped, bound |-> bound, sealed |-> sealed]
  <2> DEFINE head == [version |-> 3, head |-> at, kdf |-> kdf, seed |-> seed, wrapped |-> wrapped, bound |-> Torn, sealed |-> Torn]
             next == [head EXCEPT !.bound = Box(Raw(n), content, Readable(head))]
             last == [next EXCEPT !.sealed = Box(content, contacts, Everything(next))]
  <2>1. f = last  BY DEF SealBackup
  <2> HIDE DEF kdf, seed, content, wrapped
  <2>2. Readable(head) = readable  BY DEF Readable
  <2>3. next = [version |-> 3, head |-> at, kdf |-> kdf, seed |-> seed, wrapped |-> wrapped, bound |-> bound, sealed |-> Torn]
    BY <2>2
  <2> HIDE DEF bound, head, next
  <2>4. next.head = at /\ next.kdf = kdf /\ next.wrapped = wrapped /\ next.seed = seed /\ next.bound = bound  BY <2>3
  <2>5. Everything(next) = <<readable, bound>>  BY <2>4 DEF Everything, Readable
  <2>6. last = [next EXCEPT !.sealed = sealed]  BY <2>5
  <2> HIDE DEF last, sealed
  <2>7. last = [version |-> 3, head |-> at, kdf |-> kdf, seed |-> seed, wrapped |-> wrapped, bound |-> bound, sealed |-> sealed]
    BY <2>3, <2>6
  <2> QED BY <2>1, <2>7
<1>4. wrapped \in Wrap /\ wrapped.key = Derived(pw, kdf) /\ wrapped.plain = Raw(n)
  BY <1>2 DEF Box, Wrap, BoxOf
<1>5. readable \in Meta
  <2> HIDE DEF kdf, seed, wrapped
  <2> QED BY <1>1, <1>4 DEF Meta
<1>6. bound \in Bound /\ bound.key = Raw(n) /\ bound.plain = content /\ bound.aad = readable
  <2> HIDE DEF content, readable
  <2> QED BY <1>1, <1>2, <1>5 DEF Bound, Box
<1>7. sealed \in Sealed /\ sealed.key = content /\ sealed.plain = contacts /\ sealed.aad = <<readable, bound>>
  <2> HIDE DEF content, readable, bound
  <2> QED BY <1>1, <1>5, <1>6 DEF Sealed, Box
<1> HIDE DEF kdf, seed, content, wrapped, bound, sealed
<1>8. /\ f.version = 3 /\ f.head = at /\ f.kdf = kdf /\ f.seed = seed /\ f.wrapped = wrapped /\ f.bound = bound /\ f.sealed = sealed
  BY <1>3
<1>9. f \in Saved  BY <1>1, <1>3, <1>4, <1>6, <1>7 DEF Saved
<1>10. Readable(f) = readable /\ Everything(f) = <<readable, bound>>  BY <1>8 DEF Readable, Everything
<1> HIDE DEF readable
<1>11. e.file = f /\ e.pw = pw /\ e.phrase = phrase /\ e.contacts = contacts  OBVIOUS
<1>12. e \in Export  BY <1>1, <1>9 DEF Export
<1>13. WellMade(e)  BY <1>1, <1>4, <1>6, <1>7, <1>8, <1>10, <1>11 DEF WellMade
<1> QED BY <1>4, <1>8, <1>9, <1>12, <1>13 DEF kdf

LEMMA FilesGrow ==
    ASSUME KeysType, NEW e \in Export, exported' = exported \cup {e}, files' = files \cup {e.file}
    PROVE  (files \subseteq File)' /\ (exported \subseteq Export)'
<1>1. ASSUME NEW f \in files  PROVE f \in File'
  <2>1. f \in File  BY DEF KeysType
  <2> QED BY <2>1 DEF File
<1>2. e.file \in File'
  <2>1. e.file \in Saved  BY DEF Export
  <2>2. e.file.bound \in {d.file.bound : d \in exported'} /\ e.file.sealed \in {d.file.sealed : d \in exported'}  OBVIOUS
  <2> DEFINE f == e.file
  <2>3. f.version \in {2, 3} /\ f.head \in Nat /\ f.kdf \in Kdf /\ f.wrapped \in Wrap \cup {Torn} /\ f.seed \in SeedBox \cup {Torn}
    BY <2>1 DEF Saved
  <2>4. f = [version |-> f.version, head |-> f.head, kdf |-> f.kdf, wrapped |-> f.wrapped, seed |-> f.seed, bound |-> f.bound, sealed |-> f.sealed]
    BY <2>1, Zenon DEF Saved
  <2> HIDE DEF f
  <2> QED BY <2>2, <2>3, <2>4 DEF File, f
<1> QED BY <1>1, <1>2 DEF KeysType

LEMMA ExportTells ==
    ASSUME KeysType, GoodWays, NEW w \in Wallets, NEW pw \in Password,
           told' = IF records[w] = None THEN told ELSE [told EXCEPT ![w] = [@ EXCEPT !.backup = pw, !.unsaid = FALSE]]
    PROVE  /\ told' \in [Wallets -> Told \cup {None}]
           /\ \A u \in Wallets : told[u] \in Told => told'[u] \in Told
<1>1. told \in [Wallets -> Told \cup {None}] /\ (records[w] # None => told[w] \in Told)
  BY DEF KeysType, GoodWays
<1>2. CASE records[w] = None  BY <1>1, <1>2
<1>3. CASE records[w] # None
  <2> DEFINE t == told[w]
             n == [t EXCEPT !.backup = pw, !.unsaid = FALSE]
  <2>1. t \in Told  BY <1>1, <1>3
  <2>2. told' = [told EXCEPT ![w] = n]  BY <1>3
  <2> HIDE DEF t
  <2>3. n \in Told  BY <2>1 DEF Told
  <2> HIDE DEF n
  <2> QED BY <1>1, <2>2, <2>3
<1> QED BY <1>2, <1>3

LEMMA FinishExportKeeps == ASSUME WaysInv, NEW s \in Slots, FinishExport(s)  PROVE WaysInv'
<1> DEFINE w == jobs[s].w
           read == jobs[s].read
           old == jobs[s].read.envelope
           pw == jobs[s].pw
           at == fresh + 1
           phrase == words[w]
           contacts == noted[w].contacts
           f == SealBackup(at, old, contacts, pw, at)
           e == [file |-> f, pw |-> pw, phrase |-> phrase, contacts |-> contacts]
           r == [records[w] EXCEPT !["backupAt"] = at]
<1>0. KeysType /\ GoodWays /\ GoodExports  BY DEF WaysInv
<1>1. jobs[s].op = "export" /\ jobs' = [jobs EXCEPT ![s] = Nothing]  BY DEF FinishExport, Ends
<1>2. w \in Wallets /\ old \in Envelope /\ GoodEnvelope(old, phrase) /\ pw \in Password  BY <1>0, <1>1, JobGood
<1>3. fresh' \in Nat /\ at \in Nat  BY <1>0, FreshNext DEF FinishExport
<1>4. jobs' \in [Slots -> Job] /\ \A x \in Slots : Goes(x)  BY <1>0, <1>1, JobEnds
<1>5. UNCHANGED <<noted, words>>  BY DEF FinishExport
<1>6. /\ records' = Patch(w, read, "backupAt", at)
      /\ told' = IF records[w] = None THEN told ELSE [told EXCEPT ![w] = [@ EXCEPT !.backup = pw, !.unsaid = FALSE]]
      /\ files' = files \cup {f} /\ exported' = exported \cup {e}
  BY DEF FinishExport
<1>7. contacts \in Nat  BY <1>0, <1>2 DEF KeysType
<1>8. told' \in [Wallets -> Told \cup {None}] /\ \A u \in Wallets : told[u] \in Told => told'[u] \in Told
  BY <1>0, <1>2, <1>6, ExportTells
<1> HIDE DEF w, read, old, pw, at, phrase, contacts
<1>9. e \in Export /\ WellMade(e) /\ e.file = f
  <2>1. e.file = f  OBVIOUS
  <2>2. f = SealBackup(at, old, contacts, pw, at) /\ e = [file |-> f, pw |-> pw, phrase |-> phrase, contacts |-> contacts]  OBVIOUS
  <2> HIDE DEF f, e
  <2>3. e \in Export /\ WellMade(e)  BY <1>2, <1>3, <1>7, <2>2, SealedFile
  <2> QED BY <2>1, <2>3
<1> HIDE DEF f, e
<1>10. (files \subseteq File)' /\ (exported \subseteq Export)'  BY <1>0, <1>6, <1>9, FilesGrow
<1>11. records[w] # None => r \in Record /\ GoodRecord(r, words[w]) /\ SameInside(r.envelope, records[w].envelope)
  BY <1>0, <1>2, <1>3, ConfirmFieldGood
<1>12. records' \in [Wallets -> Record \cup {None}] /\ \A u \in Wallets : Moves(u)
  BY <1>0, <1>2, <1>6, <1>8, <1>11, PatchMoves
<1>13. KeysType'  BY <1>0, <1>3, <1>4, <1>5, <1>8, <1>10, <1>12 DEF KeysType
<1>14. GoodWays'  BY <1>0, <1>4, <1>5, <1>12, <1>13, WaysMove
<1>15. GoodExports'  BY <1>0, <1>6, <1>9 DEF GoodExports, WellMade
<1> QED BY <1>13, <1>14, <1>15 DEF WaysInv

LEMMA TornFileIsOne == TornFile \in File
<1>1. MaxFresh \in Nat  BY KeysAssumption, Zenon
<1>2. MaxFresh + 1 \in Nat /\ Default(MaxFresh + 1) \in Kdf  BY <1>1 DEF Default, Kdf
<1> QED BY <1>2 DEF TornFile, File

LEMMA Altered ==
    ASSUME NEW f \in File, NEW g \in File, NEW part \in Parts
    PROVE  [f EXCEPT ![part] = g[part]] \in File
BY DEF File, Parts

LEMMA AlterKeeps ==
    ASSUME WaysInv, NEW f \in files, NEW g \in files \cup {TornFile}, NEW part \in Parts, Alter(f, g, part)
    PROVE  WaysInv'
<1>0. KeysType /\ GoodWays /\ GoodExports  BY DEF WaysInv
<1>1. UNCHANGED <<records, noted, jobs, fresh, words, told, exported>> /\ files' = (files \ {f}) \cup {[f EXCEPT ![part] = g[part]]}
  BY DEF Alter
<1>2. files \subseteq File /\ g \in File  BY <1>0, TornFileIsOne DEF KeysType
<1>3. [f EXCEPT ![part] = g[part]] \in File  BY <1>2, Altered
<1>4. files' \subseteq File  BY <1>1, <1>2, <1>3
<1>5. File' = File  BY <1>1 DEF File
<1>6. KeysType'  BY <1>0, <1>1, <1>4, <1>5 DEF KeysType
<1>7. \A u \in Wallets : Moves(u)  BY <1>0, <1>1, WalletStays
<1>8. \A s \in Slots : Goes(s)  BY <1>0, <1>1, JobsStay
<1>9. GoodWays'  BY <1>0, <1>1, <1>6, <1>7, <1>8, WaysMove
<1>10. GoodExports'  BY <1>0, <1>1 DEF GoodExports, WellMade
<1> QED BY <1>6, <1>9, <1>10 DEF WaysInv

LEMMA WaysInit == Init => WaysInv
<1> SUFFICES ASSUME Init  PROVE WaysInv
  OBVIOUS
<1>1. PICK p \in Phrase, pw \in Password : files = {LegacyFile(1, SealSeed(p, pw, 1, Old(1)), 1)}  BY DEF Init
<1> DEFINE v == SealSeed(p, pw, 1, Old(1))
           f == LegacyFile(1, v, 1)
<1>2. Old(1) \in Kdf /\ 1 \in Nat  BY DEF Old, Kdf
<1>3. v \in Envelope  BY <1>2, DrawsFresh
<1> HIDE DEF v
<1>4. v.kdf \in Kdf /\ v.wrapped \in Wrap /\ v.seed \in SeedBox  BY <1>3 DEF Envelope
<1>5. f = [version |-> 2, head |-> 1, kdf |-> v.kdf, wrapped |-> v.wrapped, seed |-> v.seed, bound |-> Torn, sealed |-> Box(None, 1, None)]
  BY DEF LegacyFile
<1>6. Box(None, 1, None) \in BoxOf({None}, Nat)  BY DEF Box, BoxOf
<1>7. f \in File
  <2> DEFINE b == Box(None, 1, None)
  <2>1. b \in BoxOf({None}, Nat) /\ f = [version |-> 2, head |-> 1, kdf |-> v.kdf, wrapped |-> v.wrapped, seed |-> v.seed, bound |-> Torn, sealed |-> b]
    BY <1>5, <1>6
  <2> HIDE DEF b, f
  <2> QED BY <1>4, <2>1 DEF File
<1>8. files = {f}  BY <1>1 DEF v
<1> HIDE DEF f
<1>9. \A s \in Slots : jobs[s] = Nothing  BY DEF Init
<1>10. KeysType
  <2>1. jobs \in [Slots -> Job]  BY NothingIsNone DEF Init
  <2>2. records \in [Wallets -> Record \cup {None}] /\ words \in [Wallets -> Phrase \cup {None}] /\ told \in [Wallets -> Told \cup {None}]
    BY DEF Init
  <2>3. noted \in [Wallets -> [changedAt : Nat, contacts : Nat]] /\ fresh \in Nat  BY DEF Init
  <2>4. exported \subseteq Export  BY DEF Init
  <2> QED BY <1>7, <1>8, <2>1, <2>2, <2>3, <2>4 DEF KeysType
<1>11. GoodWays
  <2>1. \A w \in Wallets : records[w] = None  BY DEF Init
  <2>2. \A s \in Slots : GoodJob(jobs[s])  BY <1>9, NothingIsNone DEF GoodJob
  <2> QED BY <2>1, <2>2 DEF GoodWays
<1>12. GoodExports  BY DEF Init, GoodExports
<1> QED BY <1>10, <1>11, <1>12 DEF WaysInv

LEMMA WaysNext == WaysInv /\ [Next]_vars => WaysInv'
<1> SUFFICES ASSUME WaysInv, [Next]_vars  PROVE WaysInv'
  OBVIOUS
<1>1. ASSUME NEW w \in Live, Forms(w)  PROVE WaysInv'
  <2>1. w \in Wallets  BY DEF Live
  <2>2. CASE DisablePasskey(w)  BY <2>1, <2>2, DisablePasskeyKeeps
  <2>3. CASE ConfirmOn(w)  BY <2>1, <2>3, ConfirmOnKeeps
  <2>4. CASE AddContact(w) \/ DeleteAccount(w)  BY <2>1, <2>4, SmallKeep
  <2>5. CASE \/ \E pw \in Password :
                  \/ \E new \in Password : BeginChange(w, pw, new)
                  \/ BeginPasskey(w, pw) \/ BeginConfirmOff(w, pw) \/ BeginExport(w, pw) \/ BeginUnlock(w, pw)
             \/ \E new \in Password : BeginReset(w, new)
             \/ BeginConfirmOffPasskey(w) \/ BeginUnlockPasskey(w)
    BY <2>1, <2>5, BeginKeeps
  <2> QED BY <1>1, <2>2, <2>3, <2>4, <2>5 DEF Forms
<1>2. ASSUME NEW s \in Slots, Finishes(s)  PROVE WaysInv'
  BY <1>2, PasswordsKeep, NotesKeep, FinishPasskeyKeeps, SmallKeep, FinishConfirmOffKeeps, FinishExportKeeps, FinishUnlockKeeps, StrengthenKeeps
  DEF Finishes
<1>3. ASSUME NEW w \in Unused, NEW pw \in Password, NEW phrase \in Phrase, CreateAccount(w, phrase, pw)  PROVE WaysInv'
  BY <1>3, CreateKeeps
<1>4. ASSUME NEW w \in Unused, NEW pw \in Password, NEW f \in files, ImportFile(w, f, pw)  PROVE WaysInv'
  BY <1>4, ImportKeeps
<1>5. ASSUME NEW f \in files, NEW g \in files \cup {TornFile}, NEW part \in Parts, Alter(f, g, part)  PROVE WaysInv'
  BY <1>5, AlterKeeps
<1>6. CASE UNCHANGED vars
  <2>1. UNCHANGED <<records, noted, jobs, files, fresh, words, told, exported>>  BY <1>6 DEF vars
  <2>2. KeysType /\ fresh' \in Nat  BY <2>1 DEF WaysInv, KeysType
  <2>3. jobs' \in [Slots -> Job] /\ \A x \in Slots : Goes(x)  BY <2>1, <2>2, JobsStay
  <2>4. \A u \in Wallets : Moves(u)  BY <2>1, WalletStays DEF WaysInv
  <2> QED BY <2>1, <2>2, <2>3, <2>4, WaysKept DEF KeysType
<1> QED BY <1>1, <1>2, <1>3, <1>4, <1>5, <1>6 DEF Next

LEMMA WaysAlways == Spec => []WaysInv
BY WaysInit, WaysNext, PTL DEF Spec

LEMMA EnvelopeOpens ==
    ASSUME NEW v \in Envelope, NEW phrase, GoodEnvelope(v, phrase)
    PROVE  /\ \E pw \in Password : PasswordOpens(v, pw)
           /\ SeedOpens(v, ContentKey(v)) /\ v.seed.plain = phrase
           /\ \A pw \in Password : PasswordOpens(v, pw) <=> v.wrapped.key = Derived(pw, v.kdf)
<1>1. /\ v.wrapped.key \in PasswordKey /\ v.wrapped.aad = None /\ v.seed.aad = None
  BY DEF Envelope, Wrap, SeedBox, BoxOf
<1> DEFINE k == v.wrapped.key
<1>2. k[2] \in Password /\ k = Derived(k[2], v.kdf)  BY <1>1, Keys DEF GoodEnvelope
<1>3. \A pw \in Password : PasswordOpens(v, pw) <=> k = Derived(pw, v.kdf)
  BY <1>1 DEF PasswordOpens, Opens
<1>4. SeedOpens(v, ContentKey(v)) /\ v.seed.plain = phrase  BY <1>1 DEF GoodEnvelope, SeedOpens, Opens, ContentKey
<1> QED BY <1>2, <1>3, <1>4

LEMMA WaysAgree == WaysInv => WaysInAgree
<1> SUFFICES ASSUME WaysInv, NEW w \in Live
             PROVE  LET r == records[w] IN
                    /\ r.envelope.seed.plain = words[w]
                    /\ \E pw \in Password : PasswordOpens(r.envelope, pw) /\ SeedOpens(r.envelope, ContentKey(r.envelope))
                    /\ r.passkey # None => Opens(r.passkey.secret, r.passkey.wrapped, None) /\ SeedOpens(r.envelope, r.passkey.wrapped.plain)
                    /\ r.phraseWrap # None => Opens(SeedUnlockKey(words[w]), r.phraseWrap, None) /\ SeedOpens(r.envelope, r.phraseWrap.plain)
  BY DEF WaysInAgree
<1> DEFINE r == records[w]
<1>1. /\ r \in Record /\ GoodRecord(r, words[w])
      /\ GoodEnvelope(r.envelope, words[w]) /\ r.envelope \in Envelope
  BY LiveGood DEF WaysInv, Live
<1> HIDE DEF r
<1>2. /\ \E pw \in Password : PasswordOpens(r.envelope, pw)
      /\ SeedOpens(r.envelope, ContentKey(r.envelope)) /\ r.envelope.seed.plain = words[w]
  BY <1>1, EnvelopeOpens
<1>3. r.passkey # None => Opens(r.passkey.secret, r.passkey.wrapped, None) /\ SeedOpens(r.envelope, r.passkey.wrapped.plain)
  <2>1. SUFFICES ASSUME r.passkey # None
                 PROVE  Opens(r.passkey.secret, r.passkey.wrapped, None) /\ SeedOpens(r.envelope, r.passkey.wrapped.plain)
    OBVIOUS
  <2>2. r.passkey \in Passkey  BY <1>1, <2>1 DEF Record
  <2>3. r.passkey.wrapped.aad = None  BY <2>2 DEF Passkey, BoxOf
  <2>4. r.passkey.wrapped.key = r.passkey.secret /\ r.passkey.wrapped.plain = ContentKey(r.envelope)
    BY <1>1, <2>1 DEF GoodRecord
  <2> QED BY <1>2, <2>3, <2>4 DEF Opens
<1>4. r.phraseWrap # None => Opens(SeedUnlockKey(words[w]), r.phraseWrap, None) /\ SeedOpens(r.envelope, r.phraseWrap.plain)
  <2>1. SUFFICES ASSUME r.phraseWrap # None
                 PROVE  Opens(SeedUnlockKey(words[w]), r.phraseWrap, None) /\ SeedOpens(r.envelope, r.phraseWrap.plain)
    OBVIOUS
  <2>2. r.phraseWrap \in PhraseWrap  BY <1>1, <2>1 DEF Record
  <2>3. r.phraseWrap.aad = None  BY <2>2 DEF PhraseWrap, BoxOf
  <2>4. r.phraseWrap.key = SeedUnlockKey(words[w]) /\ r.phraseWrap.plain = ContentKey(r.envelope)
    BY <1>1, <2>1 DEF GoodRecord
  <2> QED BY <1>2, <2>3, <2>4 DEF Opens
<1> QED BY <1>2, <1>3, <1>4 DEF r

(* Every way in opens the wallet's own words: with any number of wallets,   *)
(* operations and files, altered ones too, and whatever overtakes what      *)
(* (sealSeed, withNewPassword, enablePasskey, keepSeedUnlock, openBackup).  *)
THEOREM EveryWayIn == Spec => []WaysInAgree
BY WaysAlways, WaysAgree, PTL

\* What was made is what it was made from.
LEMMA SavedOpens ==
    ASSUME KeysType, GoodExports, NEW e \in exported, NEW pw \in Password
    PROVE  /\ Answers(e.file, pw).said # "altered"
           /\ e.pw = pw => Answers(e.file, pw).said = "restored"
<1> DEFINE f == e.file
<1>1. /\ f.version = 3 /\ f.wrapped \in Wrap /\ f.seed \in SeedBox /\ e.pw \in Password
  BY ExportFields
<1>2. WellMade(e)  BY DEF GoodExports
<1>3. f.wrapped.aad = None /\ f.seed.aad = None  BY <1>1 DEF Wrap, SeedBox, BoxOf
<1>4. Answers(f, pw) = OpenBackup(f, pw)  BY <1>1 DEF Answers
<1> HIDE DEF f
<1>5. /\ Opens(f.wrapped.plain, f.bound, Readable(f)) /\ Opens(f.bound.plain, f.sealed, Everything(f))
      /\ Opens(f.bound.plain, f.seed, None) /\ Opens(Derived(e.pw, f.kdf), f.wrapped, None)
  BY <1>2, <1>3 DEF WellMade, Opens, f
<1>6. OpenBackup(f, pw).said # "altered" /\ (e.pw = pw => OpenBackup(f, pw).said = "restored")
  BY <1>5 DEF OpenBackup
<1> QED BY <1>4, <1>6 DEF f

LEMMA AnswersAreTrue == WaysInv => AnswersTrue
<1> SUFFICES ASSUME WaysInv, NEW f \in files, NEW pw \in Password, f.version = 3
             PROVE  LET said == Answers(f, pw).said
                        saved == {e \in exported : e.file = f} IN
                    /\ said = "restored" => \E e \in saved : e.pw = pw /\ e.phrase = f.seed.plain /\ e.contacts = Listed(f.sealed)
                    /\ said = "altered" => saved = {}
                    /\ said = "wrong password" => \A e \in saved : e.pw # pw
  BY DEF AnswersTrue
<1> DEFINE said == Answers(f, pw).said
           saved == {e \in exported : e.file = f}
<1>0. KeysType /\ GoodExports  BY DEF WaysInv
<1>1. said = "restored" => \E e \in saved : e.pw = pw /\ e.phrase = f.seed.plain /\ e.contacts = Listed(f.sealed)
  <2>1. SUFFICES ASSUME said = "restored"
                 PROVE  \E e \in saved : e.pw = pw /\ e.phrase = f.seed.plain /\ e.contacts = Listed(f.sealed)
    OBVIOUS
  <2>2. Restored(f, pw, Answers(f, pw).content)  BY <1>0, <2>1, RestoredIs
  <2>3. PICK e \in exported : e.file = f /\ e.pw = pw  BY <2>2 DEF Restored
  <2>4. WellMade(e)  BY <1>0 DEF GoodExports
  <2>5. e.file.sealed \in Sealed /\ e.file.sealed.key \in RawKey  BY <1>0, ExportFields DEF Sealed
  <2>6. f.sealed # Torn  BY <2>3, <2>5, TornIs, Keys
  <2>7. e.phrase = f.seed.plain /\ e.contacts = f.sealed.plain  BY <2>3, <2>4 DEF WellMade
  <2> QED BY <2>3, <2>6, <2>7 DEF Listed
<1>2. said = "altered" => saved = {}  BY <1>0, SavedOpens
<1>3. said = "wrong password" => \A e \in saved : e.pw # pw  BY <1>0, SavedOpens
<1> QED BY <1>1, <1>2, <1>3

(* What a restore says is so, of every file, however it was put together of *)
(* parts of others or torn, any number of times, and every password typed   *)
(* (sealBackup, openBackup, readablePart).                                  *)
THEOREM RestoreSaysWhatIsSo == Spec => []AnswersTrue
BY WaysAlways, AnswersAreTrue, PTL

(* What was told, step by step *)

NoteAfter(u) == \E s \in Slots : jobs'[s].op = "note" /\ jobs'[s].w = u
StillTold(u) ==
    records'[u] # None => records'[u].envelope.kdf.salt <= fresh' /\ Holds(records'[u], told'[u], noted'[u], fresh', NoteAfter(u))
\* Notes under way are, after the step.
NotesKept == \A u \in Wallets : NoteUnderWay(u) => NoteAfter(u)
StillRead(s) ==
    jobs'[s].op # "none" =>
        /\ jobs'[s].read.envelope.kdf.salt <= fresh'
        /\ records'[jobs'[s].w] # None /\ jobs'[s].read.envelope.kdf.salt = records'[jobs'[s].w].envelope.kdf.salt
              => jobs'[s].read.envelope = records'[jobs'[s].w].envelope

LEMMA AckedMoveFiles ==
    ASSUME AckedInv, \A u \in Wallets : StillTold(u), \A s \in Slots : StillRead(s),
           KeysType, fresh' \in Nat, fresh' >= fresh,
           \A f \in files' : f \in files \/ f.wrapped = Torn \/ f.wrapped.key[3].salt <= fresh',
           \A e \in exported' : e \in exported \/ e.file.head <= fresh'
    PROVE  AckedInv'
<1>1. ToldHolds'  BY DEF StillTold, ToldHolds, Holds, Derived, NoteAfter, NoteUnderWay
<1>2. SaltTells'  BY DEF StillRead, SaltTells
<1>3. ASSUME NEW f \in files', f.wrapped # Torn  PROVE f.wrapped.key[3].salt <= fresh'
  <2> SUFFICES ASSUME f \in files  PROVE f.wrapped.key[3].salt <= fresh'
    BY <1>3
  <2>1. f.wrapped.key[3].salt <= fresh  BY <1>3 DEF AckedInv, SaltsDrawn
  <2>2. f.wrapped \in Wrap  BY <1>3, FileFields
  <2>3. f.wrapped.key \in PasswordKey  BY <2>2 DEF Wrap, BoxOf
  <2>4. f.wrapped.key[3] \in Kdf  BY <2>3, Keys
  <2>5. f.wrapped.key[3].salt \in Nat  BY <2>4 DEF Kdf
  <2> QED BY <2>1, <2>5 DEF KeysType
<1>4. ASSUME NEW e \in exported'  PROVE e.file.head <= fresh'
  <2> SUFFICES ASSUME e \in exported  PROVE e.file.head <= fresh'
    OBVIOUS
  <2>1. e.file.head <= fresh /\ e.file.head \in Nat  BY ExportFields DEF AckedInv, SaltsDrawn
  <2> QED BY <2>1 DEF KeysType
<1>5. SaltsDrawn'
  BY <1>3, <1>4 DEF SaltsDrawn, StillTold, StillRead
<1> QED BY <1>1, <1>2, <1>5 DEF AckedInv

LEMMA AckedMove ==
    ASSUME AckedInv, \A u \in Wallets : StillTold(u), \A s \in Slots : StillRead(s),
           KeysType, fresh' \in Nat, fresh' >= fresh, UNCHANGED <<files, exported>>
    PROVE  AckedInv'
BY AckedMoveFiles

LEMMA SaltIsNumber == ASSUME NEW v \in Envelope  PROVE v.kdf.salt \in Nat
BY DEF Envelope, Kdf

LEMMA ToldStays ==
    ASSUME WaysInv, AckedInv, NEW u \in Wallets, fresh' \in Nat, fresh' >= fresh,
           records'[u] = records[u], told'[u] = told[u], noted'[u].changedAt = noted[u].changedAt,
           NoteUnderWay(u) => NoteAfter(u)
    PROVE  StillTold(u)
<1> SUFFICES ASSUME records[u] # None  PROVE StillTold(u)
  BY DEF StillTold
<1>1. records[u].envelope \in Envelope /\ records[u].backupAt \in Nat /\ fresh \in Nat  BY LiveGood DEF WaysInv, Record, KeysType
<1>2. records[u].envelope.kdf.salt \in Nat  BY <1>1, SaltIsNumber
<1>3. records[u].envelope.kdf.salt <= fresh /\ Holds(records[u], told[u], noted[u], fresh, NoteUnderWay(u))
  BY DEF AckedInv, SaltsDrawn, ToldHolds
<1>4. records'[u].envelope.kdf.salt <= fresh'  BY <1>1, <1>2, <1>3
<1> DEFINE at == records[u].backupAt
<1>5. at \in Nat /\ (at <= fresh => at <= fresh') /\ (at < fresh => at < fresh')  BY <1>1
<1>6. records'[u].backupAt = at  OBVIOUS
<1>7. Holds(records'[u], told'[u], noted'[u], fresh', NoteAfter(u))
  BY <1>3, <1>5, <1>6 DEF Holds, Derived
<1> QED BY <1>4, <1>7 DEF StillTold

\* A step leaves a wallet its envelope, or gives it one with a new salt.
EnvelopeKept(u) ==
    records'[u] # None =>
        /\ records[u] # None
        /\ records'[u].envelope = records[u].envelope \/ records'[u].envelope.kdf.salt = fresh + 1

LEMMA ReadStays ==
    ASSUME WaysInv, AckedInv, NEW s \in Slots, jobs'[s] = jobs[s] \/ jobs'[s].op = "none" \/ ToNote(s), fresh' \in Nat, fresh' >= fresh,
           \A u \in Wallets : jobs[s].w = u => EnvelopeKept(u)
    PROVE  StillRead(s)
<1>0. jobs[s] \in Job  BY DEF WaysInv, KeysType
<1> SUFFICES ASSUME jobs'[s].w = jobs[s].w, jobs'[s].read = jobs[s].read, jobs[s].op # "none"  PROVE StillRead(s)
  BY <1>0 DEF StillRead, ToNote, Job
<1> DEFINE w == jobs[s].w
           salt == jobs[s].read.envelope.kdf.salt
<1>1. w \in Wallets /\ jobs[s].read.envelope \in Envelope /\ fresh \in Nat  BY JobGood DEF WaysInv, KeysType
<1>2. salt \in Nat  BY <1>1, SaltIsNumber
<1>3. salt <= fresh  BY DEF AckedInv, SaltsDrawn
<1>4. salt <= fresh' /\ salt # fresh + 1  BY <1>1, <1>2, <1>3
<1>5. records'[w] # None /\ salt = records'[w].envelope.kdf.salt => jobs[s].read.envelope = records'[w].envelope
  <2>1. SUFFICES ASSUME records'[w] # None, salt = records'[w].envelope.kdf.salt
                 PROVE  jobs[s].read.envelope = records'[w].envelope
    OBVIOUS
  <2>2. records[w] # None /\ records'[w].envelope = records[w].envelope  BY <1>1, <1>4, <2>1 DEF EnvelopeKept
  <2> QED BY <2>1, <2>2 DEF AckedInv, SaltTells
<1> QED BY <1>4, <1>5 DEF StillRead

\* What a step tells of one wallet.
TF(t, password, passkey, confirm, backup, unsaid) ==
    /\ t \in Told /\ t.password = password /\ t.passkey = passkey /\ t.confirm = confirm
    /\ t.backup = backup /\ t.unsaid = unsaid

LEMMA ToldFields ==
    ASSUME NEW t \in Told
    PROVE  /\ \A v \in Password : TF([t EXCEPT !["password"] = v], v, t.passkey, t.confirm, t.backup, t.unsaid)
           /\ \A v \in BOOLEAN : TF([t EXCEPT !["passkey"] = v], t.password, v, t.confirm, t.backup, t.unsaid)
           /\ \A v \in BOOLEAN : TF([t EXCEPT !["confirm"] = v], t.password, t.passkey, v, t.backup, t.unsaid)
           /\ \A v \in BOOLEAN : TF([t EXCEPT !["unsaid"] = v], t.password, t.passkey, t.confirm, t.backup, v)
           /\ \A v \in Password : TF([t EXCEPT !.backup = v, !.unsaid = FALSE], t.password, t.passkey, t.confirm, v, FALSE)
BY DEF Told, TF

\* A patch of one field, and what is told of it.
OneTold(w, r, t) ==
    /\ records' \in [Wallets -> Record \cup {None}]
    /\ records[w] # None => records'[w] = r /\ told'[w] = t
    /\ records[w] = None => records'[w] = None
    /\ \A u \in Wallets : u # w => records'[u] = records[u] /\ told'[u] = told[u]

LEMMA PatchTold ==
    ASSUME WaysInv, NEW w \in Wallets, NEW read, NEW field, NEW v, NEW r, r = [records[w] EXCEPT ![field] = v],
           records' = Patch(w, read, field, v), records[w] # None => r \in Record,
           NEW named, NEW x, NEW t, t = [told[w] EXCEPT ![named] = x], Tells(w, named, x)
    PROVE  OneTold(w, r, t)
<1>1. OneChanged(records', records, w, r)  BY PatchChanges DEF WaysInv
<1>2. told \in [Wallets -> Told \cup {None}]  BY DEF WaysInv, KeysType
<1>3. (records[w] # None => told'[w] = t) /\ \A u \in Wallets : u # w => told'[u] = told[u]
  BY <1>2 DEF Tells
<1> QED BY <1>1, <1>3 DEF OneChanged, OneTold

LEMMA OneTells ==
    ASSUME WaysInv, AckedInv, NEW w \in Wallets, NEW r, NEW t, OneTold(w, r, t), fresh' \in Nat, fresh' >= fresh,
           \A u \in Wallets : u # w => noted'[u].changedAt = noted[u].changedAt /\ (NoteUnderWay(u) => NoteAfter(u)),
           records[w] # None => StillTold(w)
    PROVE  \A u \in Wallets : StillTold(u)
<1> TAKE u \in Wallets
<1>1. CASE u # w  BY <1>1, ToldStays DEF OneTold
<1>2. CASE u = w  BY <1>2 DEF OneTold, StillTold
<1> QED BY <1>1, <1>2

LEMMA OneReads ==
    ASSUME WaysInv, AckedInv, NEW w \in Wallets, NEW r, NEW t, OneTold(w, r, t), fresh' \in Nat, fresh' >= fresh,
           \A s \in Slots : jobs'[s] = jobs[s] \/ jobs'[s].op = "none" \/ ToNote(s),
           records[w] # None => r.envelope = records[w].envelope \/ r.envelope.kdf.salt = fresh + 1
    PROVE  \A s \in Slots : StillRead(s)
<1>1. \A u \in Wallets : EnvelopeKept(u)  BY DEF OneTold, EnvelopeKept
<1> QED BY <1>1, ReadStays

LEMMA NotesStay ==
    ASSUME NEW s \in Slots, jobs[s].op # "note", \A x \in Slots : x # s => jobs'[x] = jobs[x]
    PROVE  NotesKept
BY DEF NotesKept, NoteAfter, NoteUnderWay

LEMMA SlotEnds ==
    ASSUME KeysType, NEW s \in Slots, jobs' = [jobs EXCEPT ![s] = Nothing]
    PROVE  /\ \A x \in Slots : jobs'[x] = jobs[x] \/ jobs'[x].op = "none"
           /\ jobs[s].op # "note" => NotesKept
<1>1. jobs'[s] = Nothing /\ \A x \in Slots : x # s => jobs'[x] = jobs[x]  BY DEF KeysType
<1> QED BY <1>1, NothingIsNone, NotesStay

\* What holds of a wallet there is.
LEMMA WhatHolds ==
    ASSUME WaysInv, AckedInv, NEW w \in Wallets, records[w] # None
    PROVE  /\ records[w] \in Record /\ told[w] \in Told /\ fresh \in Nat
           /\ records[w].envelope.kdf.salt \in Nat /\ records[w].envelope.kdf.salt <= fresh
           /\ Holds(records[w], told[w], noted[w], fresh, NoteUnderWay(w)) /\ records[w].backupAt \in Nat
<1>1. records[w] \in Record /\ told[w] \in Told /\ fresh \in Nat  BY LiveGood DEF WaysInv, KeysType
<1>2. records[w].envelope \in Envelope /\ records[w].backupAt \in Nat  BY <1>1 DEF Record
<1> QED BY <1>1, <1>2, SaltIsNumber DEF AckedInv, SaltsDrawn, ToldHolds

LEMMA SetsPasswordTold ==
    ASSUME WaysInv, AckedInv, NEW s \in Slots, jobs[s].op \in {"change", "reset"},
           SetsPassword(s, jobs[s].w, jobs[s].new)
    PROVE  AckedInv'
<1> DEFINE w == jobs[s].w
           read == jobs[s].read
           old == jobs[s].read.envelope
           new == jobs[s].new
           v == WithNewPassword(old, new, fresh + 1)
           r == [records[w] EXCEPT !["envelope"] = v]
           t == [told[w] EXCEPT !["password"] = new]
<1>0. KeysType /\ GoodWays  BY DEF WaysInv
<1>1. /\ w \in Wallets /\ old \in Envelope /\ GoodEnvelope(old, words[w]) /\ new \in Password
      /\ records[w] # None => SameInside(old, records[w].envelope)
  BY <1>0, JobGood
<1>2. fresh' = fresh + 1 /\ fresh' \in Nat /\ fresh + 1 \in Nat /\ fresh' >= fresh /\ fresh \in Nat
  BY <1>0, FreshNext DEF SetsPassword, KeysType
<1>3. UNCHANGED <<noted, files, words, exported>>  BY DEF SetsPassword
<1>4. CASE Unchanged(w, read)
  <2>1. records' = Patch(w, read, "envelope", v) /\ Tells(w, "password", new)
        /\ jobs' = [jobs EXCEPT ![s].op = "note"]
    BY <1>4 DEF SetsPassword
  <2>a. jobs'[s] = [jobs[s] EXCEPT !.op = "note"] /\ \A x \in Slots : x # s => jobs'[x] = jobs[x]
    BY <1>0, <2>1 DEF KeysType
  <2>b. \A x \in Slots : jobs'[x] = jobs[x] \/ jobs'[x].op = "none" \/ ToNote(x)  BY <2>a DEF ToNote
  <2>c. NotesKept  BY <2>a, NotesStay
  <2>d. NoteAfter(w)
    <3> DEFINE j == jobs[s]
    <3>1. j \in Job /\ jobs'[s] = [j EXCEPT !.op = "note"] /\ j.w = w  BY <1>0, <2>a DEF KeysType
    <3> HIDE DEF j, w
    <3>2. jobs'[s].op = "note" /\ jobs'[s].w = w  BY <3>1 DEF Job
    <3> QED BY <3>2 DEF NoteAfter
  <2>2. records[w] # None  BY <1>4 DEF Unchanged
  <2>3. records[w] \in Record /\ GoodRecord(records[w], words[w])  BY <1>0, <1>1, <2>2, LiveGood
  <2>4. words[w] \in Phrase  BY <1>1 DEF GoodEnvelope, Envelope, SeedBox, BoxOf
  <2> HIDE DEF w, old, new, read
  <2>5. /\ Fields(r, v, records[w].phraseWrap, records[w].passkey, records[w].confirm, records[w].backupAt)
        /\ v.kdf = Default(fresh + 1) /\ v.wrapped.key = Derived(new, Default(fresh + 1))
    BY <1>1, <1>2, <2>2, <2>3, <2>4, NewEnvelope
  <2>6. v.kdf.salt = fresh + 1  BY <2>5 DEF Default
  <2> HIDE DEF v
  <2>7. OneTold(w, r, t)  BY <1>1, <2>1, <2>5, PatchTold DEF Fields
  <2>8. TF(t, new, told[w].passkey, told[w].confirm, told[w].backup, told[w].unsaid)  BY <1>0, <1>1, <2>2, LiveGood, ToldFields
  <2>9. Holds(records[w], told[w], noted[w], fresh, NoteUnderWay(w)) /\ records[w].backupAt \in Nat  BY <1>1, <2>2, WhatHolds
  <2> HIDE DEF r, t
  <2>11. records'[w] = r /\ told'[w] = t  BY <2>2, <2>7 DEF OneTold
  <2>12. Holds(records'[w], told'[w], noted'[w], fresh', NoteAfter(w))
    <3> DEFINE at == records[w].backupAt
    <3>1. at \in Nat /\ r.backupAt = at /\ (at <= fresh => at <= fresh' /\ at < fresh')  BY <1>2, <2>5, <2>9 DEF Fields
    <3>2. r.envelope.wrapped.key = Derived(t.password, r.envelope.kdf)  BY <2>5, <2>8 DEF TF, Fields
    <3>3. (r.passkey # None) = t.passkey /\ r.confirm = t.confirm  BY <2>5, <2>8, <2>9 DEF TF, Fields, Holds
    <3>4. t.backup # None => at <= fresh  BY <2>8, <2>9 DEF TF, Holds
    <3> HIDE DEF at
    <3>5. t.backup # None => at <= fresh' /\ at < fresh'  BY <3>1, <3>4
    <3>6. Holds(r, t, noted'[w], fresh', NoteAfter(w))  BY <2>d, <3>1, <3>2, <3>3, <3>5 DEF Holds
    <3> QED BY <2>11, <3>6
  <2>13. StillTold(w)
    <3>1. r.envelope.kdf.salt = fresh + 1  BY <2>5, <2>6 DEF Fields
    <3> QED BY <1>2, <2>11, <2>12, <3>1 DEF StillTold
  <2>14. \A u \in Wallets : StillTold(u)  BY <1>1, <1>2, <1>3, <2>c, <2>7, <2>13, OneTells DEF NotesKept
  <2>15. r.envelope.kdf.salt = fresh + 1  BY <2>5, <2>6 DEF Fields
  <2>16. \A x \in Slots : StillRead(x)  BY <1>1, <1>2, <2>b, <2>7, <2>15, OneReads
  <2> QED BY <1>0, <1>2, <1>3, <2>14, <2>16, AckedMove
<1>5. CASE ~Unchanged(w, read)
  <2>1. UNCHANGED <<records, told>> /\ jobs' = [jobs EXCEPT ![s] = Nothing]  BY <1>5 DEF SetsPassword
  <2>5. NotesKept /\ \A x \in Slots : jobs'[x] = jobs[x] \/ jobs'[x].op = "none"  BY <1>0, <2>1, SlotEnds
  <2>2. \A u \in Wallets : StillTold(u)  BY <1>2, <1>3, <2>1, <2>5, ToldStays DEF NotesKept
  <2>3. \A u \in Wallets : EnvelopeKept(u)  BY <2>1 DEF EnvelopeKept
  <2>4. \A x \in Slots : StillRead(x)  BY <1>2, <2>3, <2>5, ReadStays
  <2> QED BY <1>0, <1>2, <1>3, <2>2, <2>4, AckedMove
<1> QED BY <1>4, <1>5

LEMMA NotesTold == ASSUME WaysInv, AckedInv, NEW s \in Slots, NotePasswordChanged(s) \/ LosesNote(s)  PROVE AckedInv'
<1> DEFINE w == jobs[s].w
           t == [told[w] EXCEPT !["unsaid"] = TRUE]
<1>0. KeysType /\ GoodWays  BY DEF WaysInv
<1>1. jobs[s].op = "note" /\ jobs' = [jobs EXCEPT ![s] = Nothing] /\ UNCHANGED <<records, files, fresh, words, exported>>
  BY DEF NotePasswordChanged, LosesNote, Ends
<1>2. w \in Wallets  BY <1>0, <1>1, JobGood
<1>3. fresh \in Nat /\ fresh' \in Nat /\ fresh' >= fresh  BY <1>0, <1>1 DEF KeysType
<1>4. \A x \in Slots : jobs'[x] = jobs[x] \/ jobs'[x].op = "none"  BY <1>0, <1>1, SlotEnds
<1>5. \A u \in Wallets : u # w => (NoteUnderWay(u) => NoteAfter(u))
  <2>1. \A x \in Slots : x # s => jobs'[x] = jobs[x]  BY <1>0, <1>1 DEF KeysType
  <2> QED BY <2>1 DEF NoteAfter, NoteUnderWay
<1>6. \A x \in Slots : StillRead(x)  BY <1>1, <1>3, <1>4, ReadStays DEF EnvelopeKept
<1>7. records[w] # None => Holds(records[w], told[w], noted[w], fresh, NoteUnderWay(w)) /\ records[w].backupAt \in Nat
        /\ records[w].envelope.kdf.salt <= fresh /\ told[w] \in Told
  BY <1>2, WhatHolds
<1>8. CASE NotePasswordChanged(s)
  <2>1. noted' = [noted EXCEPT ![w].changedAt = fresh] /\ told' = told  BY <1>8 DEF NotePasswordChanged
  <2>2. noted'[w].changedAt = fresh /\ \A u \in Wallets : u # w => noted'[u] = noted[u]  BY <1>0, <1>2, <2>1, NoteTyped
  <2>3. StillTold(w)
    <3>1. SUFFICES ASSUME records[w] # None  PROVE StillTold(w)
      BY <1>1 DEF StillTold
    <3> DEFINE at == records[w].backupAt
    <3>2. at \in Nat  BY <1>7, <3>1
    <3> HIDE DEF at
    <3>3. at < fresh => noted'[w].changedAt > at  BY <1>3, <2>2, <3>2
    <3> USE DEF at
    <3> HIDE DEF w
    <3>4. Holds(records[w], told[w], noted'[w], fresh, NoteAfter(w))  BY <1>7, <3>1, <3>3 DEF Holds
    <3> QED BY <1>1, <1>7, <2>1, <3>1, <3>4 DEF StillTold
  <2>4. \A u \in Wallets : u # w => StillTold(u)  BY <1>1, <1>3, <1>5, <2>1, <2>2, ToldStays
  <2> QED BY <1>0, <1>1, <1>3, <1>6, <2>3, <2>4, AckedMove
<1>9. CASE LosesNote(s)
  <2>1. Tells(w, "unsaid", TRUE) /\ noted' = noted  BY <1>9 DEF LosesNote
  <2>2. /\ records[w] # None => told'[w] = t
        /\ \A u \in Wallets : u # w => told'[u] = told[u]
    BY <1>0, <1>2, <2>1 DEF Tells, KeysType
  <2>3. StillTold(w)
    <3>1. SUFFICES ASSUME records[w] # None  PROVE StillTold(w)
      BY <1>1 DEF StillTold
    <3>2. TF(t, told[w].password, told[w].passkey, told[w].confirm, told[w].backup, TRUE)  BY <1>7, <3>1, ToldFields
    <3> HIDE DEF t, w
    <3>3. Holds(records[w], t, noted[w], fresh, NoteAfter(w))  BY <1>7, <3>1, <3>2 DEF Holds, TF
    <3> QED BY <1>1, <1>7, <2>1, <2>2, <3>1, <3>3 DEF StillTold
  <2>4. \A u \in Wallets : u # w => StillTold(u)  BY <1>1, <1>3, <1>5, <2>1, <2>2, ToldStays
  <2> QED BY <1>0, <1>1, <1>3, <1>6, <2>3, <2>4, AckedMove
<1> QED BY <1>8, <1>9

LEMMA DerivedTells ==
    ASSUME NEW a \in Password, NEW b \in Password, NEW kdf \in Kdf, Derived(a, kdf) = Derived(b, kdf)
    PROVE  a = b
BY Keys

\* The password an operation proved is the one told, while the envelope it read is there.
LEMMA ProvedIsTold ==
    ASSUME WaysInv, AckedInv, NEW s \in Slots, jobs[s].op # "none", jobs[s].pw \in Password,
           PasswordOpens(jobs[s].read.envelope, jobs[s].pw), Unchanged(jobs[s].w, jobs[s].read)
    PROVE  told[jobs[s].w].password = jobs[s].pw
<1> DEFINE w == jobs[s].w
           v == jobs[s].read.envelope
<1>1. w \in Wallets /\ v \in Envelope  BY JobGood DEF WaysInv
<1>2. records[w] # None /\ v = records[w].envelope  BY DEF Unchanged, AckedInv, SaltTells
<1>3. v.wrapped.key = Derived(jobs[s].pw, v.kdf)  BY DEF PasswordOpens, Opens
<1>4. v.wrapped.key = Derived(told[w].password, v.kdf) /\ told[w] \in Told  BY <1>1, <1>2, WhatHolds DEF Holds
<1>5. v.kdf \in Kdf /\ told[w].password \in Password  BY <1>1, <1>4 DEF Envelope, Told
<1> QED BY <1>3, <1>4, <1>5, DerivedTells

LEMMA StrengthenTold == ASSUME WaysInv, AckedInv, NEW s \in Slots, Strengthen(s)  PROVE AckedInv'
<1> DEFINE w == jobs[s].w
           read == jobs[s].read
           old == jobs[s].read.envelope
           new == jobs[s].pw
           v == WithNewPassword(old, new, fresh + 1)
           r == [records[w] EXCEPT !["envelope"] = v]
           t == told[w]
<1>0. KeysType /\ GoodWays  BY DEF WaysInv
<1>a. jobs[s].op = "strengthen" /\ jobs' = [jobs EXCEPT ![s] = Nothing]  BY DEF Strengthen, Ends
<1>1. /\ w \in Wallets /\ old \in Envelope /\ GoodEnvelope(old, words[w]) /\ new \in Password
      /\ PasswordOpens(old, new)
      /\ records[w] # None => SameInside(old, records[w].envelope)
  BY <1>0, <1>a, JobGood
<1>2. fresh' = fresh + 1 /\ fresh' \in Nat /\ fresh + 1 \in Nat /\ fresh' >= fresh /\ fresh \in Nat
  BY <1>0, FreshNext DEF Strengthen, KeysType
<1>3. \A x \in Slots : jobs'[x] = jobs[x] \/ jobs'[x].op = "none"  BY <1>0, <1>a, SlotEnds
<1>c. NotesKept  BY <1>0, <1>a, SlotEnds
<1>b. UNCHANGED <<noted, files, told, exported>>  BY DEF Strengthen
<1>4. CASE Unchanged(w, read)
  <2>1. records' = Patch(w, read, "envelope", v)  BY <1>4 DEF Strengthen
  <2>2. records[w] # None  BY <1>4 DEF Unchanged
  <2>3. records[w] \in Record /\ GoodRecord(records[w], words[w])  BY <1>0, <1>1, <2>2, LiveGood
  <2>4. words[w] \in Phrase  BY <1>1 DEF GoodEnvelope, Envelope, SeedBox, BoxOf
  <2>a. told[w].password = new  BY <1>a, <1>1, <1>4, ProvedIsTold
  <2> HIDE DEF w, old, new, read
  <2>5. /\ Fields(r, v, records[w].phraseWrap, records[w].passkey, records[w].confirm, records[w].backupAt)
        /\ v.kdf = Default(fresh + 1) /\ v.wrapped.key = Derived(new, Default(fresh + 1))
    BY <1>1, <1>2, <2>2, <2>3, <2>4, NewEnvelope
  <2>6. v.kdf.salt = fresh + 1  BY <2>5 DEF Default
  <2> HIDE DEF v
  <2>7. OneTold(w, r, t)
    <3>1. OneChanged(records', records, w, r)  BY <1>0, <1>1, <2>1, <2>5, PatchChanges DEF Fields
    <3> QED BY <1>b, <2>2, <3>1 DEF OneChanged, OneTold
  <2>9. Holds(records[w], told[w], noted[w], fresh, NoteUnderWay(w)) /\ records[w].backupAt \in Nat  BY <1>1, <2>2, WhatHolds
  <2> HIDE DEF r
  <2>11. records'[w] = r /\ told'[w] = told[w]  BY <1>b, <2>2, <2>7 DEF OneTold
  <2>12. Holds(records'[w], told'[w], noted'[w], fresh', NoteAfter(w))
    <3> DEFINE at == records[w].backupAt
    <3>1. at \in Nat /\ r.backupAt = at /\ (at <= fresh => at <= fresh' /\ at < fresh')  BY <1>2, <2>5, <2>9 DEF Fields
    <3>2. r.envelope.wrapped.key = Derived(told[w].password, r.envelope.kdf)  BY <2>5, <2>a DEF Fields
    <3>3. (r.passkey # None) = told[w].passkey /\ r.confirm = told[w].confirm  BY <2>5, <2>9 DEF Fields, Holds
    <3> HIDE DEF at
    <3>4. told[w].backup # None => at <= fresh
            /\ (told[w].backup # told[w].password => noted[w].changedAt > at \/ NoteAfter(w) \/ told[w].unsaid)
      BY <1>1, <1>c, <2>9 DEF Holds, at, NotesKept
    <3>5. Holds(r, told[w], noted[w], fresh', NoteAfter(w))  BY <3>1, <3>2, <3>3, <3>4 DEF Holds
    <3> QED BY <1>b, <2>11, <3>5
  <2>15. r.envelope.kdf.salt = fresh + 1  BY <2>5, <2>6 DEF Fields
  <2>13. StillTold(w)  BY <1>2, <2>11, <2>12, <2>15 DEF StillTold
  <2>14. \A u \in Wallets : StillTold(u)  BY <1>b, <1>c, <1>1, <1>2, <2>7, <2>13, OneTells DEF NotesKept
  <2>16. \A x \in Slots : StillRead(x)  BY <1>1, <1>2, <1>3, <2>7, <2>15, OneReads
  <2> QED BY <1>0, <1>b, <1>2, <2>14, <2>16, AckedMove
<1>5. CASE ~Unchanged(w, read)
  <2>1. records' = records  BY <1>5 DEF Strengthen
  <2>2. \A u \in Wallets : StillTold(u)  BY <1>b, <1>c, <1>2, <2>1, ToldStays DEF NotesKept
  <2>3. \A u \in Wallets : EnvelopeKept(u)  BY <2>1 DEF EnvelopeKept
  <2>4. \A x \in Slots : StillRead(x)  BY <1>2, <1>3, <2>3, ReadStays
  <2> QED BY <1>0, <1>b, <1>2, <2>2, <2>4, AckedMove
<1> QED BY <1>4, <1>5

\* A step that changes a record beside its envelope.
LEMMA FieldTold ==
    ASSUME WaysInv, AckedInv, NEW w \in Wallets, NEW r, NEW t, OneTold(w, r, t), fresh' \in Nat, fresh' >= fresh, noted' = noted,
           records[w] # None => r.envelope = records[w].envelope /\ Holds(r, t, noted[w], fresh', NoteUnderWay(w)),
           \A s \in Slots : jobs'[s] = jobs[s] \/ jobs'[s].op = "none", NotesKept
    PROVE  (\A u \in Wallets : StillTold(u)) /\ (\A s \in Slots : StillRead(s))
<1>1. records[w] # None => StillTold(w)
  <2>1. SUFFICES ASSUME records[w] # None  PROVE StillTold(w)
    OBVIOUS
  <2>2. records'[w] = r /\ told'[w] = t  BY <2>1 DEF OneTold
  <2>3. records[w].envelope.kdf.salt \in Nat /\ records[w].envelope.kdf.salt <= fresh /\ fresh \in Nat  BY <2>1, WhatHolds
  <2>4. r.envelope.kdf.salt <= fresh'  BY <2>1, <2>3
  <2>5. Holds(r, t, noted'[w], fresh', NoteAfter(w))  BY <2>1 DEF Holds, NotesKept
  <2> QED BY <2>1, <2>2, <2>4, <2>5 DEF StillTold
<1>2. \A u \in Wallets : StillTold(u)  BY <1>1, OneTells DEF NotesKept
<1>3. \A s \in Slots : StillRead(s)  BY OneReads
<1> QED BY <1>2, <1>3

LEMMA FinishPasskeyTold == ASSUME WaysInv, AckedInv, NEW s \in Slots, FinishPasskey(s)  PROVE AckedInv'
<1> DEFINE w == jobs[s].w
           read == jobs[s].read
           old == jobs[s].read.envelope
           v == [secret |-> Prf(fresh + 1), wrapped |-> Box(Prf(fresh + 1), ContentKey(old), None)]
           r == [records[w] EXCEPT !["passkey"] = v]
           t == [told[w] EXCEPT !["passkey"] = TRUE]
<1>0. KeysType /\ GoodWays  BY DEF WaysInv
<1>1. jobs[s].op = "passkey" /\ jobs' = [jobs EXCEPT ![s] = Nothing]  BY DEF FinishPasskey, Ends
<1>2. w \in Wallets /\ old \in Envelope  BY <1>0, <1>1, JobGood
<1>3. fresh' = fresh + 1 /\ fresh' \in Nat /\ fresh + 1 \in Nat /\ fresh' >= fresh /\ fresh \in Nat
  BY <1>0, FreshNext DEF FinishPasskey, KeysType
<1>4. \A x \in Slots : jobs'[x] = jobs[x] \/ jobs'[x].op = "none"  BY <1>0, <1>1, SlotEnds
<1>c. NotesKept  BY <1>0, <1>1, SlotEnds
<1>5. UNCHANGED <<noted, files, exported>>  BY DEF FinishPasskey
<1>6. records' = Patch(w, read, "passkey", v) /\ Tells(w, "passkey", TRUE)  BY DEF FinishPasskey
<1>7. ContentKey(old) \in RawKey  BY <1>2 DEF Envelope, ContentKey, Wrap, BoxOf
<1>8. v \in Passkey /\ v # None  BY <1>3, <1>7, PasskeyMade
<1> HIDE DEF v, w, read, old
<1>9. records[w] # None =>
        /\ Fields(r, records[w].envelope, records[w].phraseWrap, v, records[w].confirm, records[w].backupAt)
        /\ TF(t, told[w].password, TRUE, told[w].confirm, told[w].backup, told[w].unsaid)
        /\ Holds(records[w], told[w], noted[w], fresh, NoteUnderWay(w)) /\ records[w].backupAt \in Nat
  BY <1>2, <1>8, WhatHolds, PatchedFields, ToldFields
<1>10. OneTold(w, r, t)  BY <1>2, <1>6, <1>9, PatchTold DEF Fields
<1> HIDE DEF r, t
<1>11. records[w] # None => r.envelope = records[w].envelope /\ Holds(r, t, noted[w], fresh', NoteUnderWay(w))
  <2>1. SUFFICES ASSUME records[w] # None  PROVE r.envelope = records[w].envelope /\ Holds(r, t, noted[w], fresh', NoteUnderWay(w))
    OBVIOUS
  <2> DEFINE at == records[w].backupAt
  <2>3. at \in Nat  BY <1>9, <2>1
  <2> HIDE DEF at
  <2>2. at \in Nat /\ (at <= fresh => at <= fresh' /\ at < fresh')  BY <1>3, <2>3
  <2> USE DEF at
  <2> QED BY <1>8, <1>9, <2>1, <2>2 DEF Holds, Fields, TF
<1> QED BY <1>0, <1>2, <1>3, <1>4, <1>5, <1>c, <1>10, <1>11, FieldTold, AckedMove

LEMMA FinishConfirmOffTold == ASSUME WaysInv, AckedInv, NEW s \in Slots, FinishConfirmOff(s)  PROVE AckedInv'
<1> DEFINE w == jobs[s].w
           read == jobs[s].read
           r == [records[w] EXCEPT !["confirm"] = FALSE]
           t == [told[w] EXCEPT !["confirm"] = FALSE]
<1>0. KeysType /\ GoodWays  BY DEF WaysInv
<1>1. jobs[s].op = "confirm off" /\ jobs' = [jobs EXCEPT ![s] = Nothing]  BY DEF FinishConfirmOff, Ends
<1>2. w \in Wallets  BY <1>0, <1>1, JobGood
<1>3. fresh' = fresh /\ fresh \in Nat /\ fresh' \in Nat /\ fresh' >= fresh
  <2>1. fresh' = fresh  BY Zenon DEF FinishConfirmOff
  <2>2. fresh \in Nat  BY <1>0 DEF KeysType
  <2> QED BY <2>1, <2>2
<1>4. \A x \in Slots : jobs'[x] = jobs[x] \/ jobs'[x].op = "none"  BY <1>0, <1>1, SlotEnds
<1>c. NotesKept  BY <1>0, <1>1, SlotEnds
<1>5. UNCHANGED <<noted, files, exported>>  BY DEF FinishConfirmOff
<1>6. records' = Patch(w, read, "confirm", FALSE) /\ Tells(w, "confirm", FALSE)  BY DEF FinishConfirmOff
<1> HIDE DEF w, read
<1>9. records[w] # None =>
        /\ Fields(r, records[w].envelope, records[w].phraseWrap, records[w].passkey, FALSE, records[w].backupAt)
        /\ TF(t, told[w].password, told[w].passkey, FALSE, told[w].backup, told[w].unsaid)
        /\ Holds(records[w], told[w], noted[w], fresh, NoteUnderWay(w))
  BY <1>2, WhatHolds, PatchedFields, ToldFields
<1>10. OneTold(w, r, t)  BY <1>2, <1>6, <1>9, PatchTold DEF Fields
<1> HIDE DEF r, t
<1>11. records[w] # None => r.envelope = records[w].envelope /\ Holds(r, t, noted[w], fresh', NoteUnderWay(w))
  BY <1>3, <1>9 DEF Holds, Fields, TF
<1> QED BY <1>0, <1>2, <1>3, <1>4, <1>5, <1>c, <1>10, <1>11, FieldTold, AckedMove

LEMMA TurnedTold == ASSUME WaysInv, AckedInv, NEW w \in Wallets, ConfirmOn(w) \/ DisablePasskey(w)  PROVE AckedInv'
<1>0. KeysType /\ GoodWays  BY DEF WaysInv
<1>1. fresh' = fresh /\ fresh \in Nat /\ fresh' \in Nat /\ fresh' >= fresh /\ UNCHANGED <<noted, jobs, files, exported>>
  <2>1. fresh' = fresh /\ UNCHANGED <<noted, jobs, files, exported>>  BY Zenon DEF ConfirmOn, DisablePasskey
  <2>2. fresh \in Nat  BY <1>0 DEF KeysType
  <2> QED BY <2>1, <2>2
<1>2. \A x \in Slots : jobs'[x] = jobs[x] \/ jobs'[x].op = "none"  BY <1>1
<1>c. NotesKept  BY <1>1 DEF NotesKept, NoteAfter, NoteUnderWay
<1>3. CASE ConfirmOn(w)
  <2> DEFINE read == records[w]
             r == [records[w] EXCEPT !["confirm"] = TRUE]
             t == [told[w] EXCEPT !["confirm"] = TRUE]
  <2>1. records' = Patch(w, read, "confirm", TRUE) /\ Tells(w, "confirm", TRUE)  BY <1>3 DEF ConfirmOn
  <2>2. records[w] # None =>
          /\ Fields(r, records[w].envelope, records[w].phraseWrap, records[w].passkey, TRUE, records[w].backupAt)
          /\ TF(t, told[w].password, told[w].passkey, TRUE, told[w].backup, told[w].unsaid)
          /\ Holds(records[w], told[w], noted[w], fresh, NoteUnderWay(w))
    BY WhatHolds, PatchedFields, ToldFields
  <2>3. OneTold(w, r, t)  BY <2>1, <2>2, PatchTold DEF Fields
  <2> HIDE DEF r, t
  <2>4. records[w] # None => r.envelope = records[w].envelope /\ Holds(r, t, noted[w], fresh', NoteUnderWay(w))
    BY <1>1, <2>2 DEF Holds, Fields, TF
  <2> QED BY <1>0, <1>1, <1>2, <1>c, <2>3, <2>4, FieldTold, AckedMove
<1>4. CASE DisablePasskey(w)
  <2> DEFINE read == records[w]
             r == [records[w] EXCEPT !["passkey"] = None]
             t == [told[w] EXCEPT !["passkey"] = FALSE]
  <2>1. records' = Patch(w, read, "passkey", None) /\ Tells(w, "passkey", FALSE)  BY <1>4 DEF DisablePasskey
  <2>2. records[w] # None =>
          /\ Fields(r, records[w].envelope, records[w].phraseWrap, None, records[w].confirm, records[w].backupAt)
          /\ TF(t, told[w].password, FALSE, told[w].confirm, told[w].backup, told[w].unsaid)
          /\ Holds(records[w], told[w], noted[w], fresh, NoteUnderWay(w))
    BY WhatHolds, PatchedFields, ToldFields
  <2>3. OneTold(w, r, t)  BY <2>1, <2>2, PatchTold DEF Fields
  <2> HIDE DEF r, t
  <2>4. records[w] # None => r.envelope = records[w].envelope /\ Holds(r, t, noted[w], fresh', NoteUnderWay(w))
    BY <1>1, <2>2 DEF Holds, Fields, TF
  <2> QED BY <1>0, <1>1, <1>2, <1>c, <2>3, <2>4, FieldTold, AckedMove
<1> QED BY <1>3, <1>4

LEMMA AskedTold ==
    ASSUME WaysInv, AckedInv, NEW op, NEW w \in Wallets, NEW pw, NEW new, Asked(op, w, pw, new)
    PROVE  AckedInv'
<1>0. KeysType /\ GoodWays  BY DEF WaysInv
<1> DEFINE j == [op |-> op, w |-> w, read |-> records[w], pw |-> pw, new |-> new]
<1>1. PICK s \in Slots : jobs' = [jobs EXCEPT ![s] = j] /\ jobs[s].op = "none"  BY DEF Asked, Begins
<1>2. UNCHANGED <<records, noted, files, fresh, told, exported>> /\ records[w] # None  BY DEF Asked, Begins, Live
<1>3. fresh' \in Nat /\ fresh' >= fresh  BY <1>0, <1>2 DEF KeysType
<1>5. \A u \in Wallets : EnvelopeKept(u)  BY <1>2 DEF EnvelopeKept
<1>6. j.w = w /\ j.read = records[w]  OBVIOUS
<1>7. jobs'[s] = j /\ \A x \in Slots : x # s => jobs'[x] = jobs[x]  BY <1>0, <1>1 DEF KeysType
<1> HIDE DEF j
<1>c. NotesKept  BY <1>1, <1>7, NotesStay
<1>4. \A u \in Wallets : StillTold(u)  BY <1>2, <1>3, <1>c, ToldStays DEF NotesKept
<1>8. StillRead(s)
  <2>1. records[w].envelope.kdf.salt <= fresh  BY <1>2, WhatHolds
  <2> QED BY <1>2, <1>6, <1>7, <2>1 DEF StillRead
<1>9. \A x \in Slots : x # s => StillRead(x)  BY <1>3, <1>5, <1>7, ReadStays
<1> QED BY <1>0, <1>2, <1>3, <1>4, <1>8, <1>9, AckedMove

LEMMA BeginTold ==
    ASSUME WaysInv, AckedInv, NEW w \in Wallets,
           \/ \E pw \in Password :
                \/ \E new \in Password : BeginChange(w, pw, new)
                \/ BeginPasskey(w, pw) \/ BeginConfirmOff(w, pw) \/ BeginExport(w, pw) \/ BeginUnlock(w, pw)
           \/ \E new \in Password : BeginReset(w, new)
           \/ BeginConfirmOffPasskey(w) \/ BeginUnlockPasskey(w)
    PROVE  AckedInv'
<1>1. \E op, pw, new : Asked(op, w, pw, new)
  BY DEF BeginChange, BeginPasskey, BeginConfirmOff, BeginExport, BeginUnlock, BeginReset, BeginConfirmOffPasskey, BeginUnlockPasskey
<1> QED BY <1>1, AskedTold

LEMMA SmallTold ==
    ASSUME WaysInv, AckedInv
    PROVE  /\ \A s \in Slots : GivesUp(s) => AckedInv'
           /\ \A w \in Wallets : AddContact(w) => AckedInv'
           /\ \A w \in Wallets : DeleteAccount(w) => AckedInv'
           /\ UNCHANGED vars => AckedInv'
<1>0. KeysType /\ GoodWays  BY DEF WaysInv
<1>1. ASSUME UNCHANGED <<records, files, fresh, told, exported>>,
             \A u \in Wallets : noted'[u].changedAt = noted[u].changedAt,
             \A x \in Slots : jobs'[x] = jobs[x] \/ jobs'[x].op = "none", NotesKept
      PROVE  AckedInv'
  <2>1. fresh' \in Nat /\ fresh' >= fresh  BY <1>0, <1>1 DEF KeysType
  <2>2. \A u \in Wallets : StillTold(u)  BY <1>1, <2>1, ToldStays DEF NotesKept
  <2>3. \A u \in Wallets : EnvelopeKept(u)  BY <1>1 DEF EnvelopeKept
  <2>4. \A x \in Slots : StillRead(x)  BY <1>1, <2>1, <2>3, ReadStays
  <2> QED BY <1>0, <1>1, <2>1, <2>2, <2>4, AckedMove
<1>c. jobs' = jobs => NotesKept  BY DEF NotesKept, NoteAfter, NoteUnderWay
<1>2. ASSUME NEW s \in Slots, GivesUp(s)  PROVE AckedInv'
  <2>1. NotesKept /\ \A x \in Slots : jobs'[x] = jobs[x] \/ jobs'[x].op = "none"  BY <1>0, <1>2, SlotEnds DEF GivesUp, Ends
  <2> QED BY <1>1, <1>2, <2>1 DEF GivesUp
<1>3. ASSUME NEW w \in Wallets, AddContact(w)  PROVE AckedInv'
  <2>1. \A u \in Wallets : noted'[u].changedAt = noted[u].changedAt  BY <1>0, <1>3 DEF AddContact, KeysType
  <2> QED BY <1>1, <1>3, <1>c, <2>1 DEF AddContact
<1>4. ASSUME NEW w \in Wallets, DeleteAccount(w)  PROVE AckedInv'
  <2>1. UNCHANGED <<noted, jobs, files, fresh, exported>>  BY <1>4 DEF DeleteAccount
  <2>2. fresh' \in Nat /\ fresh' >= fresh  BY <1>0, <2>1 DEF KeysType
  <2>3. /\ records'[w] = None
        /\ \A u \in Wallets : u # w => records'[u] = records[u] /\ told'[u] = told[u]
    BY <1>0, <1>4 DEF DeleteAccount, KeysType
  <2>4. StillTold(w)  BY <2>3 DEF StillTold
  <2>5. \A u \in Wallets : u # w => StillTold(u)  BY <1>c, <2>1, <2>2, <2>3, ToldStays DEF NotesKept
  <2>6. \A u \in Wallets : EnvelopeKept(u)  BY <2>3 DEF EnvelopeKept
  <2>7. \A x \in Slots : StillRead(x)  BY <2>1, <2>2, <2>6, ReadStays
  <2> QED BY <1>0, <2>1, <2>2, <2>4, <2>5, <2>7, AckedMove
<1>5. CASE UNCHANGED vars  BY <1>1, <1>5, <1>c DEF vars
<1> QED BY <1>2, <1>3, <1>4, <1>5

LEMMA FinishExportTold ==
    ASSUME WaysInv, AckedInv, NEW s \in Slots, FinishExport(s), Unchanged(jobs[s].w, jobs[s].read)
    PROVE  AckedInv'
<1> DEFINE w == jobs[s].w
           read == jobs[s].read
           old == jobs[s].read.envelope
           pw == jobs[s].pw
           at == fresh + 1
           phrase == words[w]
           contacts == noted[w].contacts
           f == SealBackup(at, old, contacts, pw, at)
           e == [file |-> f, pw |-> pw, phrase |-> phrase, contacts |-> contacts]
           r == [records[w] EXCEPT !["backupAt"] = at]
           t == [told[w] EXCEPT !.backup = pw, !.unsaid = FALSE]
<1>0. KeysType /\ GoodWays  BY DEF WaysInv
<1>1. jobs[s].op = "export" /\ jobs' = [jobs EXCEPT ![s] = Nothing]  BY DEF FinishExport, Ends
<1>2. w \in Wallets /\ old \in Envelope /\ GoodEnvelope(old, phrase) /\ pw \in Password /\ PasswordOpens(old, pw)
  BY <1>0, <1>1, JobGood
<1>3. fresh' = at /\ fresh' \in Nat /\ at \in Nat /\ fresh' >= fresh /\ fresh \in Nat
  BY <1>0, FreshNext DEF FinishExport, KeysType
<1>4. \A x \in Slots : jobs'[x] = jobs[x] \/ jobs'[x].op = "none"  BY <1>0, <1>1, SlotEnds
<1>c. NotesKept  BY <1>0, <1>1, SlotEnds
<1>5. noted' = noted  BY DEF FinishExport
<1>6. /\ records' = Patch(w, read, "backupAt", at)
      /\ told' = IF records[w] = None THEN told ELSE [told EXCEPT ![w] = [@ EXCEPT !.backup = pw, !.unsaid = FALSE]]
      /\ files' = files \cup {f} /\ exported' = exported \cup {e}
  BY DEF FinishExport
<1>7. contacts \in Nat  BY <1>0, <1>2 DEF KeysType
<1>8. told[w].password = pw /\ records[w] # None  BY <1>1, <1>2, ProvedIsTold DEF Unchanged
<1>9. old.kdf.salt <= fresh /\ old.kdf.salt \in Nat  BY <1>1, <1>2, SaltIsNumber DEF AckedInv, SaltsDrawn
<1>10. old.kdf \in Kdf  BY <1>2 DEF Envelope
<1> HIDE DEF w, read, old, pw, phrase, contacts, at
<1>11. e.file = f /\ f.wrapped.key = Derived(pw, old.kdf) /\ f.head = at
  <2>1. f = SealBackup(at, old, contacts, pw, at) /\ e = [file |-> f, pw |-> pw, phrase |-> phrase, contacts |-> contacts] /\ e.file = f
    OBVIOUS
  <2> HIDE DEF f, e
  <2> QED BY <1>2, <1>3, <1>7, <2>1, SealedFile
<1> HIDE DEF f, e
<1>12. f.wrapped.key[3].salt <= fresh'
  <2>1. f.wrapped.key[3] = old.kdf  BY <1>2, <1>10, <1>11, Keys
  <2> QED BY <1>3, <1>9, <2>1
<1>13. /\ Fields(r, records[w].envelope, records[w].phraseWrap, records[w].passkey, records[w].confirm, at)
       /\ TF(t, told[w].password, told[w].passkey, told[w].confirm, pw, FALSE)
       /\ Holds(records[w], told[w], noted[w], fresh, NoteUnderWay(w))
  BY <1>2, <1>3, <1>8, WhatHolds, PatchedFields, ToldFields
<1>14. OneTold(w, r, t)
  <2>1. OneChanged(records', records, w, r)  BY <1>0, <1>2, <1>6, <1>13, PatchChanges DEF Fields
  <2>2. told \in [Wallets -> Told \cup {None}]  BY <1>0 DEF KeysType
  <2>3. told'[w] = t /\ \A u \in Wallets : u # w => told'[u] = told[u]  BY <1>2, <1>6, <1>8, <2>2
  <2> QED BY <1>8, <2>1, <2>3 DEF OneChanged, OneTold
<1> HIDE DEF r, t
<1>15. r.envelope = records[w].envelope /\ Holds(r, t, noted[w], fresh', NoteUnderWay(w))
  BY <1>3, <1>8, <1>13 DEF Holds, Fields, TF
<1>16. (\A u \in Wallets : StillTold(u)) /\ (\A x \in Slots : StillRead(x))
  BY <1>2, <1>3, <1>4, <1>5, <1>c, <1>14, <1>15, FieldTold
<1>17. e.file.head <= fresh'  BY <1>3, <1>11
<1> QED BY <1>0, <1>3, <1>6, <1>12, <1>16, <1>17, AckedMoveFiles

LEMMA FinishUnlockTold == ASSUME WaysInv, AckedInv, NEW s \in Slots, FinishUnlock(s)  PROVE AckedInv'
<1> DEFINE w == jobs[s].w
           read == jobs[s].read
           now == records[w]
           v == Box(SeedUnlockKey(read.envelope.seed.plain), ContentKey(read.envelope), None)
           r == [records[w] EXCEPT !["phraseWrap"] = v]
           t == told[w]
           goes == [jobs[s] EXCEPT !.op = "strengthen", !.read = now]
<1>0. KeysType /\ GoodWays  BY DEF WaysInv
<1>1. jobs[s].op = "unlock"  BY DEF FinishUnlock
<1>2. w \in Wallets /\ read.envelope \in Envelope /\ GoodEnvelope(read.envelope, words[w]) /\ jobs[s] \in Job
  BY <1>0, <1>1, JobGood
<1>3. UNCHANGED <<noted, files, fresh, told, exported>>  BY DEF FinishUnlock
<1>4. fresh' \in Nat /\ fresh' >= fresh /\ fresh' = fresh /\ fresh \in Nat
  <2>1. fresh \in Nat  BY <1>0 DEF KeysType
  <2> QED BY <1>3, <2>1
<1>5. records' = IF now # None /\ now.phraseWrap = None THEN Patch(w, read, "phraseWrap", v) ELSE records
  BY DEF FinishUnlock
<1>6. jobs' = [jobs EXCEPT ![s] = IF now # None /\ jobs[s].pw # None /\ Weak(now.envelope.kdf) /\ PasswordOpens(now.envelope, jobs[s].pw)
                                  THEN goes ELSE Nothing]
  BY DEF FinishUnlock
<1>c. NotesKept
  <2>1. jobs[s].op # "note" /\ \A x \in Slots : x # s => jobs'[x] = jobs[x]  BY <1>0, <1>1, <1>6 DEF KeysType
  <2> QED BY <2>1, NotesStay
<1>7. (\A u \in Wallets : StillTold(u)) /\ (\A u \in Wallets : EnvelopeKept(u))
      /\ (now # None /\ records'[w] # None => records'[w].envelope = now.envelope)
  <2>1. CASE now # None /\ now.phraseWrap = None
    <3>1. records[w] \in Record /\ Holds(records[w], told[w], noted[w], fresh, NoteUnderWay(w)) /\ records[w].backupAt \in Nat
          /\ records[w].envelope.kdf.salt \in Nat /\ records[w].envelope.kdf.salt <= fresh
      BY <1>2, <2>1, WhatHolds
    <3>2. v \in PhraseWrap
      <4>1. /\ read.envelope.seed.plain \in Phrase /\ ContentKey(read.envelope) \in RawKey
        BY <1>2 DEF Envelope, SeedBox, BoxOf, ContentKey, Wrap
      <4>2. SeedUnlockKey(read.envelope.seed.plain) \in PhraseKey  BY <4>1, Keys
      <4> QED BY <4>1, <4>2 DEF PhraseWrap, BoxOf, Box
    <3>3. records' = Patch(w, read, "phraseWrap", v)  BY <1>5, <2>1
    <3> HIDE DEF v, w, read
    <3>4. Fields(r, records[w].envelope, v, records[w].passkey, records[w].confirm, records[w].backupAt)
      BY <3>1, <3>2, PatchedFields
    <3>5. OneChanged(records', records, w, r)  BY <1>0, <1>2, <3>3, <3>4, PatchChanges DEF Fields
    <3> HIDE DEF r
    <3>6. OneTold(w, r, told[w])  BY <1>3, <2>1, <3>5 DEF OneChanged, OneTold
    <3>7. records'[w] = r /\ told'[w] = told[w] /\ r.envelope = records[w].envelope
      BY <1>3, <2>1, <3>4, <3>5 DEF OneChanged, Fields
    <3>8. Holds(r, told[w], noted[w], fresh, NoteAfter(w))
      BY <1>2, <1>c, <3>1, <3>4 DEF Holds, Fields, NotesKept
    <3>9. StillTold(w)  BY <1>3, <3>1, <3>7, <3>8 DEF StillTold
    <3>10. \A u \in Wallets : StillTold(u)  BY <1>2, <1>3, <1>4, <1>c, <3>6, <3>9, OneTells DEF NotesKept
    <3>11. \A u \in Wallets : EnvelopeKept(u)  BY <2>1, <3>6, <3>7 DEF OneTold, EnvelopeKept
    <3> QED BY <3>7, <3>10, <3>11
  <2>2. CASE ~(now # None /\ now.phraseWrap = None)
    <3>1. records' = records  BY <1>5, <2>2
    <3> QED BY <1>3, <1>4, <1>c, <3>1, ToldStays DEF EnvelopeKept, NotesKept
  <2> QED BY <2>1, <2>2
<1>8. \A x \in Slots : StillRead(x)
  <2>1. CASE now # None /\ jobs[s].pw # None /\ Weak(now.envelope.kdf) /\ PasswordOpens(now.envelope, jobs[s].pw)
    <3>1. jobs' = [jobs EXCEPT ![s] = goes]  BY <1>6, <2>1
    <3>2. goes.w = w /\ goes.read = now
      <4> DEFINE j == jobs[s]
      <4>1. j \in Job  BY <1>2
      <4>2. goes = [j EXCEPT !.op = "strengthen", !.read = now] /\ j.w = w  OBVIOUS
      <4> HIDE DEF j, goes, now, w
      <4> QED BY <4>1, <4>2 DEF Job
    <3>3. jobs'[s] = goes /\ \A x \in Slots : x # s => jobs'[x] = jobs[x]  BY <1>0, <3>1 DEF KeysType
    <3>4. now.envelope.kdf.salt <= fresh  BY <1>2, <2>1, WhatHolds
    <3>5. now # None  BY <2>1
    <3> HIDE DEF goes, now, w
    <3>6. StillRead(s)  BY <1>3, <1>7, <3>2, <3>3, <3>4, <3>5 DEF StillRead
    <3>7. \A x \in Slots : x # s => StillRead(x)  BY <1>4, <1>7, <3>3, ReadStays
    <3> QED BY <3>6, <3>7
  <2>2. CASE ~(now # None /\ jobs[s].pw # None /\ Weak(now.envelope.kdf) /\ PasswordOpens(now.envelope, jobs[s].pw))
    <3>1. jobs' = [jobs EXCEPT ![s] = Nothing]  BY <1>6, <2>2
    <3>2. \A x \in Slots : jobs'[x] = jobs[x] \/ jobs'[x].op = "none"  BY <1>0, <3>1, SlotEnds
    <3> QED BY <1>4, <1>7, <3>2, ReadStays
  <2> QED BY <2>1, <2>2
<1> QED BY <1>0, <1>3, <1>4, <1>7, <1>8, AckedMove

\* A wallet made or restored: nothing under way is about it.
LEMMA MadeTold ==
    ASSUME WaysInv, AckedInv, NEW w \in Unused, NEW record \in Record, NEW phrase, NEW contacts,
           NEW pw \in Password, NEW backup \in Password \cup {None},
           Made(w, record, phrase, contacts, pw, backup), UNCHANGED <<jobs, files, exported>>, fresh' \in Nat, fresh' >= fresh,
           record.envelope.wrapped.key = Derived(pw, record.envelope.kdf), record.envelope.kdf.salt <= fresh',
           record.passkey = None, record.confirm = TRUE,
           backup # None => backup = pw /\ record.backupAt <= fresh'
    PROVE  AckedInv'
<1>0. KeysType /\ w \in Wallets  BY DEF WaysInv, Unused
<1> DEFINE t == [password |-> pw, passkey |-> FALSE, confirm |-> TRUE, backup |-> backup, unsaid |-> FALSE]
<1>1. /\ records'[w] = record /\ told'[w] = t
      /\ \A u \in Wallets : u # w => records'[u] = records[u] /\ told'[u] = told[u] /\ noted'[u] = noted[u]
  BY <1>0 DEF Made, KeysType
<1>2. Holds(record, t, noted'[w], fresh', NoteAfter(w))  BY DEF Holds
<1>c. NotesKept  BY DEF NotesKept, NoteAfter, NoteUnderWay
<1> HIDE DEF t
<1>3. StillTold(w)  BY <1>1, <1>2 DEF StillTold
<1>4. \A u \in Wallets : u # w => StillTold(u)  BY <1>1, <1>c, ToldStays DEF NotesKept
<1>5. ASSUME NEW s \in Slots  PROVE StillRead(s)
  <2>1. jobs[s].w # w  BY DEF Unused
  <2>2. \A u \in Wallets : jobs[s].w = u => EnvelopeKept(u)  BY <1>1, <2>1 DEF EnvelopeKept
  <2> QED BY <2>2, ReadStays
<1> QED BY <1>0, <1>3, <1>4, <1>5, AckedMove

LEMMA CreateTold ==
    ASSUME WaysInv, AckedInv, NEW w \in Unused, NEW phrase \in Phrase, NEW pw \in Password, CreateAccount(w, phrase, pw)
    PROVE  AckedInv'
<1> DEFINE v == SealSeed(phrase, pw, fresh + 1, Default(fresh + 1))
           b == Box(SeedUnlockKey(phrase), ContentKey(v), None)
           r == NewRecord(v, b, 0)
<1>1. fresh + 1 \in Nat /\ fresh' = fresh + 1 /\ fresh' \in Nat /\ fresh' >= fresh /\ 0 \in Nat
  BY FreshNext DEF CreateAccount, KeysType, WaysInv
<1>2. Made(w, r, phrase, 0, pw, None) /\ UNCHANGED <<jobs, files, exported>>  BY DEF CreateAccount
<1>3. r \in Record /\ IsNew(r, v, 0) /\ v.kdf = Default(fresh + 1) /\ v.wrapped.key = Derived(pw, Default(fresh + 1))
  BY <1>1, CreatedGood
<1>4. v.kdf.salt = fresh'  BY <1>1, <1>3 DEF Default
<1> HIDE DEF v, r
<1>5. /\ r.envelope = v /\ r.passkey = None /\ r.confirm = TRUE /\ r.envelope.kdf.salt <= fresh'
      /\ r.envelope.wrapped.key = Derived(pw, r.envelope.kdf)
  BY <1>1, <1>3, <1>4 DEF IsNew
<1> QED BY <1>1, <1>2, <1>3, <1>5, MadeTold

LEMMA ImportTold ==
    ASSUME WaysInv, AckedInv, NEW w \in Unused, NEW f \in files, NEW pw \in Password, ImportFile(w, f, pw)
    PROVE  AckedInv'
<1> DEFINE content == Answers(f, pw).content
           v == [kdf |-> f.kdf, wrapped |-> Box(Derived(pw, f.kdf), content, None), seed |-> f.seed]
           phrase == f.seed.plain
           b == Box(SeedUnlockKey(phrase), content, None)
           r == NewRecord(v, b, f.head)
           backup == IF f.version = 3 THEN pw ELSE None
<1>0. KeysType /\ GoodExports  BY DEF WaysInv
<1>1. Restored(f, pw, content)  BY <1>0, RestoredIs DEF ImportFile
<1>2. Made(w, r, phrase, Listed(f.sealed), pw, backup) /\ UNCHANGED <<jobs, files, fresh, exported>>  BY DEF ImportFile
<1>3. f.kdf \in Kdf /\ f.head \in Nat  BY <1>0, FileFields
<1>4. fresh' = fresh /\ fresh' \in Nat /\ fresh' >= fresh
  <2>1. fresh \in Nat  BY <1>0 DEF KeysType
  <2> QED BY <1>2, <2>1
<1> HIDE DEF content
<1>5. /\ v \in Envelope /\ GoodEnvelope(v, phrase) /\ phrase \in Phrase /\ ContentKey(v) = content
      /\ v.kdf = f.kdf /\ v.wrapped.key = Derived(pw, f.kdf)
  BY <1>1, <1>3, ImportedGood
<1> HIDE DEF v, phrase
<1>6. r \in Record /\ IsNew(r, v, f.head)  BY <1>3, <1>5, NewRecordGood
<1> HIDE DEF r
<1>7. f.kdf.salt <= fresh'
  <2>1. f.wrapped.key = Derived(pw, f.kdf) /\ f.wrapped \in Wrap  BY <1>1 DEF Restored
  <2>2. f.wrapped # Torn  BY <2>1, TornIs, Keys DEF Wrap, BoxOf
  <2>3. f.wrapped.key[3] = f.kdf  BY <1>3, <2>1, Keys
  <2> QED BY <1>4, <2>2, <2>3 DEF AckedInv, SaltsDrawn
<1>8. f.version = 3 => f.head <= fresh'
  <2>1. SUFFICES ASSUME f.version = 3  PROVE f.head <= fresh'
    OBVIOUS
  <2>2. PICK e \in exported : e.file = f  BY <1>1, <2>1 DEF Restored
  <2> QED BY <1>4, <2>2 DEF AckedInv, SaltsDrawn
<1>9. /\ r.envelope = v /\ r.passkey = None /\ r.confirm = TRUE /\ r.backupAt = f.head  BY <1>6 DEF IsNew
<1>10. r.envelope.wrapped.key = Derived(pw, r.envelope.kdf) /\ r.envelope.kdf.salt <= fresh'  BY <1>5, <1>7, <1>9
<1>11. backup \in Password \cup {None} /\ (backup # None => backup = pw /\ r.backupAt <= fresh')  BY <1>8, <1>9
<1> HIDE DEF backup
<1> QED BY <1>2, <1>4, <1>6, <1>9, <1>10, <1>11, MadeTold

LEMMA AlteredWrapping ==
    ASSUME NEW f \in File, NEW g \in File, NEW part \in Parts
    PROVE  [f EXCEPT ![part] = g[part]].wrapped \in {f.wrapped, g.wrapped}
BY DEF File, Parts

LEMMA AlterTold ==
    ASSUME WaysInv, AckedInv, NEW f \in files, NEW g \in files \cup {TornFile}, NEW part \in Parts, Alter(f, g, part)
    PROVE  AckedInv'
<1> DEFINE n == [f EXCEPT ![part] = g[part]]
<1>0. KeysType  BY DEF WaysInv
<1>1. UNCHANGED <<records, noted, jobs, fresh, told, exported>> /\ files' = (files \ {f}) \cup {n}
  BY DEF Alter
<1>2. fresh \in Nat /\ fresh' \in Nat /\ fresh' >= fresh  BY <1>0, <1>1 DEF KeysType
<1>3. f \in File /\ g \in File  BY <1>0, TornFileIsOne DEF KeysType
<1>4. n.wrapped \in {f.wrapped, g.wrapped}  BY <1>3, AlteredWrapping
<1> HIDE DEF n
<1>5. n.wrapped = Torn \/ n.wrapped.key[3].salt <= fresh
  <2>1. TornFile.wrapped = Torn  BY DEF TornFile
  <2> QED BY <1>4, <2>1 DEF AckedInv, SaltsDrawn
<1>6. \A u \in Wallets : StillTold(u)  BY <1>1, <1>2, ToldStays DEF NoteAfter, NoteUnderWay
<1>7. \A s \in Slots : StillRead(s)  BY <1>1, <1>2, ReadStays DEF EnvelopeKept
<1> QED BY <1>0, <1>1, <1>2, <1>5, <1>6, <1>7, AckedMoveFiles

LEMMA AckedInit == Init => AckedInv
<1> SUFFICES ASSUME Init  PROVE AckedInv
  OBVIOUS
<1>1. PICK p \in Phrase, pw \in Password : files = {LegacyFile(1, SealSeed(p, pw, 1, Old(1)), 1)}  BY DEF Init
<1>2. \A s \in Slots : jobs[s].op = "none"  BY NothingIsNone DEF Init
<1>3. \A w \in Wallets : records[w] = None  BY DEF Init
<1>4. LegacyFile(1, SealSeed(p, pw, 1, Old(1)), 1).wrapped.key[3].salt = 1  BY DEF LegacyFile, SealSeed, Box, Derived, Old
<1>5. fresh = 1 /\ exported = {}  BY DEF Init
<1>6. \A f \in files : f.wrapped.key[3].salt <= fresh
  <2> DEFINE g == LegacyFile(1, SealSeed(p, pw, 1, Old(1)), 1)
  <2>1. g.wrapped.key[3].salt = 1 /\ files = {g}  BY <1>1, <1>4
  <2> HIDE DEF g
  <2> QED BY <1>5, <2>1
<1> QED BY <1>2, <1>3, <1>5, <1>6 DEF AckedInv, SaltsDrawn, SaltTells, ToldHolds

NothingUncommon == Rare = {}

LEMMA AckedNext ==
    ASSUME NothingUncommon
    PROVE  WaysInv /\ AckedInv /\ [Next]_vars => AckedInv'
<1> SUFFICES ASSUME WaysInv, AckedInv, [Next]_vars  PROVE AckedInv'
  OBVIOUS
<1>0. "read first" \notin Rare  BY DEF NothingUncommon
<1>1. ASSUME NEW w \in Live, Forms(w)  PROVE AckedInv'
  <2>1. w \in Wallets  BY DEF Live
  <2>2. CASE DisablePasskey(w) \/ ConfirmOn(w)  BY <2>1, <2>2, TurnedTold
  <2>3. CASE AddContact(w) \/ DeleteAccount(w)  BY <2>1, <2>3, SmallTold
  <2>4. CASE \/ \E pw \in Password :
                  \/ \E new \in Password : BeginChange(w, pw, new)
                  \/ BeginPasskey(w, pw) \/ BeginConfirmOff(w, pw) \/ BeginExport(w, pw) \/ BeginUnlock(w, pw)
             \/ \E new \in Password : BeginReset(w, new)
             \/ BeginConfirmOffPasskey(w) \/ BeginUnlockPasskey(w)
    BY <2>1, <2>4, BeginTold
  <2> QED BY <1>1, <2>2, <2>3, <2>4 DEF Forms
<1>2. ASSUME NEW s \in Slots, FinishChange(s) \/ FinishReset(s)  PROVE AckedInv'
  BY <1>2, SetsPasswordTold DEF FinishChange, FinishReset
<1>3. ASSUME NEW s \in Slots, NotePasswordChanged(s) \/ LosesNote(s)  PROVE AckedInv'
  BY <1>3, NotesTold
<1>4. ASSUME NEW s \in Slots, FinishExport(s)  PROVE AckedInv'
  <2>1. Unchanged(jobs[s].w, jobs[s].read)  BY <1>0, <1>4 DEF FinishExport
  <2> QED BY <1>4, <2>1, FinishExportTold
<1>5. ASSUME NEW s \in Slots, FinishPasskey(s) \/ GivesUp(s) \/ FinishConfirmOff(s) \/ FinishUnlock(s) \/ Strengthen(s)
      PROVE  AckedInv'
  BY <1>5, FinishPasskeyTold, SmallTold, FinishConfirmOffTold, FinishUnlockTold, StrengthenTold
<1>6. ASSUME NEW w \in Unused, NEW pw \in Password, NEW phrase \in Phrase, CreateAccount(w, phrase, pw)  PROVE AckedInv'
  BY <1>6, CreateTold
<1>7. ASSUME NEW w \in Unused, NEW pw \in Password, NEW f \in files, ImportFile(w, f, pw)  PROVE AckedInv'
  BY <1>7, ImportTold
<1>8. ASSUME NEW f \in files, NEW g \in files \cup {TornFile}, NEW part \in Parts, Alter(f, g, part)  PROVE AckedInv'
  BY <1>8, AlterTold
<1>9. CASE UNCHANGED vars  BY <1>9, SmallTold
<1>10. ASSUME NEW s \in Slots, Finishes(s)  PROVE AckedInv'
  BY <1>2, <1>3, <1>4, <1>5, <1>10 DEF Finishes
<1> QED BY <1>1, <1>6, <1>7, <1>8, <1>9, <1>10 DEF Next

LEMMA WhatWasToldHolds == WaysInv /\ AckedInv => AckedStays
<1> SUFFICES ASSUME WaysInv, AckedInv, NEW w \in Live
             PROVE  LET r == records[w] IN
                    /\ \A pw \in Password : PasswordOpens(r.envelope, pw) <=> pw = told[w].password
                    /\ (r.passkey # None) = told[w].passkey /\ r.confirm = told[w].confirm
                    /\ told[w].backup # None /\ told[w].backup # told[w].password =>
                          noted[w].changedAt > r.backupAt \/ NoteUnderWay(w) \/ told[w].unsaid
  BY DEF AckedStays
<1> DEFINE r == records[w]
           t == told[w]
<1>1. w \in Wallets /\ records[w] # None  BY DEF Live
<1>2. r \in Record /\ t \in Told /\ Holds(r, t, noted[w], fresh, NoteUnderWay(w))  BY <1>1, WhatHolds
<1>3. r.envelope \in Envelope /\ GoodEnvelope(r.envelope, words[w])  BY <1>1, LiveGood DEF WaysInv
<1> HIDE DEF r, t
<1>4. r.envelope.kdf \in Kdf /\ t.password \in Password  BY <1>2, <1>3 DEF Envelope, Told
<1>5. \A pw \in Password : PasswordOpens(r.envelope, pw) <=> r.envelope.wrapped.key = Derived(pw, r.envelope.kdf)
  BY <1>3, EnvelopeOpens
<1>6. r.envelope.wrapped.key = Derived(t.password, r.envelope.kdf)  BY <1>2 DEF Holds
<1>7. \A pw \in Password : PasswordOpens(r.envelope, pw) <=> pw = t.password  BY <1>4, <1>5, <1>6, DerivedTells
<1>8. /\ (r.passkey # None) = t.passkey /\ r.confirm = t.confirm
      /\ t.backup # None /\ t.backup # t.password => noted[w].changedAt > r.backupAt \/ NoteUnderWay(w) \/ t.unsaid
  BY <1>2 DEF Holds
<1> QED BY <1>7, <1>8 DEF r, t

(* What was told holds: the password told opens the wallet and no other     *)
(* does, a passkey and the confirming of sends are as they were left, and a *)
(* file that opens with an older password is told of, as soon as the note   *)
(* of the change is written and unless that note was lost, with any number  *)
(* of wallets and operations that began before one another (patch, the salt *)
(* check, notePasswordChanged).  No password changes while an export that   *)
(* has read the record reads the notes: that leaves a file's older password *)
(* unsaid without a note that was lost.                                     *)
THEOREM WhatWasToldStays == ASSUME NothingUncommon  PROVE Spec => []AckedStays
<1>1. Spec => []AckedInv
  <2>1. WaysInv /\ AckedInv /\ [Next]_vars => AckedInv'  BY AckedNext
  <2> QED BY WaysAlways, AckedInit, <2>1, PTL DEF Spec
<1> QED BY <1>1, WaysAlways, WhatWasToldHolds, PTL

-----------------------------------------------------------------------------
(***************************************************************************)
(* Receive.  One write of the notes is on its way at a time, and ends with *)
(* all that was noted before it; every address anyone knows is one the scan*)
(* looks for by the time it has come to the end of the chain; and the answer*)
(* of a derivation counts only while its address is the one chosen.        *)
(***************************************************************************)

Address == Kinds \X Nat
Writes == {"read to give", "give", "read to name", "name"}
Calls ==
    [op : {"labels", "given"}, mine : BOOLEAN] \cup [op : {"address", "read to give"}, of : Address, mine : BOOLEAN]
    \cup [op : {"read to name"}, of : Address, named : BOOLEAN, mine : BOOLEAN]
    \cup [op : {"give", "name"}, set : SUBSET Address, mine : BOOLEAN]

\* The calls waiting, and the addresses they speak of.
Pending(cs) == {cs[n] : n \in 1..Len(cs)}
Speaks(c) == CASE c.op \in {"address", "read to give", "read to name"} -> {c.of}
               [] c.op \in {"give", "name"} -> c.set
               [] OTHER -> {}
Spoken(cs) == UNION {Speaks(c) : c \in Pending(cs)}

\* The addresses anything here speaks of
Known == out \cup given \cup labels \cup notes.given \cup notes.labels \cup Spoken(calls)
         \cup {<<k, index[k]>> : k \in Kinds} \cup {<<k, 0>> : k \in Kinds} \cup ({address, code} \ {NoAddress})

Scans == [blocks : Nat, used : [Kinds -> Nat], found : SUBSET Nat]
NoteSets == [given : SUBSET Address, labels : SUBSET Address]
ReceiveType ==
    /\ chain \in Seq(Address) /\ (\A b \in 1..Len(chain) : chain[b] \in out)
    /\ scan \in Scans /\ scan.blocks <= Len(chain) /\ scan.found \subseteq 1..Len(chain)
    /\ notes \in NoteSets /\ calls \in Seq(Calls)
    /\ open \in BOOLEAN /\ kind \in Kinds /\ index \in [Kinds -> Nat] /\ tab \in {"address", "request"}
    /\ Known \subseteq Address /\ \E top \in Nat : \A a \in Known : a[2] <= top

(* The calls *)

LEMMA Constants == FirstKind \in Kinds /\ Lookahead \in Nat /\ Uncommon \subseteq UncommonThings
  BY ReceiveAssumption

LEMMA CallTyped ==
    ASSUME NEW c \in Calls
    PROVE  /\ c.op \in {"labels", "given", "address"} \cup Writes /\ c.mine \in BOOLEAN
           /\ (c.op \in {"address", "read to give", "read to name"} => c.of \in Address)
           /\ (c.op \in {"give", "name"} => c.set \subseteq Address)
           /\ (c.op = "read to name" => c.named \in BOOLEAN) /\ Speaks(c) \subseteq Address
<1>1. CASE c \in [op : {"labels", "given"}, mine : BOOLEAN]
  BY <1>1 DEF Writes, Speaks
<1>2. CASE c \in [op : {"address", "read to give"}, of : Address, mine : BOOLEAN]
  BY <1>2 DEF Writes, Speaks
<1>3. CASE c \in [op : {"read to name"}, of : Address, named : BOOLEAN, mine : BOOLEAN]
  BY <1>3 DEF Writes, Speaks
<1>4. CASE c \in [op : {"give", "name"}, set : SUBSET Address, mine : BOOLEAN]
  BY <1>4 DEF Writes, Speaks
<1> QED BY <1>1, <1>2, <1>3, <1>4 DEF Calls

\* An answer that will be ignored is the same call otherwise.
LEMMA IgnoredCall ==
    ASSUME NEW c \in Calls
    PROVE  LET d == [c EXCEPT !.mine = FALSE] IN
           d \in Calls /\ d.op = c.op /\ d.mine = FALSE /\ Speaks(d) = Speaks(c)
<1> DEFINE d == [c EXCEPT !.mine = FALSE]
<1>1. CASE c \in [op : {"labels", "given"}, mine : BOOLEAN]
  BY <1>1 DEF Speaks, Calls
<1>2. CASE c \in [op : {"address", "read to give"}, of : Address, mine : BOOLEAN]
  <2>1. d \in [op : {"address", "read to give"}, of : Address, mine : BOOLEAN] /\ d.op = c.op /\ d.of = c.of /\ d.mine = FALSE
    BY <1>2
  <2> QED BY <1>2, <2>1 DEF Speaks, Calls
<1>3. CASE c \in [op : {"read to name"}, of : Address, named : BOOLEAN, mine : BOOLEAN]
  <2>1. d \in [op : {"read to name"}, of : Address, named : BOOLEAN, mine : BOOLEAN] /\ d.op = c.op /\ d.of = c.of /\ d.mine = FALSE
    BY <1>3
  <2> QED BY <1>3, <2>1 DEF Speaks, Calls
<1>4. CASE c \in [op : {"give", "name"}, set : SUBSET Address, mine : BOOLEAN]
  <2>1. d \in [op : {"give", "name"}, set : SUBSET Address, mine : BOOLEAN] /\ d.op = c.op /\ d.set = c.set /\ d.mine = FALSE
    BY <1>4
  <2> QED BY <1>4, <2>1 DEF Speaks, Calls
<1> QED BY <1>1, <1>2, <1>3, <1>4 DEF Calls

LEMMA PendingTyped == ASSUME NEW cs \in Seq(Calls) PROVE Pending(cs) \subseteq Calls /\ Spoken(cs) \subseteq Address
<1>1. Pending(cs) \subseteq Calls
  BY DEF Pending
<1> QED BY <1>1, CallTyped DEF Spoken

LEMMA Appended ==
    ASSUME NEW cs \in Seq(Calls), NEW c \in Calls
    PROVE  /\ Append(cs, c) \in Seq(Calls) /\ Pending(Append(cs, c)) = Pending(cs) \cup {c}
           /\ Spoken(Append(cs, c)) = Spoken(cs) \cup Speaks(c)
<1> DEFINE ds == Append(cs, c)
<1>1. /\ ds \in Seq(Calls) /\ Len(ds) = Len(cs) + 1 /\ Len(cs) \in Nat
      /\ (\A n \in 1..Len(cs) : ds[n] = cs[n]) /\ ds[Len(cs) + 1] = c
  OBVIOUS
<1>2. 1..Len(ds) = 1..Len(cs) \cup {Len(cs) + 1}
  BY <1>1
<1>3. Pending(ds) = Pending(cs) \cup {c}
  <2> HIDE DEF ds
  <2> QED BY <1>1, <1>2 DEF Pending
<1> QED BY <1>1, <1>3 DEF Spoken

LEMMA TailOf ==
    ASSUME NEW cs \in Seq(Calls), cs # <<>>
    PROVE  /\ Head(cs) \in Calls /\ Tail(cs) \in Seq(Calls) /\ Pending(cs) = {Head(cs)} \cup Pending(Tail(cs))
           /\ Spoken(cs) = Speaks(Head(cs)) \cup Spoken(Tail(cs))
<1> DEFINE ts == Tail(cs)
<1>1. /\ ts \in Seq(Calls) /\ Len(ts) = Len(cs) - 1 /\ Len(cs) \in Nat \ {0} /\ Head(cs) = cs[1] /\ Head(cs) \in Calls
      /\ \A n \in 1..Len(ts) : ts[n] = cs[n + 1]
  OBVIOUS
<1>2. Pending(cs) = {Head(cs)} \cup Pending(ts)
  <2> HIDE DEF ts
  <2>1. Pending(ts) \subseteq Pending(cs) /\ Head(cs) \in Pending(cs)
    BY <1>1 DEF Pending
  <2>2. ASSUME NEW n \in 1..Len(cs) PROVE cs[n] \in {Head(cs)} \cup Pending(ts)
    <3>1. CASE n = 1
      BY <1>1, <3>1
    <3>2. CASE n # 1
      <4>1. n - 1 \in 1..Len(ts) /\ ts[n - 1] = cs[n]
        BY <1>1, <3>2
      <4> QED BY <4>1 DEF Pending
    <3> QED BY <3>1, <3>2
  <2> QED BY <2>1, <2>2 DEF Pending
<1> QED BY <1>1, <1>2 DEF Spoken

LEMMA ReadsAdded ==
    ASSUME NEW cs \in Seq(Calls)
    PROVE  /\ cs \o Reads \in Seq(Calls) /\ Spoken(cs \o Reads) = Spoken(cs)
           /\ Pending(cs \o Reads) = Pending(cs) \cup {[op |-> "labels", mine |-> TRUE], [op |-> "given", mine |-> TRUE]}
<1> DEFINE r1 == [op |-> "labels", mine |-> TRUE]
           r2 == [op |-> "given", mine |-> TRUE]
           ds == cs \o Reads
<1>1. r1 \in Calls /\ r2 \in Calls /\ Speaks(r1) = {} /\ Speaks(r2) = {}
  BY DEF Calls, Speaks
<1>2. Reads = <<r1, r2>> /\ Reads \in Seq(Calls) /\ Len(Reads) = 2 /\ Reads[1] = r1 /\ Reads[2] = r2
  <2> HIDE DEF r1, r2
  <2>1. Reads = <<r1, r2>>
    BY DEF Reads, r1, r2
  <2> QED BY <1>1, <2>1
<1>3. /\ ds \in Seq(Calls) /\ Len(ds) = Len(cs) + 2 /\ Len(cs) \in Nat
      /\ (\A n \in 1..Len(cs) : ds[n] = cs[n]) /\ ds[Len(cs) + 1] = r1 /\ ds[Len(cs) + 2] = r2
  <2> HIDE DEF r1, r2
  <2> QED BY <1>2
<1>4. Pending(ds) = Pending(cs) \cup {r1, r2}
  <2> HIDE DEF ds, r1, r2
  <2>1. 1..Len(ds) = 1..Len(cs) \cup {Len(cs) + 1, Len(cs) + 2}
    BY <1>3
  <2> QED BY <1>3, <2>1 DEF Pending
<1> HIDE DEF ds, r1, r2
<1>5. Spoken(ds) = Spoken(cs)
  BY <1>1, <1>4 DEF Spoken
<1> QED BY <1>3, <1>4, <1>5 DEF ds, r1, r2

LEMMA IgnoredCalls ==
    ASSUME NEW cs \in Seq(Calls), NEW sel
    PROVE  /\ Ignored(cs, sel) \in Seq(Calls) /\ Len(Ignored(cs, sel)) = Len(cs)
           /\ \A n \in 1..Len(cs) : /\ Ignored(cs, sel)[n].op = cs[n].op
                                    /\ Ignored(cs, sel)[n] = cs[n] \/ ~Ignored(cs, sel)[n].mine
                                    /\ cs[n].op \notin sel => Ignored(cs, sel)[n] = cs[n]
                                    /\ cs[n].op \in sel => ~Ignored(cs, sel)[n].mine
                                    /\ Speaks(Ignored(cs, sel)[n]) = Speaks(cs[n])
           /\ Spoken(Ignored(cs, sel)) = Spoken(cs)
<1> DEFINE ds == Ignored(cs, sel)
<1>1. Len(cs) \in Nat /\ DOMAIN cs = 1..Len(cs) /\ \A n \in 1..Len(cs) : cs[n] \in Calls
  OBVIOUS
<1>2. ds = [n \in 1..Len(cs) |-> IF cs[n].op \in sel THEN [cs[n] EXCEPT !.mine = FALSE] ELSE cs[n]]
  BY <1>1 DEF Ignored
<1>3. ASSUME NEW n \in 1..Len(cs)
      PROVE  /\ ds[n] \in Calls /\ ds[n].op = cs[n].op /\ (cs[n].op \in sel => ~ds[n].mine) /\ (cs[n].op \notin sel => ds[n] = cs[n])
             /\ Speaks(ds[n]) = Speaks(cs[n])
  <2> DEFINE d == [cs[n] EXCEPT !.mine = FALSE]
  <2>1. ds[n] = IF cs[n].op \in sel THEN d ELSE cs[n]
    BY <1>2
  <2>2. cs[n] \in Calls
    BY <1>1
  <2>3. d \in Calls /\ d.op = cs[n].op /\ d.mine = FALSE /\ Speaks(d) = Speaks(cs[n])
    BY <2>2, IgnoredCall
  <2> HIDE DEF d, ds
  <2> QED BY <2>1, <2>2, <2>3
<1>4. ds \in Seq(Calls) /\ Len(ds) = Len(cs)
  <2>1. ds \in [1..Len(cs) -> Calls]
    BY <1>2, <1>3
  <2> HIDE DEF ds
  <2> QED BY <1>1, <2>1
<1> HIDE DEF ds
<1>5. Spoken(ds) = Spoken(cs)
  BY <1>3, <1>4 DEF Spoken, Pending
<1> QED BY <1>3, <1>4, <1>5 DEF ds

LEMMA DeriveTyped == ASSUME NEW k \in Kinds, NEW i \in Nat
                     PROVE Derive(k, i) \in Calls /\ Derive(k, i).op = "address" /\ Derive(k, i).of = <<k, i>> /\ Speaks(Derive(k, i)) = {<<k, i>>}
  BY DEF Derive, Calls, Address, Speaks

LEMMA DerivingCalls ==
    ASSUME NEW cs \in Seq(Calls), NEW k \in Kinds, NEW i \in Nat
    PROVE  /\ Deriving(cs, k, i) \in Seq(Calls) /\ Spoken(Deriving(cs, k, i)) = Spoken(cs) \cup {<<k, i>>}
           /\ \A c \in Pending(Deriving(cs, k, i)) :
                 c = Derive(k, i) \/ (c.op = "address" /\ ~c.mine) \/ (c.op # "address" /\ c \in Pending(cs))
           /\ \A c \in Pending(cs) : c.op # "address" => c \in Pending(Deriving(cs, k, i))
<1> DEFINE is == Ignored(cs, {"address"})
           ds == Append(is, Derive(k, i))
<1>1. is \in Seq(Calls) /\ Len(is) = Len(cs) /\ Spoken(is) = Spoken(cs)
  BY IgnoredCalls
<1>2. \A n \in 1..Len(cs) : is[n].op = cs[n].op /\ (cs[n].op # "address" => is[n] = cs[n]) /\ (cs[n].op = "address" => ~is[n].mine)
  BY IgnoredCalls
<1>3. Deriving(cs, k, i) = ds
  BY DEF Deriving
<1> HIDE DEF is
<1>4. ds \in Seq(Calls) /\ Pending(ds) = Pending(is) \cup {Derive(k, i)} /\ Spoken(ds) = Spoken(is) \cup {<<k, i>>}
  BY <1>1, Appended, DeriveTyped
<1> HIDE DEF ds
<1>5. \A c \in Pending(is) : (c.op = "address" /\ ~c.mine) \/ (c.op # "address" /\ c \in Pending(cs))
  BY <1>1, <1>2 DEF Pending
<1>6. \A c \in Pending(cs) : c.op # "address" => c \in Pending(is)
  BY <1>1, <1>2 DEF Pending
<1> QED BY <1>1, <1>3, <1>4, <1>5, <1>6

(* The addresses *)

LEMMA LatestIs ==
    ASSUME NEW b \in Nat, NEW S, S \subseteq 0..b, S # {}
    PROVE  Latest(S) \in S /\ \A n \in S : n <= Latest(S)
<1> DEFINE T == {b - n : n \in S}
<1>1. T \subseteq Nat /\ T # {}
  <2>1. \A n \in S : b - n \in Nat
    OBVIOUS
  <2> QED BY <2>1
<1>2. PICK x \in T : \A y \in T : ~(<<y, x>> \in OpToRel(<, Nat))
  <2> HIDE DEF T
  <2> QED BY <1>1, NatLessThanWellFounded, WFMin
<1>3. \A y \in T : ~(y < x)
  BY <1>1, <1>2 DEF OpToRel
<1>4. PICK n \in S : x = b - n
  OBVIOUS
<1>5. \A m \in S : ~(b - m < b - n)
  BY <1>3, <1>4
<1>6. \A m \in S : m <= n
  <2>1. \A m \in S : m \in Nat /\ b - m \in Nat
    OBVIOUS
  <2> QED BY <1>5, <2>1
<1> QED BY <1>6 DEF Latest

LEMMA LatestOfTwo ==
    ASSUME NEW m \in Nat, NEW n \in Nat
    PROVE  Latest({m, n}) = (IF m >= n THEN m ELSE n)
<1>1. CASE m >= n
  <2>1. m \in {m, n} /\ \A j \in {m, n} : j <= m
    BY <1>1
  <2>2. \A i \in {m, n} : (\A j \in {m, n} : j <= i) => i = m
    BY <1>1
  <2> QED BY <1>1, <2>1, <2>2 DEF Latest
<1>2. CASE n > m
  <2>1. n \in {m, n} /\ \A j \in {m, n} : j <= n
    BY <1>2
  <2>2. \A i \in {m, n} : (\A j \in {m, n} : j <= i) => i = n
    BY <1>2
  <2> QED BY <1>2, <2>1, <2>2 DEF Latest
<1> QED BY <1>1, <1>2

LEMMA TypeGives ==
    ASSUME ReceiveType
    PROVE  /\ out \subseteq Address /\ given \subseteq Address /\ labels \subseteq Address
           /\ notes.given \subseteq Address /\ notes.labels \subseteq Address
           /\ scan.blocks \in Nat /\ scan.used \in [Kinds -> Nat] /\ scan.found \subseteq 1..Len(chain)
           /\ Len(chain) \in Nat /\ \A b \in 1..Len(chain) : chain[b] \in out
  BY DEF ReceiveType, Known, Scans, NoteSets

\* What can be listed, shown and named is among the addresses known.
LEMMA ListedKnown ==
    ASSUME ReceiveType, NEW k \in Kinds
    PROVE  /\ InPicker(k) # {} /\ \A i \in InPicker(k) : i \in Nat /\ <<k, i>> \in Known
           /\ \E top \in Nat : InPicker(k) \subseteq 0..top
<1>1. Taken \subseteq Known /\ Taken \subseteq Address
  BY TypeGives DEF Taken, Payments, Known
<1>2. ASSUME NEW i \in InPicker(k) PROVE i \in Nat /\ <<k, i>> \in Known
  <2>1. CASE i = 0 \/ i = index[k]
    BY <2>1 DEF ReceiveType, Known
  <2>2. CASE i \notin {0, index[k]}
    <3>1. PICK t \in Taken : t[1] = k /\ i = t[2]
      BY <2>2 DEF InPicker
    <3>2. t \in Kinds \X Nat
      BY <1>1 DEF Address
    <3>3. t = <<k, i>> /\ i \in Nat
      BY <3>1, <3>2
    <3> QED BY <1>1, <3>3
  <2> QED BY <2>1, <2>2
<1>3. PICK top \in Nat : \A a \in Known : a[2] <= top
  BY DEF ReceiveType
<1>4. \A i \in InPicker(k) : i \in Nat /\ <<k, i>>[2] <= top
  BY <1>2, <1>3
<1>5. InPicker(k) \subseteq 0..top
  BY <1>4
<1>6. InPicker(k) # {}
  BY DEF InPicker
<1> QED BY <1>2, <1>5, <1>6

\* New address is past every address known of its type.
LEMMA NewPastListed ==
    ASSUME ReceiveType, NEW k \in Kinds
    PROVE  NextNew(k) \in Nat /\ \A i \in InPicker(k) : i < NextNew(k)
<1> DEFINE last == Latest(InPicker(k))
<1>1. \A i \in InPicker(k) : i \in Nat
  BY ListedKnown
<1>2. last \in InPicker(k) /\ \A i \in InPicker(k) : i <= last
  <2>1. PICK top \in Nat : InPicker(k) \subseteq 0..top
    BY ListedKnown
  <2> QED BY <2>1, ListedKnown, LatestIs
<1>3. last \in Nat /\ scan.used[k] \in Nat
  BY <1>1, <1>2, TypeGives
<1> HIDE DEF last
<1>4. NextNew(k) = Latest({scan.used[k], last + 1})
  BY DEF NextNew, Used, last
<1>5. NextNew(k) = IF scan.used[k] >= last + 1 THEN scan.used[k] ELSE last + 1
  BY <1>3, <1>4, LatestOfTwo
<1> QED BY <1>1, <1>2, <1>3, <1>5

LEMMA GivingOut ==
    ASSUME ReceiveType, NEW a \in Address
    PROVE  /\ GiveOut(calls, a) \in Seq(Calls) /\ Spoken(GiveOut(calls, a)) \subseteq Spoken(calls) \cup {a}
           /\ a \in given => GiveOut(calls, a) = calls
           /\ a \notin given => Pending(GiveOut(calls, a)) = Pending(calls) \cup {[op |-> "read to give", of |-> a, mine |-> TRUE]}
<1> DEFINE c == [op |-> "read to give", of |-> a, mine |-> TRUE]
<1>1. c \in Calls /\ Speaks(c) = {a}
  BY DEF Calls, Speaks
<1>2. calls \in Seq(Calls)
  BY DEF ReceiveType
<1>3. GiveOut(calls, a) = IF a \in given THEN calls ELSE Append(calls, c)
  BY DEF GiveOut
<1> HIDE DEF c
<1>4. Append(calls, c) \in Seq(Calls) /\ Pending(Append(calls, c)) = Pending(calls) \cup {c} /\ Spoken(Append(calls, c)) = Spoken(calls) \cup {a}
  BY <1>1, <1>2, Appended
<1>5. GiveOut(calls, a) \in Seq(Calls) /\ Spoken(GiveOut(calls, a)) \subseteq Spoken(calls) \cup {a}
  BY <1>2, <1>3, <1>4
<1>6. a \notin given => Pending(GiveOut(calls, a)) = Pending(calls) \cup {c}
  BY <1>3, <1>4
<1> QED BY <1>3, <1>5, <1>6 DEF c

(* What each step keeps *)

AddressThere == "request while deriving" \notin Uncommon

Shape ==
    /\ chain \in Seq(Address) /\ (\A b \in 1..Len(chain) : chain[b] \in out)
    /\ scan \in Scans /\ scan.blocks <= Len(chain) /\ scan.found \subseteq 1..Len(chain)
    /\ notes \in NoteSets /\ calls \in Seq(Calls)
    /\ open \in BOOLEAN /\ kind \in Kinds /\ index \in [Kinds -> Nat] /\ tab \in {"address", "request"}

\* The screen shows nothing known by no one, unless it is the address now chosen.
Grows == Known' \subseteq Known \cup {<<kind', index'[kind']>>}

LEMMA OpenShape == ReceiveType /\ (Open \/ Leave) => Shape' /\ Grows
<1> SUFFICES ASSUME ReceiveType, Open \/ Leave PROVE Shape' /\ Grows
  OBVIOUS
<1>0. FirstKind \in Kinds /\ calls \in Seq(Calls)
  BY Constants DEF ReceiveType
<1>1. calls' \in Seq(Calls) /\ Spoken(calls') \subseteq Spoken(calls) \cup {<<FirstKind, 0>>}
  <2>1. CASE Open
    <3>1. calls \o Reads \in Seq(Calls) /\ Spoken(calls \o Reads) = Spoken(calls)
      BY <1>0, ReadsAdded
    <3>2. calls' = Deriving(calls \o Reads, FirstKind, 0)
      BY <2>1 DEF Open
    <3>3. \A cs \in Seq(Calls) : /\ Deriving(cs, FirstKind, 0) \in Seq(Calls)
                                 /\ Spoken(Deriving(cs, FirstKind, 0)) = Spoken(cs) \cup {<<FirstKind, 0>>}
      BY <1>0, DerivingCalls
    <3> QED BY <3>1, <3>2, <3>3
  <2>2. CASE Leave
    BY <1>0, <2>2, IgnoredCalls DEF Leave
  <2> QED BY <2>1, <2>2
<1>2. /\ UNCHANGED <<chain, scan, notes, out>> /\ given' = {} /\ labels' = {} /\ kind' = FirstKind /\ index' = NoIndex
      /\ address' = NoAddress /\ code' = NoAddress /\ tab' = "address" /\ open' \in BOOLEAN
  BY DEF Open, Leave, history
<1>3. index' \in [Kinds -> Nat] /\ \A k \in Kinds : index'[k] = 0
  BY <1>2 DEF NoIndex
<1>4. Shape'
  BY <1>0, <1>1, <1>2, <1>3 DEF Shape, ReceiveType
<1>5. {<<k, index'[k]>> : k \in Kinds} \subseteq {<<k, 0>> : k \in Kinds}
  BY <1>3
<1>6. Known' \subseteq Known
  BY <1>0, <1>1, <1>2, <1>5 DEF Known
<1> QED BY <1>4, <1>6 DEF Grows

LEMMA NextUnusedShape == ReceiveType /\ NextUnused => Shape' /\ Grows
<1> SUFFICES ASSUME ReceiveType, NextUnused PROVE Shape' /\ Grows
  OBVIOUS
<1> DEFINE i == NextNew(kind)
           a == <<kind, i>>
<1>0. kind \in Kinds /\ i \in Nat /\ a \in Address /\ index \in [Kinds -> Nat]
  BY NewPastListed DEF ReceiveType, Address
<1>1. /\ index' = [index EXCEPT ![kind] = i] /\ given' = given \cup {a} /\ calls' = Deriving(GiveOut(calls, a), kind, i)
      /\ out' = out \cup {a} /\ address' = NoAddress
      /\ UNCHANGED <<chain, scan, notes, open, labels, kind, code, tab>>
  BY DEF NextUnused
<1> HIDE DEF i
<1>2. GiveOut(calls, a) \in Seq(Calls) /\ Spoken(GiveOut(calls, a)) \subseteq Spoken(calls) \cup {a}
  BY <1>0, GivingOut
<1>3. calls' \in Seq(Calls) /\ Spoken(calls') \subseteq Spoken(calls) \cup {a}
  <2>1. \A cs \in Seq(Calls) : Deriving(cs, kind, i) \in Seq(Calls) /\ Spoken(Deriving(cs, kind, i)) = Spoken(cs) \cup {a}
    BY <1>0, DerivingCalls
  <2> QED BY <1>1, <1>2, <2>1
<1>4. index' \in [Kinds -> Nat] /\ index'[kind] = i /\ \A k \in Kinds : k # kind => index'[k] = index[k]
  BY <1>0, <1>1
<1>5. Shape'
  <2> HIDE DEF a
  <2> QED BY <1>1, <1>3, <1>4 DEF Shape, ReceiveType
<1>6. {<<k, index'[k]>> : k \in Kinds} \subseteq {<<k, index[k]>> : k \in Kinds} \cup {a}
  BY <1>4
<1>7. Known' \subseteq Known \cup {a}
  <2> HIDE DEF a
  <2> QED BY <1>1, <1>3, <1>6 DEF Known
<1>8. kind' = kind
  BY DEF NextUnused
<1> QED BY <1>4, <1>5, <1>7, <1>8 DEF Grows

\* What is shown for an address chosen: it, or the furthest.
LEMMA WithinGives ==
    ASSUME ReceiveType, NEW k \in Kinds, NEW i \in Nat
    PROVE  Within(k, i) \in Nat /\ Within(k, i) \in {i, scan.used[k] + Lookahead}
<1>1. scan.used[k] \in Nat /\ Lookahead \in Nat
  BY TypeGives, Constants
<1> QED BY <1>1 DEF Within, Furthest, Used

LEMMA ShowIndexShape == ReceiveType /\ ShowIndex => Shape' /\ Grows
<1> SUFFICES ASSUME ReceiveType, ShowIndex PROVE Shape' /\ Grows
  OBVIOUS
<1>0. kind \in Kinds /\ index \in [Kinds -> Nat] /\ calls \in Seq(Calls)
  BY DEF ReceiveType
<1>1. PICK i \in Nat : index' = [index EXCEPT ![kind] = i] /\ calls' = Deriving(calls, kind, i)
  <2>1. PICK j \in InPicker(kind) : /\ index' = [index EXCEPT ![kind] = Within(kind, j)]
                                    /\ calls' = Deriving(calls, kind, Within(kind, j))
    BY DEF ShowIndex
  <2>2. j \in Nat /\ Within(kind, j) \in Nat
    BY <1>0, ListedKnown, WithinGives
  <2> QED BY <2>1, <2>2
<1>2. i \in Nat
  BY <1>1
<1>3. calls' \in Seq(Calls) /\ Spoken(calls') = Spoken(calls) \cup {<<kind, i>>}
  BY <1>0, <1>1, <1>2, DerivingCalls
<1>4. index' \in [Kinds -> Nat] /\ index'[kind] = i /\ \A k \in Kinds : k # kind => index'[k] = index[k]
  BY <1>0, <1>1, <1>2
<1>5. address' = NoAddress /\ UNCHANGED <<chain, scan, notes, open, given, labels, kind, code, tab, out>>
  BY DEF ShowIndex, history
<1>6. Shape'
  BY <1>3, <1>4, <1>5 DEF Shape, ReceiveType
<1>7. {<<k, index'[k]>> : k \in Kinds} \subseteq {<<k, index[k]>> : k \in Kinds} \cup {<<kind, i>>}
  BY <1>4
<1>8. Known' \subseteq Known \cup {<<kind, i>>}
  BY <1>3, <1>5, <1>7 DEF Known
<1> QED BY <1>4, <1>5, <1>6, <1>8 DEF Grows

LEMMA ChooseKindShape == ReceiveType /\ ChooseKind => Shape' /\ Grows
<1> SUFFICES ASSUME ReceiveType, ChooseKind PROVE Shape' /\ Grows
  OBVIOUS
<1>0. index \in [Kinds -> Nat] /\ calls \in Seq(Calls)
  BY DEF ReceiveType
<1>1. PICK k \in Kinds, i \in Nat : kind' = k /\ index' = [index EXCEPT ![k] = i] /\ calls' = Deriving(calls, k, i)
  <2>1. PICK k \in Kinds : /\ kind' = k /\ index' = [index EXCEPT ![k] = Within(k, @)]
                           /\ calls' = Deriving(calls, k, Within(k, index[k]))
    BY DEF ChooseKind
  <2>2. index[k] \in Nat /\ Within(k, index[k]) \in Nat
    BY <1>0, WithinGives
  <2> QED BY <2>1, <2>2
<1>2. address' = NoAddress /\ UNCHANGED <<chain, scan, notes, open, given, labels, code, tab, out>>
  BY DEF ChooseKind, history
<1>3. calls' \in Seq(Calls) /\ Spoken(calls') = Spoken(calls) \cup {<<k, i>>}
  BY <1>0, <1>1, DerivingCalls
<1>4. index' \in [Kinds -> Nat] /\ index'[k] = i /\ \A l \in Kinds : l # k => index'[l] = index[l]
  BY <1>0, <1>1
<1>5. Shape'
  BY <1>1, <1>2, <1>3, <1>4 DEF Shape, ReceiveType
<1>6. {<<l, index'[l]>> : l \in Kinds} \subseteq {<<l, index[l]>> : l \in Kinds} \cup {<<k, i>>}
  BY <1>4
<1>7. Known' \subseteq Known \cup {<<k, i>>}
  BY <1>2, <1>3, <1>6 DEF Known
<1> QED BY <1>1, <1>4, <1>5, <1>7 DEF Grows

LEMMA HandsOnShape == ReceiveType /\ AddressThere /\ (HandAddress \/ HandRequest) => Shape' /\ Grows
<1> SUFFICES ASSUME ReceiveType, AddressThere, HandAddress \/ HandRequest PROVE Shape' /\ Grows
  OBVIOUS
<1>1. PICK text \in {address, code} \ {NoAddress} : HandsOn(text)
  BY DEF HandAddress, HandRequest, AddressThere
<1>2. /\ given' = given \cup {Shown} /\ calls' = GiveOut(calls, Shown) /\ out' = out \cup {text}
      /\ UNCHANGED <<chain, scan, notes, open, labels, kind, index, address, code, tab>>
  BY <1>1 DEF HandsOn
<1>3. Shown \in Address /\ Shown \in {<<k, index[k]>> : k \in Kinds}
  BY DEF Shown, Address, ReceiveType
<1>4. calls' \in Seq(Calls) /\ Spoken(calls') \subseteq Spoken(calls) \cup {Shown}
  BY <1>2, <1>3, GivingOut
<1>5. Shape'
  BY <1>2, <1>4 DEF Shape, ReceiveType
<1>6. Known' \subseteq Known
  <2>1. out' \subseteq Known /\ given' \subseteq Known /\ Spoken(calls') \subseteq Known
    BY <1>1, <1>2, <1>3, <1>4 DEF Known
  <2> QED BY <1>2, <2>1 DEF Known
<1> QED BY <1>5, <1>6 DEF Grows

LEMMA ChooseTabShape == ReceiveType /\ ChooseTab => Shape' /\ Grows
<1> SUFFICES ASSUME ReceiveType, ChooseTab PROVE Shape' /\ Grows
  OBVIOUS
<1>1. /\ tab' \in {"address", "request"} /\ code' \in {address, code}
      /\ UNCHANGED <<chain, scan, notes, calls, open, given, labels, kind, index, address, out>>
  BY DEF ChooseTab, history
<1>2. Shape'
  BY <1>1 DEF Shape, ReceiveType
<1>3. Known' \subseteq Known
  BY <1>1 DEF Known
<1> QED BY <1>2, <1>3 DEF Grows

LEMMA NameAddressShape == ReceiveType /\ NameAddress => Shape' /\ Grows
<1> SUFFICES ASSUME ReceiveType, NameAddress PROVE Shape' /\ Grows
  OBVIOUS
<1>0. kind \in Kinds /\ calls \in Seq(Calls)
  BY DEF ReceiveType
<1>1. PICK i \in InPicker(kind), named \in BOOLEAN :
         calls' = Append(calls, [op |-> "read to name", of |-> <<kind, i>>, named |-> named, mine |-> TRUE])
  BY DEF NameAddress
<1> DEFINE c == [op |-> "read to name", of |-> <<kind, i>>, named |-> named, mine |-> TRUE]
<1>2. i \in Nat /\ <<kind, i>> \in Known
  BY <1>0, ListedKnown
<1>3. c \in Calls /\ Speaks(c) = {<<kind, i>>}
  BY <1>0, <1>2 DEF Calls, Speaks, Address
<1>4. calls' \in Seq(Calls) /\ Spoken(calls') = Spoken(calls) \cup {<<kind, i>>}
  <2> HIDE DEF c
  <2>1. Append(calls, c) \in Seq(Calls) /\ Spoken(Append(calls, c)) = Spoken(calls) \cup Speaks(c)
    BY <1>0, <1>3, Appended
  <2>2. calls' = Append(calls, c)
    BY <1>1 DEF c
  <2> QED BY <1>3, <2>1, <2>2
<1>5. UNCHANGED <<chain, scan, notes, open, given, labels, kind, index, address, code, tab, out>>
  BY DEF NameAddress, page, history
<1>6. Shape'
  BY <1>4, <1>5 DEF Shape, ReceiveType
<1>7. Known' \subseteq Known
  BY <1>2, <1>4, <1>5 DEF Known
<1> QED BY <1>6, <1>7 DEF Grows

LEMMA AnswerShape == ReceiveType /\ Answer => Shape' /\ Grows
<1> SUFFICES ASSUME ReceiveType, Answer PROVE Shape' /\ Grows
  OBVIOUS
<1> DEFINE c == Head(calls)
           rest == Tail(calls)
<1>0. calls \in Seq(Calls) /\ calls # <<>> /\ notes \in NoteSets
  BY DEF ReceiveType, Answer
<1>1. c \in Calls /\ rest \in Seq(Calls) /\ Spoken(calls) = Speaks(c) \cup Spoken(rest)
  BY <1>0, TailOf
<1>2. UNCHANGED <<chain, scan, open, kind, index, address, code, tab, out>>
  BY DEF Answer, history
<1>3. Speaks(c) \subseteq Address /\ Speaks(c) \subseteq Spoken(calls) /\ Spoken(rest) \subseteq Spoken(calls)
  BY <1>1, CallTyped
<1> DEFINE S == notes.given \cup notes.labels \cup given \cup labels \cup Spoken(calls)
<1>4. notes.given \subseteq Address /\ notes.labels \subseteq Address /\ S \subseteq Known
  <2>1. S \subseteq Known
    BY DEF Known
  <2> QED BY <2>1 DEF ReceiveType, NoteSets
<1>s. ASSUME NEW g \in SUBSET S, NEW l \in SUBSET S, Sets(c, g, l) PROVE given' \subseteq S /\ labels' \subseteq S
  BY <1>s DEF Sets
<1> DEFINE Goal == calls' \in Seq(Calls) /\ Spoken(calls') \subseteq S /\ given' \subseteq S /\ labels' \subseteq S
                   /\ notes' \in NoteSets /\ notes'.given \subseteq S /\ notes'.labels \subseteq S
<1>5. ASSUME c.op \in {"labels", "given"} PROVE Goal
  <2>1. calls' = rest /\ UNCHANGED notes /\ (Sets(c, given, notes.labels) \/ Sets(c, notes.given, labels))
    BY <1>5 DEF Answer
  <2>2. given' \subseteq S /\ labels' \subseteq S
    BY <2>1, <1>s
  <2>3. Goal
    <3> HIDE DEF c, rest
    <3> QED BY <2>1, <2>2, <1>0, <1>1, <1>3
  <2> QED BY <2>3
<1>6. ASSUME c.op = "read to give" /\ c.of \in notes.given PROVE Goal
  <2>1. calls' = rest /\ UNCHANGED notes /\ Sets(c, notes.given, labels)
    BY <1>6 DEF Answer
  <2>2. given' \subseteq S /\ labels' \subseteq S
    BY <2>1, <1>s
  <2>3. Goal
    <3> HIDE DEF c, rest
    <3> QED BY <2>1, <2>2, <1>0, <1>1, <1>3
  <2> QED BY <2>3
<1>7. ASSUME c.op = "read to give" /\ c.of \notin notes.given PROVE Goal
  <2> DEFINE d == [op |-> "give", set |-> notes.given \cup {c.of}, mine |-> c.mine]
  <2>1. calls' = Append(rest, d) /\ UNCHANGED <<notes, given, labels>>
    BY <1>7 DEF Answer
  <2>2. c.mine \in BOOLEAN /\ c.of \in Address /\ Speaks(c) = {c.of}
    <3> HIDE DEF c
    <3> QED BY <1>1, <1>7, CallTyped DEF Speaks
  <2>3. notes.given \cup {c.of} \in SUBSET Address
    BY <1>4, <2>2
  <2>4. d \in Calls /\ Speaks(d) = notes.given \cup {c.of}
    <3> HIDE DEF c
    <3> QED BY <2>2, <2>3 DEF Calls, Speaks
  <2>5. Append(rest, d) \in Seq(Calls) /\ Spoken(Append(rest, d)) = Spoken(rest) \cup Speaks(d)
    <3> HIDE DEF c, rest, d
    <3> QED BY <1>1, <2>4, Appended
  <2>6. calls' \in Seq(Calls) /\ Spoken(calls') \subseteq S
    <3> HIDE DEF c, rest, d
    <3> QED BY <1>3, <2>1, <2>2, <2>4, <2>5
  <2>7. Goal
    <3> HIDE DEF c, rest, d
    <3> QED BY <1>0, <2>1, <2>6
  <2> QED BY <2>7
<1>8. ASSUME c.op = "give" PROVE Goal
  <2>1. calls' = rest /\ Sets(c, c.set, labels) /\ notes' = [notes EXCEPT !.given = c.set]
    BY <1>8 DEF Answer
  <2>2. c.set \subseteq Address /\ Speaks(c) = c.set
    <3> HIDE DEF c
    <3> QED BY <1>1, <1>8, CallTyped DEF Speaks
  <2>3. given' \subseteq S /\ labels' \subseteq S
    <3>1. c.set \in SUBSET S
      BY <1>3, <2>2
    <3> QED BY <2>1, <3>1, <1>s
  <2>4. Goal
    <3> HIDE DEF c, rest
    <3> QED BY <2>1, <2>2, <2>3, <1>0, <1>1, <1>3 DEF NoteSets
  <2> QED BY <2>4
<1>9. ASSUME c.op = "read to name" PROVE Goal
  <2> DEFINE d == [op |-> "name", set |-> With(notes.labels, c), mine |-> c.mine]
  <2>1. calls' = Append(rest, d) /\ UNCHANGED <<notes, given, labels>>
    BY <1>9 DEF Answer
  <2>2. c.mine \in BOOLEAN /\ c.of \in Address /\ Speaks(c) = {c.of}
    <3> HIDE DEF c
    <3> QED BY <1>1, <1>9, CallTyped DEF Speaks
  <2>3. With(notes.labels, c) \subseteq notes.labels \cup {c.of}
    <3> HIDE DEF c
    <3> QED BY DEF With
  <2>4. d \in Calls /\ Speaks(d) = With(notes.labels, c)
    <3>1. With(notes.labels, c) \in SUBSET Address /\ c.mine \in BOOLEAN
      BY <1>4, <2>2, <2>3
    <3>2. \A Y \in SUBSET Address, m \in BOOLEAN :
            /\ [op |-> "name", set |-> Y, mine |-> m] \in Calls
            /\ Speaks([op |-> "name", set |-> Y, mine |-> m]) = Y
      BY DEF Calls, Speaks
    <3> HIDE DEF c
    <3> QED BY <3>1, <3>2
  <2>5. Append(rest, d) \in Seq(Calls) /\ Spoken(Append(rest, d)) = Spoken(rest) \cup Speaks(d)
    <3> HIDE DEF c, rest, d
    <3> QED BY <1>1, <2>4, Appended
  <2>6. calls' \in Seq(Calls) /\ Spoken(calls') \subseteq S
    <3> HIDE DEF c, rest, d
    <3> QED BY <1>3, <2>1, <2>2, <2>3, <2>4, <2>5
  <2>7. Goal
    <3> HIDE DEF c, rest, d
    <3> QED BY <1>0, <2>1, <2>6
  <2> QED BY <2>7
<1>10. ASSUME c.op = "name" PROVE Goal
  <2>1. calls' = rest /\ Sets(c, given, c.set) /\ notes' = [notes EXCEPT !.labels = c.set]
    BY <1>10 DEF Answer
  <2>2. c.set \subseteq Address /\ Speaks(c) = c.set
    <3> HIDE DEF c
    <3> QED BY <1>1, <1>10, CallTyped DEF Speaks
  <2>3. given' \subseteq S /\ labels' \subseteq S
    <3>1. c.set \in SUBSET S
      BY <1>3, <2>2
    <3> QED BY <2>1, <3>1, <1>s
  <2>4. Goal
    <3> HIDE DEF c, rest
    <3> QED BY <2>1, <2>2, <2>3, <1>0, <1>1, <1>3 DEF NoteSets
  <2> QED BY <2>4
<1>11. Goal
  <2>1. c.op \in {"labels", "given", "read to give", "give", "read to name", "name"}
    BY DEF Answer
  <2>2. c.op = "read to give" => c.of \in notes.given \/ c.of \notin notes.given
    OBVIOUS
  <2> HIDE DEF Goal, c
  <2> QED BY <2>2, <1>5, <1>6, <1>7, <1>8, <1>9, <1>10, <2>1
<1> HIDE DEF c, rest, S
<1>12. Shape'
  BY <1>2, <1>11 DEF Shape, ReceiveType
<1>13. Known' \subseteq Known
  BY <1>2, <1>4, <1>11 DEF Known
<1> QED BY <1>12, <1>13 DEF Grows

LEMMA DerivedShape == ReceiveType /\ AddressDerived => Shape' /\ Grows
<1> SUFFICES ASSUME ReceiveType, AddressDerived PROVE Shape' /\ Grows
  OBVIOUS
<1>0. calls \in Seq(Calls) /\ calls # <<>> /\ Head(calls).op = "address" /\ calls' = Tail(calls)
  BY DEF ReceiveType, AddressDerived
<1>1. Head(calls) \in Calls /\ Tail(calls) \in Seq(Calls) /\ Spoken(calls) = Speaks(Head(calls)) \cup Spoken(Tail(calls))
  BY <1>0, TailOf
<1>2. Speaks(Head(calls)) = {Head(calls).of}
  BY <1>0 DEF Speaks
<1>3. address' \in {address, Head(calls).of} /\ code' \in {code, Head(calls).of}
  BY DEF AddressDerived
<1>4. UNCHANGED <<chain, scan, notes, open, given, labels, kind, index, tab, out>>
  BY DEF AddressDerived, history
<1>5. Shape'
  BY <1>0, <1>1, <1>4 DEF Shape, ReceiveType
<1>6. Spoken(calls') \subseteq Spoken(calls) /\ Head(calls).of \in Spoken(calls)
  BY <1>0, <1>1, <1>2
<1>7. Known' \subseteq Known
  BY <1>3, <1>4, <1>6 DEF Known
<1> QED BY <1>5, <1>7 DEF Grows

LEMMA PayShape == ReceiveType /\ Pay => Shape' /\ Grows
<1> SUFFICES ASSUME ReceiveType, Pay PROVE Shape' /\ Grows
  OBVIOUS
<1>1. PICK a \in out : chain' = Append(chain, a)
  BY DEF Pay
<1>2. UNCHANGED <<scan, notes, calls, open, given, labels, kind, index, address, code, tab, out>>
  BY DEF Pay, page, history
<1>3. chain \in Seq(Address) /\ a \in Address
  BY TypeGives DEF ReceiveType
<1>4. /\ chain' \in Seq(Address) /\ Len(chain') = Len(chain) + 1 /\ Len(chain) \in Nat
      /\ \A b \in 1..Len(chain') : chain'[b] = chain[b] \/ (b = Len(chain) + 1 /\ chain'[b] = a)
      /\ \A b \in 1..Len(chain') : b \in 1..Len(chain) => chain'[b] = chain[b]
  BY <1>1, <1>3
<1>5. \A b \in 1..Len(chain') : chain'[b] \in out'
  BY <1>1, <1>2, <1>4, TypeGives
<1>6. scan'.blocks <= Len(chain') /\ scan'.found \subseteq 1..Len(chain')
  BY <1>2, <1>4, TypeGives DEF ReceiveType
<1>7. Shape'
  BY <1>2, <1>4, <1>5, <1>6 DEF Shape, ReceiveType
<1>8. Known' \subseteq Known
  BY <1>2 DEF Known
<1> QED BY <1>7, <1>8 DEF Grows

LEMMA RefreshedKeeps ==
    ASSUME ReceiveType, NEW used \in [Kinds -> Nat], Refreshed(used)
    PROVE  /\ calls' \in Seq(Calls) /\ Spoken(calls') \subseteq Spoken(calls) \cup {<<kind, index'[kind]>>}
           /\ index' \in [Kinds -> Nat] /\ (\A k \in Kinds : k # kind => index'[k] = index[k]) /\ address' \in {address, NoAddress}
           /\ index'[kind] <= index[kind] /\ (index'[kind] # index[kind] => index'[kind] = used[kind] + Lookahead)
           /\ (UNCHANGED <<index, address, calls>> \/ (open /\ address' = NoAddress /\ calls' = Deriving(calls \o Reads, kind, index'[kind])))
<1>0. kind \in Kinds /\ index \in [Kinds -> Nat] /\ calls \in Seq(Calls) /\ Lookahead \in Nat
  BY Constants DEF ReceiveType
<1>1. CASE ~(open /\ used # scan.used)
  <2>1. UNCHANGED <<index, address, calls>>
    BY <1>1 DEF Refreshed
  <2> QED BY <1>0, <2>1
<1>2. CASE open /\ used # scan.used
  <2> DEFINE last == used[kind] + Lookahead
             i == IF index[kind] > last THEN last ELSE index[kind]
             cs == calls \o Reads
  <2>1. index' = [index EXCEPT ![kind] = i] /\ address' = NoAddress /\ calls' = Deriving(cs, kind, i)
    BY <1>2 DEF Refreshed
  <2>2. i \in Nat /\ i <= index[kind] /\ (i # index[kind] => i = used[kind] + Lookahead)
    BY <1>0
  <2>3. cs \in Seq(Calls) /\ Spoken(cs) = Spoken(calls)
    BY <1>0, ReadsAdded
  <2> HIDE DEF i, cs
  <2>4. calls' \in Seq(Calls) /\ Spoken(calls') = Spoken(calls) \cup {<<kind, i>>}
    BY <1>0, <2>1, <2>2, <2>3, DerivingCalls
  <2>5. index' \in [Kinds -> Nat] /\ index'[kind] = i /\ \A k \in Kinds : k # kind => index'[k] = index[k]
    BY <1>0, <2>1, <2>2
  <2>6. calls' = Deriving(calls \o Reads, kind, index'[kind])
    BY <2>1, <2>5 DEF cs
  <2> QED BY <1>2, <2>1, <2>2, <2>4, <2>5, <2>6
<1> QED BY <1>1, <1>2

\* What a scan of the next block finds, and what the counters become.
LEMMA ScanGives ==
    ASSUME ReceiveType, ScanBlock
    PROVE  LET a == chain[scan.blocks + 1]  used == [scan.used EXCEPT ![a[1]] = Latest({@, a[2] + 1})] IN
           /\ scan.blocks + 1 \in 1..Len(chain) /\ a \in Address /\ used \in [Kinds -> Nat]
           /\ \A k \in Kinds : used[k] = IF k = a[1] /\ a[2] + 1 > scan.used[k] THEN a[2] + 1 ELSE scan.used[k]
           /\ \/ /\ InWindow(a) /\ Refreshed(used)
                 /\ scan' = [blocks |-> scan.blocks + 1, used |-> used, found |-> scan.found \cup {scan.blocks + 1}]
              \/ ~InWindow(a) /\ scan' = [scan EXCEPT !.blocks = @ + 1] /\ UNCHANGED <<index, address, calls>>
<1> DEFINE a == chain[scan.blocks + 1]
           used == [scan.used EXCEPT ![a[1]] = Latest({@, a[2] + 1})]
<1>1. scan.blocks \in Nat /\ Len(chain) \in Nat /\ scan.blocks < Len(chain) /\ scan.used \in [Kinds -> Nat] /\ chain \in Seq(Address)
  BY TypeGives DEF ScanBlock, ReceiveType
<1>2. scan.blocks + 1 \in 1..Len(chain)
  BY <1>1
<1>3. a \in Address
  BY <1>1, <1>2
<1>4. a[1] \in Kinds /\ a[2] \in Nat
  BY <1>3 DEF Address
<1>5. \/ /\ InWindow(a) /\ Refreshed(used)
         /\ scan' = [blocks |-> scan.blocks + 1, used |-> used, found |-> scan.found \cup {scan.blocks + 1}]
      \/ ~InWindow(a) /\ scan' = [scan EXCEPT !.blocks = @ + 1] /\ UNCHANGED <<index, address, calls>>
  BY DEF ScanBlock
<1> HIDE DEF a
<1>6. Latest({scan.used[a[1]], a[2] + 1}) = IF scan.used[a[1]] >= a[2] + 1 THEN scan.used[a[1]] ELSE a[2] + 1
  BY <1>1, <1>4, LatestOfTwo
<1>7. used = [scan.used EXCEPT ![a[1]] = IF scan.used[a[1]] >= a[2] + 1 THEN scan.used[a[1]] ELSE a[2] + 1]
  BY <1>6
<1>8. used \in [Kinds -> Nat] /\ \A k \in Kinds : used[k] = IF k = a[1] /\ a[2] + 1 > scan.used[k] THEN a[2] + 1 ELSE scan.used[k]
  <2> HIDE DEF used
  <2> QED BY <1>1, <1>4, <1>7
<1> QED BY <1>2, <1>3, <1>5, <1>8 DEF a

LEMMA ScanShape == ReceiveType /\ (ScanBlock \/ Reset) => Shape' /\ Grows
<1> SUFFICES ASSUME ReceiveType, ScanBlock \/ Reset PROVE Shape' /\ Grows
  OBVIOUS
<1>1. UNCHANGED <<chain, notes, open, given, labels, kind, code, tab, out>>
  BY DEF ScanBlock, Reset, history
<1>2. /\ scan' \in Scans /\ scan'.blocks <= Len(chain) /\ scan'.found \subseteq 1..Len(chain)
      /\ (UNCHANGED <<index, address, calls>> \/ \E used \in [Kinds -> Nat] : Refreshed(used))
  <2>1. CASE Reset
    <3>1. scan' = Scanned /\ Refreshed(Fresh) /\ Fresh \in [Kinds -> Nat]
      BY <2>1 DEF Reset, Fresh
    <3> QED BY <3>1, TypeGives DEF Scanned, Scans
  <2>2. CASE ScanBlock
    <3> DEFINE a == chain[scan.blocks + 1]
               used == [scan.used EXCEPT ![a[1]] = Latest({@, a[2] + 1})]
    <3>1. /\ scan.blocks + 1 \in 1..Len(chain) /\ used \in [Kinds -> Nat]
          /\ \/ /\ Refreshed(used)
                /\ scan' = [blocks |-> scan.blocks + 1, used |-> used, found |-> scan.found \cup {scan.blocks + 1}]
             \/ scan' = [scan EXCEPT !.blocks = @ + 1] /\ UNCHANGED <<index, address, calls>>
      BY <2>2, ScanGives
    <3>2. scan \in Scans /\ scan.blocks \in Nat /\ scan.found \subseteq 1..Len(chain) /\ Len(chain) \in Nat
      BY TypeGives DEF ReceiveType
    <3> HIDE DEF a, used
    <3>3. CASE Refreshed(used) /\ scan' = [blocks |-> scan.blocks + 1, used |-> used, found |-> scan.found \cup {scan.blocks + 1}]
      <4>1. scan' \in Scans /\ scan'.blocks = scan.blocks + 1 /\ scan'.found = scan.found \cup {scan.blocks + 1}
        BY <3>1, <3>2, <3>3 DEF Scans
      <4> QED BY <3>1, <3>2, <3>3, <4>1
    <3>4. CASE scan' = [scan EXCEPT !.blocks = @ + 1] /\ UNCHANGED <<index, address, calls>>
      <4>1. scan' \in Scans /\ scan'.blocks = scan.blocks + 1 /\ scan'.found = scan.found
        BY <3>2, <3>4 DEF Scans
      <4> QED BY <3>1, <3>2, <3>4, <4>1
    <3> QED BY <3>1, <3>3, <3>4
  <2> QED BY <2>1, <2>2
<1>3. /\ calls' \in Seq(Calls) /\ Spoken(calls') \subseteq Spoken(calls) \cup {<<kind, index'[kind]>>}
      /\ index' \in [Kinds -> Nat] /\ (\A k \in Kinds : k # kind => index'[k] = index[k]) /\ address' \in {address, NoAddress}
  <2>1. CASE UNCHANGED <<index, address, calls>>
    BY <2>1 DEF ReceiveType
  <2> QED BY <1>2, <2>1, RefreshedKeeps
<1>4. Shape'
  BY <1>1, <1>2, <1>3 DEF Shape, ReceiveType
<1>5. {<<k, index'[k]>> : k \in Kinds} \subseteq {<<k, index[k]>> : k \in Kinds} \cup {<<kind, index'[kind]>>}
  BY <1>3
<1>6. Known' \subseteq Known \cup {<<kind, index'[kind]>>}
  BY <1>1, <1>3, <1>5 DEF Known
<1> QED BY <1>1, <1>4, <1>6 DEF Grows

LEMMA ReceiveTypeStep == AddressThere /\ ReceiveType /\ [ReceiveNext]_receiveVars => ReceiveType' /\ Grows
<1> SUFFICES ASSUME AddressThere, ReceiveType, [ReceiveNext]_receiveVars PROVE ReceiveType' /\ Grows
  OBVIOUS
<1>1. CASE UNCHANGED receiveVars
  <2>1. Known' = Known
    BY <1>1 DEF receiveVars, page, history, Known, Spoken, Pending, Speaks
  <2>2. ReceiveType'
    BY <1>1, <2>1 DEF receiveVars, page, history, ReceiveType
  <2> QED BY <2>1, <2>2 DEF Grows
<1>2. CASE ReceiveNext
  <2>1. Shape' /\ Grows
    BY <1>2, OpenShape, NextUnusedShape, ShowIndexShape, ChooseKindShape, HandsOnShape, ChooseTabShape, NameAddressShape,
       AnswerShape, DerivedShape, PayShape, ScanShape DEF ReceiveNext
  <2>2. <<kind', index'[kind']>> \in Address /\ index'[kind'] \in Nat
    BY <2>1 DEF Shape, Address, ReceiveType
  <2>3. Known' \subseteq Address
    BY <2>1, <2>2 DEF Grows, ReceiveType
  <2>4. \E top \in Nat : \A a \in Known' : a[2] <= top
    <3>1. PICK top \in Nat : \A a \in Known : a[2] <= top
      BY DEF ReceiveType
    <3> DEFINE i == index'[kind']
    <3>2. \A a \in Known' : a[2] \in Nat /\ (a[2] <= top \/ a[2] = i)
      <4>1. \A a \in Known' : a = <<kind', i>> \/ a \in Known
        BY <2>1 DEF Grows
      <4>2. \A a \in Known' : a[2] \in Nat
        BY <2>3 DEF Address
      <4>3. <<kind', i>>[2] = i
        OBVIOUS
      <4> HIDE DEF i
      <4> QED BY <3>1, <4>1, <4>2, <4>3
    <3>3. i \in Nat
      BY <2>2
    <3> HIDE DEF i
    <3>4. CASE i <= top
      BY <3>1, <3>2, <3>3, <3>4
    <3>5. CASE top <= i
      BY <3>1, <3>2, <3>3, <3>5
    <3> QED BY <3>1, <3>3, <3>4, <3>5
  <2> QED BY <2>1, <2>3, <2>4 DEF Shape, ReceiveType
<1> QED BY <1>1, <1>2

(* What is handed on is what was chosen *)

AddressChosen ==
    /\ address # NoAddress => address = Shown
    /\ tab = "request" /\ address # NoAddress => code = address
    /\ \A c \in Pending(calls) : c.op = "address" /\ c.mine => open /\ c.of = Shown
HandsInv == AddressChosen /\ HandsOnChosen

\* An address being derived when another is asked for is ignored.
LEMMA DerivesChosen ==
    ASSUME NEW cs \in Seq(Calls), NEW k \in Kinds, NEW i \in Nat
    PROVE  \A c \in Pending(Deriving(cs, k, i)) : c.op = "address" /\ c.mine => c.of = <<k, i>>
  BY DerivingCalls, DeriveTyped

LEMMA ShapeStep ==
    ASSUME AddressThere, ReceiveType, ReceiveNext
    PROVE  kind' \in Kinds /\ index' \in [Kinds -> Nat] /\ calls' \in Seq(Calls)
<1>1. ReceiveType'
  BY ReceiveTypeStep
<1> QED BY <1>1 DEF ReceiveType

LEMMA ChosenStep == AddressThere /\ ReceiveType /\ HandsInv /\ [ReceiveNext]_receiveVars => HandsInv'
<1> SUFFICES ASSUME AddressThere, ReceiveType, HandsInv, [ReceiveNext]_receiveVars PROVE HandsInv'
  OBVIOUS
<1>0. calls \in Seq(Calls) /\ kind \in Kinds /\ index \in [Kinds -> Nat] /\ open \in BOOLEAN
  BY DEF ReceiveType
<1>1. CASE Open
  <2>1. /\ kind' = FirstKind /\ index' = NoIndex /\ address' = NoAddress /\ open' = TRUE /\ UNCHANGED strays
        /\ calls' = Deriving(calls \o Reads, FirstKind, 0)
    BY <1>1 DEF Open, history
  <2>2. Shown' = <<FirstKind, 0>>
    BY <2>1, Constants DEF Shown, NoIndex
  <2>3. calls \o Reads \in Seq(Calls) /\ FirstKind \in Kinds
    BY <1>0, ReadsAdded, Constants
  <2>4. \A c \in Pending(calls') : c.op = "address" /\ c.mine => c.of = Shown'
    BY <2>1, <2>2, <2>3, DerivesChosen
  <2> QED BY <2>1, <2>4 DEF HandsInv, AddressChosen, HandsOnChosen
<1>2. CASE Leave
  <2>1. address' = NoAddress /\ UNCHANGED strays /\ calls' = Ignored(calls, {calls[n].op : n \in DOMAIN calls})
    BY <1>2 DEF Leave, history
  <2> DEFINE sel == {calls[n].op : n \in DOMAIN calls}
  <2>2. \A n \in 1..Len(calls) : calls[n].op \in sel
    BY <1>0
  <2> HIDE DEF sel
  <2>3. Len(calls') = Len(calls) /\ \A n \in 1..Len(calls) : calls[n].op \in sel => ~calls'[n].mine
    BY <1>0, <2>1, IgnoredCalls DEF sel
  <2>4. \A c \in Pending(calls') : ~c.mine
    BY <2>2, <2>3 DEF Pending
  <2> QED BY <2>1, <2>4 DEF HandsInv, AddressChosen, HandsOnChosen
<1>3. CASE NextUnused \/ ShowIndex \/ ChooseKind
  <2>1. PICK cs \in Seq(Calls), i \in Nat : /\ calls' = Deriving(cs, kind', i) /\ kind' \in Kinds /\ index'[kind'] = i
                                           /\ address' = NoAddress /\ open /\ UNCHANGED <<open, strays>>
    <3>1. CASE NextUnused
      <4> DEFINE i == NextNew(kind)
      <4>1. i \in Nat /\ <<kind, i>> \in Address
        BY <1>0, NewPastListed DEF Address
      <4>2. /\ index' = [index EXCEPT ![kind] = i] /\ calls' = Deriving(GiveOut(calls, <<kind, i>>), kind, i)
            /\ address' = NoAddress /\ open /\ UNCHANGED <<kind, open, strays>>
        BY <3>1 DEF NextUnused, Acts
      <4> HIDE DEF i
      <4>3. GiveOut(calls, <<kind, i>>) \in Seq(Calls)
        BY <4>1, GivingOut
      <4> QED BY <1>0, <4>1, <4>2, <4>3
    <3>2. CASE ShowIndex
      <4>1. PICK j \in InPicker(kind) : /\ index' = [index EXCEPT ![kind] = Within(kind, j)]
                                        /\ calls' = Deriving(calls, kind, Within(kind, j))
        BY <3>2 DEF ShowIndex
      <4>2. j \in Nat /\ Within(kind, j) \in Nat
        BY <1>0, ListedKnown, WithinGives
      <4> QED BY <1>0, <3>2, <4>1, <4>2 DEF ShowIndex, Acts, history
    <3>3. CASE ChooseKind
      <4>1. PICK k \in Kinds : /\ kind' = k /\ index' = [index EXCEPT ![k] = Within(k, @)]
                               /\ calls' = Deriving(calls, k, Within(k, index[k]))
        BY <3>3 DEF ChooseKind
      <4>2. index[k] \in Nat /\ Within(k, index[k]) \in Nat
        BY <1>0, WithinGives
      <4> QED BY <1>0, <3>3, <4>1, <4>2 DEF ChooseKind, Acts, history
    <3> QED BY <1>3, <3>1, <3>2, <3>3
  <2>2. \A c \in Pending(calls') : c.op = "address" /\ c.mine => c.of = <<kind', i>>
    BY <2>1, DerivesChosen
  <2> QED BY <2>1, <2>2 DEF HandsInv, AddressChosen, HandsOnChosen, Shown
<1>4. CASE HandAddress \/ HandRequest
  <2>1. PICK text \in {address, code} \ {NoAddress} : HandsOn(text) /\ text = Shown
    BY <1>4 DEF HandAddress, HandRequest, AddressThere, HandsInv, AddressChosen
  <2>2. calls' = GiveOut(calls, Shown) /\ strays' = strays \cup ({text} \ {Shown}) /\ UNCHANGED <<open, kind, index, address, code, tab>>
    BY <2>1 DEF HandsOn
  <2>3. strays' = {}
    BY <2>1, <2>2 DEF HandsInv, HandsOnChosen
  <2>4. Shown \in Address
    BY <1>0 DEF Shown, Address
  <2>5. \A c \in Pending(calls') : c \in Pending(calls) \/ c.op # "address"
    <3> DEFINE r == [op |-> "read to give", of |-> Shown, mine |-> TRUE]
    <3>1. (Shown \in given => calls' = calls) /\ (Shown \notin given => Pending(calls') = Pending(calls) \cup {r})
      BY <2>2, <2>4, GivingOut
    <3>2. r.op # "address"
      OBVIOUS
    <3> HIDE DEF r
    <3> QED BY <3>1, <3>2
  <2> QED BY <2>2, <2>3, <2>5 DEF HandsInv, AddressChosen, HandsOnChosen, Shown
<1>5. CASE ChooseTab
  BY <1>5 DEF ChooseTab, history, HandsInv, AddressChosen, HandsOnChosen, Shown
<1>6. CASE NameAddress
  <2>1. PICK i \in InPicker(kind), named \in BOOLEAN :
         calls' = Append(calls, [op |-> "read to name", of |-> <<kind, i>>, named |-> named, mine |-> TRUE])
    BY <1>6 DEF NameAddress
  <2> DEFINE c == [op |-> "read to name", of |-> <<kind, i>>, named |-> named, mine |-> TRUE]
  <2>2. i \in Nat
    BY <1>0, ListedKnown
  <2>3. c \in Calls /\ c.op = "read to name"
    BY <1>0, <2>2 DEF Calls, Address
  <2>4. calls' = Append(calls, c)
    BY <2>1
  <2> HIDE DEF c
  <2>5. Pending(calls') = Pending(calls) \cup {c}
    BY <1>0, <2>3, <2>4, Appended
  <2> QED BY <1>6, <2>3, <2>5 DEF NameAddress, page, history, HandsInv, AddressChosen, HandsOnChosen, Shown
<1>7. CASE Answer
  <2> DEFINE rest == Tail(calls)
  <2>1. UNCHANGED <<open, kind, index, address, code, tab, strays>> /\ calls # <<>>
    BY <1>7 DEF Answer, history
  <2>2. rest \in Seq(Calls) /\ Pending(rest) \subseteq Pending(calls)
    BY <1>0, <2>1, TailOf
  <2>3. calls' = rest \/ \E c : c.op # "address" /\ calls' = Append(rest, c)
    <3> DEFINE c == Head(calls)
    <3>1. CASE c.op = "read to give" /\ c.of \notin notes.given
      <4> DEFINE d == [op |-> "give", set |-> notes.given \cup {c.of}, mine |-> c.mine]
      <4>1. calls' = Append(rest, d) /\ d.op # "address"
        BY <1>7, <3>1 DEF Answer
      <4> QED BY <4>1
    <3>2. CASE c.op = "read to name"
      <4> DEFINE d == [op |-> "name", set |-> With(notes.labels, c), mine |-> c.mine]
      <4>1. calls' = Append(rest, d) /\ d.op # "address"
        BY <1>7, <3>2 DEF Answer
      <4> QED BY <4>1
    <3>3. CASE ~(c.op = "read to give" /\ c.of \notin notes.given) /\ c.op # "read to name"
      BY <1>7, <3>3 DEF Answer
    <3> QED BY <3>1, <3>2, <3>3
  <2>4. \A c \in Pending(calls') : c \in Pending(calls) \/ c.op # "address"
    <3>1. CASE calls' = rest
      BY <2>2, <3>1
    <3>2. ASSUME NEW c, c.op # "address", calls' = Append(rest, c) PROVE \A d \in Pending(calls') : d \in Pending(calls) \/ d.op # "address"
      <4>1. Len(calls') = Len(rest) + 1 /\ calls'[Len(rest) + 1] = c /\ \A n \in 1..Len(rest) : calls'[n] = rest[n]
        BY <2>2, <3>2
      <4>2. Len(rest) \in Nat
        BY <2>2
      <4> HIDE DEF rest
      <4> QED BY <2>2, <3>2, <4>1, <4>2 DEF Pending
    <3> QED BY <2>3, <3>1, <3>2
  <2> QED BY <2>1, <2>4 DEF HandsInv, AddressChosen, HandsOnChosen, Shown
<1>8. CASE AddressDerived
  <2>1. /\ calls # <<>> /\ Head(calls).op = "address" /\ calls' = Tail(calls)
        /\ \/ Head(calls).mine /\ address' = Head(calls).of /\ code' = (IF tab = "request" THEN address' ELSE code)
           \/ UNCHANGED <<address, code>>
        /\ UNCHANGED <<open, kind, index, tab, strays>>
    BY <1>8 DEF AddressDerived, history
  <2>2. Head(calls) \in Pending(calls) /\ Pending(calls') \subseteq Pending(calls)
    BY <1>0, <2>1, TailOf
  <2> QED BY <2>1, <2>2 DEF HandsInv, AddressChosen, HandsOnChosen, Shown
<1>9. CASE Pay
  BY <1>9 DEF Pay, page, history, HandsInv, AddressChosen, HandsOnChosen, Shown
<1>10. CASE ScanBlock \/ Reset
  <2>1. UNCHANGED <<open, kind, code, tab, strays>>
    BY <1>10 DEF ScanBlock, Reset, history
  <2>2. UNCHANGED <<index, address, calls>> \/ \E used \in [Kinds -> Nat] : Refreshed(used)
    <3>1. CASE Reset
      <4>1. Refreshed(Fresh) /\ Fresh \in [Kinds -> Nat]
        BY <3>1 DEF Reset, Fresh
      <4> QED BY <4>1
    <3>2. CASE ScanBlock
      BY <3>2, ScanGives
    <3> QED BY <1>10, <3>1, <3>2
  <2>3. index' \in [Kinds -> Nat]
    BY <1>10, ShapeStep DEF ReceiveNext
  <2>4. CASE UNCHANGED <<index, address, calls>>
    BY <2>1, <2>4 DEF HandsInv, AddressChosen, HandsOnChosen, Shown
  <2>5. CASE open /\ address' = NoAddress /\ calls' = Deriving(calls \o Reads, kind, index'[kind])
    <3>1. calls \o Reads \in Seq(Calls) /\ index'[kind] \in Nat
      BY <1>0, <2>3, ReadsAdded
    <3>2. \A c \in Pending(calls') : c.op = "address" /\ c.mine => c.of = <<kind, index'[kind]>>
      BY <1>0, <2>5, <3>1, DerivesChosen
    <3> QED BY <2>1, <2>5, <3>2 DEF HandsInv, AddressChosen, HandsOnChosen, Shown
  <2> QED BY <2>2, <2>4, <2>5, RefreshedKeeps
<1>11. CASE UNCHANGED receiveVars
  BY <1>11 DEF receiveVars, page, history, HandsInv, AddressChosen, HandsOnChosen, Shown
<1> QED BY <1>1, <1>2, <1>3, <1>4, <1>5, <1>6, <1>7, <1>8, <1>9, <1>10, <1>11 DEF ReceiveNext

LEMMA ReceiveStart == ReceiveInit => ReceiveType /\ HandsInv
<1> SUFFICES ASSUME ReceiveInit PROVE ReceiveType /\ HandsInv
  OBVIOUS
<1>1. calls = <<>> /\ Pending(calls) = {} /\ Spoken(calls) = {}
  BY DEF ReceiveInit, Pending, Spoken
<1>2. scan \in Scans /\ scan.blocks = 0 /\ scan.found = {}
  BY DEF ReceiveInit, Scanned, Fresh, Scans
<1>3. index \in [Kinds -> Nat] /\ \A k \in Kinds : index[k] = 0
  BY DEF ReceiveInit, NoIndex
<1>4. Known = {<<k, 0>> : k \in Kinds}
  BY <1>1, <1>3 DEF ReceiveInit, Known
<1>5. Known \subseteq Address /\ \A a \in Known : a[2] <= 0
  BY <1>4 DEF Address
<1>6. ReceiveType
  <2>1. \E top \in Nat : \A a \in Known : a[2] <= top
    BY <1>5
  <2>2. chain = <<>> /\ notes \in NoteSets /\ open \in BOOLEAN /\ kind \in Kinds /\ tab \in {"address", "request"}
    BY Constants DEF ReceiveInit, NoteSets
  <2> QED BY <1>1, <1>2, <1>3, <1>5, <2>1, <2>2 DEF ReceiveType
<1> QED BY <1>1, <1>6 DEF ReceiveInit, HandsInv, AddressChosen, HandsOnChosen

\* Whatever is chosen while addresses are still being derived, what is handed
\* on is the address chosen: an answer for another is ignored, and the request's
\* code is drawn anew with the address (screens/Receive.tsx).
THEOREM HandsWhatWasChosen == AddressThere /\ ReceiveSpec => []HandsOnChosen
<1> SUFFICES ASSUME AddressThere PROVE ReceiveSpec => []HandsOnChosen
  OBVIOUS
<1>1. ReceiveInit => ReceiveType /\ HandsInv
  BY ReceiveStart
<1>2. ReceiveType /\ HandsInv /\ [ReceiveNext]_receiveVars => ReceiveType' /\ HandsInv'
  BY ReceiveTypeStep, ChosenStep
<1>3. ReceiveType /\ HandsInv => HandsOnChosen
  BY DEF HandsInv
<1> QED BY <1>1, <1>2, <1>3, PTL DEF ReceiveSpec

(* What is paid is found *)

\* By the time n payments are scanned, the scan looks for a.
LooksFor(n, a) ==
    \/ a[2] <= Fresh[a[1]] + Lookahead
    \/ \E j \in 1..n : chain[j][1] = a[1] /\ a[2] <= chain[j][2] + 1 + Lookahead

KnownLookedFor == \A a \in Known : LooksFor(Len(chain), a)
PaidLookedFor == \A b \in 1..Len(chain) : LooksFor(b - 1, chain[b])

\* A counter is past every payment scanned, and no further.
CountersFollow ==
    \A k \in Kinds :
        /\ scan.used[k] >= Fresh[k]
        /\ \A j \in 1..scan.blocks : chain[j][1] = k => scan.used[k] >= chain[j][2] + 1
        /\ scan.used[k] = Fresh[k] \/ \E j \in 1..scan.blocks : chain[j][1] = k /\ scan.used[k] = chain[j][2] + 1
FoundSoFar == scan.found = 1..scan.blocks
FoundInv == KnownLookedFor /\ PaidLookedFor /\ CountersFollow /\ FoundSoFar

LEMMA FreshTyped == \A k \in Kinds : Fresh[k] \in Nat
  BY DEF Fresh

LEMMA PaidTyped == ReceiveType => \A b \in 1..Len(chain) : chain[b] \in Address /\ chain[b][1] \in Kinds /\ chain[b][2] \in Nat
  BY TypeGives DEF Address

\* A scan that has got to n looks for what its counters reach.
LEMMA CountersReach ==
    ASSUME ReceiveType, CountersFollow, NEW k \in Kinds, NEW i \in Nat, i <= scan.used[k] + Lookahead
    PROVE  LooksFor(scan.blocks, <<k, i>>)
<1>1. Lookahead \in Nat /\ scan.used[k] \in Nat /\ Fresh[k] \in Nat
  BY Constants, TypeGives, FreshTyped
<1>2. <<k, i>>[1] = k /\ <<k, i>>[2] = i
  OBVIOUS
<1>3. CASE scan.used[k] = Fresh[k]
  BY <1>1, <1>2, <1>3 DEF LooksFor
<1>4. ASSUME NEW j \in 1..scan.blocks, chain[j][1] = k, scan.used[k] = chain[j][2] + 1 PROVE LooksFor(scan.blocks, <<k, i>>)
  <2>1. i <= chain[j][2] + 1 + Lookahead
    BY <1>4
  <2> QED BY <1>2, <1>4, <2>1 DEF LooksFor
<1> QED BY <1>3, <1>4 DEF CountersFollow

LEMMA LooksForMore ==
    ASSUME NEW m \in Nat, NEW n \in Nat, m <= n, NEW a, LooksFor(m, a)
    PROVE  LooksFor(n, a)
<1>1. 1..m \subseteq 1..n
  OBVIOUS
<1> QED BY <1>1 DEF LooksFor

\* The address chosen in a step is one the scan looks for.
LEMMA ChosenLookedFor ==
    ASSUME ReceiveType, FoundInv, ReceiveNext, AddressThere
    PROVE  \/ Known' \subseteq Known
           \/ LooksFor(Len(chain), <<kind', index'[kind']>>)
<1>0. /\ kind \in Kinds /\ index \in [Kinds -> Nat] /\ scan.blocks \in Nat /\ Len(chain) \in Nat /\ scan.blocks <= Len(chain)
      /\ Lookahead \in Nat
  BY TypeGives, Constants DEF ReceiveType
<1>1. Grows /\ kind' \in Kinds /\ index' \in [Kinds -> Nat] /\ index'[kind'] \in Nat
  <2>1. Grows /\ ReceiveType'
    BY ReceiveTypeStep
  <2> QED BY <1>0, <2>1 DEF ReceiveType
<1>2. ASSUME <<kind', index'[kind']>> \in Known PROVE Known' \subseteq Known
  BY <1>1, <1>2 DEF Grows
<1>3. ASSUME index'[kind'] <= scan.used[kind'] + Lookahead PROVE LooksFor(Len(chain), <<kind', index'[kind']>>)
  <2>1. LooksFor(scan.blocks, <<kind', index'[kind']>>)
    BY <1>0, <1>1, <1>3, CountersReach DEF FoundInv
  <2> QED BY <1>0, <2>1, LooksForMore
<1>4. ASSUME index'[kind'] \in {0, index[kind']} PROVE <<kind', index'[kind']>> \in Known
  BY <1>0, <1>1, <1>4 DEF Known
<1>k. ASSUME NEW k \in Kinds, NEW i \in Nat, <<k, i>> \in Known, kind' = k, index' = [index EXCEPT ![k] = Within(k, i)]
      PROVE  Known' \subseteq Known \/ LooksFor(Len(chain), <<kind', index'[kind']>>)
  <2>1. index'[k] = Within(k, i) /\ scan.used[k] \in Nat
    BY <1>0, <1>k, TypeGives
  <2>2. index'[k] \in {i, scan.used[k] + Lookahead}
    BY <1>k, <2>1, WithinGives
  <2>3. scan.used[k] + Lookahead <= scan.used[k] + Lookahead
    BY <1>0, <2>1
  <2> QED BY <1>2, <1>3, <1>k, <2>2, <2>3
<1>5. CASE NextUnused
  <2>1. /\ NextNew(kind) <= scan.used[kind] + Lookahead /\ index' = [index EXCEPT ![kind] = NextNew(kind)]
        /\ kind' = kind
    BY <1>5 DEF NextUnused, Furthest, Used
  <2>2. index'[kind] = NextNew(kind)
    BY <1>0, <2>1
  <2> QED BY <1>3, <2>1, <2>2
<1>6. CASE ShowIndex
  <2>1. PICK i \in InPicker(kind) : index' = [index EXCEPT ![kind] = Within(kind, i)] /\ kind' = kind
    BY <1>6 DEF ShowIndex
  <2>2. i \in Nat /\ <<kind, i>> \in Known
    BY <1>0, ListedKnown
  <2> QED BY <1>0, <1>k, <2>1, <2>2
<1>7. CASE Open \/ Leave
  <2>1. index'[kind'] = 0
    BY <1>1, <1>7 DEF Open, Leave, NoIndex
  <2> QED BY <1>2, <1>4, <2>1
<1>8. CASE HandAddress \/ HandRequest \/ ChooseTab \/ NameAddress \/ Answer \/ AddressDerived \/ Pay
  <2>1. index' = index
    BY <1>8 DEF HandAddress, HandRequest, HandsOn, ChooseTab, NameAddress, Answer, AddressDerived, Pay, page
  <2> QED BY <1>2, <1>4, <2>1
<1>c. CASE ChooseKind
  <2>1. PICK k \in Kinds : kind' = k /\ index' = [index EXCEPT ![k] = Within(k, @)]
    BY <1>c DEF ChooseKind
  <2>2. index' = [index EXCEPT ![k] = Within(k, index[k])] /\ index[k] \in Nat /\ <<k, index[k]>> \in Known
    BY <1>0, <2>1 DEF Known
  <2> QED BY <1>k, <2>1, <2>2
<1>9. CASE ScanBlock \/ Reset
  <2>0. kind' = kind
    BY <1>9 DEF ScanBlock, Reset
  <2>1. ASSUME UNCHANGED <<index, address, calls>> PROVE Known' \subseteq Known
    BY <1>2, <1>4, <2>0, <2>1
  <2>2. ASSUME NEW used \in [Kinds -> Nat], Refreshed(used), LooksFor(Len(chain), <<kind, used[kind] + Lookahead>>)
        PROVE  Known' \subseteq Known \/ LooksFor(Len(chain), <<kind', index'[kind']>>)
    <3>1. index'[kind] = index[kind] \/ index'[kind] = used[kind] + Lookahead
      BY <2>2, RefreshedKeeps
    <3> QED BY <1>2, <1>4, <2>0, <2>2, <3>1
  <2>3. CASE Reset
    <3>1. Refreshed(Fresh) /\ Fresh \in [Kinds -> Nat]
      BY <2>3 DEF Reset, Fresh
    <3>2. Fresh[kind] + Lookahead <= Fresh[kind] + Lookahead
      BY <1>0, FreshTyped
    <3>3. LooksFor(Len(chain), <<kind, Fresh[kind] + Lookahead>>)
      BY <3>2 DEF LooksFor
    <3> QED BY <2>2, <3>1, <3>3
  <2>4. CASE ScanBlock
    <3> DEFINE b == scan.blocks + 1
               a == chain[b]
               used == [scan.used EXCEPT ![a[1]] = Latest({@, a[2] + 1})]
    <3>1. /\ b \in 1..Len(chain) /\ a \in Address /\ used \in [Kinds -> Nat]
          /\ (used[kind] = IF kind = a[1] /\ a[2] + 1 > scan.used[kind] THEN a[2] + 1 ELSE scan.used[kind])
          /\ (Refreshed(used) \/ UNCHANGED <<index, address, calls>>)
      BY <1>0, <2>4, ScanGives
    <3> HIDE DEF b, used
    <3>2. used[kind] \in Nat /\ scan.used[kind] \in Nat
      BY <1>0, <3>1, TypeGives
    <3>3. LooksFor(Len(chain), <<kind, used[kind] + Lookahead>>)
      <4>1. CASE used[kind] = scan.used[kind]
        <5> DEFINE i == used[kind] + Lookahead
        <5>1. i \in Nat /\ i <= scan.used[kind] + Lookahead
          BY <1>0, <3>2, <4>1
        <5> HIDE DEF i
        <5>2. LooksFor(scan.blocks, <<kind, i>>)
          BY <1>0, <5>1, CountersReach DEF FoundInv
        <5>3. LooksFor(Len(chain), <<kind, i>>)
          BY <1>0, <5>2, LooksForMore
        <5> QED BY <5>3 DEF i
      <4>2. CASE used[kind] = a[2] + 1 /\ kind = a[1]
        <5>1. used[kind] + Lookahead <= a[2] + 1 + Lookahead
          BY <1>0, <3>2, <4>2
        <5>2. <<kind, used[kind] + Lookahead>>[1] = kind /\ <<kind, used[kind] + Lookahead>>[2] = used[kind] + Lookahead
          OBVIOUS
        <5> QED BY <3>1, <4>2, <5>1, <5>2 DEF LooksFor
      <4> QED BY <3>1, <4>1, <4>2
    <3> QED BY <2>1, <2>2, <3>1, <3>3
  <2> QED BY <1>9, <2>3, <2>4
<1> QED BY <1>5, <1>6, <1>7, <1>8, <1>9, <1>c DEF ReceiveNext

LEMMA PayFound == AddressThere /\ ReceiveType /\ FoundInv /\ Pay => FoundInv'
<1> SUFFICES ASSUME AddressThere, ReceiveType, FoundInv, Pay PROVE FoundInv'
  OBVIOUS
<1>1. PICK a \in out : chain' = Append(chain, a)
  BY DEF Pay
<1>2. UNCHANGED <<scan, notes, calls, open, given, labels, kind, index, address, code, tab, out>>
  BY DEF Pay, page, history
<1>3. chain \in Seq(Address) /\ a \in Address /\ a \in Known /\ scan.blocks \in Nat /\ scan.blocks <= Len(chain)
  BY TypeGives DEF ReceiveType, Known
<1>4. /\ chain' \in Seq(Address) /\ Len(chain') = Len(chain) + 1 /\ Len(chain) \in Nat
      /\ (\A b \in 1..Len(chain) : chain'[b] = chain[b]) /\ chain'[Len(chain) + 1] = a
  BY <1>1, <1>3
<1>5. ASSUME NEW n \in 0..Len(chain), NEW x, LooksFor(n, x) PROVE LooksFor(n, x)'
  <2>1. \A j \in 1..n : chain'[j] = chain[j]
    BY <1>4
  <2> QED BY <1>5, <2>1 DEF LooksFor
<1>6. PaidLookedFor'
  <2> SUFFICES ASSUME NEW b \in 1..Len(chain') PROVE LooksFor(b - 1, chain[b])'
    BY DEF PaidLookedFor
  <2>1. CASE b \in 1..Len(chain)
    <3>1. b - 1 \in 0..Len(chain) /\ LooksFor(b - 1, chain[b]) /\ chain'[b] = chain[b]
      BY <1>4, <2>1 DEF FoundInv, PaidLookedFor
    <3>2. \A j \in 1..(b - 1) : chain'[j] = chain[j]
      BY <1>4, <2>1
    <3> QED BY <3>1, <3>2 DEF LooksFor
  <2>2. CASE b = Len(chain) + 1
    <3>1. LooksFor(Len(chain), a)
      BY <1>3 DEF FoundInv, KnownLookedFor
    <3>2. b - 1 = Len(chain) /\ chain'[b] = a /\ Len(chain) \in 0..Len(chain)
      BY <1>4, <2>2
    <3> QED BY <1>4, <3>1, <3>2 DEF LooksFor
  <2> QED BY <1>4, <2>1, <2>2
<1>7. KnownLookedFor'
  <2>1. Known' = Known
    BY <1>2 DEF Known
  <2>2. ASSUME NEW x \in Known PROVE LooksFor(Len(chain), x)'
    <3>1. LooksFor(Len(chain), x)
      BY DEF FoundInv, KnownLookedFor
    <3>2. \A j \in 1..Len(chain) : chain'[j] = chain[j] /\ j \in 1..Len(chain')
      BY <1>4
    <3> QED BY <3>1, <3>2 DEF LooksFor
  <2> QED BY <2>1, <2>2 DEF KnownLookedFor
<1>8. CountersFollow' /\ FoundSoFar'
  <2>1. \A j \in 1..scan.blocks : chain'[j] = chain[j]
    BY <1>3, <1>4
  <2> QED BY <1>2, <2>1 DEF FoundInv, CountersFollow, FoundSoFar
<1> QED BY <1>6, <1>7, <1>8 DEF FoundInv

LEMMA ScanFound == AddressThere /\ ReceiveType /\ FoundInv /\ ScanBlock => CountersFollow' /\ FoundSoFar'
<1> SUFFICES ASSUME AddressThere, ReceiveType, FoundInv, ScanBlock PROVE CountersFollow' /\ FoundSoFar'
  OBVIOUS
<1> DEFINE b == scan.blocks + 1
           a == chain[b]
           used == [scan.used EXCEPT ![a[1]] = Latest({@, a[2] + 1})]
<1>1. /\ b \in 1..Len(chain) /\ a \in Address /\ used \in [Kinds -> Nat] /\ scan.blocks \in Nat
      /\ \A k \in Kinds : used[k] = IF k = a[1] /\ a[2] + 1 > scan.used[k] THEN a[2] + 1 ELSE scan.used[k]
      /\ \/ InWindow(a) /\ scan' = [blocks |-> scan.blocks + 1, used |-> used, found |-> scan.found \cup {scan.blocks + 1}]
         \/ ~InWindow(a)
  BY TypeGives, ScanGives
<1>u. UNCHANGED chain
  BY DEF ScanBlock
<1> HIDE DEF used
<1>2. a[1] \in Kinds /\ a[2] \in Nat /\ scan.used \in [Kinds -> Nat] /\ scan.used[a[1]] \in Nat /\ Fresh[a[1]] \in Nat /\ Lookahead \in Nat
  BY <1>1, TypeGives, FreshTyped, Constants DEF Address
<1>3. InWindow(a)
  <2>1. LooksFor(scan.blocks, a)
    BY <1>1 DEF FoundInv, PaidLookedFor
  <2>2. CASE a[2] <= Fresh[a[1]] + Lookahead
    <3>1. scan.used[a[1]] >= Fresh[a[1]]
      BY <1>2 DEF FoundInv, CountersFollow
    <3> QED BY <1>2, <2>2, <3>1 DEF InWindow
  <2>3. ASSUME NEW j \in 1..scan.blocks, chain[j][1] = a[1], a[2] <= chain[j][2] + 1 + Lookahead PROVE InWindow(a)
    <3>1. scan.used[a[1]] >= chain[j][2] + 1
      BY <1>2, <2>3 DEF FoundInv, CountersFollow
    <3>2. chain[j][2] \in Nat
      <4>1. j \in 1..Len(chain)
        BY <1>1, TypeGives DEF ReceiveType
      <4> QED BY <4>1, PaidTyped
    <3> HIDE DEF a
    <3> QED BY <1>2, <2>3, <3>1, <3>2 DEF InWindow
  <2> QED BY <2>1, <2>2, <2>3 DEF LooksFor
<1>4. scan'.blocks = b /\ scan'.used = used /\ scan'.found = scan.found \cup {b}
  BY <1>1, <1>3
<1>5. 1..b = 1..scan.blocks \cup {b}
  BY <1>1
<1>6. FoundSoFar'
  <2> HIDE DEF b, a
  <2> QED BY <1>4, <1>5 DEF FoundInv, FoundSoFar
<1>7. ASSUME NEW k \in Kinds
      PROVE  /\ used[k] >= Fresh[k]
             /\ \A j \in 1..b : chain[j][1] = k => used[k] >= chain[j][2] + 1
             /\ used[k] = Fresh[k] \/ \E j \in 1..b : chain[j][1] = k /\ used[k] = chain[j][2] + 1
  <2>1. used[k] = IF k = a[1] /\ a[2] + 1 > scan.used[k] THEN a[2] + 1 ELSE scan.used[k]
    BY <1>1
  <2>2. scan.used[k] \in Nat /\ Fresh[k] \in Nat /\ used[k] \in Nat
    BY <1>1, <1>2, FreshTyped
  <2>3. /\ scan.used[k] >= Fresh[k]
        /\ \A j \in 1..scan.blocks : chain[j][1] = k => scan.used[k] >= chain[j][2] + 1
        /\ scan.used[k] = Fresh[k] \/ \E j \in 1..scan.blocks : chain[j][1] = k /\ scan.used[k] = chain[j][2] + 1
    BY DEF FoundInv, CountersFollow
  <2>4. \A j \in 1..b : chain[j][2] \in Nat
    <3>1. 1..b \subseteq 1..Len(chain)
      BY <1>1, TypeGives
    <3> QED BY <3>1, PaidTyped
  <2>5. used[k] >= scan.used[k] /\ (k = a[1] => used[k] >= a[2] + 1)
    <3> HIDE DEF a
    <3> QED BY <1>2, <2>1, <2>2
  <2>6. used[k] >= Fresh[k]
    BY <2>2, <2>3, <2>5
  <2>7. \A j \in 1..b : chain[j][1] = k => used[k] >= chain[j][2] + 1
    BY <1>5, <2>2, <2>3, <2>4, <2>5
  <2>8. used[k] = Fresh[k] \/ \E j \in 1..b : chain[j][1] = k /\ used[k] = chain[j][2] + 1
    <3>1. CASE used[k] = scan.used[k]
      BY <1>5, <2>3, <3>1
    <3>2. CASE used[k] # scan.used[k]
      <4>1. k = a[1] /\ used[k] = a[2] + 1 /\ b \in 1..b
        BY <1>5, <2>1, <3>2
      <4> QED BY <4>1
    <3> QED BY <3>1, <3>2
  <2> QED BY <2>6, <2>7, <2>8
<1>8. CountersFollow'
  <2> HIDE DEF b, a
  <2> QED BY <1>4, <1>7, <1>u DEF CountersFollow, Fresh
<1> QED BY <1>6, <1>8

LEMMA FoundStep == AddressThere /\ ReceiveType /\ FoundInv /\ [ReceiveNext]_receiveVars => FoundInv'
<1> SUFFICES ASSUME AddressThere, ReceiveType, FoundInv, [ReceiveNext]_receiveVars PROVE FoundInv'
  OBVIOUS
<1>1. CASE Pay
  BY <1>1, PayFound
<1>2. CASE ReceiveNext /\ ~Pay
  <2>1. UNCHANGED chain
    BY <1>2 DEF ReceiveNext, Open, Leave, NextUnused, ShowIndex, ChooseKind, HandAddress, HandRequest, HandsOn, ChooseTab, NameAddress,
       Answer, AddressDerived, ScanBlock, Reset
  <2>2. PaidLookedFor'
    BY <2>1 DEF FoundInv, PaidLookedFor, LooksFor, Fresh
  <2>3. KnownLookedFor'
    <3>1. \A x \in Known' : x \in Known \/ (x = <<kind', index'[kind']>> /\ LooksFor(Len(chain), x))
      BY <1>2, ChosenLookedFor, ReceiveTypeStep DEF Grows
    <3>2. \A x \in Known' : LooksFor(Len(chain), x)
      BY <3>1 DEF FoundInv, KnownLookedFor
    <3> QED BY <2>1, <3>2 DEF KnownLookedFor, LooksFor, Fresh
  <2>4. CountersFollow' /\ FoundSoFar'
    <3>1. CASE ScanBlock
      BY <3>1, ScanFound
    <3>2. CASE Reset
      <4>1. scan' = Scanned
        BY <3>2 DEF Reset
      <4>2. scan'.blocks = 0 /\ scan'.used = Fresh /\ scan'.found = {}
        BY <4>1 DEF Scanned
      <4>3. \A k \in Kinds : Fresh[k] >= Fresh[k]
        BY FreshTyped
      <4> QED BY <2>1, <4>2, <4>3 DEF CountersFollow, FoundSoFar, Fresh
    <3>3. CASE ~ScanBlock /\ ~Reset
      <4>1. UNCHANGED scan
        BY <1>2, <3>3 DEF ReceiveNext, Open, Leave, NextUnused, ShowIndex, ChooseKind, HandAddress, HandRequest, HandsOn, ChooseTab,
           NameAddress, Answer, AddressDerived
      <4> QED BY <2>1, <4>1 DEF FoundInv, CountersFollow, FoundSoFar, Fresh
    <3> QED BY <3>1, <3>2, <3>3
  <2> QED BY <2>2, <2>3, <2>4 DEF FoundInv
<1>3. CASE UNCHANGED receiveVars
  <2>1. Known' = Known /\ UNCHANGED <<chain, scan>>
    BY <1>3 DEF receiveVars, page, history, Known, Spoken, Pending, Speaks
  <2> QED BY <2>1 DEF FoundInv, KnownLookedFor, PaidLookedFor, LooksFor, CountersFollow, FoundSoFar, Fresh
<1> QED BY <1>1, <1>2, <1>3

\* However late a payment is scanned, after a rescan too, it is found: an address
\* handed out is one the scan looks for by the time it is paid (account.rs,
\* keys_up_to; screens/Receive.tsx, furthest).
THEOREM PaymentsAreFoundHere == AddressThere /\ ReceiveSpec => []EveryPaymentFound
<1> SUFFICES ASSUME AddressThere PROVE ReceiveSpec => []EveryPaymentFound
  OBVIOUS
<1>1. ReceiveInit => ReceiveType /\ FoundInv
  <2> SUFFICES ASSUME ReceiveInit PROVE FoundInv
    BY ReceiveStart
  <2>1. chain = <<>> /\ scan = Scanned /\ ReceiveType
    BY ReceiveStart DEF ReceiveInit
  <2>2. scan.blocks = 0 /\ scan.used = Fresh /\ scan.found = {}
    BY <2>1 DEF Scanned
  <2>3. Known = {<<k, 0>> : k \in Kinds}
    <3>1. Spoken(calls) = {} /\ \A k \in Kinds : index[k] = 0
      BY DEF ReceiveInit, Spoken, Pending, NoIndex
    <3> QED BY <3>1 DEF ReceiveInit, Known
  <2>4. \A k \in Kinds : 0 <= Fresh[k] + Lookahead /\ <<k, 0>>[1] = k /\ <<k, 0>>[2] = 0 /\ Fresh[k] >= Fresh[k]
    BY FreshTyped, Constants
  <2>5. KnownLookedFor
    BY <2>3, <2>4 DEF KnownLookedFor, LooksFor
  <2> QED BY <2>1, <2>2, <2>4, <2>5 DEF FoundInv, PaidLookedFor, CountersFollow, FoundSoFar
<1>2. ReceiveType /\ FoundInv /\ [ReceiveNext]_receiveVars => ReceiveType' /\ FoundInv'
  BY ReceiveTypeStep, FoundStep
<1>3. FoundInv => EveryPaymentFound
  BY DEF FoundInv, FoundSoFar, EveryPaymentFound
<1> QED BY <1>1, <1>2, <1>3, PTL DEF ReceiveSpec

(* New address offers no address twice *)

NothingEarly == Uncommon = {}

AtMostOneWrite(cs) == \A m, n \in 1..Len(cs) : cs[m].op \in Writes /\ cs[n].op \in Writes => m = n
NoWrites(cs) == \A c \in Pending(cs) : c.op \notin Writes

OneWrite == AtMostOneWrite(calls)
OwnWrites == open => \A c \in Pending(calls) : c.op \in Writes => c.mine
GiveKeeps == \A c \in Pending(calls) : c.op = "give" => notes.given \subseteq c.set
OutNoted == \A a \in out : a \in notes.given \/ \E c \in Pending(calls) : c.op \in {"read to give", "give"} /\ a \in Speaks(c)
GivenRead ==
    open /\ (\A c \in Pending(calls) : c.mine => c.op \notin {"given", "read to give", "give"}) => given = notes.given
AgainInv == OneWrite /\ OwnWrites /\ GiveKeeps /\ OutNoted /\ GivenRead /\ NeverOfferedAgain

LEMMA NoneIsAtMostOne == ASSUME NEW cs, NoWrites(cs) PROVE AtMostOneWrite(cs)
  BY DEF NoWrites, AtMostOneWrite, Pending

LEMMA WriteAppended ==
    ASSUME NEW cs \in Seq(Calls), NEW c \in Calls, NoWrites(cs) \/ (AtMostOneWrite(cs) /\ c.op \notin Writes)
    PROVE  AtMostOneWrite(Append(cs, c))
<1> DEFINE ds == Append(cs, c)
<1>1. Len(ds) = Len(cs) + 1 /\ Len(cs) \in Nat /\ ds[Len(cs) + 1] = c /\ \A n \in 1..Len(cs) : ds[n] = cs[n]
  OBVIOUS
<1> HIDE DEF ds
<1>2. \A n \in 1..Len(ds) : n \in 1..Len(cs) \/ n = Len(cs) + 1
  BY <1>1
<1>3. CASE NoWrites(cs)
  <2>1. \A n \in 1..Len(cs) : ds[n].op \notin Writes
    BY <1>1, <1>3 DEF NoWrites, Pending
  <2> QED BY <1>2, <2>1 DEF AtMostOneWrite, ds
<1>4. CASE AtMostOneWrite(cs) /\ c.op \notin Writes
  <2>1. \A n \in 1..Len(ds) : ds[n].op \in Writes => n \in 1..Len(cs) /\ cs[n].op \in Writes
    BY <1>1, <1>2, <1>4
  <2> QED BY <1>4, <2>1 DEF AtMostOneWrite, ds
<1> QED BY <1>3, <1>4

LEMMA WritesInTail ==
    ASSUME NEW cs \in Seq(Calls), cs # <<>>, AtMostOneWrite(cs)
    PROVE  AtMostOneWrite(Tail(cs)) /\ (Head(cs).op \in Writes => NoWrites(Tail(cs)))
<1> DEFINE ts == Tail(cs)
<1>1. /\ Len(ts) = Len(cs) - 1 /\ Len(cs) \in Nat \ {0} /\ Head(cs) = cs[1]
      /\ \A n \in 1..Len(ts) : ts[n] = cs[n + 1] /\ n + 1 \in 1..Len(cs)
  OBVIOUS
<1> HIDE DEF ts
<1>2. AtMostOneWrite(ts)
  <2> SUFFICES ASSUME NEW m \in 1..Len(ts), NEW n \in 1..Len(ts), ts[m].op \in Writes, ts[n].op \in Writes PROVE m = n
    BY DEF AtMostOneWrite
  <2>1. m + 1 = n + 1
    BY <1>1 DEF AtMostOneWrite
  <2> QED BY <2>1
<1>3. ASSUME Head(cs).op \in Writes, NEW n \in 1..Len(ts), ts[n].op \in Writes PROVE FALSE
  <2>1. 1 = n + 1
    BY <1>1, <1>3 DEF AtMostOneWrite
  <2> QED BY <2>1
<1> QED BY <1>2, <1>3 DEF NoWrites, Pending, ts

LEMMA WritesIgnored ==
    ASSUME NEW cs \in Seq(Calls), NEW sel, AtMostOneWrite(cs)
    PROVE  AtMostOneWrite(Ignored(cs, sel))
<1> DEFINE ds == Ignored(cs, sel)
<1>1. Len(ds) = Len(cs) /\ \A n \in 1..Len(cs) : ds[n].op = cs[n].op
  BY IgnoredCalls
<1> HIDE DEF ds
<1> QED BY <1>1 DEF AtMostOneWrite, ds

LEMMA ReadsWrite ==
    ASSUME NEW cs \in Seq(Calls), AtMostOneWrite(cs)
    PROVE  AtMostOneWrite(cs \o Reads)
<1> DEFINE r1 == [op |-> "labels", mine |-> TRUE]
           r2 == [op |-> "given", mine |-> TRUE]
           ds == cs \o Reads
<1>1. r1.op \notin Writes /\ r2.op \notin Writes /\ r1 \in Calls /\ r2 \in Calls
  BY DEF Writes, Calls
<1>s. Reads = <<r1, r2>>
  BY DEF Reads
<1> HIDE DEF r1, r2
<1>2. Len(ds) = Len(cs) + 2 /\ Len(cs) \in Nat /\ (\A n \in 1..Len(cs) : ds[n] = cs[n]) /\ ds[Len(cs) + 1] = r1 /\ ds[Len(cs) + 2] = r2
  <2>1. Len(Reads) = 2 /\ Reads[1] = r1 /\ Reads[2] = r2 /\ Reads \in Seq(Calls)
    BY <1>1, <1>s
  <2> QED BY <1>s, <2>1
<1> HIDE DEF ds
<1>3. \A n \in 1..Len(ds) : n \in 1..Len(cs) \/ n = Len(cs) + 1 \/ n = Len(cs) + 2
  BY <1>2
<1>4. \A n \in 1..Len(ds) : ds[n].op \in Writes => n \in 1..Len(cs) /\ cs[n].op \in Writes
  BY <1>1, <1>2, <1>3
<1> QED BY <1>4 DEF AtMostOneWrite, ds

LEMMA DerivingWrites ==
    ASSUME NEW cs \in Seq(Calls), NEW k \in Kinds, NEW i \in Nat, AtMostOneWrite(cs)
    PROVE  AtMostOneWrite(Deriving(cs, k, i))
<1>1. Ignored(cs, {"address"}) \in Seq(Calls) /\ AtMostOneWrite(Ignored(cs, {"address"}))
  BY IgnoredCalls, WritesIgnored
<1>2. Derive(k, i) \in Calls /\ Derive(k, i).op \notin Writes
  BY DeriveTyped DEF Writes
<1>3. Deriving(cs, k, i) = Append(Ignored(cs, {"address"}), Derive(k, i))
  BY DEF Deriving
<1> QED BY <1>1, <1>2, <1>3, WriteAppended

\* When the person may act, nothing is being written, and what is on disk is on the screen.
LEMMA AtRest ==
    ASSUME NothingEarly, ReceiveType, AgainInv, Acts \/ Open
    PROVE  /\ NoWrites(calls) /\ out \subseteq notes.given /\ (open => given = notes.given)
           /\ \A c \in Pending(calls) : c.mine => c.op \notin {"given", "read to give", "give"}
<1>1. Settled /\ calls \in Seq(Calls)
  BY DEF Acts, Open, NothingEarly, ReceiveType
<1>2. \A c \in Pending(calls) : c.op = "address" \/ (c.op \in {"labels", "given"} /\ ~c.mine)
  BY <1>1 DEF Settled, Pending
<1>3. NoWrites(calls) /\ \A c \in Pending(calls) : c.mine => c.op \notin {"given", "read to give", "give"}
  BY <1>2 DEF NoWrites, Writes
<1>4. out \subseteq notes.given
  BY <1>3 DEF NoWrites, AgainInv, OutNoted, Writes
<1> QED BY <1>3, <1>4 DEF AgainInv, GivenRead

\* The calls that write wait on through a step that asks for an address, or reads again.
LEMMA AsksAgain ==
    ASSUME AgainInv, NEW cs \in Seq(Calls), NEW k \in Kinds, NEW i \in Nat, calls' = Deriving(cs, k, i),
           AtMostOneWrite(cs), UNCHANGED <<notes, out, again>>, open' => open \/ NoWrites(calls),
           \A c \in Pending(calls) : c \in Pending(cs),
           \A c \in Pending(cs) : c \in Pending(calls) \/ c.op \in {"labels", "given"},
           \/ UNCHANGED given /\ (open' => open)
           \/ \E c \in Pending(cs) : c.mine /\ c.op = "given"
    PROVE  AgainInv'
<1>1. /\ calls' \in Seq(Calls)
      /\ \A c \in Pending(calls') : c = Derive(k, i) \/ (c.op = "address" /\ ~c.mine) \/ (c.op # "address" /\ c \in Pending(cs))
      /\ \A c \in Pending(cs) : c.op # "address" => c \in Pending(calls')
  BY DerivingCalls
<1>2. Derive(k, i).op = "address"
  BY DeriveTyped
<1>3. OneWrite'
  <2>1. AtMostOneWrite(Deriving(cs, k, i))
    BY DerivingWrites
  <2> QED BY <2>1 DEF OneWrite, AtMostOneWrite
<1>4. \A c \in Pending(calls') : c.op \in Writes => c \in Pending(calls)
  BY <1>1, <1>2 DEF Writes
<1>5. OwnWrites' /\ GiveKeeps'
  BY <1>4 DEF AgainInv, OwnWrites, GiveKeeps, Writes, NoWrites
<1>6. OutNoted'
  <2>1. \A c \in Pending(calls) : c.op \in {"read to give", "give"} => c \in Pending(calls')
    BY <1>1
  <2> QED BY <2>1 DEF AgainInv, OutNoted
<1>7. GivenRead'
  <2>1. \A c \in Pending(calls) : c.op \in {"given", "read to give", "give"} => c \in Pending(calls')
    BY <1>1
  <2>2. CASE UNCHANGED given /\ (open' => open)
    BY <2>1, <2>2 DEF AgainInv, GivenRead
  <2>3. CASE \E c \in Pending(cs) : c.mine /\ c.op = "given"
    BY <1>1, <2>3 DEF GivenRead
  <2> QED BY <2>2, <2>3
<1> QED BY <1>3, <1>5, <1>6, <1>7 DEF AgainInv, NeverOfferedAgain

LEMMA GivingAgain ==
    ASSUME NothingEarly, ReceiveType, AgainInv, Acts, NEW a \in Address, NEW x,
           given' = given \cup {a}, out' = out \cup {x}, x = a,
           \A c \in Pending(GiveOut(calls, a)) : c.op # "address" => c \in Pending(calls'),
           \A c \in Pending(calls') : c \in Pending(GiveOut(calls, a)) \/ c.op = "address",
           AtMostOneWrite(calls'), UNCHANGED <<notes, open, again>>
    PROVE  AgainInv'
<1> DEFINE r == [op |-> "read to give", of |-> a, mine |-> TRUE]
           gs == GiveOut(calls, a)
<1>1. NoWrites(calls) /\ out \subseteq notes.given /\ (open => given = notes.given) /\ open
  BY AtRest DEF Acts
<1>2. (a \in given => gs = calls) /\ (a \notin given => Pending(gs) = Pending(calls) \cup {r})
  BY GivingOut
<1>3. r.op = "read to give" /\ r.mine = TRUE /\ Speaks(r) = {a}
  BY DEF Speaks
<1>4. r.mine
  BY <1>3
<1> HIDE DEF r, gs
<1>5. OneWrite'
  BY DEF OneWrite, AtMostOneWrite
<1>6. \A c \in Pending(calls') : c.op \in Writes => c = r /\ a \notin given
  <2>1. \A c \in Pending(gs) : c.op \in Writes => c = r /\ a \notin given
    BY <1>1, <1>2 DEF NoWrites
  <2>2. "address" \notin Writes
    BY DEF Writes
  <2> QED BY <2>1, <2>2 DEF gs
<1>7. OwnWrites' /\ GiveKeeps'
  BY <1>3, <1>4, <1>6 DEF OwnWrites, GiveKeeps, Writes
<1>8. a \notin given => r \in Pending(calls')
  BY <1>2, <1>3 DEF gs
<1>9. OutNoted'
  BY <1>1, <1>3, <1>8 DEF OutNoted
<1>10. GivenRead'
  BY <1>1, <1>3, <1>4, <1>8 DEF GivenRead
<1> QED BY <1>5, <1>7, <1>9, <1>10 DEF AgainInv, NeverOfferedAgain

LEMMA AnswerAgain == NothingEarly /\ ReceiveType /\ AgainInv /\ Answer => AgainInv'
<1> SUFFICES ASSUME NothingEarly, ReceiveType, AgainInv, Answer PROVE AgainInv'
  OBVIOUS
<1> DEFINE c == Head(calls)
           rest == Tail(calls)
<1>0. calls \in Seq(Calls) /\ calls # <<>> /\ notes \in NoteSets
  BY DEF ReceiveType, Answer
<1>1. c \in Calls /\ rest \in Seq(Calls) /\ Pending(calls) = {c} \cup Pending(rest)
  BY <1>0, TailOf
<1>2. AtMostOneWrite(rest) /\ (c.op \in Writes => NoWrites(rest))
  BY <1>0, WritesInTail DEF AgainInv, OneWrite
<1>3. UNCHANGED <<open, out, again>>
  BY DEF Answer, history
<1>4. OwnWrites /\ GiveKeeps /\ OutNoted /\ GivenRead /\ NeverOfferedAgain
  BY DEF AgainInv
<1>5. open /\ c.op \in Writes => c.mine
  BY <1>1, <1>4 DEF OwnWrites
<1>6. c.mine \in BOOLEAN
  BY <1>1, CallTyped
<1>w. {"read to give", "give", "read to name", "name"} = Writes /\ {"labels", "given", "address"} \cap Writes = {}
  BY DEF Writes
<1>7. ASSUME c.op = "labels" PROVE AgainInv'
  <2>1. calls' = rest /\ UNCHANGED <<notes, given>>
    BY <1>7 DEF Answer, Sets
  <2>2. OneWrite' /\ OwnWrites' /\ GiveKeeps'
    <3> HIDE DEF c, rest
    <3> QED BY <2>1, <1>1, <1>2, <1>3, <1>4 DEF OneWrite, AtMostOneWrite, OwnWrites, GiveKeeps
  <2>3. OutNoted' /\ GivenRead'
    <3> HIDE DEF c, rest
    <3> QED BY <2>1, <1>1, <1>3, <1>4, <1>7 DEF OutNoted, GivenRead
  <2> QED BY <1>3, <1>4, <2>2, <2>3 DEF AgainInv, NeverOfferedAgain
<1>8. ASSUME c.op = "given" PROVE AgainInv'
  <2>1. calls' = rest /\ UNCHANGED notes /\ (IF c.mine THEN given' = notes.given ELSE UNCHANGED given)
    BY <1>8 DEF Answer, Sets
  <2>2. OneWrite' /\ OwnWrites' /\ GiveKeeps'
    <3> HIDE DEF c, rest
    <3> QED BY <2>1, <1>1, <1>2, <1>3, <1>4 DEF OneWrite, AtMostOneWrite, OwnWrites, GiveKeeps
  <2>3. OutNoted' /\ GivenRead'
    <3> HIDE DEF c, rest
    <3> QED BY <2>1, <1>1, <1>3, <1>4, <1>8 DEF OutNoted, GivenRead
  <2> QED BY <1>3, <1>4, <2>2, <2>3 DEF AgainInv, NeverOfferedAgain
<1>9. ASSUME c.op = "read to give", c.of \in notes.given PROVE AgainInv'
  <2>1. calls' = rest /\ UNCHANGED notes /\ (c.mine => given' = notes.given)
    BY <1>9 DEF Answer, Sets
  <2>2. Speaks(c) = {c.of}
    <3> HIDE DEF c
    <3> QED BY <1>9 DEF Speaks
  <2>3. OneWrite' /\ OwnWrites' /\ GiveKeeps'
    <3> HIDE DEF c, rest
    <3> QED BY <2>1, <1>1, <1>2, <1>3, <1>4 DEF OneWrite, AtMostOneWrite, OwnWrites, GiveKeeps
  <2>4. OutNoted' /\ GivenRead'
    <3> HIDE DEF c, rest
    <3> QED BY <2>1, <2>2, <1>1, <1>3, <1>4, <1>5, <1>9, <1>w DEF OutNoted, GivenRead
  <2> QED BY <1>3, <1>4, <2>3, <2>4 DEF AgainInv, NeverOfferedAgain
<1>10. ASSUME c.op = "read to give", c.of \notin notes.given PROVE AgainInv'
  <2> DEFINE d == [op |-> "give", set |-> notes.given \cup {c.of}, mine |-> c.mine]
  <2>1. calls' = Append(rest, d) /\ UNCHANGED <<notes, given>>
    BY <1>10 DEF Answer
  <2>2. c.of \in Address /\ Speaks(c) = {c.of} /\ NoWrites(rest) /\ (open => c.mine)
    <3> HIDE DEF c, rest
    <3> QED BY <1>1, <1>2, <1>5, <1>10, <1>w, CallTyped DEF Speaks
  <2>3. d.op = "give" /\ d.set = notes.given \cup {c.of} /\ d.mine = c.mine /\ d \in Calls /\ Speaks(d) = d.set
    <3>1. notes.given \cup {c.of} \in SUBSET Address
      BY <1>0, <2>2 DEF NoteSets
    <3>2. \A Y \in SUBSET Address, m \in BOOLEAN : LET e == [op |-> "give", set |-> Y, mine |-> m] IN
             e.op = "give" /\ e.set = Y /\ e.mine = m /\ e \in Calls /\ Speaks(e) = e.set
      BY DEF Calls, Speaks
    <3> HIDE DEF c
    <3> QED BY <1>6, <3>1, <3>2
  <2> HIDE DEF d, c, rest
  <2>4. Pending(calls') = Pending(rest) \cup {d} /\ calls' \in Seq(Calls)
    BY <1>1, <2>1, <2>3, Appended
  <2>5. OneWrite'
    <3>1. AtMostOneWrite(Append(rest, d))
      BY <1>1, <2>2, <2>3, WriteAppended
    <3> QED BY <2>1, <3>1 DEF OneWrite, AtMostOneWrite
  <2>6. \A e \in Pending(calls') : e.op \in Writes => e = d
    BY <2>2, <2>4 DEF NoWrites
  <2>7. OwnWrites' /\ GiveKeeps'
    BY <1>3, <2>1, <2>2, <2>3, <2>6, <1>w DEF OwnWrites, GiveKeeps
  <2>8. OutNoted'
    <3>1. ASSUME NEW a \in out, a \notin notes.given PROVE a = c.of
      <4>1. PICK e \in Pending(calls) : e.op \in {"read to give", "give"} /\ a \in Speaks(e)
        BY <1>4, <3>1 DEF OutNoted
      <4>2. e = c
        BY <1>1, <2>2, <4>1, <1>w DEF NoWrites
      <4> QED BY <2>2, <4>1, <4>2
    <3>2. \A a \in out : a \in notes.given \cup {c.of}
      BY <3>1
    <3> QED BY <1>3, <2>1, <2>3, <2>4, <3>2 DEF OutNoted
  <2>9. GivenRead'
    BY <1>3, <2>2, <2>3, <2>4 DEF GivenRead
  <2> QED BY <1>3, <1>4, <2>5, <2>7, <2>8, <2>9 DEF AgainInv, NeverOfferedAgain
<1>11. ASSUME c.op = "give" PROVE AgainInv'
  <2>1. calls' = rest /\ (c.mine => given' = c.set) /\ notes' = [notes EXCEPT !.given = c.set]
    BY <1>11 DEF Answer, Sets
  <2> HIDE DEF c, rest
  <2>2. Speaks(c) = c.set /\ NoWrites(rest) /\ (open => c.mine) /\ notes.given \subseteq c.set
    BY <1>1, <1>2, <1>4, <1>5, <1>11, <1>w DEF Speaks, GiveKeeps
  <2>3. notes'.given = c.set
    BY <1>0, <2>1 DEF NoteSets
  <2>4. OneWrite' /\ OwnWrites' /\ GiveKeeps'
    BY <1>1, <1>2, <1>3, <2>1, <2>2, <1>w DEF OneWrite, AtMostOneWrite, OwnWrites, GiveKeeps, NoWrites
  <2>5. OutNoted'
    <3>1. \A a \in out : a \in c.set
      BY <1>1, <1>4, <2>2, <1>w DEF OutNoted, NoWrites
    <3> QED BY <1>3, <2>3, <3>1 DEF OutNoted
  <2>6. GivenRead'
    BY <1>3, <2>1, <2>2, <2>3 DEF GivenRead
  <2> QED BY <1>3, <1>4, <2>4, <2>5, <2>6 DEF AgainInv, NeverOfferedAgain
<1>12. ASSUME c.op = "read to name" PROVE AgainInv'
  <2> DEFINE d == [op |-> "name", set |-> With(notes.labels, c), mine |-> c.mine]
  <2>1. calls' = Append(rest, d) /\ UNCHANGED <<notes, given>>
    BY <1>12 DEF Answer
  <2>2. c.of \in Address /\ NoWrites(rest) /\ (open => c.mine)
    <3> HIDE DEF c, rest
    <3> QED BY <1>1, <1>2, <1>5, <1>12, <1>w, CallTyped
  <2>3. d.op = "name" /\ d.mine = c.mine /\ d \in Calls
    <3>1. With(notes.labels, c) \in SUBSET Address
      <4> HIDE DEF c
      <4> QED BY <1>0, <2>2 DEF NoteSets, With
    <3>2. \A Y \in SUBSET Address, m \in BOOLEAN : LET e == [op |-> "name", set |-> Y, mine |-> m] IN
             e.op = "name" /\ e.mine = m /\ e \in Calls
      BY DEF Calls
    <3> HIDE DEF c
    <3> QED BY <1>6, <3>1, <3>2
  <2> HIDE DEF d, c, rest
  <2>4. Pending(calls') = Pending(rest) \cup {d} /\ calls' \in Seq(Calls)
    BY <1>1, <2>1, <2>3, Appended
  <2>5. OneWrite'
    <3>1. AtMostOneWrite(Append(rest, d))
      BY <1>1, <2>2, <2>3, WriteAppended
    <3> QED BY <2>1, <3>1 DEF OneWrite, AtMostOneWrite
  <2>6. \A e \in Pending(calls') : e.op \in Writes => e = d
    BY <2>2, <2>4 DEF NoWrites
  <2>7. OwnWrites' /\ GiveKeeps'
    BY <1>3, <2>1, <2>2, <2>3, <2>6, <1>w DEF OwnWrites, GiveKeeps
  <2>8. OutNoted' /\ GivenRead'
    <3>1. \A e \in Pending(rest) : e.op \notin {"read to give", "give"}
      BY <2>2, <1>w DEF NoWrites
    <3>2. out \subseteq notes.given
      BY <1>1, <1>4, <1>12, <3>1 DEF OutNoted
    <3>3. open /\ (\A e \in Pending(calls') : e.mine => e.op \notin {"given", "read to give", "give"}) => given = notes.given
      BY <1>1, <1>4, <1>12, <2>4 DEF GivenRead
    <3> QED BY <1>3, <2>1, <3>2, <3>3 DEF OutNoted, GivenRead
  <2> QED BY <1>3, <1>4, <2>5, <2>7, <2>8 DEF AgainInv, NeverOfferedAgain
<1>13. ASSUME c.op = "name" PROVE AgainInv'
  <2>1. calls' = rest /\ UNCHANGED given /\ notes' = [notes EXCEPT !.labels = c.set]
    BY <1>13 DEF Answer, Sets
  <2> HIDE DEF c, rest
  <2>2. notes'.given = notes.given
    BY <1>0, <2>1 DEF NoteSets
  <2>3. OneWrite' /\ OwnWrites' /\ GiveKeeps'
    BY <2>1, <2>2, <1>1, <1>2, <1>3, <1>4 DEF OneWrite, AtMostOneWrite, OwnWrites, GiveKeeps
  <2>4. OutNoted' /\ GivenRead'
    BY <2>1, <2>2, <1>1, <1>3, <1>4, <1>13 DEF OutNoted, GivenRead
  <2> QED BY <1>3, <1>4, <2>3, <2>4 DEF AgainInv, NeverOfferedAgain
<1> QED
  <2>1. c.op \in {"labels", "given", "read to give", "give", "read to name", "name"}
    BY DEF Answer
  <2>2. c.op = "read to give" => c.of \in notes.given \/ c.of \notin notes.given
    OBVIOUS
  <2> HIDE DEF c
  <2> QED BY <1>7, <1>8, <1>9, <1>10, <1>11, <1>12, <1>13, <2>1, <2>2

LEMMA AgainStep == NothingEarly /\ ReceiveType /\ HandsInv /\ AgainInv /\ [ReceiveNext]_receiveVars => AgainInv'
<1> SUFFICES ASSUME NothingEarly, ReceiveType, HandsInv, AgainInv, [ReceiveNext]_receiveVars PROVE AgainInv'
  OBVIOUS
<1>0. /\ calls \in Seq(Calls) /\ kind \in Kinds /\ index \in [Kinds -> Nat] /\ open \in BOOLEAN /\ AtMostOneWrite(calls)
      /\ FirstKind \in Kinds
  BY Constants DEF ReceiveType, AgainInv, OneWrite
<1>t. AddressThere
  BY DEF NothingEarly, AddressThere
<1>r. /\ calls \o Reads \in Seq(Calls) /\ AtMostOneWrite(calls \o Reads)
      /\ \A c \in Pending(calls) : c \in Pending(calls \o Reads)
      /\ \A c \in Pending(calls \o Reads) : c \in Pending(calls) \/ c.op \in {"labels", "given"}
      /\ \E c \in Pending(calls \o Reads) : c.mine /\ c.op = "given"
  <2> DEFINE r1 == [op |-> "labels", mine |-> TRUE]
             r2 == [op |-> "given", mine |-> TRUE]
  <2>1. r1.op = "labels" /\ r2.op = "given" /\ r2.mine
    OBVIOUS
  <2>2. calls \o Reads \in Seq(Calls) /\ Pending(calls \o Reads) = Pending(calls) \cup {r1, r2}
    BY <1>0, ReadsAdded
  <2>3. AtMostOneWrite(calls \o Reads)
    BY <1>0, ReadsWrite
  <2> HIDE DEF r1, r2
  <2> QED BY <2>1, <2>2, <2>3
<1>1. CASE Open
  <2>1. calls' = Deriving(calls \o Reads, FirstKind, 0) /\ UNCHANGED <<notes, out, again>>
    BY <1>1 DEF Open, history
  <2>2. NoWrites(calls)
    BY <1>1, AtRest
  <2> QED BY <1>0, <1>r, <2>1, <2>2, AsksAgain
<1>2. CASE Leave
  <2> DEFINE sel == {calls[n].op : n \in DOMAIN calls}
  <2>1. calls' = Ignored(calls, sel) /\ open' = FALSE /\ UNCHANGED <<notes, out, again>>
    BY <1>2 DEF Leave, history
  <2> HIDE DEF sel
  <2>2. /\ Len(calls') = Len(calls) /\ calls' \in Seq(Calls)
        /\ \A n \in 1..Len(calls) : calls'[n].op = calls[n].op /\ Speaks(calls'[n]) = Speaks(calls[n])
    BY <1>0, <2>1, IgnoredCalls
  <2>3. OneWrite'
    BY <1>0, <2>2 DEF OneWrite, AtMostOneWrite
  <2>4. \A c \in Pending(calls') : \E d \in Pending(calls) : c.op = d.op /\ Speaks(c) = Speaks(d)
    BY <2>2 DEF Pending
  <2>5. \A c \in Pending(calls) : \E d \in Pending(calls') : c.op = d.op /\ Speaks(c) = Speaks(d)
    BY <2>2 DEF Pending
  <2>6. GiveKeeps'
    <3>1. \A c : c.op = "give" => Speaks(c) = c.set
      BY DEF Speaks
    <3> QED BY <2>1, <2>4, <3>1 DEF AgainInv, GiveKeeps
  <2>7. OutNoted'
    BY <2>1, <2>5 DEF AgainInv, OutNoted
  <2> QED BY <2>1, <2>3, <2>6, <2>7 DEF AgainInv, OwnWrites, GivenRead, NeverOfferedAgain
<1>3. CASE NextUnused
  <2> DEFINE i == NextNew(kind)
             a == <<kind, i>>
  <2>1. i \in Nat /\ a \in Address /\ \A n \in InPicker(kind) : n < i
    BY <1>0, NewPastListed DEF Address
  <2>2. /\ given' = given \cup {a} /\ calls' = Deriving(GiveOut(calls, a), kind, i)
        /\ out' = out \cup {a} /\ again' = again \cup ({a} \cap out)
        /\ UNCHANGED <<notes, open>> /\ Acts
    BY <1>3 DEF NextUnused
  <2>3. NoWrites(calls) /\ out \subseteq given
    BY <2>2, AtRest DEF Acts
  <2>4. a \notin given
    <3>1. ASSUME a \in given PROVE a[2] \in InPicker(kind)
      <4>1. a \in Taken /\ a[1] = kind
        BY <3>1 DEF Taken
      <4> HIDE DEF a
      <4> QED BY <4>1 DEF InPicker
    <3>2. a[2] = i
      OBVIOUS
    <3> HIDE DEF a, i
    <3> QED BY <2>1, <3>1, <3>2
  <2> HIDE DEF i, a
  <2>5. again' = again
    BY <2>2, <2>3, <2>4
  <2>6. GiveOut(calls, a) \in Seq(Calls) /\ AtMostOneWrite(GiveOut(calls, a))
        /\ \A c \in Pending(GiveOut(calls, a)) : c \in Pending(calls) \/ c.op # "address"
    <3> DEFINE r == [op |-> "read to give", of |-> a, mine |-> TRUE]
    <3>1. r \in Calls /\ r.op = "read to give"
      BY <2>1 DEF Calls
    <3>2. GiveOut(calls, a) = Append(calls, r)
      BY <2>4 DEF GiveOut
    <3> HIDE DEF r
    <3>3. AtMostOneWrite(Append(calls, r)) /\ Append(calls, r) \in Seq(Calls) /\ Pending(Append(calls, r)) = Pending(calls) \cup {r}
      BY <1>0, <2>3, <3>1, WriteAppended, Appended
    <3> QED BY <3>1, <3>2, <3>3
  <2> DEFINE gs == GiveOut(calls, a)
  <2> HIDE DEF gs
  <2>7. /\ AtMostOneWrite(calls')
        /\ \A c \in Pending(calls') : c \in Pending(gs) \/ c.op = "address"
        /\ \A c \in Pending(gs) : c.op # "address" => c \in Pending(calls')
    <3>1. calls' = Deriving(gs, kind, i) /\ gs \in Seq(Calls) /\ AtMostOneWrite(gs)
      BY <2>2, <2>6 DEF gs
    <3>2. Derive(kind, i).op = "address"
      BY <1>0, <2>1, DeriveTyped
    <3>3. /\ \A c \in Pending(calls') : c = Derive(kind, i) \/ (c.op = "address" /\ ~c.mine) \/ (c.op # "address" /\ c \in Pending(gs))
          /\ \A c \in Pending(gs) : c.op # "address" => c \in Pending(calls')
      BY <1>0, <2>1, <3>1, DerivingCalls
    <3>4. AtMostOneWrite(calls')
      <4>1. AtMostOneWrite(Deriving(gs, kind, i))
        BY <1>0, <2>1, <3>1, DerivingWrites
      <4> QED BY <3>1, <4>1
    <3> QED BY <3>2, <3>3, <3>4
  <2> QED BY <2>1, <2>2, <2>5, <2>7, GivingAgain DEF gs
<1>4. CASE ShowIndex \/ ChooseKind
  <2>1. PICK k \in Kinds, i \in Nat : calls' = Deriving(calls, k, i)
    <3>1. CASE ShowIndex
      <4>1. PICK i \in InPicker(kind) : calls' = Deriving(calls, kind, Within(kind, i))
        BY <3>1 DEF ShowIndex
      <4>2. i \in Nat /\ Within(kind, i) \in Nat
        BY <1>0, ListedKnown, WithinGives
      <4> QED BY <1>0, <4>1, <4>2
    <3>2. CASE ChooseKind
      <4>1. PICK k \in Kinds : calls' = Deriving(calls, k, Within(k, index[k]))
        BY <3>2 DEF ChooseKind
      <4>2. index[k] \in Nat /\ Within(k, index[k]) \in Nat
        BY <1>0, WithinGives
      <4> QED BY <4>1, <4>2
    <3> QED BY <1>4, <3>1, <3>2
  <2>2. UNCHANGED <<notes, out, again, open, given>>
    BY <1>4 DEF ShowIndex, ChooseKind, history
  <2> QED BY <1>0, <2>1, <2>2, AsksAgain
<1>5. CASE HandAddress \/ HandRequest
  <2>1. PICK text : HandsOn(text) /\ Acts /\ text = Shown
    BY <1>5, <1>t DEF HandAddress, HandRequest, AddressThere, HandsInv, AddressChosen
  <2>2. /\ given' = given \cup {Shown} /\ calls' = GiveOut(calls, Shown) /\ out' = out \cup {Shown}
        /\ UNCHANGED <<notes, open, again>>
    BY <2>1 DEF HandsOn
  <2>3. Shown \in Address
    BY <1>0 DEF Shown, Address
  <2>4. AtMostOneWrite(calls')
    <3> DEFINE r == [op |-> "read to give", of |-> Shown, mine |-> TRUE]
    <3>1. r \in Calls
      BY <2>3 DEF Calls
    <3>2. calls' = IF Shown \in given THEN calls ELSE Append(calls, r)
      BY <2>2 DEF GiveOut
    <3> HIDE DEF r
    <3>3. NoWrites(calls)
      BY <2>1, AtRest
    <3>4. AtMostOneWrite(Append(calls, r))
      BY <1>0, <3>1, <3>3, WriteAppended
    <3> QED BY <1>0, <3>2, <3>4
  <2> QED BY <2>1, <2>2, <2>3, <2>4, GivingAgain
<1>6. CASE NameAddress
  <2>1. PICK i \in InPicker(kind), named \in BOOLEAN :
         calls' = Append(calls, [op |-> "read to name", of |-> <<kind, i>>, named |-> named, mine |-> TRUE])
    BY <1>6 DEF NameAddress
  <2> DEFINE c == [op |-> "read to name", of |-> <<kind, i>>, named |-> named, mine |-> TRUE]
  <2>2. i \in Nat
    BY <1>0, ListedKnown
  <2>3. c \in Calls /\ c.op = "read to name" /\ c.mine
    BY <1>0, <2>2 DEF Calls, Address
  <2>4. calls' = Append(calls, c)
    BY <2>1
  <2>5. NoWrites(calls) /\ out \subseteq notes.given /\ (open => given = notes.given)
    BY <1>6, AtRest DEF NameAddress
  <2> HIDE DEF c
  <2>6. Pending(calls') = Pending(calls) \cup {c}
    BY <1>0, <2>3, <2>4, Appended
  <2>7. UNCHANGED <<notes, given, open, out, again>>
    BY <1>6 DEF NameAddress, page, history
  <2>8. OneWrite'
    <3>1. AtMostOneWrite(Append(calls, c))
      BY <1>0, <2>3, <2>5, WriteAppended
    <3> QED BY <2>4, <3>1 DEF OneWrite, AtMostOneWrite
  <2>9. OwnWrites' /\ GiveKeeps'
    BY <2>3, <2>5, <2>6, <2>7 DEF OwnWrites, GiveKeeps, NoWrites, Writes
  <2>10. OutNoted' /\ GivenRead'
    BY <2>5, <2>7 DEF OutNoted, GivenRead
  <2> QED BY <2>7, <2>8, <2>9, <2>10 DEF AgainInv, NeverOfferedAgain
<1>7. CASE ChooseTab \/ Pay \/ UNCHANGED receiveVars
  <2>1. UNCHANGED <<calls, notes, given, open, out, again>>
    BY <1>7 DEF ChooseTab, Pay, receiveVars, page, history
  <2> QED BY <2>1 DEF AgainInv, OneWrite, AtMostOneWrite, OwnWrites, GiveKeeps, OutNoted, GivenRead, NeverOfferedAgain, Pending, Speaks
<1>8. CASE Answer
  BY <1>8, AnswerAgain
<1>9. CASE AddressDerived
  <2>1. calls # <<>> /\ Head(calls).op = "address" /\ calls' = Tail(calls) /\ UNCHANGED <<notes, given, open, out, again>>
    BY <1>9 DEF AddressDerived, history
  <2>2. Pending(calls) = {Head(calls)} \cup Pending(calls') /\ AtMostOneWrite(Tail(calls))
    BY <1>0, <2>1, TailOf, WritesInTail
  <2>3. OneWrite' /\ OwnWrites' /\ GiveKeeps'
    BY <2>1, <2>2 DEF AgainInv, OneWrite, AtMostOneWrite, OwnWrites, GiveKeeps
  <2>4. OutNoted' /\ GivenRead'
    BY <2>1, <2>2 DEF AgainInv, OutNoted, GivenRead
  <2> QED BY <2>1, <2>3, <2>4 DEF AgainInv, NeverOfferedAgain
<1>10. CASE ScanBlock \/ Reset
  <2>1. UNCHANGED <<notes, given, open, out, again>>
    BY <1>10 DEF ScanBlock, Reset, history
  <2>2. UNCHANGED <<index, address, calls>> \/ \E used \in [Kinds -> Nat] : Refreshed(used)
    <3>1. CASE Reset
      <4>1. Refreshed(Fresh) /\ Fresh \in [Kinds -> Nat]
        BY <3>1 DEF Reset, Fresh
      <4> QED BY <4>1
    <3>2. CASE ScanBlock
      BY <3>2, ScanGives
    <3> QED BY <1>10, <3>1, <3>2
  <2>3. index' \in [Kinds -> Nat]
    BY <1>10, <1>t, ShapeStep DEF ReceiveNext
  <2>4. CASE UNCHANGED calls
    BY <2>1, <2>4 DEF AgainInv, OneWrite, AtMostOneWrite, OwnWrites, GiveKeeps, OutNoted, GivenRead, NeverOfferedAgain, Pending, Speaks
  <2>5. CASE calls' = Deriving(calls \o Reads, kind, index'[kind])
    <3>1. index'[kind] \in Nat
      BY <1>0, <2>3
    <3> QED BY <1>0, <1>r, <2>1, <2>5, <3>1, AsksAgain
  <2> QED BY <2>2, <2>4, <2>5, RefreshedKeeps
<1> QED BY <1>1, <1>2, <1>3, <1>4, <1>5, <1>6, <1>7, <1>8, <1>9, <1>10 DEF ReceiveNext

\* New address gives no address that was given before, named or not, paid or
\* not, in this visit or an earlier one, during a rescan too
\* (screens/Receive.tsx, nextUnused; addressLabels.ts, markGiven).
THEOREM OffersNoAddressAgain == NothingEarly /\ ReceiveSpec => []NeverOfferedAgain
<1> SUFFICES ASSUME NothingEarly PROVE ReceiveSpec => []NeverOfferedAgain
  OBVIOUS
<1>t. AddressThere
  BY DEF NothingEarly, AddressThere
<1>1. ReceiveInit => ReceiveType /\ HandsInv /\ AgainInv
  <2>1. ReceiveInit => AgainInv
    <3> SUFFICES ASSUME ReceiveInit PROVE AgainInv
      OBVIOUS
    <3>1. calls = <<>> /\ Pending(calls) = {} /\ Len(calls) = 0
      BY DEF ReceiveInit, Pending
    <3> QED BY <3>1 DEF ReceiveInit, AgainInv, OneWrite, AtMostOneWrite, OwnWrites, GiveKeeps, OutNoted, GivenRead, NeverOfferedAgain
  <2> QED BY <2>1, ReceiveStart
<1>2. ReceiveType /\ HandsInv /\ AgainInv /\ [ReceiveNext]_receiveVars => ReceiveType' /\ HandsInv' /\ AgainInv'
  BY <1>t, ReceiveTypeStep, ChosenStep, AgainStep
<1>3. AgainInv => NeverOfferedAgain
  BY DEF AgainInv
<1> QED BY <1>1, <1>2, <1>3, PTL DEF ReceiveSpec
=============================================================================

---------------------------- MODULE SessionProofs ----------------------------
(***************************************************************************)
(* Proofs about Session, for any number of wallets, passwords, overlapping *)
(* calls and locks: the password told last opens the record, no step       *)
(* unlocks a hidden wallet, and the keys are the unlocked wallet's.  And,  *)
(* sharing nothing with these, proofs about Setup, for any months, blocks, *)
(* phrases and reloads.                                                    *)
(***************************************************************************)
EXTENDS Session, Setup, SequenceTheorems, WellFoundedInduction, TLAPS

Kinds == {"unlock", "reset", "create", "import", "aside", "change", "strengthen"}

LEMMA AwaitsHere ==
    /\ Awaits.unlock = <<"read", "open", "store", "reopen", "drop", "keep">>
    /\ Awaits.reset = <<"read", "seal", "patch", "open", "store", "reopen", "drop">>
    /\ Awaits.create = <<"seal", "open", "put", "store", "reopen", "drop">>
    /\ Awaits.import = <<"seal", "open", "put", "store", "reopen", "drop", "commit">>
    /\ Awaits.aside = <<"setAside", "store", "reopen", "drop">>
    /\ Awaits.change = <<"read", "seal", "patch">>
    /\ Awaits.strengthen = <<"read", "seal", "patch">>
  BY DEF Awaits

After(k, a, b) ==
    CASE a = "read" -> b = IF k = "unlock" THEN "open" ELSE "seal"
      [] a = "seal" -> b = IF k \in {"create", "import"} THEN "open" ELSE "patch"
      [] a = "patch" -> k = "reset" => b = "open"
      [] a = "open" -> b = IF k \in {"create", "import"} THEN "put" ELSE "store"
      [] a \in {"put", "setAside"} -> b = "store"
      [] a = "store" -> b = "reopen"
      [] a = "reopen" -> b = "drop"
      [] OTHER -> TRUE

Ends(k, a) == a = (CASE k = "unlock" -> "keep" [] k = "import" -> "commit" [] k \in {"change", "strengthen"} -> "patch" [] OTHER -> "drop")

LEMMA AwaitsFollow ==
    ASSUME NEW k \in Kinds, NEW i \in DOMAIN Awaits[k], ~Ends(k, Awaits[k][i])
    PROVE  /\ i \in Nat /\ i + 1 \in DOMAIN Awaits[k]
           /\ After(k, Awaits[k][i], Awaits[k][i + 1])
  <1> USE AwaitsHere DEF Ends, After
  <1>1. CASE k = "unlock" BY <1>1
  <1>2. CASE k = "reset" BY <1>2
  <1>3. CASE k = "create" BY <1>3
  <1>4. CASE k = "import" BY <1>4
  <1>5. CASE k = "aside" BY <1>5
  <1>6. CASE k = "change" BY <1>6
  <1>7. CASE k = "strengthen" BY <1>7
  <1> QED BY <1>1, <1>2, <1>3, <1>4, <1>5, <1>6, <1>7 DEF Kinds

AwaitsOf(k, a) ==
    /\ a \in {"read", "seal", "patch", "open", "put", "store", "reopen", "drop", "commit", "keep", "setAside"}
    /\ a = "keep" => k = "unlock"
    /\ a = "commit" => k = "import"
    /\ a = "put" => k \in {"create", "import"}
    /\ a = "setAside" => k = "aside"
    /\ a = "read" => k \in {"unlock", "reset", "change", "strengthen"}
    /\ a = "patch" => k \in {"reset", "change", "strengthen"}
    /\ a = "seal" => k \in {"reset", "change", "strengthen", "create", "import"}
    /\ a = "open" => k \in {"unlock", "reset", "create", "import"}
    /\ a \in {"store", "reopen", "drop"} => k \in {"unlock", "reset", "create", "import", "aside"}

LEMMA AwaitsKinds ==
    ASSUME NEW k \in Kinds, NEW i \in DOMAIN Awaits[k]
    PROVE  AwaitsOf(k, Awaits[k][i])
  <1> USE AwaitsHere DEF AwaitsOf
  <1>1. CASE k = "unlock" BY <1>1
  <1>2. CASE k = "reset" BY <1>2
  <1>3. CASE k = "create" BY <1>3
  <1>4. CASE k = "import" BY <1>4
  <1>5. CASE k = "aside" BY <1>5
  <1>6. CASE k = "change" BY <1>6
  <1>7. CASE k = "strengthen" BY <1>7
  <1> QED BY <1>1, <1>2, <1>3, <1>4, <1>5, <1>6, <1>7 DEF Kinds

LEMMA AwaitsFirst ==
    ASSUME NEW k \in Kinds
    PROVE  /\ 1 \in DOMAIN Awaits[k]
           /\ Awaits[k][1] = (IF k \in {"create", "import"} THEN "seal" ELSE IF k = "aside" THEN "setAside" ELSE "read")
  <1> USE AwaitsHere
  <1>1. CASE k = "unlock" BY <1>1
  <1>2. CASE k = "reset" BY <1>2
  <1>3. CASE k = "create" BY <1>3
  <1>4. CASE k = "import" BY <1>4
  <1>5. CASE k = "aside" BY <1>5
  <1>6. CASE k = "change" BY <1>6
  <1>7. CASE k = "strengthen" BY <1>7
  <1> QED BY <1>1, <1>2, <1>3, <1>4, <1>5, <1>6, <1>7 DEF Kinds

LEMMA AwaitsLast ==
    /\ \E i \in DOMAIN Awaits.unlock : Awaits.unlock[i] = "keep"
    /\ \E i \in DOMAIN Awaits.import : Awaits.import[i] = "commit"
  <1>1. 6 \in DOMAIN Awaits.unlock /\ Awaits.unlock[6] = "keep" BY AwaitsHere
  <1>2. 7 \in DOMAIN Awaits.import /\ Awaits.import[7] = "commit" BY AwaitsHere
  <1> QED BY <1>1, <1>2

-----------------------------------------------------------------------------
(* The types of everything, and what a call is. *)

Records == [salt : Nat, password : Nat, weak : BOOLEAN, wrapped : BOOLEAN]

CallOf ==
    [kind : Kinds \cup {"none"}, w : Wallet \cup {NoWallet}, epoch : Nat, await : Nat,
     salt : Nat, read : Records, dead : BOOLEAN, made : BOOLEAN]

GoodCall(s, c) ==
    /\ c \in CallOf
    /\ c.kind = "none" => c = NoCall
    /\ c.kind # "none" => c.await \in DOMAIN Awaits[c.kind] /\ c.w \in Wallet /\ (c.kind = "strengthen" <=> s = "strengthen")
    /\ c.made => c.kind = "unlock"

Somewhere == Wallet \cup {NoWallet}
Changes == [to : Somewhere, gone : Somewhere, due : BOOLEAN]

SessionType ==
    /\ keys \in Somewhere /\ logs \subseteq Wallet /\ unlocked \in Somewhere /\ epoch \in Nat
    /\ pending \in BOOLEAN /\ deferred \in BOOLEAN /\ holding \in BOOLEAN /\ hidden \in BOOLEAN
    /\ moved \subseteq Wallet /\ unopened \subseteq Wallet /\ bad \subseteq Wallet
    /\ shown \in Somewhere /\ next \in Changes
    /\ records \in [Wallet -> Records] /\ salts \in Nat /\ told \in [Wallet -> Nat]
    /\ calls \in [Slot -> CallOf] /\ \A s \in Slot : GoodCall(s, calls[s])

LEMMA Slots ==
    /\ "person" \in Openings /\ "person" \in Slot
    /\ "strengthen" \notin Openings /\ "strengthen" \in Slot
    /\ \A s \in Slot : s \in Openings \/ s = "strengthen"
    /\ \A s \in Openings : s \in Slot /\ s # "strengthen"
    /\ Rare = {} => Openings = {"person"}
  BY DEF Slot, Openings

LEMMA KindsAre ==
    \A k \in Kinds : k # "none" /\ k \in {"unlock", "reset", "create", "import", "aside", "change", "strengthen"}
  BY DEF Kinds

LEMMA NoCallIs ==
    /\ NoCall \in CallOf /\ NoCall.kind = "none" /\ NoCall.salt = 0 /\ NoCall.read = NoRecord
    /\ NoCall.dead = FALSE /\ NoCall.made = FALSE /\ NoCall.epoch = 0 /\ At(NoCall) = "none"
    /\ NoRecord \in Records /\ NoRecord.salt = 0
    /\ \A s : GoodCall(s, NoCall)
  BY DEF NoCall, CallOf, Records, NoRecord, GoodCall, At

\* What is known of a call that is under way.
LEMMA CallIs ==
    ASSUME NEW s, NEW c, GoodCall(s, c), At(c) # "none" \/ c.kind # "none"
    PROVE  /\ c.kind \in Kinds /\ c.kind # "none" /\ c.w \in Wallet /\ c.await \in DOMAIN Awaits[c.kind]
           /\ At(c) = Awaits[c.kind][c.await] /\ AwaitsOf(c.kind, At(c)) /\ At(c) # "none"
  <1>1. c.kind # "none" BY DEF At
  <1>2. c.kind \in Kinds /\ c.w \in Wallet /\ c.await \in DOMAIN Awaits[c.kind] BY <1>1 DEF GoodCall, CallOf
  <1>3. At(c) = Awaits[c.kind][c.await] BY <1>1 DEF At
  <1>4. AwaitsOf(c.kind, At(c)) BY <1>2, <1>3, AwaitsKinds
  <1> QED BY <1>1, <1>2, <1>3, <1>4 DEF AwaitsOf

\* A call that goes on is at its next await.
LEMMA GoesOnWell ==
    ASSUME NEW s, NEW c, GoodCall(s, c), c.kind # "none", ~Ends(c.kind, At(c)),
           NEW d, d = [c EXCEPT !.await = @ + 1]
    PROVE  /\ GoodCall(s, d) /\ After(c.kind, At(c), At(d))
           /\ d.kind = c.kind /\ d.w = c.w /\ d.epoch = c.epoch /\ d.salt = c.salt /\ d.read = c.read
           /\ d.dead = c.dead /\ d.made = c.made
  <1>1. c \in CallOf BY DEF GoodCall
  <1>2. /\ d \in CallOf /\ d.kind = c.kind /\ d.w = c.w /\ d.epoch = c.epoch /\ d.salt = c.salt
        /\ d.read = c.read /\ d.dead = c.dead /\ d.made = c.made /\ d.await = c.await + 1
    BY <1>1 DEF CallOf
  <1>3. c.kind \in Kinds /\ c.await \in DOMAIN Awaits[c.kind] /\ At(c) = Awaits[c.kind][c.await] BY CallIs
  <1>4. c.await + 1 \in DOMAIN Awaits[c.kind] /\ After(c.kind, At(c), Awaits[c.kind][c.await + 1]) BY <1>3, AwaitsFollow
  <1>5. At(d) = Awaits[c.kind][c.await + 1] BY <1>2 DEF At
  <1>6. GoodCall(s, d) BY <1>2, <1>4 DEF GoodCall
  <1> QED BY <1>2, <1>4, <1>5, <1>6

LEMMA SkipsWell ==
    ASSUME NEW s, NEW c, GoodCall(s, c), NEW await,
           (c.kind = "unlock" /\ await = "keep") \/ (c.kind = "import" /\ await = "commit"),
           NEW d, d = [c EXCEPT !.await = CHOOSE i \in DOMAIN Awaits[c.kind] : Awaits[c.kind][i] = await]
    PROVE  /\ GoodCall(s, d) /\ At(d) = await
           /\ d.kind = c.kind /\ d.w = c.w /\ d.epoch = c.epoch /\ d.salt = c.salt /\ d.read = c.read
           /\ d.dead = c.dead /\ d.made = c.made
  <1> DEFINE i == CHOOSE i \in DOMAIN Awaits[c.kind] : Awaits[c.kind][i] = await
  <1>1. i \in DOMAIN Awaits[c.kind] /\ Awaits[c.kind][i] = await BY AwaitsLast
  <1>2. c.kind \in Kinds BY DEF Kinds
  <1>3. i \in Nat
    <2>1. DOMAIN Awaits.unlock = 1..6 /\ DOMAIN Awaits.import = 1..7 BY AwaitsHere
    <2> QED BY <1>1, <2>1
  <1>4. c \in CallOf BY DEF GoodCall
  <1> HIDE DEF i
  <1>5. d = [c EXCEPT !.await = i] BY DEF i
  <1>6. /\ d \in CallOf /\ d.kind = c.kind /\ d.w = c.w /\ d.epoch = c.epoch /\ d.salt = c.salt
        /\ d.read = c.read /\ d.dead = c.dead /\ d.made = c.made /\ d.await = i
    BY <1>3, <1>4, <1>5 DEF CallOf
  <1>7. At(d) = await BY <1>1, <1>6 DEF At
  <1>8. GoodCall(s, d) BY <1>1, <1>6 DEF GoodCall
  <1> QED BY <1>6, <1>7, <1>8

BeginsAt(k, a) == a = IF k \in {"create", "import"} THEN "seal" ELSE IF k = "aside" THEN "setAside" ELSE "read"

\* A call that begins is at its first await.
LEMMA BeginsIs ==
    ASSUME SessionType, NEW k \in Kinds, NEW w \in Wallet
    PROVE  /\ Call(k, w) \in CallOf /\ BeginsAt(k, At(Call(k, w)))
           /\ \A s : (k = "strengthen" <=> s = "strengthen") => GoodCall(s, Call(k, w))
           /\ Call(k, w).kind = k /\ Call(k, w).w = w /\ Call(k, w).epoch = epoch
           /\ Call(k, w).salt = 0 /\ Call(k, w).read = NoRecord /\ Call(k, w).dead = FALSE /\ Call(k, w).made = FALSE
  <1> DEFINE c == Call(k, w)
  <1>1. epoch \in Nat BY DEF SessionType
  <1>2. /\ c \in CallOf /\ c.kind = k /\ c.w = w /\ c.epoch = epoch /\ c.await = 1 /\ c.salt = 0
        /\ c.read = NoRecord /\ c.dead = FALSE /\ c.made = FALSE
    BY <1>1, NoCallIs DEF Call, CallOf, NoCall
  <1>3. k # "none" BY DEF Kinds
  <1>4. At(c) = Awaits[k][1] BY <1>2, <1>3 DEF At
  <1> HIDE DEF c
  <1>5. BeginsAt(k, At(c)) BY <1>4, AwaitsFirst DEF BeginsAt
  <1>6. \A s : (k = "strengthen" <=> s = "strengthen") => GoodCall(s, c)
    BY <1>2, <1>3, AwaitsFirst DEF GoodCall
  <1> QED BY <1>2, <1>5, <1>6 DEF c

LEMMA RejectedWell ==
    ASSUME NEW s, NEW c, GoodCall(s, c)
    PROVE  LET d == Rejected(c) IN
           /\ GoodCall(s, d) /\ At(d) = At(c)
           /\ d.kind = c.kind /\ d.w = c.w /\ d.epoch = c.epoch /\ d.await = c.await /\ d.salt = c.salt
           /\ d.read = c.read /\ d.made = c.made
           /\ d.dead => c.dead \/ c.kind # "none"
           /\ At(c) \in InWorker => d.dead
  <1>1. CASE At(c) \notin InWorker BY <1>1, NoCallIs DEF Rejected, GoodCall
  <1>2. CASE At(c) \in InWorker
    <2> DEFINE d == [c EXCEPT !.dead = TRUE]
    <2>1. Rejected(c) = d BY <1>2 DEF Rejected
    <2>2. c.kind # "none" BY <1>2 DEF At, InWorker
    <2>3. /\ d \in CallOf /\ d.kind = c.kind /\ d.w = c.w /\ d.epoch = c.epoch /\ d.await = c.await
          /\ d.salt = c.salt /\ d.read = c.read /\ d.made = c.made /\ d.dead
      BY DEF CallOf, GoodCall
    <2>4. GoodCall(s, d) /\ At(d) = At(c) BY <2>2, <2>3 DEF GoodCall, At
    <2> HIDE DEF d
    <2> QED BY <2>1, <2>2, <2>3, <2>4
  <1> QED BY <1>1, <1>2

\* One call is set, and the others are as they were.
LEMMA SetWell ==
    ASSUME SessionType, NEW s \in Slot, NEW d, GoodCall(s, d), calls' = [calls EXCEPT ![s] = d]
    PROVE  /\ calls' \in [Slot -> CallOf] /\ \A t \in Slot : GoodCall(t, calls'[t])
           /\ calls'[s] = d /\ \A t \in Slot : t # s => calls'[t] = calls[t]
  BY DEF SessionType, GoodCall

LEMMA DoneWell ==
    ASSUME SessionType, NEW s \in Slot, Done(s)
    PROVE  /\ calls' \in [Slot -> CallOf] /\ \A t \in Slot : GoodCall(t, calls'[t])
           /\ calls'[s] = NoCall /\ \A t \in Slot : t # s => calls'[t] = calls[t]
  BY SetWell, NoCallIs DEF Done

LEMMA ForgotWell ==
    ASSUME SessionType, NEW s \in Slot, Forget(s)
    PROVE  /\ calls' \in [Slot -> CallOf] /\ \A t \in Slot : GoodCall(t, calls'[t])
           /\ calls'[s] = NoCall /\ \A t \in Slot : t # s => calls'[t] = Rejected(calls[t])
           /\ keys' = NoWallet /\ logs' = {}
  <1>1. \A t \in Slot : GoodCall(t, Rejected(calls[t])) BY RejectedWell DEF SessionType
  <1>2. \A t \in Slot : calls'[t] = IF t = s THEN NoCall ELSE Rejected(calls[t]) BY DEF Forget
  <1>3. \A t \in Slot : GoodCall(t, calls'[t]) BY <1>1, <1>2, NoCallIs
  <1>4. calls' \in [Slot -> CallOf] BY <1>1, NoCallIs DEF Forget, GoodCall
  <1> QED BY <1>2, <1>3, <1>4 DEF Forget

LEMMA LockedWell ==
    ASSUME SessionType, Lock
    PROVE  /\ calls' \in [Slot -> CallOf] /\ \A t \in Slot : GoodCall(t, calls'[t])
           /\ \A t \in Slot : calls'[t] = Rejected(calls[t])
           /\ keys' = NoWallet /\ logs' = {} /\ unlocked' = NoWallet /\ pending' = FALSE /\ holding' = FALSE
           /\ moved' = {} /\ unopened' = {} /\ epoch' = epoch + 1 /\ epoch' \in Nat
           /\ "slow keep" \in Rare \/ \A t \in Slot : At(calls[t]) # "keep"
  <1>1. \A t \in Slot : GoodCall(t, Rejected(calls[t])) BY RejectedWell DEF SessionType
  <1>2. \A t \in Slot : calls'[t] = Rejected(calls[t]) BY DEF Lock
  <1>3. calls' \in [Slot -> CallOf] BY <1>1 DEF Lock, GoodCall
  <1>4. epoch' = epoch + 1 /\ epoch' \in Nat
    <2>1. epoch \in Nat BY DEF SessionType
    <2>2. epoch' = epoch + 1 BY DEF Lock
    <2> QED BY <2>1, <2>2
  <1> QED BY <1>1, <1>2, <1>3, <1>4 DEF Lock, ForgetAll

LEMMA UnlockedWell ==
    ASSUME SessionType, NEW s \in Openings, calls[s].kind # "none", SetUnlocked(s, calls[s])
    PROVE  /\ calls' \in [Slot -> CallOf] /\ \A t \in Slot : GoodCall(t, calls'[t])
           /\ calls'[s] = NoCall
           /\ \A t \in Openings : t # s => calls'[t] = calls[t]
           /\ \/ calls'["strengthen"] = calls["strengthen"]
              \/ calls'["strengthen"] = Call("strengthen", calls[s].w)
           /\ unlocked' = calls[s].w /\ pending' = FALSE /\ keys' = keys /\ logs' = logs
           /\ next' = IF Makes(calls[s]) THEN [to |-> calls[s].w, gone |-> NoWallet, due |-> TRUE] ELSE next
  <1> DEFINE begun == Call("strengthen", calls[s].w)
             other == IF calls[s].kind \in {"unlock", "import"} /\ calls["strengthen"] = NoCall THEN begun ELSE calls["strengthen"]
  <1>1. s \in Slot /\ s # "strengthen" /\ "strengthen" \in Slot /\ "strengthen" \notin Openings BY Slots
  <1>2. GoodCall(s, calls[s]) /\ calls[s].w \in Wallet BY <1>1, CallIs DEF SessionType
  <1>3. GoodCall("strengthen", other)
    <2>1. "strengthen" \in Kinds BY DEF Kinds
    <2>2. GoodCall("strengthen", begun) BY <1>2, <2>1, BeginsIs
    <2> QED BY <1>1, <2>2 DEF SessionType
  <1>4. calls' = [[calls EXCEPT ![s] = NoCall] EXCEPT !["strengthen"] = other]
    BY <1>1 DEF SetUnlocked, SessionType
  <1>5. \A t \in Slot : calls'[t] = IF t = "strengthen" THEN other ELSE IF t = s THEN NoCall ELSE calls[t]
    BY <1>1, <1>4 DEF SessionType
  <1>6. calls' \in [Slot -> CallOf] BY <1>1, <1>3, <1>4, NoCallIs DEF SessionType, GoodCall
  <1>7. \A t \in Slot : GoodCall(t, calls'[t]) BY <1>3, <1>5, NoCallIs DEF SessionType
  <1>8. \A t \in Openings : t \in Slot /\ t # "strengthen" BY Slots
  <1> QED BY <1>1, <1>5, <1>6, <1>7, <1>8 DEF SetUnlocked, worker

CallsWell == calls \in [Slot -> CallOf] /\ \A s \in Slot : GoodCall(s, calls[s])

LEMMA TypeInit == Init => SessionType
  <1> SUFFICES ASSUME Init PROVE SessionType OBVIOUS
  <1>1. SessionAssumption BY SessionAssumption
  <1>2. PICK w \in Wallet, wrapped \in BOOLEAN : \E damaged \in SUBSET {w} :
            /\ shown = w /\ bad = damaged
            /\ records = [v \in Wallet |-> IF v = w THEN Record(wrapped) ELSE NoRecord]
    BY DEF Init
  <1>3. Record(wrapped) \in Records /\ NoRecord \in Records BY DEF Record, Records, NoRecord
  <1>4. records \in [Wallet -> Records] BY <1>2, <1>3
  <1>5. shown \in Somewhere /\ bad \subseteq Wallet BY <1>2 DEF Somewhere
  <1>6. next \in Changes BY DEF Init, Settled, Changes, Somewhere
  <1>7. CallsWell BY NoCallIs DEF CallsWell, Init
  <1>8. told \in [Wallet -> Nat] /\ salts \in Nat /\ epoch \in Nat BY DEF Init
  <1>9. /\ keys \in Somewhere /\ logs \subseteq Wallet /\ unlocked \in Somewhere
        /\ pending \in BOOLEAN /\ deferred \in BOOLEAN /\ holding \in BOOLEAN /\ hidden \in BOOLEAN
        /\ moved \subseteq Wallet /\ unopened \subseteq Wallet
    BY DEF Init, Somewhere
  <1> QED BY <1>4, <1>5, <1>6, <1>7, <1>8, <1>9 DEF SessionType, CallsWell

LockActions ==
    \/ LockWallet \/ LockWhenFree \/ LockIfIdle \/ Touch \/ HoldIdleLock \/ BeginSend \/ EndSend
    \/ Hide \/ Show \/ SwitchAccount \/ SwitchNetwork \/ RemoveAccount \/ SetAccount

\* What a lock, asked for or not, leaves typed.
LockTyped ==
    /\ keys' \in Somewhere /\ logs' \subseteq Wallet /\ unlocked' \in Somewhere /\ epoch' \in Nat
    /\ pending' \in BOOLEAN /\ holding' \in BOOLEAN /\ moved' \subseteq Wallet /\ unopened' \subseteq Wallet
    /\ CallsWell'

LEMMA LockTypes ==
    ASSUME SessionType
    PROVE  /\ Lock => LockTyped
           /\ RequestLock => LockTyped
           /\ UNCHANGED <<worker, lockState, calls>> => LockTyped
  <1>1. ASSUME Lock PROVE LockTyped BY <1>1, LockedWell DEF LockTyped, Somewhere, CallsWell
  <1>2. ASSUME UNCHANGED <<worker, lockState, calls>> PROVE LockTyped
    BY <1>2 DEF LockTyped, CallsWell, SessionType, worker, lockState
  <1>3. ASSUME RequestLock PROVE LockTyped
    <2>1. CASE ~deferred /\ Lock BY <2>1, <1>1
    <2>2. CASE deferred /\ pending' = TRUE /\ UNCHANGED <<worker, calls, unlocked, epoch, holding, moved, unopened>>
      BY <2>2 DEF LockTyped, CallsWell, SessionType, worker
    <2> QED BY <1>3, <2>1, <2>2 DEF RequestLock
  <1> QED BY <1>1, <1>2, <1>3

LEMMA TypeLockActions == SessionType /\ LockActions => SessionType'
  <1> SUFFICES ASSUME SessionType, LockActions PROVE SessionType' OBVIOUS
  <1> DEFINE Rest == /\ deferred' \in BOOLEAN /\ hidden' \in BOOLEAN /\ shown' \in Somewhere /\ next' \in Changes
                     /\ bad' \subseteq Wallet /\ records' \in [Wallet -> Records] /\ salts' \in Nat /\ told' \in [Wallet -> Nat]
  <1>1. LockTyped /\ Rest => SessionType' BY DEF LockTyped, CallsWell, SessionType
  <1>2. UNCHANGED disk => bad' \subseteq Wallet /\ records' \in [Wallet -> Records] /\ salts' \in Nat /\ told' \in [Wallet -> Nat]
    BY DEF disk, SessionType
  <1>3. deferred \in BOOLEAN /\ hidden \in BOOLEAN /\ shown \in Somewhere /\ next \in Changes /\ unlocked \in Somewhere /\ pending \in BOOLEAN
    BY DEF SessionType
  <1>4. UNCHANGED deferred /\ Elsewhere => Rest BY <1>2, <1>3 DEF Elsewhere
  <1>5. CASE LockWallet BY <1>1, <1>4, <1>5, LockTypes DEF LockWallet
  <1>6. CASE LockWhenFree BY <1>1, <1>4, <1>6, LockTypes DEF LockWhenFree
  <1>7. CASE LockIfIdle BY <1>1, <1>4, <1>7, LockTypes DEF LockIfIdle
  <1>8. CASE Touch
    <2>1. LockTyped BY <1>8 DEF Touch, Touched, LockTyped, CallsWell, SessionType, worker
    <2> QED BY <1>1, <1>4, <1>8, <2>1 DEF Touch
  <1>9. CASE HoldIdleLock
    <2>1. LockTyped BY <1>9 DEF HoldIdleLock, Touched, LockTyped, CallsWell, SessionType, worker
    <2> QED BY <1>1, <1>4, <1>9, <2>1 DEF HoldIdleLock
  <1>10. CASE BeginSend
    <2>1. Rest BY <1>2, <1>3, <1>10 DEF BeginSend, Elsewhere
    <2> QED BY <1>1, <1>10, <2>1, LockTypes DEF BeginSend
  <1>11. CASE EndSend
    <2>1. Rest BY <1>2, <1>3, <1>11 DEF EndSend, Elsewhere
    <2> QED BY <1>1, <1>11, <2>1, LockTypes DEF EndSend
  <1>12. CASE Hide
    <2>1. Rest BY <1>2, <1>3, <1>12 DEF Hide
    <2> QED BY <1>1, <1>12, <2>1, LockTypes DEF Hide
  <1>13. CASE Show
    <2>1. Rest BY <1>2, <1>3, <1>13 DEF Show
    <2> QED BY <1>1, <1>13, <2>1, LockTypes DEF Show
  <1>14. ASSUME NEW to \in Somewhere, NEW gone \in Somewhere, Change(to, gone) PROVE SessionType'
    <2>1. Rest BY <1>2, <1>3, <1>14 DEF Change, Changes
    <2> QED BY <1>1, <1>14, <2>1, LockTypes DEF Change
  <1>15. CASE SwitchAccount BY <1>14, <1>15 DEF SwitchAccount, Somewhere
  <1>16. CASE SwitchNetwork BY <1>14, <1>16 DEF SwitchNetwork, Somewhere
  <1>17. CASE RemoveAccount BY <1>3, <1>14, <1>17 DEF RemoveAccount, Somewhere
  <1>18. CASE SetAccount
    <2>1. LockTyped BY <1>18, LockTypes DEF SetAccount
    <2>2. next.to \in Somewhere /\ next.gone \in Somewhere BY <1>3 DEF Changes
    <2>3. shown' \in Somewhere /\ next' \in Changes BY <1>18, <2>2 DEF SetAccount, Settled, Changes, Somewhere
    <2>4. records' \in [Wallet -> Records] BY <1>18, NoCallIs DEF SetAccount, SessionType
    <2>5. told' \in [Wallet -> Nat] BY <1>18 DEF SetAccount, SessionType
    <2>6. bad' \subseteq Wallet /\ salts' \in Nat /\ deferred' \in BOOLEAN /\ hidden' \in BOOLEAN BY <1>3, <1>18 DEF SetAccount, SessionType
    <2> QED BY <1>1, <2>1, <2>3, <2>4, <2>5, <2>6
  <1> QED BY <1>5, <1>6, <1>7, <1>8, <1>9, <1>10, <1>11, <1>12, <1>13, <1>15, <1>16, <1>17, <1>18 DEF LockActions

BeginActions == BeginUnlock \/ BeginReset \/ BeginSetup \/ BeginChange \/ BeginAside

\* A call that begins: by the person, one thing at a time, and when.
BegunBy(s, k, w) ==
    /\ s \in Openings /\ k \in Kinds \ {"strengthen"} /\ w \in Wallet /\ NothingAsked
    /\ calls[s] = NoCall /\ calls' = [calls EXCEPT ![s] = Call(k, w)]
    /\ UNCHANGED <<worker, lockState, deferred, disk, hidden, shown, next>>
    /\ k \in {"unlock", "reset"} => ~Open /\ w = shown
    /\ k \in {"create", "import"} => ~hidden /\ ~deferred /\ ~There(w)
    /\ k \in {"change", "aside"} => Open /\ w = shown

LEMMA Begun ==
    ASSUME SessionType, BeginActions
    PROVE  \E s \in Openings, k \in Kinds, w \in Wallet : BegunBy(s, k, w)
  <1>1. CASE BeginUnlock
    <2>1. PICK s \in Slot : OnLockScreen(s) /\ Begin(s, Call("unlock", shown)) BY <1>1 DEF BeginUnlock
    <2>2. s \in Openings /\ shown \in Wallet BY <2>1 DEF OnLockScreen, SessionType, Somewhere
    <2>3. BegunBy(s, "unlock", shown) BY <2>1, <2>2 DEF BegunBy, OnLockScreen, Begin, Kinds
    <2> QED BY <2>2, <2>3 DEF Kinds
  <1>2. CASE BeginReset
    <2>1. PICK s \in Slot : OnLockScreen(s) /\ Begin(s, Call("reset", shown)) BY <1>2 DEF BeginReset
    <2>2. s \in Openings /\ shown \in Wallet BY <2>1 DEF OnLockScreen, SessionType, Somewhere
    <2>3. BegunBy(s, "reset", shown) BY <2>1, <2>2 DEF BegunBy, OnLockScreen, Begin, Kinds
    <2> QED BY <2>2, <2>3 DEF Kinds
  <1>3. CASE BeginSetup
    <2>1. PICK s \in Openings, w \in Wallet, k \in {"create", "import"} :
              ~hidden /\ ~deferred /\ ~There(w) /\ NothingAsked /\ Begin(s, Call(k, w))
      BY <1>3 DEF BeginSetup
    <2>2. BegunBy(s, k, w) BY <2>1 DEF BegunBy, Begin, Kinds
    <2> QED BY <2>2 DEF Kinds
  <1>4. CASE BeginChange
    <2>1. PICK s \in Openings : Open /\ NothingAsked /\ Begin(s, Call("change", shown)) BY <1>4 DEF BeginChange
    <2>2. shown \in Wallet BY <2>1 DEF Open, SessionType, Somewhere
    <2>3. BegunBy(s, "change", shown) BY <2>1, <2>2 DEF BegunBy, Begin, Kinds
    <2> QED BY <2>2, <2>3 DEF Kinds
  <1>5. CASE BeginAside
    <2>1. PICK s \in Openings : Open /\ NothingAsked /\ Begin(s, Call("aside", shown)) BY <1>5 DEF BeginAside
    <2>2. shown \in Wallet BY <2>1 DEF Open, SessionType, Somewhere
    <2>3. BegunBy(s, "aside", shown) BY <2>1, <2>2 DEF BegunBy, Begin, Kinds
    <2> QED BY <2>2, <2>3 DEF Kinds
  <1> QED BY <1>1, <1>2, <1>3, <1>4, <1>5 DEF BeginActions

LEMMA BegunWell ==
    ASSUME SessionType, NEW s \in Openings, NEW k \in Kinds, NEW w \in Wallet, BegunBy(s, k, w)
    PROVE  LET c == calls'[s] IN
           /\ CallsWell' /\ c = Call(k, w) /\ \A t \in Slot : t # s => calls'[t] = calls[t]
           /\ GoodCall(s, c) /\ c.kind = k /\ c.w = w /\ c.epoch = epoch /\ c.salt = 0 /\ c.read = NoRecord
           /\ c.dead = FALSE /\ c.made = FALSE /\ BeginsAt(k, At(c))
           /\ SessionType'
  <1>1. s \in Slot /\ s # "strengthen" BY Slots
  <1>2. k # "strengthen" /\ calls' = [calls EXCEPT ![s] = Call(k, w)]
        /\ UNCHANGED <<worker, lockState, deferred, disk, hidden, shown, next>>
    BY DEF BegunBy
  <1>3. k = "strengthen" <=> s = "strengthen" BY <1>1, <1>2
  <1>4. GoodCall(s, Call(k, w)) BY <1>3, BeginsIs
  <1>5. /\ calls' \in [Slot -> CallOf] /\ \A t \in Slot : GoodCall(t, calls'[t])
        /\ calls'[s] = Call(k, w) /\ \A t \in Slot : t # s => calls'[t] = calls[t]
    BY <1>1, <1>2, <1>4, SetWell
  <1>6. CallsWell' BY <1>5 DEF CallsWell
  <1>7. SessionType' BY <1>2, <1>6 DEF SessionType, CallsWell, worker, lockState, disk
  <1>8. /\ BeginsAt(k, At(Call(k, w)))
        /\ Call(k, w).kind = k /\ Call(k, w).w = w /\ Call(k, w).epoch = epoch
        /\ Call(k, w).salt = 0 /\ Call(k, w).read = NoRecord /\ Call(k, w).dead = FALSE /\ Call(k, w).made = FALSE
    BY BeginsIs
  <1> QED BY <1>4, <1>5, <1>6, <1>7, <1>8

CallActions(s) ==
    \/ Read(s) \/ Seal(s) \/ Patch(s) \/ Load(s) \/ Put(s) \/ Store(s) \/ Reopen(s)
    \/ DropOldCopies(s) \/ Commit(s) \/ KeepSeedUnlock(s) \/ SetAside(s)

\* What a call at an await is.
LEMMA RunningIs ==
    ASSUME SessionType, NEW s \in Slot, NEW a, a # "none", Running(s, a)
    PROVE  LET c == calls[s] IN
           /\ GoodCall(s, c) /\ c \in CallOf /\ c.kind \in Kinds /\ c.kind # "none" /\ c.w \in Wallet /\ At(c) = a
           /\ AwaitsOf(c.kind, a)
           /\ c.kind = "strengthen" <=> s = "strengthen"
           /\ c.kind # "strengthen" => s \in Openings
  <1>1. GoodCall(s, calls[s]) /\ At(calls[s]) = a BY DEF SessionType, Running
  <1>2. calls[s].kind \in Kinds /\ calls[s].kind # "none" /\ calls[s].w \in Wallet /\ AwaitsOf(calls[s].kind, a) BY <1>1, CallIs
  <1> QED BY <1>1, <1>2, Slots DEF GoodCall

\* What holds of everything but the calls.
PlainType ==
    /\ keys \in Somewhere /\ logs \subseteq Wallet /\ unlocked \in Somewhere /\ epoch \in Nat
    /\ pending \in BOOLEAN /\ deferred \in BOOLEAN /\ holding \in BOOLEAN /\ hidden \in BOOLEAN
    /\ moved \subseteq Wallet /\ unopened \subseteq Wallet /\ bad \subseteq Wallet
    /\ shown \in Somewhere /\ next \in Changes
    /\ records \in [Wallet -> Records] /\ salts \in Nat /\ told \in [Wallet -> Nat]

LEMMA SessionTypeIs == SessionType <=> PlainType /\ CallsWell
  BY DEF SessionType, PlainType, CallsWell

\* What a call that failed leaves, and one that finishes or goes on.
LEMMA FailsWell ==
    ASSUME SessionType, NEW s \in Slot, calls[s].w \in Wallet, NEW why, Fails(s, calls[s], why)
    PROVE  /\ CallsWell' /\ keys' \in Somewhere /\ logs' \subseteq Wallet
           /\ records' \in [Wallet -> Records] /\ told' \in [Wallet -> Nat]
           /\ UNCHANGED <<unlocked, pending, next, bad, salts>>
           /\ \A w \in Wallet : (records'[w] = records[w] /\ told'[w] = told[w])
                                \/ (w = calls[s].w /\ Makes(calls[s]) /\ records'[w] = NoRecord)
           /\ IF Makes(calls[s]) THEN keys' = NoWallet /\ logs' = {} ELSE keys' = keys /\ logs' = logs
           /\ calls'[s] = NoCall
           /\ \A t \in Slot : t # s => calls'[t] = IF Makes(calls[s]) THEN Rejected(calls[t]) ELSE calls[t]
  <1>1. UNCHANGED <<unlocked, pending, next, bad, salts>> BY DEF Fails
  <1>2. /\ records' \in [Wallet -> Records] /\ told' \in [Wallet -> Nat]
        /\ \A w \in Wallet : (records'[w] = records[w] /\ told'[w] = told[w])
                             \/ (w = calls[s].w /\ Makes(calls[s]) /\ records'[w] = NoRecord)
    <2>1. records \in [Wallet -> Records] /\ told \in [Wallet -> Nat] BY DEF SessionType
    <2>2. CASE calls[s].kind = "import" /\ why = "error" /\ There(calls[s].w)
      <3>1. records' = [records EXCEPT ![calls[s].w] = NoRecord] /\ told' = [told EXCEPT ![calls[s].w] = 0]
        BY <2>2 DEF Fails
      <3> QED BY <2>1, <2>2, <3>1, NoCallIs DEF Makes
    <2>3. CASE ~(calls[s].kind = "import" /\ why = "error" /\ There(calls[s].w))
      <3>1. records' = records /\ told' = told BY <2>3 DEF Fails
      <3> QED BY <2>1, <3>1
    <2> QED BY <2>2, <2>3
  <1>3. CASE Makes(calls[s])
    <2>1. Forget(s) BY <1>3 DEF Fails
    <2> QED BY <1>1, <1>2, <1>3, <2>1, ForgotWell DEF CallsWell, Somewhere
  <1>4. CASE ~Makes(calls[s])
    <2>1. Done(s) /\ keys' = keys /\ logs' = logs BY <1>4 DEF Fails, worker
    <2>2. keys \in Somewhere /\ logs \subseteq Wallet BY DEF SessionType
    <2> QED BY <1>1, <1>2, <1>4, <2>1, <2>2, DoneWell DEF CallsWell
  <1> QED BY <1>3, <1>4

\* A call goes on from an await that is not its last, changed or not.
Onward(s, c) ==
    /\ CallsWell' /\ \A t \in Slot : t # s => calls'[t] = calls[t]
    /\ LET d == calls'[s] IN
       /\ d.kind = c.kind /\ d.w = c.w /\ d.epoch = c.epoch /\ d.salt = c.salt /\ d.read = c.read
       /\ d.dead = c.dead /\ d.made = c.made

LEMMA OnwardWell ==
    ASSUME SessionType, NEW s \in Slot, NEW c, GoodCall(s, c), c.kind # "none", GoesOn(s, c), ~Ends(c.kind, At(c))
    PROVE  Onward(s, c) /\ After(c.kind, At(c), At(calls'[s]))
  <1> DEFINE d == [c EXCEPT !.await = @ + 1]
  <1>1. /\ GoodCall(s, d) /\ After(c.kind, At(c), At(d))
        /\ d.kind = c.kind /\ d.w = c.w /\ d.epoch = c.epoch /\ d.salt = c.salt /\ d.read = c.read
        /\ d.dead = c.dead /\ d.made = c.made
    BY GoesOnWell
  <1>2. calls' = [calls EXCEPT ![s] = d] BY DEF GoesOn
  <1> HIDE DEF d
  <1>3. /\ calls' \in [Slot -> CallOf] /\ \A t \in Slot : GoodCall(t, calls'[t])
        /\ calls'[s] = d /\ \A t \in Slot : t # s => calls'[t] = calls[t]
    BY <1>1, <1>2, SetWell
  <1> QED BY <1>1, <1>3 DEF Onward, CallsWell

LEMMA SkippedWell ==
    ASSUME SessionType, NEW s \in Slot, NEW await, Skips(s, calls[s], await),
           (calls[s].kind = "unlock" /\ await = "keep") \/ (calls[s].kind = "import" /\ await = "commit")
    PROVE  Onward(s, calls[s]) /\ At(calls'[s]) = await
  <1> DEFINE c == calls[s]
             d == [c EXCEPT !.await = CHOOSE i \in DOMAIN Awaits[c.kind] : Awaits[c.kind][i] = await]
  <1>1. GoodCall(s, c) BY DEF SessionType
  <1>2. /\ GoodCall(s, d) /\ At(d) = await
        /\ d.kind = c.kind /\ d.w = c.w /\ d.epoch = c.epoch /\ d.salt = c.salt /\ d.read = c.read
        /\ d.dead = c.dead /\ d.made = c.made
    BY <1>1, SkipsWell
  <1>3. calls' = [calls EXCEPT ![s] = d] BY DEF Skips
  <1> HIDE DEF d
  <1>4. /\ calls' \in [Slot -> CallOf] /\ \A t \in Slot : GoodCall(t, calls'[t])
        /\ calls'[s] = d /\ \A t \in Slot : t # s => calls'[t] = calls[t]
    BY <1>2, <1>3, SetWell
  <1> QED BY <1>2, <1>4 DEF Onward, CallsWell

\* What is left when a call finishes opening a wallet: it was cancelled, it
\* has the wrapping to keep, or the wallet is unlocked.
Kept == keys' = keys /\ logs' = logs /\ UNCHANGED <<unlocked, pending, next, bad, records, salts, told>>
Unlocks(s) ==
    /\ CallsWell' /\ calls'[s] = NoCall
    /\ \A t \in Openings : t # s => calls'[t] = calls[t]
    /\ calls'["strengthen"] = calls["strengthen"] \/ calls'["strengthen"] = Call("strengthen", calls[s].w)
    /\ unlocked' = calls[s].w /\ pending' = FALSE /\ keys' = keys /\ logs' = logs
    /\ next' = IF Makes(calls[s]) THEN [to |-> calls[s].w, gone |-> NoWallet, due |-> TRUE] ELSE next
Finished(s) ==
    LET c == calls[s] IN
    \/ Overtaken(c) /\ Fails(s, c, "cancelled")
    \/ ~Overtaken(c) /\ c.kind = "unlock" /\ Onward(s, c) /\ At(calls'[s]) = "keep" /\ Kept
    \/ ~Overtaken(c) /\ Unlocks(s) /\ UNCHANGED <<bad, records, salts, told>>
StoreFinished(s) ==
    LET c == calls[s] IN
    \/ c.kind = "aside" /\ Done(s) /\ Kept
    \/ c.kind = "import" /\ Onward(s, c) /\ At(calls'[s]) = "commit" /\ Kept
    \/ c.kind \notin {"aside", "import"} /\ Finished(s)

LEMMA FinishesWell ==
    ASSUME SessionType, NEW s \in Openings, calls[s].kind # "none"
    PROVE  /\ Finishes(s, calls[s]) => Finished(s)
           /\ StoreDone(s, calls[s]) => StoreFinished(s)
  <1>1. s \in Slot /\ GoodCall(s, calls[s]) BY Slots DEF SessionType
  <1>2. ASSUME Finishes(s, calls[s]) PROVE Finished(s)
    <2>1. CASE Overtaken(calls[s]) /\ Fails(s, calls[s], "cancelled") BY <2>1 DEF Finished
    <2>2. CASE ~Overtaken(calls[s]) /\ calls[s].made /\ Skips(s, calls[s], "keep") /\ UNCHANGED <<worker, unlocked, pending, next, disk>>
      <3>1. calls[s].kind = "unlock" BY <1>1, <2>2 DEF GoodCall
      <3>2. Onward(s, calls[s]) /\ At(calls'[s]) = "keep" BY <1>1, <2>2, <3>1, SkippedWell
      <3>3. Kept BY <2>2 DEF Kept, worker, disk
      <3> QED BY <2>2, <3>1, <3>2, <3>3 DEF Finished
    <2>3. CASE ~Overtaken(calls[s]) /\ SetUnlocked(s, calls[s]) /\ UNCHANGED disk
      <3>1. Unlocks(s) BY <2>3, UnlockedWell DEF Unlocks, CallsWell
      <3> QED BY <2>3, <3>1 DEF Finished, disk
    <2> QED BY <1>2, <2>1, <2>2, <2>3 DEF Finishes
  <1>3. ASSUME StoreDone(s, calls[s]) PROVE StoreFinished(s)
    <2>1. CASE calls[s].kind = "aside" /\ Done(s) /\ UNCHANGED <<worker, unlocked, pending, next, disk>>
      BY <2>1 DEF StoreFinished, Kept, worker, disk
    <2>2. CASE calls[s].kind = "import" /\ Skips(s, calls[s], "commit") /\ UNCHANGED <<worker, unlocked, pending, next, disk>>
      BY <1>1, <2>2, SkippedWell DEF StoreFinished, Kept, worker, disk
    <2>3. CASE calls[s].kind \notin {"aside", "import"} /\ Finishes(s, calls[s])
      BY <1>2, <2>3 DEF StoreFinished
    <2> QED BY <1>3, <2>1, <2>2, <2>3 DEF StoreDone
  <1> QED BY <1>2, <1>3

\* The type of what they leave.
LeftTyped ==
    /\ CallsWell' /\ keys' \in Somewhere /\ logs' \subseteq Wallet /\ unlocked' \in Somewhere
    /\ pending' \in BOOLEAN /\ next' \in Changes /\ bad' \subseteq Wallet
    /\ records' \in [Wallet -> Records] /\ salts' \in Nat /\ told' \in [Wallet -> Nat]

LEMMA LeftWell ==
    ASSUME SessionType, NEW s \in Openings, calls[s].w \in Wallet
    PROVE  /\ \A why : Fails(s, calls[s], why) => LeftTyped
           /\ CallsWell' /\ Kept => LeftTyped
           /\ Finished(s) => LeftTyped
           /\ StoreFinished(s) => LeftTyped
  <1>1. s \in Slot BY Slots
  <1>2. PlainType BY SessionTypeIs
  <1>3. \A why : Fails(s, calls[s], why) => LeftTyped
    <2> SUFFICES ASSUME NEW why, Fails(s, calls[s], why) PROVE LeftTyped OBVIOUS
    <2>1. /\ CallsWell' /\ keys' \in Somewhere /\ logs' \subseteq Wallet
          /\ records' \in [Wallet -> Records] /\ told' \in [Wallet -> Nat]
          /\ UNCHANGED <<unlocked, pending, next, bad, salts>>
      BY <1>1, FailsWell
    <2> QED BY <1>2, <2>1 DEF LeftTyped, PlainType
  <1>4. CallsWell' /\ Kept => LeftTyped BY <1>2 DEF Kept, LeftTyped, PlainType
  <1>5. ASSUME Unlocks(s), UNCHANGED <<bad, records, salts, told>> PROVE LeftTyped
    <2>1. [to |-> calls[s].w, gone |-> NoWallet, due |-> TRUE] \in Changes BY DEF Changes, Somewhere
    <2>2. next' \in Changes BY <1>2, <1>5, <2>1 DEF Unlocks, PlainType
    <2>3. unlocked' \in Somewhere /\ pending' \in BOOLEAN BY <1>5 DEF Unlocks, Somewhere
    <2> QED BY <1>2, <1>5, <2>2, <2>3 DEF Unlocks, LeftTyped, PlainType
  <1>6. Finished(s) => LeftTyped BY <1>3, <1>4, <1>5 DEF Finished, Onward
  <1>7. Done(s) => CallsWell' BY <1>1, DoneWell DEF CallsWell
  <1>8. StoreFinished(s) => LeftTyped BY <1>4, <1>6, <1>7 DEF StoreFinished, Onward
  <1> QED BY <1>3, <1>4, <1>6, <1>8

LEMMA TypeCallActions == \A s \in Slot : SessionType /\ CallActions(s) => SessionType'
  <1> SUFFICES ASSUME NEW s \in Slot, SessionType, CallActions(s) PROVE SessionType' OBVIOUS
  <1> DEFINE c == calls[s]
  <1>1. PlainType BY SessionTypeIs
  <1>2. Still => deferred' \in BOOLEAN /\ hidden' \in BOOLEAN /\ shown' \in Somewhere BY <1>1 DEF Still, PlainType
  <1>3. LeftTyped /\ Still /\ epoch' = epoch /\ holding' = holding /\ moved' \subseteq Wallet /\ unopened' \subseteq Wallet => SessionType'
    BY <1>1, <1>2 DEF LeftTyped, SessionType, CallsWell, PlainType
  <1>4. CASE Read(s)
    <2>1. c.kind # "none" /\ GoodCall(s, c) /\ c \in CallOf /\ c.w \in Wallet /\ c.kind \in Kinds /\ At(c) = "read" /\ AwaitsOf(c.kind, "read")
      BY <1>4, RunningIs DEF Read
    <2>2. CallsWell'
      <3>1. CASE Done(s) BY <3>1, DoneWell DEF CallsWell
      <3>2. CASE GoesOn(s, [c EXCEPT !.read = records[c.w]])
        <4> DEFINE d == [c EXCEPT !.read = records[c.w]]
        <4>1. records[c.w] \in Records BY <2>1, <1>1 DEF PlainType
        <4>2. GoodCall(s, d) /\ At(d) = At(c) /\ d.kind = c.kind BY <2>1, <4>1 DEF GoodCall, CallOf, At
        <4> HIDE DEF d
        <4>3. ~Ends(d.kind, At(d)) BY <2>1, <4>2 DEF Ends
        <4> QED BY <2>1, <3>2, <4>2, <4>3, OnwardWell DEF Onward, d
      <3> QED BY <1>4, <3>1, <3>2 DEF Read
    <2> QED BY <1>1, <1>4, <2>2 DEF Read, Still, worker, lockState, disk, SessionType, CallsWell, PlainType
  <1>5. CASE Seal(s)
    <2>1. c.kind # "none" /\ GoodCall(s, c) /\ c \in CallOf /\ c.kind \in Kinds /\ At(c) = "seal" /\ AwaitsOf(c.kind, "seal")
      BY <1>5, RunningIs DEF Seal
    <2>2. CallsWell' /\ salts' \in Nat
      <3>1. CASE Done(s) /\ UNCHANGED salts BY <1>1, <3>1, DoneWell DEF CallsWell, PlainType
      <3>2. CASE salts' = salts + 1 /\ GoesOn(s, [c EXCEPT !.salt = salts + 1])
        <4> DEFINE d == [c EXCEPT !.salt = salts + 1]
        <4>1. salts \in Nat /\ salts + 1 \in Nat BY <1>1 DEF PlainType
        <4>2. GoodCall(s, d) /\ At(d) = At(c) /\ d.kind = c.kind BY <2>1, <4>1 DEF GoodCall, CallOf, At
        <4> HIDE DEF d
        <4>3. ~Ends(d.kind, At(d)) BY <2>1, <4>2 DEF Ends, Kinds
        <4> QED BY <2>1, <3>2, <4>1, <4>2, <4>3, OnwardWell DEF Onward, d
      <3> QED BY <1>5, <3>1, <3>2 DEF Seal
    <2> QED BY <1>1, <1>5, <2>2 DEF Seal, Still, worker, lockState, SessionType, CallsWell, PlainType
  <1>6. CASE Patch(s)
    <2>1. c.kind # "none" /\ GoodCall(s, c) /\ c \in CallOf /\ c.w \in Wallet /\ c.kind \in Kinds /\ At(c) = "patch" /\ AwaitsOf(c.kind, "patch")
      BY <1>6, RunningIs DEF Patch
    <2>2. CASE UNCHANGED <<records, told>> /\ Done(s)
      BY <1>1, <1>6, <2>2, DoneWell DEF Patch, Still, worker, lockState, SessionType, CallsWell, PlainType
    <2>3. CASE There(c.w) /\ SameEnvelope(c)
      <3> DEFINE password == IF c.kind = "strengthen" THEN c.read.password ELSE c.salt
      <3>1. password \in Nat /\ c.salt \in Nat BY <2>1 DEF CallOf, Records
      <3> HIDE DEF password
      <3>2. /\ records' = [records EXCEPT ![c.w] = [@ EXCEPT !.salt = c.salt, !.password = password, !.weak = FALSE]]
            /\ told' = IF c.kind = "strengthen" THEN told ELSE [told EXCEPT ![c.w] = password]
            /\ IF c.kind = "reset" THEN GoesOn(s, [c EXCEPT !.salt = 0]) ELSE Done(s)
        BY <1>6, <2>3 DEF Patch, password
      <3>3. records[c.w] \in Records BY <1>1, <2>1 DEF PlainType
      <3>4. [records[c.w] EXCEPT !.salt = c.salt, !.password = password, !.weak = FALSE] \in Records
        BY <3>1, <3>3 DEF Records
      <3>5. records' \in [Wallet -> Records] BY <1>1, <2>1, <3>2, <3>4 DEF PlainType
      <3>6. told' \in [Wallet -> Nat] BY <1>1, <2>1, <3>1, <3>2 DEF PlainType
      <3>7. CallsWell'
        <4>1. CASE Done(s) BY <4>1, DoneWell DEF CallsWell
        <4>2. CASE c.kind = "reset" /\ GoesOn(s, [c EXCEPT !.salt = 0])
          <5> DEFINE d == [c EXCEPT !.salt = 0]
          <5>1. GoodCall(s, d) /\ At(d) = At(c) /\ d.kind = c.kind BY <2>1 DEF GoodCall, CallOf, At
          <5> HIDE DEF d
          <5>2. ~Ends(d.kind, At(d)) BY <2>1, <4>2, <5>1 DEF Ends
          <5> QED BY <2>1, <4>2, <5>1, <5>2, OnwardWell DEF Onward, d
        <4> QED BY <3>2, <4>1, <4>2
      <3> QED BY <1>1, <1>6, <3>5, <3>6, <3>7 DEF Patch, Still, worker, lockState, SessionType, CallsWell, PlainType
    <2> QED BY <1>6, <2>2, <2>3 DEF Patch
  <1>7. CASE Load(s)
    <2>1. c.kind # "none" /\ GoodCall(s, c) /\ c \in CallOf /\ c.w \in Wallet /\ c.kind \in Kinds /\ At(c) = "open" /\ AwaitsOf(c.kind, "open")
      BY <1>7, RunningIs DEF Load
    <2>2. CallsWell' /\ keys' \in Somewhere /\ logs' \subseteq Wallet
      <3>1. CASE Done(s) /\ UNCHANGED worker BY <1>1, <3>1, DoneWell DEF CallsWell, PlainType, worker
      <3>2. CASE Forget(s) BY <3>2, ForgotWell DEF CallsWell, Somewhere
      <3>3. CASE Keep(c.w) /\ GoesOn(s, [c EXCEPT !.read = NoRecord, !.made = c.kind = "unlock" /\ ~c.read.wrapped])
        <4> DEFINE m == c.kind = "unlock" /\ ~c.read.wrapped
        <4>1. m \in BOOLEAN /\ (m => c.kind = "unlock") OBVIOUS
        <4> HIDE DEF m
        <4> DEFINE d == [c EXCEPT !.read = NoRecord, !.made = m]
        <4>2. GoodCall(s, d) /\ At(d) = At(c) /\ d.kind = c.kind BY <2>1, <4>1, NoCallIs DEF GoodCall, CallOf, At
        <4> HIDE DEF d
        <4>3. ~Ends(d.kind, At(d)) BY <2>1, <4>2 DEF Ends, AwaitsOf
        <4>4. GoesOn(s, d) BY <3>3 DEF d, m
        <4> QED BY <2>1, <3>3, <4>2, <4>3, <4>4, OnwardWell DEF Onward, Keep, Somewhere
      <3> QED BY <1>7, <3>1, <3>2, <3>3 DEF Load
    <2> QED BY <1>1, <1>7, <2>2 DEF Load, Still, lockState, disk, SessionType, CallsWell, PlainType
  <1>8. CASE Put(s)
    <2>1. c.kind # "none" /\ GoodCall(s, c) /\ c \in CallOf /\ c.w \in Wallet /\ c.kind \in Kinds /\ At(c) = "put" /\ AwaitsOf(c.kind, "put") /\ s \in Openings
      BY <1>8, RunningIs DEF Put, AwaitsOf
    <2>2. CASE Fails(s, c, "error")
      <3>1. LeftTyped BY <2>1, <2>2, LeftWell
      <3> QED BY <1>1, <1>3, <1>8, <3>1 DEF Put, PlainType
    <2>3. CASE /\ records' = [records EXCEPT ![c.w] = [salt |-> c.salt, password |-> c.salt, weak |-> c.kind = "import", wrapped |-> TRUE]]
               /\ told' = [told EXCEPT ![c.w] = c.salt]
               /\ GoesOn(s, [c EXCEPT !.salt = 0]) /\ UNCHANGED <<worker, unlocked, pending, next, bad, salts>>
      <3> DEFINE weak == c.kind = "import"
      <3>1. weak \in BOOLEAN /\ c.salt \in Nat BY <2>1 DEF CallOf
      <3> HIDE DEF weak
      <3>2. [salt |-> c.salt, password |-> c.salt, weak |-> weak, wrapped |-> TRUE] \in Records BY <3>1 DEF Records
      <3>3. records' = [records EXCEPT ![c.w] = [salt |-> c.salt, password |-> c.salt, weak |-> weak, wrapped |-> TRUE]] BY <2>3 DEF weak
      <3>4. records' \in [Wallet -> Records] /\ told' \in [Wallet -> Nat] BY <1>1, <2>1, <2>3, <3>1, <3>2, <3>3 DEF PlainType
      <3> DEFINE d == [c EXCEPT !.salt = 0]
      <3>5. GoodCall(s, d) /\ At(d) = At(c) /\ d.kind = c.kind BY <2>1 DEF GoodCall, CallOf, At
      <3>6. GoesOn(s, d) BY <2>3
      <3> HIDE DEF d
      <3>7. ~Ends(d.kind, At(d)) BY <2>1, <3>5 DEF Ends, AwaitsOf
      <3>8. CallsWell' BY <2>1, <3>5, <3>6, <3>7, OnwardWell DEF Onward
      <3>9. LeftTyped BY <1>1, <2>3, <3>4, <3>8 DEF LeftTyped, PlainType, worker
      <3> QED BY <1>1, <1>3, <1>8, <3>9 DEF Put, PlainType
    <2> QED BY <1>8, <2>2, <2>3 DEF Put
  <1>9. CASE Store(s)
    <2>1. c.kind # "none" /\ GoodCall(s, c) /\ c \in CallOf /\ c.w \in Wallet /\ c.kind \in Kinds /\ At(c) = "store" /\ AwaitsOf(c.kind, "store") /\ s \in Openings
      BY <1>9, RunningIs DEF Store, AwaitsOf
    <2>2. LeftTyped /\ unopened' \subseteq Wallet
      <3>1. CASE GoesOn(s, c) /\ UNCHANGED unopened
        <4>1. ~Ends(c.kind, At(c)) BY <2>1 DEF Ends, AwaitsOf
        <4>2. CallsWell' BY <2>1, <3>1, <4>1, OnwardWell DEF Onward
        <4>3. CASE logs' = logs \cup {c.w} /\ UNCHANGED <<keys, unlocked, pending, unopened, next, disk>>
          BY <1>1, <2>1, <4>2, <4>3 DEF LeftTyped, PlainType, disk
        <4>4. CASE logs' = logs \cup {c.w} /\ bad' = bad \cup {c.w} /\ UNCHANGED <<keys, unlocked, pending, unopened, next, records, salts, told>>
          BY <1>1, <2>1, <4>2, <4>4 DEF LeftTyped, PlainType
        <4>5. CASE Unopenable(c.w) /\ StoreDone(s, c)
          <5>1. LeftTyped BY <2>1, <4>5, FinishesWell, LeftWell
          <5> QED BY <1>1, <3>1, <5>1 DEF PlainType
        <4> QED BY <1>1, <1>9, <3>1, <4>3, <4>4, <4>5 DEF Store, PlainType
      <3>2. CASE Unopenable(c.w) /\ StoreDone(s, c)
        <4>1. LeftTyped BY <2>1, <3>2, FinishesWell, LeftWell
        <4> QED BY <1>1, <2>1, <3>2, <4>1 DEF Unopenable, PlainType
      <3> QED BY <1>9, <3>1, <3>2 DEF Store
    <2> QED BY <1>1, <1>3, <1>9, <2>2 DEF Store, PlainType
  <1>10. CASE Reopen(s)
    <2>1. c.kind # "none" /\ GoodCall(s, c) /\ c \in CallOf /\ c.w \in Wallet /\ c.kind \in Kinds /\ At(c) = "reopen" /\ AwaitsOf(c.kind, "reopen") /\ s \in Openings
      BY <1>10, RunningIs DEF Reopen, AwaitsOf
    <2>2. CASE Fails(s, c, "error") /\ UNCHANGED moved
      <3>1. LeftTyped BY <2>1, <2>2, LeftWell
      <3> QED BY <1>1, <1>3, <1>10, <2>2, <3>1 DEF Reopen, PlainType
    <2>3. CASE Opened(c.w) /\ GoesOn(s, c) /\ UNCHANGED <<worker, unlocked, pending, next, disk>>
      <3>1. ~Ends(c.kind, At(c)) BY <2>1 DEF Ends, AwaitsOf
      <3>2. CallsWell' BY <2>1, <2>3, <3>1, OnwardWell DEF Onward
      <3>3. LeftTyped BY <2>3, <1>1, <3>2 DEF LeftTyped, PlainType, worker, disk
      <3>4. moved' \subseteq Wallet BY <1>1, <2>1, <2>3 DEF Opened, PlainType
      <3> QED BY <1>1, <1>3, <1>10, <3>3, <3>4 DEF Reopen, PlainType
    <2> QED BY <1>10, <2>2, <2>3 DEF Reopen
  <1>11. CASE DropOldCopies(s)
    <2>1. c.kind # "none" /\ c.w \in Wallet /\ s \in Openings
      BY <1>11, RunningIs DEF DropOldCopies, AwaitsOf
    <2>2. LeftTyped BY <1>11, <2>1, FinishesWell, LeftWell DEF DropOldCopies
    <2> QED BY <1>1, <1>3, <1>11, <2>2 DEF DropOldCopies, PlainType
  <1>12. CASE Commit(s)
    <2>1. c.kind # "none" /\ c.w \in Wallet /\ s \in Openings
      BY <1>12, RunningIs DEF Commit, AwaitsOf
    <2>2. CASE Fails(s, c, "error")
      <3>1. LeftTyped BY <2>1, <2>2, LeftWell
      <3> QED BY <1>1, <1>3, <1>12, <3>1 DEF Commit, PlainType
    <2>3. CASE Finishes(s, c)
      <3>1. LeftTyped BY <2>1, <2>3, FinishesWell, LeftWell
      <3> QED BY <1>1, <1>3, <1>12, <3>1 DEF Commit, PlainType
    <2> QED BY <1>12, <2>2, <2>3 DEF Commit
  <1>13. CASE KeepSeedUnlock(s)
    <2>1. c.kind # "none" /\ c.w \in Wallet /\ s \in Openings
      BY <1>13, RunningIs DEF KeepSeedUnlock, AwaitsOf
    <2>2. SetUnlocked(s, c) /\ UNCHANGED <<bad, salts, told>> BY <1>13 DEF KeepSeedUnlock
    <2>3. records' \in [Wallet -> Records]
      <3>1. records[c.w] \in Records BY <1>1, <2>1 DEF PlainType
      <3>2. [records[c.w] EXCEPT !.wrapped = TRUE] \in Records BY <3>1 DEF Records
      <3>3. [records EXCEPT ![c.w].wrapped = TRUE] = [records EXCEPT ![c.w] = [records[c.w] EXCEPT !.wrapped = TRUE]] OBVIOUS
      <3> QED BY <1>1, <1>13, <2>1, <3>2, <3>3 DEF KeepSeedUnlock, PlainType
    <2>4. Unlocks(s) BY <2>1, <2>2, UnlockedWell DEF Unlocks, CallsWell
    <2>5. next' \in Changes
      <3>1. [to |-> c.w, gone |-> NoWallet, due |-> TRUE] \in Changes BY <2>1 DEF Changes, Somewhere
      <3> QED BY <1>1, <2>4, <3>1 DEF Unlocks, PlainType
    <2>6. unlocked' \in Somewhere /\ pending' \in BOOLEAN BY <2>1, <2>4 DEF Unlocks, Somewhere
    <2>7. LeftTyped BY <1>1, <2>2, <2>3, <2>4, <2>5, <2>6 DEF Unlocks, LeftTyped, PlainType
    <2> QED BY <1>1, <1>3, <1>13, <2>7 DEF KeepSeedUnlock, PlainType
  <1>14. CASE SetAside(s)
    <2>1. c.kind # "none" /\ GoodCall(s, c) /\ c \in CallOf /\ c.w \in Wallet /\ c.kind \in Kinds /\ At(c) = "setAside" /\ AwaitsOf(c.kind, "setAside")
      BY <1>14, RunningIs DEF SetAside
    <2>2. CASE Done(s) /\ UNCHANGED <<bad, unopened>>
      BY <1>1, <1>14, <2>2, DoneWell DEF SetAside, Still, worker, SessionType, CallsWell, PlainType
    <2>3. CASE bad' = bad \ {c.w} /\ Recovered(c.w) /\ GoesOn(s, c)
      <3>1. ~Ends(c.kind, At(c)) BY <2>1 DEF Ends, AwaitsOf
      <3>2. CallsWell' BY <2>1, <2>3, <3>1, OnwardWell DEF Onward
      <3> QED BY <1>1, <1>14, <2>3, <3>2 DEF SetAside, Recovered, Still, worker, SessionType, CallsWell, PlainType
    <2> QED BY <1>14, <2>2, <2>3 DEF SetAside
  <1> QED BY <1>4, <1>5, <1>6, <1>7, <1>8, <1>9, <1>10, <1>11, <1>12, <1>13, <1>14 DEF CallActions

LEMMA NextIs == Next <=> LockActions \/ BeginActions \/ \E s \in Slot : CallActions(s)
  BY DEF Next, LockActions, BeginActions, CallActions

LEMMA TypeStep == SessionType /\ [Next]_vars => SessionType'
  <1> SUFFICES ASSUME SessionType, [Next]_vars PROVE SessionType' OBVIOUS
  <1>1. CASE LockActions BY <1>1, TypeLockActions
  <1>2. CASE BeginActions BY <1>2, Begun, BegunWell
  <1>3. CASE \E s \in Slot : CallActions(s) BY <1>3, TypeCallActions
  <1>4. CASE UNCHANGED vars BY <1>4 DEF SessionType, vars, worker, lockState, disk
  <1> QED BY <1>1, <1>2, <1>3, <1>4, NextIs

-----------------------------------------------------------------------------
(* The password told: an envelope is known by its salt, and no salt is used  *)
(* twice, so an envelope with the salt that was read is the one that was     *)
(* read.                                                                     *)

\* The calls that are about to write an envelope.
HasSealed(c) == At(c) = "patch" \/ (Makes(c) /\ At(c) \in {"open", "put"})

SaltsKnown ==
    /\ \A s \in Slot : calls[s].salt <= salts /\ calls[s].read.salt <= salts
    /\ \A s \in Slot : HasSealed(calls[s]) => calls[s].salt > 0
    /\ \A w \in Wallet : records[w].salt <= salts
    /\ \A w \in Wallet : There(w) => records[w].salt > 0

\* An envelope that is made and not yet written is nobody else's.
SaltsFresh ==
    \A s \in Slot : calls[s].salt > 0 =>
        /\ \A w \in Wallet : records[w].salt # calls[s].salt
        /\ \A t \in Slot : calls[t].read.salt # calls[s].salt
        /\ \A t \in Slot : t # s => calls[t].salt # calls[s].salt

ReadsAgree ==
    \A s \in Slot, w \in Wallet :
        calls[s].w = w /\ There(w) /\ records[w].salt = calls[s].read.salt => calls[s].read.password = records[w].password

PasswordInv == SaltsKnown /\ SaltsFresh /\ ReadsAgree /\ PasswordToldHolds

\* The numbers among these.
PasswordNumbers ==
    /\ salts \in Nat
    /\ \A s \in Slot : calls[s] \in CallOf /\ calls[s].salt \in Nat /\ calls[s].read \in Records
                       /\ calls[s].read.salt \in Nat /\ calls[s].read.password \in Nat
    /\ \A w \in Wallet : records[w] \in Records /\ records[w].salt \in Nat /\ records[w].password \in Nat
    /\ \A w \in Wallet : told[w] \in Nat

LEMMA Numbers == SessionType => PasswordNumbers
  <1> SUFFICES ASSUME SessionType PROVE PasswordNumbers OBVIOUS
  <1>1. \A r \in Records : r.salt \in Nat /\ r.password \in Nat BY DEF Records
  <1>2. \A c \in CallOf : c.salt \in Nat /\ c.read \in Records BY DEF CallOf
  <1> QED BY <1>1, <1>2 DEF SessionType, PasswordNumbers

LEMMA PasswordInit == Init => PasswordInv
  <1> SUFFICES ASSUME Init PROVE PasswordInv OBVIOUS
  <1>1. PICK w \in Wallet, wrapped \in BOOLEAN :
            records = [v \in Wallet |-> IF v = w THEN Record(wrapped) ELSE NoRecord]
    BY DEF Init
  <1>2. Record(wrapped).salt = 1 /\ Record(wrapped).password = 0 /\ NoRecord.salt = 0 /\ NoRecord.password = 0
    BY DEF Record, NoRecord
  <1>3. \A v \in Wallet : records[v].salt \in {0, 1} /\ records[v].password = 0 /\ (There(v) => records[v].salt = 1)
    BY <1>1, <1>2 DEF There
  <1>4. \A s \in Slot : calls[s] = NoCall BY DEF Init
  <1>5. NoCall.salt = 0 /\ NoCall.read.salt = 0 /\ NoCall.read.password = 0 /\ At(NoCall) = "none" BY <1>2, NoCallIs
  <1>6. salts = 1 /\ \A v \in Wallet : told[v] = 0 BY DEF Init
  <1>7. SaltsKnown BY <1>3, <1>4, <1>5, <1>6 DEF SaltsKnown, HasSealed
  <1>8. SaltsFresh BY <1>4, <1>5 DEF SaltsFresh
  <1>9. ReadsAgree BY <1>3, <1>4, <1>5 DEF ReadsAgree
  <1>10. PasswordToldHolds BY <1>3, <1>6 DEF PasswordToldHolds
  <1> QED BY <1>7, <1>8, <1>9, <1>10 DEF PasswordInv

\* A step that makes and writes no envelope.
CallKept(c, d) ==
    \/ d.salt = 0 /\ d.read.salt = 0 /\ ~HasSealed(d)
    \/ d.w = c.w /\ d.salt = c.salt /\ (d.read = c.read \/ d.read.salt = 0) /\ (HasSealed(d) => HasSealed(c))

RecordsKept ==
    \A w \in Wallet :
        \/ records'[w] = NoRecord
        \/ There(w) /\ records'[w].salt = records[w].salt /\ records'[w].password = records[w].password /\ told'[w] = told[w]

LEMMA PasswordKept ==
    ASSUME SessionType, SessionType', PasswordInv, salts' = salts, RecordsKept,
           \A s \in Slot : CallKept(calls[s], calls'[s])
    PROVE  PasswordInv'
  <1>1. NoRecord.salt = 0 BY NoCallIs
  <1>2. /\ salts \in Nat
        /\ \A s \in Slot : calls[s].salt \in Nat /\ calls[s].read.salt \in Nat
        /\ \A w \in Wallet : records[w].salt \in Nat
    BY Numbers DEF PasswordNumbers
  <1>3. /\ \A s \in Slot : calls'[s].salt \in Nat /\ calls'[s].read.salt \in Nat
        /\ \A w \in Wallet : records'[w].salt \in Nat
    <2>1. PasswordNumbers' BY Numbers, PTL
    <2> QED BY <2>1 DEF PasswordNumbers
  <1>4. \A w \in Wallet : \/ records'[w].salt = 0 /\ ~There(w)'
                          \/ There(w) /\ records'[w].salt = records[w].salt /\ records'[w].password = records[w].password /\ told'[w] = told[w]
    BY <1>1 DEF RecordsKept, There
  <1>5. SaltsKnown'
    <2>1. \A s \in Slot : calls'[s].salt <= salts' /\ calls'[s].read.salt <= salts' BY <1>2, <1>3 DEF CallKept, PasswordInv, SaltsKnown
    <2>2. \A s \in Slot : HasSealed(calls'[s]) => calls'[s].salt > 0 BY DEF CallKept, PasswordInv, SaltsKnown
    <2>3. \A w \in Wallet : records'[w].salt <= salts' BY <1>2, <1>3, <1>4 DEF PasswordInv, SaltsKnown
    <2>4. \A w \in Wallet : There(w)' => records'[w].salt > 0 BY <1>4 DEF PasswordInv, SaltsKnown
    <2> QED BY <2>1, <2>2, <2>3, <2>4 DEF SaltsKnown
  <1>6. SaltsFresh'
    <2> SUFFICES ASSUME NEW s \in Slot, calls'[s].salt > 0
                 PROVE  /\ \A w \in Wallet : records'[w].salt # calls'[s].salt
                        /\ \A t \in Slot : calls'[t].read.salt # calls'[s].salt
                        /\ \A t \in Slot : t # s => calls'[t].salt # calls'[s].salt
      BY DEF SaltsFresh
    <2>1. calls'[s].salt = calls[s].salt BY <1>3 DEF CallKept
    <2>2. /\ \A w \in Wallet : records[w].salt # calls[s].salt
          /\ \A t \in Slot : calls[t].read.salt # calls[s].salt
          /\ \A t \in Slot : t # s => calls[t].salt # calls[s].salt
      BY <2>1 DEF PasswordInv, SaltsFresh
    <2>3. calls[s].salt # 0 BY <2>1, <1>2
    <2>4. \A w \in Wallet : records'[w].salt # calls[s].salt BY <1>4, <2>2, <2>3
    <2>5. \A t \in Slot : calls'[t].read.salt # calls[s].salt /\ (t # s => calls'[t].salt # calls[s].salt)
      BY <2>2, <2>3 DEF CallKept
    <2> QED BY <2>1, <2>4, <2>5
  <1>7. ReadsAgree'
    <2> SUFFICES ASSUME NEW s \in Slot, NEW w \in Wallet, calls'[s].w = w, There(w)', records'[w].salt = calls'[s].read.salt
                 PROVE  calls'[s].read.password = records'[w].password
      BY DEF ReadsAgree
    <2>1. There(w) /\ records'[w].salt = records[w].salt /\ records'[w].password = records[w].password BY <1>4
    <2>2. records[w].salt > 0 BY <2>1 DEF PasswordInv, SaltsKnown
    <2>3. calls'[s].read.salt # 0 BY <2>1, <2>2, <1>2
    <2>4. calls'[s].w = calls[s].w /\ calls'[s].read = calls[s].read BY <2>3 DEF CallKept
    <2> QED BY <2>1, <2>4 DEF PasswordInv, ReadsAgree
  <1>8. PasswordToldHolds' BY <1>4 DEF PasswordInv, PasswordToldHolds
  <1> QED BY <1>5, <1>6, <1>7, <1>8 DEF PasswordInv

\* A step in which call s writes the envelope it made.
LEMMA PasswordWritten ==
    ASSUME SessionType, SessionType', PasswordInv, salts' = salts, NEW s \in Slot, NEW w \in Wallet, NEW r \in Records,
           calls[s].salt > 0, r.salt = calls[s].salt, records' = [records EXCEPT ![w] = r],
           told'[w] = r.password, \A v \in Wallet : v # w => told'[v] = told[v],
           \A t \in Slot : t # s => calls'[t] = calls[t],
           calls'[s].salt = 0, calls'[s].read = calls[s].read \/ calls'[s].read.salt = 0, ~HasSealed(calls'[s]),
           calls'[s].w = calls[s].w \/ calls'[s].read.salt = 0
    PROVE  PasswordInv'
  <1>1. r.salt \in Nat /\ r.salt > 0 /\ r.salt # 0 BY DEF Records
  <1>2. /\ salts \in Nat
        /\ \A t \in Slot : calls[t].salt \in Nat /\ calls[t].read.salt \in Nat
        /\ \A v \in Wallet : records[v].salt \in Nat
    BY Numbers DEF PasswordNumbers
  <1>3. records'[w] = r /\ \A v \in Wallet : v # w => records'[v] = records[v] BY DEF SessionType
  <1>4. \A t \in Slot : calls[t].read.salt # r.salt /\ (t # s => calls[t].salt # r.salt)
    BY DEF PasswordInv, SaltsFresh
  <1>5. \A t \in Slot : calls'[t].read.salt # r.salt BY <1>1, <1>4
  <1>6. r.salt <= salts BY DEF PasswordInv, SaltsKnown
  <1>7. \A v \in Wallet : v # w => (There(v)' <=> There(v)) BY <1>3 DEF There
  <1>8. SaltsKnown'
    <2>1. \A t \in Slot : calls'[t].salt <= salts' /\ calls'[t].read.salt <= salts' BY <1>2 DEF PasswordInv, SaltsKnown
    <2>2. \A t \in Slot : HasSealed(calls'[t]) => calls'[t].salt > 0 BY DEF PasswordInv, SaltsKnown
    <2>3. \A v \in Wallet : records'[v].salt <= salts' BY <1>3, <1>6 DEF PasswordInv, SaltsKnown
    <2>4. \A v \in Wallet : There(v)' => records'[v].salt > 0 BY <1>1, <1>3, <1>7 DEF PasswordInv, SaltsKnown
    <2> QED BY <2>1, <2>2, <2>3, <2>4 DEF SaltsKnown
  <1>9. SaltsFresh'
    <2> SUFFICES ASSUME NEW t \in Slot, calls'[t].salt > 0
                 PROVE  /\ \A v \in Wallet : records'[v].salt # calls'[t].salt
                        /\ \A u \in Slot : calls'[u].read.salt # calls'[t].salt
                        /\ \A u \in Slot : u # t => calls'[u].salt # calls'[t].salt
      BY DEF SaltsFresh
    <2>1. t # s /\ calls'[t] = calls[t] OBVIOUS
    <2>2. /\ \A v \in Wallet : records[v].salt # calls[t].salt
          /\ \A u \in Slot : calls[u].read.salt # calls[t].salt
          /\ \A u \in Slot : u # t => calls[u].salt # calls[t].salt
      BY <2>1 DEF PasswordInv, SaltsFresh
    <2>3. calls[t].salt # 0 BY <2>1, <1>2
    <2>4. \A v \in Wallet : records'[v].salt # calls[t].salt BY <1>3, <1>4, <2>1, <2>2
    <2>5. \A u \in Slot : calls'[u].read.salt # calls[t].salt BY <2>2, <2>3
    <2>6. \A u \in Slot : u # t => calls'[u].salt # calls[t].salt BY <2>2, <2>3
    <2> QED BY <2>1, <2>4, <2>5, <2>6
  <1>10. ReadsAgree'
    <2> SUFFICES ASSUME NEW t \in Slot, NEW v \in Wallet, calls'[t].w = v, There(v)', records'[v].salt = calls'[t].read.salt
                 PROVE  calls'[t].read.password = records'[v].password
      BY DEF ReadsAgree
    <2>1. v # w /\ records'[v] = records[v] /\ There(v) BY <1>3, <1>5, <1>7
    <2>2. records[v].salt > 0 BY <2>1 DEF PasswordInv, SaltsKnown
    <2>3. calls'[t].read.salt # 0 BY <2>1, <2>2, <1>2
    <2>4. calls'[t].w = calls[t].w /\ calls'[t].read = calls[t].read BY <2>3
    <2> QED BY <2>1, <2>4 DEF PasswordInv, ReadsAgree
  <1>11. PasswordToldHolds' BY <1>3, <1>7 DEF PasswordInv, PasswordToldHolds
  <1> QED BY <1>8, <1>9, <1>10, <1>11 DEF PasswordInv

\* What the actions that begin no call and run none do to the calls.
LEMMA LockActionsCalls ==
    ASSUME SessionType, LockActions
    PROVE  \A t \in Slot : calls'[t] = calls[t] \/ calls'[t] = Rejected(calls[t])
  <1> DEFINE Left == \A t \in Slot : calls'[t] = calls[t] \/ calls'[t] = Rejected(calls[t])
  <1>1. Lock => Left BY LockedWell
  <1>2. UNCHANGED calls => Left OBVIOUS
  <1>3. RequestLock => Left BY <1>1, <1>2 DEF RequestLock
  <1>4. UNCHANGED <<worker, lockState, calls>> => Left BY <1>2
  <1> HIDE DEF Left
  <1>5. LockWallet => Left BY <1>1 DEF LockWallet
  <1>6. LockWhenFree => Left BY <1>3 DEF LockWhenFree
  <1>7. LockIfIdle => Left BY <1>3 DEF LockIfIdle
  <1>8. Touch => Left BY <1>2 DEF Touch
  <1>9. HoldIdleLock => Left BY <1>2 DEF HoldIdleLock
  <1>10. BeginSend => Left BY <1>4 DEF BeginSend
  <1>11. EndSend => Left BY <1>1, <1>4 DEF EndSend
  <1>12. Hide => Left BY <1>3 DEF Hide
  <1>13. Show => Left BY <1>3, <1>4 DEF Show
  <1>14. \A to, gone : Change(to, gone) => Left BY <1>1 DEF Change
  <1>15. SwitchAccount \/ SwitchNetwork \/ RemoveAccount => Left BY <1>14 DEF SwitchAccount, SwitchNetwork, RemoveAccount
  <1>16. SetAccount => Left BY <1>2 DEF SetAccount
  <1> QED
    BY <1>5, <1>6, <1>7, <1>8, <1>9, <1>10, <1>11, <1>12, <1>13, <1>15, <1>16 DEF LockActions, Left

\* And to the records.
LEMMA LockActionsDisk ==
    ASSUME SessionType, LockActions
    PROVE  SetAccount \/ UNCHANGED disk
  <1>1. Elsewhere => UNCHANGED disk BY DEF Elsewhere
  <1>2. \A to, gone : Change(to, gone) => UNCHANGED disk BY DEF Change
  <1>3. SwitchAccount \/ SwitchNetwork \/ RemoveAccount => UNCHANGED disk BY <1>2 DEF SwitchAccount, SwitchNetwork, RemoveAccount
  <1>4. Hide \/ Show => UNCHANGED disk BY DEF Hide, Show
  <1>5. LockWallet \/ LockWhenFree \/ LockIfIdle \/ Touch \/ HoldIdleLock \/ BeginSend \/ EndSend => UNCHANGED disk
    BY <1>1 DEF LockWallet, LockWhenFree, LockIfIdle, Touch, HoldIdleLock, BeginSend, EndSend
  <1> QED BY <1>3, <1>4, <1>5 DEF LockActions

LEMMA KeptIs ==
    ASSUME SessionType
    PROVE  /\ \A t \in Slot : CallKept(calls[t], calls[t]) /\ CallKept(calls[t], Rejected(calls[t])) /\ CallKept(calls[t], NoCall)
           /\ (\A w \in Wallet : records'[w] = records[w] /\ told'[w] = told[w]) => RecordsKept
  <1>1. \A t \in Slot : CallKept(calls[t], calls[t]) BY DEF CallKept
  <1>2. \A t \in Slot : CallKept(calls[t], Rejected(calls[t]))
    <2> SUFFICES ASSUME NEW t \in Slot PROVE CallKept(calls[t], Rejected(calls[t])) OBVIOUS
    <2> DEFINE d == Rejected(calls[t])
    <2>0. GoodCall(t, calls[t]) BY DEF SessionType
    <2>1. /\ At(d) = At(calls[t]) /\ d.kind = calls[t].kind /\ d.w = calls[t].w /\ d.salt = calls[t].salt
          /\ d.read = calls[t].read
      BY <2>0, RejectedWell
    <2> HIDE DEF d
    <2>2. CallKept(calls[t], d) BY <2>1 DEF CallKept, HasSealed, Makes
    <2> QED BY <2>2 DEF d
  <1>3. \A c : CallKept(c, NoCall) BY NoCallIs DEF CallKept, HasSealed, Makes
  <1>4. (\A w \in Wallet : records'[w] = records[w] /\ told'[w] = told[w]) => RecordsKept BY DEF RecordsKept, There
  <1> QED BY <1>1, <1>2, <1>3, <1>4

LEMMA PasswordLockActions ==
    ASSUME SessionType, SessionType', PasswordInv, LockActions
    PROVE  PasswordInv'
  <1>1. \A t \in Slot : CallKept(calls[t], calls'[t]) BY LockActionsCalls, KeptIs
  <1>2. CASE SetAccount
    <2>1. salts' = salts BY <1>2 DEF SetAccount
    <2>2. \A w \in Wallet : (w = next.gone /\ records'[w] = NoRecord) \/ (records'[w] = records[w] /\ told'[w] = told[w])
      BY <1>2 DEF SetAccount
    <2>3. RecordsKept BY <2>2 DEF RecordsKept, There
    <2> QED BY <1>1, <2>1, <2>3, PasswordKept
  <1>3. CASE UNCHANGED disk
    <2>1. salts' = salts /\ RecordsKept BY <1>3, KeptIs DEF disk
    <2> QED BY <1>1, <2>1, PasswordKept
  <1> QED BY <1>2, <1>3, LockActionsDisk

LEMMA PasswordBeginActions ==
    ASSUME SessionType, SessionType', PasswordInv, BeginActions
    PROVE  PasswordInv'
  <1>1. PICK s \in Openings, k \in Kinds, w \in Wallet : BegunBy(s, k, w) BY Begun
  <1>2. s \in Slot BY Slots
  <1>3. /\ \A t \in Slot : t # s => calls'[t] = calls[t]
        /\ calls'[s].kind = k /\ calls'[s].salt = 0 /\ calls'[s].read = NoRecord /\ BeginsAt(k, At(calls'[s]))
    BY <1>1, BegunWell
  <1>4. ~HasSealed(calls'[s]) BY <1>3 DEF HasSealed, BeginsAt
  <1>5. CallKept(calls[s], calls'[s]) BY <1>3, <1>4, NoCallIs DEF CallKept
  <1>6. \A t \in Slot : CallKept(calls[t], calls'[t]) BY <1>3, <1>5, KeptIs
  <1>7. UNCHANGED disk BY <1>1 DEF BegunBy
  <1>8. salts' = salts /\ RecordsKept BY <1>7, KeptIs DEF disk
  <1> QED BY <1>6, <1>8, PasswordKept

\* What is left by a call that failed, finished or went on keeps the envelopes.
PasswordLeft == salts' = salts /\ RecordsKept /\ \A t \in Slot : CallKept(calls[t], calls'[t])

LEMMA PasswordLeaves ==
    ASSUME SessionType, NEW s \in Openings, calls[s].kind # "none"
    PROVE  /\ \A why : Fails(s, calls[s], why) => PasswordLeft
           /\ Done(s) /\ UNCHANGED <<records, salts, told>> => PasswordLeft
           /\ Onward(s, calls[s]) /\ (HasSealed(calls'[s]) => HasSealed(calls[s])) /\ UNCHANGED <<records, salts, told>> => PasswordLeft
           /\ Unlocks(s) /\ salts' = salts /\ RecordsKept => PasswordLeft
           /\ Finished(s) => PasswordLeft
           /\ StoreFinished(s) => PasswordLeft
  <1>1. s \in Slot /\ calls[s].w \in Wallet /\ (\A t \in Slot : t \in Openings \/ t = "strengthen")
    BY Slots, CallIs DEF SessionType
  <1>2. UNCHANGED <<records, told>> => RecordsKept BY KeptIs
  <1>3. ASSUME NEW why, Fails(s, calls[s], why) PROVE PasswordLeft
    <2>1. /\ UNCHANGED <<unlocked, pending, next, bad, salts>>
          /\ \A w \in Wallet : (records'[w] = records[w] /\ told'[w] = told[w])
                               \/ (w = calls[s].w /\ Makes(calls[s]) /\ records'[w] = NoRecord)
          /\ calls'[s] = NoCall
          /\ \A t \in Slot : t # s => calls'[t] = IF Makes(calls[s]) THEN Rejected(calls[t]) ELSE calls[t]
      BY <1>1, <1>3, FailsWell
    <2>2. RecordsKept BY <2>1 DEF RecordsKept, There
    <2>3. \A t \in Slot : CallKept(calls[t], calls'[t]) BY <2>1, KeptIs
    <2> QED BY <2>1, <2>2, <2>3 DEF PasswordLeft
  <1>4. ASSUME Done(s), UNCHANGED <<records, salts, told>> PROVE PasswordLeft
    <2>1. calls'[s] = NoCall /\ \A t \in Slot : t # s => calls'[t] = calls[t] BY <1>1, <1>4, DoneWell
    <2> QED BY <1>2, <1>4, <2>1, KeptIs DEF PasswordLeft
  <1>5. ASSUME Onward(s, calls[s]), HasSealed(calls'[s]) => HasSealed(calls[s]), UNCHANGED <<records, salts, told>> PROVE PasswordLeft
    <2>1. CallKept(calls[s], calls'[s]) BY <1>5 DEF CallKept, Onward
    <2>2. \A t \in Slot : CallKept(calls[t], calls'[t]) BY <1>5, <2>1, KeptIs DEF Onward
    <2> QED BY <1>2, <1>5, <2>2 DEF PasswordLeft
  <1>6. ASSUME Unlocks(s), salts' = salts, RecordsKept PROVE PasswordLeft
    <2>1. "strengthen" \in Kinds BY DEF Kinds
    <2> DEFINE d == Call("strengthen", calls[s].w)
    <2>2. BeginsAt("strengthen", At(d)) /\ d.kind = "strengthen" /\ d.salt = 0 /\ d.read = NoRecord BY <1>1, <2>1, BeginsIs
    <2> HIDE DEF d
    <2>3. \A c : CallKept(c, d) BY <2>2, NoCallIs DEF CallKept, HasSealed, BeginsAt, Makes
    <2>4. \A t \in Slot : calls'[t] = calls[t] \/ calls'[t] = NoCall \/ calls'[t] = d BY <1>1, <1>6 DEF Unlocks, d
    <2>5. \A t \in Slot : CallKept(calls[t], calls'[t]) BY <2>3, <2>4, KeptIs
    <2> QED BY <1>6, <2>5 DEF PasswordLeft
  <1>7. ASSUME Finished(s) PROVE PasswordLeft
    <2>1. CASE Fails(s, calls[s], "cancelled") BY <1>3, <2>1
    <2>2. CASE Onward(s, calls[s]) /\ At(calls'[s]) = "keep" /\ Kept
      <3>1. ~HasSealed(calls'[s]) BY <2>2 DEF HasSealed
      <3> QED BY <1>5, <2>2, <3>1 DEF Kept
    <2>3. CASE Unlocks(s) /\ UNCHANGED <<bad, records, salts, told>> BY <1>2, <1>6, <2>3
    <2> QED BY <1>7, <2>1, <2>2, <2>3 DEF Finished
  <1>8. ASSUME StoreFinished(s) PROVE PasswordLeft
    <2>1. CASE Done(s) /\ Kept BY <1>4, <2>1 DEF Kept
    <2>2. CASE Onward(s, calls[s]) /\ At(calls'[s]) = "commit" /\ Kept
      <3>1. ~HasSealed(calls'[s]) BY <2>2 DEF HasSealed
      <3> QED BY <1>5, <2>2, <3>1 DEF Kept
    <2>3. CASE Finished(s) BY <1>7, <2>3
    <2> QED BY <1>8, <2>1, <2>2, <2>3 DEF StoreFinished
  <1> QED BY <1>3, <1>4, <1>5, <1>6, <1>7, <1>8

LEMMA PasswordCallActions ==
    ASSUME SessionType, SessionType', PasswordInv, NEW s \in Slot, CallActions(s)
    PROVE  PasswordInv'
  <1> DEFINE c == calls[s]
  <1>1. PasswordLeft => PasswordInv' BY PasswordKept DEF PasswordLeft
  <1>2. PasswordNumbers BY Numbers
  <1>3. CASE Read(s)
    <2>1. c.kind # "none" /\ GoodCall(s, c) /\ c \in CallOf /\ c.w \in Wallet /\ c.kind \in Kinds /\ At(c) = "read" /\ AwaitsOf(c.kind, "read")
      BY <1>3, RunningIs DEF Read
    <2>2. UNCHANGED disk BY <1>3 DEF Read
    <2>3. CASE Done(s)
      <3>1. calls'[s] = NoCall /\ \A t \in Slot : t # s => calls'[t] = calls[t] BY <2>3, DoneWell
      <3>2. PasswordLeft BY <2>2, <3>1, KeptIs DEF PasswordLeft, disk
      <3> QED BY <1>1, <3>2
    <2>4. CASE There(c.w) /\ GoesOn(s, [c EXCEPT !.read = records[c.w]])
      <3> DEFINE d == [c EXCEPT !.read = records[c.w]]
                 e == calls'[s]
      <3>1. records[c.w] \in Records BY <2>1, <1>2 DEF PasswordNumbers
      <3>2. GoodCall(s, d) /\ At(d) = At(c) /\ d.kind = c.kind /\ d.w = c.w /\ d.salt = c.salt /\ d.read = records[c.w]
        BY <2>1, <3>1 DEF GoodCall, CallOf, At
      <3>3. GoesOn(s, d) BY <2>4
      <3> HIDE DEF d
      <3>4. ~Ends(d.kind, At(d)) BY <2>1, <3>2 DEF Ends
      <3>5. /\ e.kind = c.kind /\ e.w = c.w /\ e.salt = c.salt /\ e.read = records[c.w]
            /\ After(c.kind, "read", At(e)) /\ \A t \in Slot : t # s => calls'[t] = calls[t]
        BY <2>1, <3>2, <3>3, <3>4, OnwardWell DEF Onward
      <3>6. ~HasSealed(e) BY <2>1, <3>5 DEF HasSealed, After, AwaitsOf, Makes
      <3>7. records' = records /\ salts' = salts /\ told' = told BY <2>2 DEF disk
      <3>8. \A t \in Slot : calls'[t].salt = calls[t].salt /\ calls'[t].w = calls[t].w BY <3>5
      <3>9. \A t \in Slot : calls'[t].read = IF t = s THEN records[c.w] ELSE calls[t].read BY <3>5
      <3>10. SaltsKnown'
        <4>1. \A t \in Slot : HasSealed(calls'[t]) => calls'[t].salt > 0 BY <3>5, <3>6 DEF PasswordInv, SaltsKnown
        <4>2. \A t \in Slot : calls'[t].salt <= salts' /\ calls'[t].read.salt <= salts'
          BY <2>1, <3>7, <3>8, <3>9 DEF PasswordInv, SaltsKnown
        <4> QED BY <3>7, <4>1, <4>2 DEF PasswordInv, SaltsKnown, There
      <3>11. SaltsFresh' BY <2>1, <3>7, <3>8, <3>9 DEF PasswordInv, SaltsFresh
      <3>12. ReadsAgree' BY <2>1, <3>7, <3>8, <3>9 DEF PasswordInv, ReadsAgree, There
      <3>13. PasswordToldHolds' BY <3>7 DEF PasswordInv, PasswordToldHolds, There
      <3> QED BY <3>10, <3>11, <3>12, <3>13 DEF PasswordInv
    <2> QED BY <1>3, <2>3, <2>4 DEF Read
  <1>4. CASE Seal(s)
    <2>1. c.kind # "none" /\ GoodCall(s, c) /\ c \in CallOf /\ c.w \in Wallet /\ c.kind \in Kinds /\ At(c) = "seal" /\ AwaitsOf(c.kind, "seal")
      BY <1>4, RunningIs DEF Seal
    <2>2. records' = records /\ told' = told BY <1>4 DEF Seal
    <2>3. CASE Done(s) /\ UNCHANGED salts
      <3>1. calls'[s] = NoCall /\ \A t \in Slot : t # s => calls'[t] = calls[t] BY <2>3, DoneWell
      <3>2. PasswordLeft BY <2>2, <2>3, <3>1, KeptIs DEF PasswordLeft
      <3> QED BY <1>1, <3>2
    <2>4. CASE salts' = salts + 1 /\ GoesOn(s, [c EXCEPT !.salt = salts + 1])
      <3> DEFINE d == [c EXCEPT !.salt = salts + 1]
                 e == calls'[s]
      <3>1. salts \in Nat /\ salts + 1 \in Nat BY <1>2 DEF PasswordNumbers
      <3>2. GoodCall(s, d) /\ At(d) = At(c) /\ d.kind = c.kind /\ d.w = c.w /\ d.salt = salts + 1 /\ d.read = c.read
        BY <2>1, <3>1 DEF GoodCall, CallOf, At
      <3>3. GoesOn(s, d) BY <2>4
      <3> HIDE DEF d
      <3>4. ~Ends(d.kind, At(d)) BY <2>1, <3>2 DEF Ends, Kinds
      <3>5. e.w = c.w /\ e.salt = salts + 1 /\ e.read = c.read /\ \A t \in Slot : t # s => calls'[t] = calls[t]
        BY <2>1, <3>2, <3>3, <3>4, OnwardWell DEF Onward
      <3>6. /\ \A t \in Slot : calls[t].salt \in Nat /\ calls[t].read.salt \in Nat
            /\ \A w \in Wallet : records[w].salt \in Nat
        BY <1>2 DEF PasswordNumbers
      <3>7. \A t \in Slot : calls'[t].read = calls[t].read /\ calls'[t].w = calls[t].w /\ (t # s => calls'[t].salt = calls[t].salt)
        BY <3>5
      <3>8. /\ \A t \in Slot : calls[t].salt < salts' /\ calls[t].read.salt < salts'
            /\ \A w \in Wallet : records[w].salt < salts'
        BY <2>4, <3>1, <3>6 DEF PasswordInv, SaltsKnown
      <3>9. salts' > 0 /\ salts' \in Nat /\ e.salt = salts' BY <2>4, <3>1, <3>5
      <3>10. SaltsKnown'
        <4>1. \A t \in Slot : HasSealed(calls'[t]) => calls'[t].salt > 0 BY <3>5, <3>9 DEF PasswordInv, SaltsKnown
        <4>2. \A t \in Slot : calls'[t].salt <= salts' /\ calls'[t].read.salt <= salts' BY <3>6, <3>7, <3>8, <3>9
        <4>3. \A w \in Wallet : records'[w].salt <= salts' BY <2>2, <3>6, <3>8, <3>9
        <4> QED BY <2>2, <4>1, <4>2, <4>3 DEF PasswordInv, SaltsKnown, There
      <3>11. SaltsFresh'
        <4> SUFFICES ASSUME NEW t \in Slot, calls'[t].salt > 0
                     PROVE  /\ \A w \in Wallet : records'[w].salt # calls'[t].salt
                            /\ \A u \in Slot : calls'[u].read.salt # calls'[t].salt
                            /\ \A u \in Slot : u # t => calls'[u].salt # calls'[t].salt
          BY DEF SaltsFresh
        <4>1. CASE t = s BY <2>2, <3>6, <3>7, <3>8, <3>9, <4>1
        <4>2. CASE t # s
          <5>1. calls'[t].salt = calls[t].salt /\ calls[t].salt < salts' BY <3>7, <3>8, <4>2
          <5>2. /\ \A w \in Wallet : records[w].salt # calls[t].salt
                /\ \A u \in Slot : calls[u].read.salt # calls[t].salt
                /\ \A u \in Slot : u # t => calls[u].salt # calls[t].salt
            BY <5>1 DEF PasswordInv, SaltsFresh
          <5>3. e.salt # calls[t].salt BY <3>6, <3>9, <5>1
          <5>4. \A u \in Slot : u # t => calls'[u].salt # calls[t].salt BY <3>7, <5>2, <5>3
          <5> QED BY <2>2, <3>7, <5>1, <5>2, <5>4
        <4> QED BY <4>1, <4>2
      <3>12. ReadsAgree' BY <2>2, <3>7 DEF PasswordInv, ReadsAgree, There
      <3>13. PasswordToldHolds' BY <2>2 DEF PasswordInv, PasswordToldHolds, There
      <3> QED BY <3>10, <3>11, <3>12, <3>13 DEF PasswordInv
    <2> QED BY <1>4, <2>3, <2>4 DEF Seal
  <1>5. CASE Patch(s)
    <2>1. c.kind # "none" /\ GoodCall(s, c) /\ c \in CallOf /\ c.w \in Wallet /\ c.kind \in Kinds /\ At(c) = "patch" /\ AwaitsOf(c.kind, "patch")
      BY <1>5, RunningIs DEF Patch
    <2>2. salts' = salts BY <1>5 DEF Patch
    <2>3. CASE UNCHANGED <<records, told>> /\ Done(s)
      <3>1. calls'[s] = NoCall /\ \A t \in Slot : t # s => calls'[t] = calls[t] BY <2>3, DoneWell
      <3>2. PasswordLeft BY <2>2, <2>3, <3>1, KeptIs DEF PasswordLeft
      <3> QED BY <1>1, <3>2
    <2>4. CASE There(c.w) /\ SameEnvelope(c)
      <3> DEFINE password == IF c.kind = "strengthen" THEN c.read.password ELSE c.salt
                 r == [records[c.w] EXCEPT !.salt = c.salt, !.password = password, !.weak = FALSE]
      <3>1. password \in Nat /\ c.salt \in Nat BY <2>1 DEF CallOf, Records
      <3>2. records[c.w] \in Records BY <1>2, <2>1 DEF PasswordNumbers
      <3>3. /\ records' = [records EXCEPT ![c.w] = r]
            /\ told' = IF c.kind = "strengthen" THEN told ELSE [told EXCEPT ![c.w] = password]
            /\ IF c.kind = "reset" THEN GoesOn(s, [c EXCEPT !.salt = 0]) ELSE Done(s)
        BY <1>5, <2>4 DEF Patch
      <3>4. c.kind = "strengthen" => password = told[c.w]
        <4>1. records[c.w].salt = c.read.salt BY <2>4 DEF SameEnvelope
        <4>2. c.read.password = records[c.w].password BY <2>1, <2>4, <4>1 DEF PasswordInv, ReadsAgree
        <4>3. records[c.w].password = told[c.w] BY <2>1, <2>4 DEF PasswordInv, PasswordToldHolds
        <4> QED BY <4>2, <4>3
      <3> HIDE DEF password
      <3>5. r \in Records /\ r.salt = c.salt /\ r.password = password BY <3>1, <3>2 DEF Records
      <3> HIDE DEF r
      <3>6. told'[c.w] = r.password /\ \A v \in Wallet : v # c.w => told'[v] = told[v]
        BY <2>1, <3>3, <3>4, <3>5 DEF SessionType
      <3>7. c.salt > 0 BY <2>1 DEF PasswordInv, SaltsKnown, HasSealed
      <3>8. /\ \A t \in Slot : t # s => calls'[t] = calls[t]
            /\ calls'[s].salt = 0 /\ (calls'[s].read = c.read \/ calls'[s].read.salt = 0) /\ ~HasSealed(calls'[s])
            /\ calls'[s].w = c.w \/ calls'[s].read.salt = 0
        <4>1. CASE Done(s)
          <5>1. calls'[s] = NoCall /\ \A t \in Slot : t # s => calls'[t] = calls[t] BY <4>1, DoneWell
          <5> QED BY <5>1, NoCallIs DEF HasSealed, Makes
        <4>2. CASE c.kind = "reset" /\ GoesOn(s, [c EXCEPT !.salt = 0])
          <5> DEFINE d == [c EXCEPT !.salt = 0]
                     e == calls'[s]
          <5>1. GoodCall(s, d) /\ At(d) = At(c) /\ d.kind = c.kind /\ d.w = c.w /\ d.salt = 0 /\ d.read = c.read
            BY <2>1 DEF GoodCall, CallOf, At
          <5>2. GoesOn(s, d) BY <4>2
          <5> HIDE DEF d
          <5>3. ~Ends(d.kind, At(d)) BY <2>1, <4>2, <5>1 DEF Ends
          <5>4. /\ e.kind = "reset" /\ e.w = c.w /\ e.salt = 0 /\ e.read = c.read /\ After("reset", "patch", At(e))
                /\ \A t \in Slot : t # s => calls'[t] = calls[t]
            BY <2>1, <4>2, <5>1, <5>2, <5>3, OnwardWell DEF Onward
          <5>5. ~HasSealed(e) BY <5>4 DEF HasSealed, After, Makes
          <5> QED BY <5>4, <5>5
        <4> QED BY <3>3, <4>1, <4>2
      <3> HIDE DEF c
      <3>9. /\ c = calls[s] /\ c.w \in Wallet BY <2>1 DEF c
      <3> QED BY <2>2, <3>3, <3>5, <3>6, <3>7, <3>8, <3>9, PasswordWritten
    <2> QED BY <1>5, <2>3, <2>4 DEF Patch
  <1>6. CASE Load(s)
    <2>1. c.kind # "none" /\ GoodCall(s, c) /\ c \in CallOf /\ c.w \in Wallet /\ c.kind \in Kinds /\ At(c) = "open" /\ AwaitsOf(c.kind, "open")
      BY <1>6, RunningIs DEF Load
    <2>2. salts' = salts /\ RecordsKept BY <1>6, KeptIs DEF Load, disk
    <2>3. \A t \in Slot : CallKept(calls[t], calls'[t])
      <3>1. CASE Done(s)
        <4>1. calls'[s] = NoCall /\ \A t \in Slot : t # s => calls'[t] = calls[t] BY <3>1, DoneWell
        <4> QED BY <4>1, KeptIs
      <3>2. CASE Forget(s)
        <4>1. calls'[s] = NoCall /\ \A t \in Slot : t # s => calls'[t] = Rejected(calls[t]) BY <3>2, ForgotWell
        <4> QED BY <4>1, KeptIs
      <3>3. CASE GoesOn(s, [c EXCEPT !.read = NoRecord, !.made = c.kind = "unlock" /\ ~c.read.wrapped])
        <4> DEFINE m == c.kind = "unlock" /\ ~c.read.wrapped
        <4>1. m \in BOOLEAN /\ (m => c.kind = "unlock") OBVIOUS
        <4> HIDE DEF m
        <4> DEFINE d == [c EXCEPT !.read = NoRecord, !.made = m]
                   e == calls'[s]
        <4>2. GoodCall(s, d) /\ At(d) = At(c) /\ d.kind = c.kind /\ d.w = c.w /\ d.salt = c.salt /\ d.read = NoRecord
          BY <2>1, <4>1, NoCallIs DEF GoodCall, CallOf, At
        <4> HIDE DEF d
        <4>3. ~Ends(d.kind, At(d)) BY <2>1, <4>2 DEF Ends, AwaitsOf
        <4>4. GoesOn(s, d) BY <3>3 DEF d, m
        <4>5. /\ e.kind = c.kind /\ e.w = c.w /\ e.salt = c.salt /\ e.read = NoRecord /\ After(c.kind, "open", At(e))
              /\ \A t \in Slot : t # s => calls'[t] = calls[t]
          BY <2>1, <4>2, <4>3, <4>4, OnwardWell DEF Onward
        <4>6. HasSealed(e) => HasSealed(c) BY <2>1, <4>5 DEF HasSealed, After, Makes
        <4>7. CallKept(c, e) BY <4>5, <4>6, NoCallIs DEF CallKept
        <4> QED BY <4>5, <4>7, KeptIs
      <3> QED BY <1>6, <3>1, <3>2, <3>3 DEF Load
    <2> QED BY <1>1, <2>2, <2>3 DEF PasswordLeft
  <1>7. CASE Put(s)
    <2>1. c.kind # "none" /\ GoodCall(s, c) /\ c \in CallOf /\ c.w \in Wallet /\ c.kind \in Kinds /\ At(c) = "put" /\ AwaitsOf(c.kind, "put") /\ s \in Openings
      BY <1>7, RunningIs DEF Put, AwaitsOf
    <2>2. CASE Fails(s, c, "error") BY <1>1, <2>1, <2>2, PasswordLeaves
    <2>3. CASE /\ records' = [records EXCEPT ![c.w] = [salt |-> c.salt, password |-> c.salt, weak |-> c.kind = "import", wrapped |-> TRUE]]
               /\ told' = [told EXCEPT ![c.w] = c.salt]
               /\ GoesOn(s, [c EXCEPT !.salt = 0]) /\ UNCHANGED <<worker, unlocked, pending, next, bad, salts>>
      <3> DEFINE weak == c.kind = "import"
                 r == [salt |-> c.salt, password |-> c.salt, weak |-> weak, wrapped |-> TRUE]
      <3>1. weak \in BOOLEAN /\ c.salt \in Nat BY <2>1 DEF CallOf
      <3>2. records' = [records EXCEPT ![c.w] = r] BY <2>3
      <3> HIDE DEF weak
      <3>3. r \in Records /\ r.salt = c.salt /\ r.password = c.salt BY <3>1 DEF Records
      <3> HIDE DEF r
      <3>4. told'[c.w] = r.password /\ \A v \in Wallet : v # c.w => told'[v] = told[v]
        BY <2>1, <2>3, <3>3 DEF SessionType
      <3> DEFINE d == [c EXCEPT !.salt = 0]
                 e == calls'[s]
      <3>5. GoodCall(s, d) /\ At(d) = At(c) /\ d.kind = c.kind /\ d.w = c.w /\ d.salt = 0 /\ d.read = c.read
        BY <2>1 DEF GoodCall, CallOf, At
      <3>6. GoesOn(s, d) BY <2>3
      <3> HIDE DEF d
      <3>7. ~Ends(d.kind, At(d)) BY <2>1, <3>5 DEF Ends, AwaitsOf
      <3>8. /\ e.w = c.w /\ e.salt = 0 /\ e.read = c.read /\ After(c.kind, "put", At(e))
            /\ \A t \in Slot : t # s => calls'[t] = calls[t]
        BY <2>1, <3>5, <3>6, <3>7, OnwardWell DEF Onward
      <3>9. ~HasSealed(e) BY <3>8 DEF HasSealed, After
      <3>10. c.salt > 0 BY <2>1 DEF PasswordInv, SaltsKnown, HasSealed, Makes, AwaitsOf
      <3> HIDE DEF c
      <3>11. c = calls[s] /\ c.w \in Wallet /\ salts' = salts BY <2>1, <2>3 DEF c
      <3> QED BY <3>2, <3>3, <3>4, <3>8, <3>9, <3>10, <3>11, PasswordWritten
    <2> QED BY <1>7, <2>2, <2>3 DEF Put
  <1>8. CASE Store(s)
    <2>1. c.kind # "none" /\ GoodCall(s, c) /\ At(c) = "store" /\ AwaitsOf(c.kind, "store") /\ s \in Openings
      BY <1>8, RunningIs DEF Store, AwaitsOf
    <2>2. CASE GoesOn(s, c) /\ UNCHANGED <<records, salts, told>>
      <3>1. ~Ends(c.kind, At(c)) BY <2>1 DEF Ends, AwaitsOf
      <3>2. Onward(s, c) /\ After(c.kind, At(c), At(calls'[s])) BY <2>1, <2>2, <3>1, OnwardWell
      <3>3. ~HasSealed(calls'[s]) BY <2>1, <3>2 DEF HasSealed, After
      <3> QED BY <1>1, <2>1, <2>2, <3>2, <3>3, PasswordLeaves
    <2>3. CASE StoreDone(s, c) BY <1>1, <2>1, <2>3, FinishesWell, PasswordLeaves
    <2> QED BY <1>8, <2>2, <2>3 DEF Store, disk
  <1>9. CASE Reopen(s)
    <2>1. c.kind # "none" /\ GoodCall(s, c) /\ At(c) = "reopen" /\ AwaitsOf(c.kind, "reopen") /\ s \in Openings
      BY <1>9, RunningIs DEF Reopen, AwaitsOf
    <2>2. CASE Fails(s, c, "error") BY <1>1, <2>1, <2>2, PasswordLeaves
    <2>3. CASE GoesOn(s, c) /\ UNCHANGED disk
      <3>1. ~Ends(c.kind, At(c)) BY <2>1 DEF Ends, AwaitsOf
      <3>2. Onward(s, c) /\ After(c.kind, At(c), At(calls'[s])) BY <2>1, <2>3, <3>1, OnwardWell
      <3>3. ~HasSealed(calls'[s]) BY <2>1, <3>2 DEF HasSealed, After
      <3> QED BY <1>1, <2>1, <2>3, <3>2, <3>3, PasswordLeaves DEF disk
    <2> QED BY <1>9, <2>2, <2>3 DEF Reopen
  <1>10. CASE DropOldCopies(s)
    <2>1. c.kind # "none" /\ s \in Openings BY <1>10, RunningIs DEF DropOldCopies, AwaitsOf
    <2> QED BY <1>1, <1>10, <2>1, FinishesWell, PasswordLeaves DEF DropOldCopies
  <1>11. CASE Commit(s)
    <2>1. c.kind # "none" /\ s \in Openings BY <1>11, RunningIs DEF Commit, AwaitsOf
    <2>2. CASE Fails(s, c, "error") BY <1>1, <2>1, <2>2, PasswordLeaves
    <2>3. CASE Finishes(s, c) BY <1>1, <2>1, <2>3, FinishesWell, PasswordLeaves
    <2> QED BY <1>11, <2>2, <2>3 DEF Commit
  <1>12. CASE KeepSeedUnlock(s)
    <2>1. c.kind # "none" /\ c.w \in Wallet /\ s \in Openings
      BY <1>12, RunningIs DEF KeepSeedUnlock, AwaitsOf
    <2>2. SetUnlocked(s, c) /\ UNCHANGED <<bad, salts, told>> BY <1>12 DEF KeepSeedUnlock
    <2>3. RecordsKept
      <3>1. CASE ~There(c.w) BY <1>12, <2>2, <3>1, KeptIs DEF KeepSeedUnlock
      <3>2. CASE There(c.w)
        <4> DEFINE r == [records[c.w] EXCEPT !.wrapped = TRUE]
        <4>1. records[c.w] \in Records BY <1>2, <2>1 DEF PasswordNumbers
        <4>2. r.salt = records[c.w].salt /\ r.password = records[c.w].password BY <4>1 DEF Records
        <4>3. records' = [records EXCEPT ![c.w] = r] BY <1>12, <3>2 DEF KeepSeedUnlock
        <4> HIDE DEF r
        <4>4. records'[c.w] = r /\ \A w \in Wallet : w # c.w => records'[w] = records[w] BY <2>1, <4>3 DEF SessionType
        <4> QED BY <2>1, <2>2, <3>2, <4>2, <4>4 DEF RecordsKept, There
      <3> QED BY <3>1, <3>2
    <2>4. Unlocks(s) BY <2>1, <2>2, UnlockedWell DEF Unlocks, CallsWell
    <2> QED BY <1>1, <2>1, <2>2, <2>3, <2>4, PasswordLeaves
  <1>13. CASE SetAside(s)
    <2>1. c.kind # "none" /\ GoodCall(s, c) /\ At(c) = "setAside" /\ AwaitsOf(c.kind, "setAside") /\ s \in Openings
      BY <1>13, RunningIs DEF SetAside, AwaitsOf
    <2>2. UNCHANGED <<records, salts, told>> BY <1>13 DEF SetAside
    <2>3. CASE Done(s) BY <1>1, <2>1, <2>2, <2>3, PasswordLeaves
    <2>4. CASE GoesOn(s, c)
      <3>1. ~Ends(c.kind, At(c)) BY <2>1 DEF Ends, AwaitsOf
      <3>2. Onward(s, c) /\ After(c.kind, At(c), At(calls'[s])) BY <2>1, <2>4, <3>1, OnwardWell
      <3>3. ~HasSealed(calls'[s]) BY <2>1, <3>2 DEF HasSealed, After
      <3> QED BY <1>1, <2>1, <2>2, <3>2, <3>3, PasswordLeaves
    <2> QED BY <1>13, <2>3, <2>4 DEF SetAside
  <1> QED BY <1>3, <1>4, <1>5, <1>6, <1>7, <1>8, <1>9, <1>10, <1>11, <1>12, <1>13 DEF CallActions

LEMMA PasswordStep == SessionType /\ PasswordInv /\ [Next]_vars => PasswordInv'
  <1> SUFFICES ASSUME SessionType, PasswordInv, [Next]_vars PROVE PasswordInv' OBVIOUS
  <1>1. SessionType' BY TypeStep
  <1>2. CASE LockActions BY <1>1, <1>2, PasswordLockActions
  <1>3. CASE BeginActions BY <1>1, <1>3, PasswordBeginActions
  <1>4. CASE \E s \in Slot : CallActions(s) BY <1>1, <1>4, PasswordCallActions
  <1>5. CASE UNCHANGED vars
    <2>1. PasswordLeft BY <1>5, KeptIs DEF PasswordLeft, vars, disk
    <2> QED BY <1>1, <2>1, PasswordKept DEF PasswordLeft
  <1> QED BY <1>2, <1>3, <1>4, <1>5, NextIs

\* Whatever unlocks, resets, changes, imports and strengthenings run against
\* each other, and whatever locks, failures and removals come between their
\* awaits, the password that opens a wallet is the one the person was last
\* told is the one (accounts.ts, patchEnvelope's comparison of the salts).
THEOREM PasswordIsTheOneTold == Spec => []PasswordToldHolds
  <1>1. Init => SessionType /\ PasswordInv BY TypeInit, PasswordInit
  <1>2. SessionType /\ PasswordInv /\ [Next]_vars => (SessionType /\ PasswordInv)' BY TypeStep, PasswordStep
  <1>3. PasswordInv => PasswordToldHolds BY DEF PasswordInv
  <1> QED BY <1>1, <1>2, <1>3, PTL DEF Spec

-----------------------------------------------------------------------------
(* The hidden page: a call that could still unlock a wallet looked at the    *)
(* page when it loaded the keys, and a page hidden since then locked, which  *)
(* is a lock since the call began; only a send puts a lock off, and no send  *)
(* runs beside such a call.                                                  *)

\* A lock waits for the phrase's wrapping to be written, which no call looks
\* at the lock after: without this a wallet does become unlocked then.
NoLockWhileKeeping == "slow keep" \notin Rare

InForce(c) == c.kind # "none" /\ c.epoch = epoch
Opening(c) == c.kind \notin {"none", "change", "aside", "strengthen"}
LoadingAt(c) == At(c) \in {"put", "store", "reopen", "drop", "commit", "keep"}

HiddenInv ==
    /\ \A s \in Slot : calls[s].epoch <= epoch
    /\ deferred => Open /\ ~next.due
    /\ \A s \in Openings : InForce(calls[s]) /\ Opening(calls[s]) => ~deferred /\ (LoadingAt(calls[s]) => ~hidden)
    /\ \A s \in Openings : At(calls[s]) = "keep" => InForce(calls[s])

LEMMA HiddenInit == Init => HiddenInv
  <1> SUFFICES ASSUME Init PROVE HiddenInv OBVIOUS
  <1>1. \A s \in Slot : calls[s] = NoCall BY DEF Init
  <1>2. \A s \in Openings : calls[s] = NoCall BY <1>1, Slots
  <1>3. epoch = 0 /\ ~deferred BY DEF Init
  <1> QED BY <1>1, <1>2, <1>3, NoCallIs DEF HiddenInv, InForce

\* A lock leaves no call current, and none that writes a wrapping.
LEMMA LockedHidden ==
    ASSUME NoLockWhileKeeping, SessionType, \A s \in Slot : calls[s].epoch <= epoch, Lock
    PROVE  /\ \A s \in Slot : calls'[s].epoch < epoch' /\ calls'[s].epoch <= epoch' /\ At(calls'[s]) # "keep"
           /\ \A s \in Slot : calls'[s].epoch # epoch'
  <1>1. /\ \A t \in Slot : calls'[t] = Rejected(calls[t])
        /\ epoch' = epoch + 1 /\ \A t \in Slot : At(calls[t]) # "keep"
    BY LockedWell DEF NoLockWhileKeeping
  <1>2. \A t \in Slot : At(calls'[t]) = At(calls[t]) /\ calls'[t].epoch = calls[t].epoch
    <2> SUFFICES ASSUME NEW t \in Slot PROVE At(calls'[t]) = At(calls[t]) /\ calls'[t].epoch = calls[t].epoch OBVIOUS
    <2>1. GoodCall(t, calls[t]) BY DEF SessionType
    <2> QED BY <1>1, <2>1, RejectedWell
  <1>3. epoch \in Nat /\ \A t \in Slot : calls[t].epoch \in Nat BY DEF SessionType, CallOf
  <1> QED BY <1>1, <1>2, <1>3

LEMMA HiddenLockActions ==
    ASSUME NoLockWhileKeeping, SessionType, HiddenInv, LockActions
    PROVE  HiddenInv' /\ unlocked' \in {unlocked, NoWallet}
  <1>1. \A s \in Openings : s \in Slot BY Slots
  <1>2. \A s \in Slot : calls[s].epoch <= epoch BY DEF HiddenInv
  <1>3. ASSUME Lock, deferred' = FALSE PROVE HiddenInv' /\ unlocked' \in {unlocked, NoWallet}
    <2>1. \A s \in Slot : calls'[s].epoch <= epoch' /\ At(calls'[s]) # "keep" /\ calls'[s].epoch # epoch'
      BY <1>2, <1>3, LockedHidden
    <2>2. unlocked' = NoWallet BY <1>3, LockedWell
    <2>3. HiddenInv' BY <1>1, <1>3, <2>1 DEF HiddenInv, InForce
    <2> QED BY <2>2, <2>3
  <1>4. ASSUME UNCHANGED <<calls, epoch, unlocked, shown, next>>, deferred' => deferred, hidden' => hidden \/ deferred
        PROVE  HiddenInv' /\ unlocked' \in {unlocked, NoWallet}
    BY <1>4 DEF HiddenInv, InForce, Open
  <1>5. ASSUME RequestLock, UNCHANGED <<deferred, shown, next>>
        PROVE  HiddenInv' /\ unlocked' \in {unlocked, NoWallet}
    <2>1. deferred \in BOOLEAN BY DEF SessionType
    <2>2. CASE ~deferred /\ Lock BY <1>3, <1>5, <2>1, <2>2
    <2>3. CASE deferred /\ UNCHANGED <<worker, calls, unlocked, epoch, holding, moved, unopened>>
      BY <1>4, <1>5, <2>3
    <2> QED BY <1>5, <2>2, <2>3 DEF RequestLock
  <1>6. CASE LockWallet
    <2>1. deferred' = FALSE BY <1>6 DEF LockWallet, SessionType
    <2> QED BY <1>3, <1>6, <2>1 DEF LockWallet
  <1>7. CASE LockWhenFree BY <1>5, <1>7 DEF LockWhenFree, Elsewhere
  <1>8. CASE LockIfIdle BY <1>5, <1>8 DEF LockIfIdle, Elsewhere
  <1>9. CASE Touch BY <1>4, <1>9 DEF Touch, Elsewhere
  <1>10. CASE HoldIdleLock BY <1>4, <1>10 DEF HoldIdleLock, Elsewhere
  <1>11. CASE BeginSend
    <2>1. Open /\ NothingAsked /\ UNCHANGED <<calls, epoch, unlocked, shown, next, hidden>>
      BY <1>11 DEF BeginSend, Elsewhere, lockState
    <2>2. ~next.due /\ \A s \in Openings : ~InForce(calls[s]) BY <2>1, NoCallIs DEF NothingAsked, InForce
    <2> QED BY <2>1, <2>2 DEF HiddenInv, InForce, Open
  <1>12. CASE EndSend
    <2>1. CASE Lock BY <1>3, <1>12, <2>1 DEF EndSend
    <2>2. CASE UNCHANGED <<worker, lockState, calls>> BY <1>4, <1>12, <2>2 DEF EndSend, Elsewhere, lockState
    <2> QED BY <1>12, <2>1, <2>2 DEF EndSend
  <1>13. CASE Hide BY <1>5, <1>13 DEF Hide
  <1>14. CASE Show
    <2>1. CASE RequestLock BY <1>5, <1>14, <2>1 DEF Show
    <2>2. CASE UNCHANGED <<worker, lockState, calls>> BY <1>4, <1>14, <2>2 DEF Show, lockState
    <2> QED BY <1>14, <2>1, <2>2 DEF Show
  <1>15. ASSUME NEW to, NEW gone, Change(to, gone) PROVE HiddenInv' /\ unlocked' \in {unlocked, NoWallet}
    <2>1. Lock /\ deferred' = FALSE BY <1>15 DEF Change, SessionType
    <2> QED BY <1>3, <2>1
  <1>16. CASE SwitchAccount \/ SwitchNetwork \/ RemoveAccount
    BY <1>15, <1>16 DEF SwitchAccount, SwitchNetwork, RemoveAccount
  <1>17. CASE SetAccount
    <2>1. next.due /\ UNCHANGED <<calls, epoch, unlocked, deferred, hidden>> BY <1>17 DEF SetAccount, lockState
    <2>2. ~deferred BY <2>1 DEF HiddenInv
    <2> QED BY <2>1, <2>2 DEF HiddenInv, InForce
  <1> QED BY <1>6, <1>7, <1>8, <1>9, <1>10, <1>11, <1>12, <1>13, <1>14, <1>16, <1>17 DEF LockActions

LEMMA HiddenBeginActions ==
    ASSUME SessionType, HiddenInv, BeginActions
    PROVE  HiddenInv' /\ unlocked' = unlocked
  <1>1. PICK s \in Openings, k \in Kinds, w \in Wallet : BegunBy(s, k, w) BY Begun
  <1>2. s \in Slot /\ \A t \in Openings : t \in Slot BY Slots
  <1>3. /\ \A t \in Slot : t # s => calls'[t] = calls[t]
        /\ calls'[s].kind = k /\ calls'[s].epoch = epoch /\ BeginsAt(k, At(calls'[s]))
    BY <1>1, BegunWell
  <1>4. UNCHANGED <<unlocked, epoch, deferred, hidden, shown, next>> BY <1>1 DEF BegunBy, lockState
  <1>5. Opening(calls'[s]) => ~deferred BY <1>1, <1>3 DEF BegunBy, HiddenInv, Opening, Kinds
  <1>6. At(calls'[s]) # "keep" /\ ~LoadingAt(calls'[s]) BY <1>3 DEF BeginsAt, LoadingAt
  <1>7. epoch \in Nat BY DEF SessionType
  <1>8. \A t \in Slot : calls'[t].epoch <= epoch' BY <1>3, <1>4, <1>7 DEF HiddenInv
  <1>9. Open' <=> Open BY <1>4 DEF Open
  <1>10. \A t \in Openings : InForce(calls[t])' /\ Opening(calls'[t]) => ~deferred /\ (LoadingAt(calls'[t]) => ~hidden)
    BY <1>2, <1>3, <1>4, <1>5, <1>6 DEF HiddenInv, InForce
  <1>11. \A t \in Openings : At(calls'[t]) = "keep" => InForce(calls[t])'
    BY <1>2, <1>3, <1>4, <1>6 DEF HiddenInv, InForce
  <1> QED BY <1>4, <1>8, <1>9, <1>10, <1>11 DEF HiddenInv

\* A step of a call, which is not overtaken when it comes to load or to keep.
CallWatched(c, d) ==
    \/ d.kind \in {"none", "strengthen"} /\ d.epoch <= epoch
    \/ /\ d.kind = c.kind /\ d.epoch = c.epoch
       /\ Opening(c) /\ LoadingAt(d) => LoadingAt(c) \/ ~(hidden /\ ~deferred)
       /\ At(d) = "keep" => At(c) = "keep" \/ ~Overtaken(c)

\* Such a step in which no wallet is unlocked, but by a call that may.
HiddenLeft ==
    /\ UNCHANGED <<epoch, deferred, hidden, shown>>
    /\ \A t \in Slot : CallWatched(calls[t], calls'[t])
    /\ (unlocked' = unlocked /\ next' = next) \/ \E s \in Openings : InForce(calls[s]) /\ Opening(calls[s]) /\ LoadingAt(calls[s])

LEMMA HiddenKept ==
    ASSUME SessionType, SessionType', HiddenInv, HiddenLeft
    PROVE  HiddenInv' /\ (hidden => unlocked' = unlocked)
  <1>1. \A t \in Openings : t \in Slot BY Slots
  <1>2. \A t \in Slot : calls'[t].epoch <= epoch' BY DEF HiddenLeft, HiddenInv, CallWatched
  <1>3. \/ unlocked' = unlocked /\ next' = next
        \/ ~deferred /\ ~hidden
    BY DEF HiddenLeft, HiddenInv
  <1>4. deferred' => Open' /\ ~next'.due BY <1>3 DEF HiddenLeft, HiddenInv, Open
  <1>5. \A t \in Slot : calls'[t].kind = "strengthen" <=> t = "strengthen" /\ calls'[t].kind # "none"
    BY DEF SessionType, GoodCall
  <1>6. ASSUME NEW t \in Openings
        PROVE  /\ InForce(calls[t])' /\ Opening(calls'[t]) => ~deferred /\ (LoadingAt(calls'[t]) => ~hidden)
               /\ At(calls'[t]) = "keep" => InForce(calls[t])'
    <2>1. t \in Slot BY <1>1
    <2>2. CASE calls'[t].kind \in {"none", "strengthen"}
      <3>1. ~Opening(calls'[t]) BY <2>2 DEF Opening
      <3>2. At(calls'[t]) # "keep"
        <4>1. CASE calls'[t].kind = "none" BY <4>1 DEF At
        <4>2. CASE calls'[t].kind = "strengthen"
          <5>1. GoodCall(t, calls'[t]) BY <2>1 DEF SessionType
          <5>2. AwaitsOf(calls'[t].kind, At(calls'[t])) BY <4>2, <5>1, CallIs
          <5> QED BY <4>2, <5>2 DEF AwaitsOf
        <4> QED BY <2>2, <4>1, <4>2
      <3> QED BY <3>1, <3>2
    <2>3. CASE /\ calls'[t].kind = calls[t].kind /\ calls'[t].epoch = calls[t].epoch
               /\ Opening(calls[t]) /\ LoadingAt(calls'[t]) => LoadingAt(calls[t]) \/ ~(hidden /\ ~deferred)
               /\ At(calls'[t]) = "keep" => At(calls[t]) = "keep" \/ ~Overtaken(calls[t])
      <3>1. epoch' = epoch BY DEF HiddenLeft
      <3>2. InForce(calls[t])' <=> InForce(calls[t]) BY <2>3, <3>1 DEF InForce
      <3>3. Opening(calls'[t]) <=> Opening(calls[t]) BY <2>3 DEF Opening
      <3>4. InForce(calls[t])' /\ Opening(calls'[t]) => ~deferred /\ (LoadingAt(calls'[t]) => ~hidden)
        BY <2>3, <3>2, <3>3 DEF HiddenInv
      <3>5. At(calls'[t]) = "keep" => InForce(calls[t])'
        <4> SUFFICES ASSUME At(calls'[t]) = "keep" PROVE InForce(calls[t])' OBVIOUS
        <4>1. calls'[t].kind # "none" BY DEF At
        <4>2. At(calls[t]) = "keep" => InForce(calls[t]) BY DEF HiddenInv
        <4>3. ~Overtaken(calls[t]) => InForce(calls[t]) BY <2>3, <4>1 DEF Overtaken, InForce
        <4> QED BY <2>3, <3>2, <4>2, <4>3
      <3> QED BY <3>4, <3>5
    <2> QED BY <2>1, <2>2, <2>3 DEF HiddenLeft, CallWatched
  <1>7. HiddenInv' BY <1>2, <1>4, <1>6 DEF HiddenLeft, HiddenInv
  <1> QED BY <1>3, <1>7

LEMMA WatchedIs ==
    ASSUME SessionType, HiddenInv
    PROVE  \A t \in Slot : /\ CallWatched(calls[t], calls[t]) /\ CallWatched(calls[t], Rejected(calls[t]))
                          /\ CallWatched(calls[t], NoCall)
  <1> SUFFICES ASSUME NEW t \in Slot
               PROVE  CallWatched(calls[t], calls[t]) /\ CallWatched(calls[t], Rejected(calls[t])) /\ CallWatched(calls[t], NoCall)
    OBVIOUS
  <1>1. CallWatched(calls[t], calls[t]) BY DEF CallWatched
  <1>2. CallWatched(calls[t], Rejected(calls[t]))
    <2> DEFINE d == Rejected(calls[t])
    <2>1. GoodCall(t, calls[t]) BY DEF SessionType
    <2>2. At(d) = At(calls[t]) /\ d.kind = calls[t].kind /\ d.epoch = calls[t].epoch BY <2>1, RejectedWell
    <2> HIDE DEF d
    <2>3. CallWatched(calls[t], d) BY <2>2 DEF CallWatched, LoadingAt
    <2> QED BY <2>3 DEF d
  <1>3. 0 <= epoch BY DEF SessionType
  <1>4. CallWatched(calls[t], NoCall) BY <1>3, NoCallIs DEF CallWatched
  <1> QED BY <1>1, <1>2, <1>4

\* A call that ends or goes on, with nothing unlocked.
HiddenOn(s) ==
    LET c == calls[s]
        d == calls'[s]
    IN /\ \A t \in Slot : t # s => calls'[t] = calls[t]
       /\ d.kind = c.kind /\ d.epoch = c.epoch
       /\ Opening(c) /\ LoadingAt(d) => LoadingAt(c) \/ ~(hidden /\ ~deferred)
       /\ At(d) = "keep" => ~Overtaken(c)

LEMMA HiddenMoves ==
    ASSUME SessionType, HiddenInv, NEW s \in Slot, UNCHANGED <<epoch, deferred, hidden, shown, unlocked, next>>
    PROVE  /\ Done(s) => HiddenLeft
           /\ HiddenOn(s) => HiddenLeft
  <1>1. ASSUME Done(s) PROVE HiddenLeft
    <2>1. calls'[s] = NoCall /\ \A t \in Slot : t # s => calls'[t] = calls[t] BY <1>1, DoneWell
    <2> QED BY <2>1, WatchedIs DEF HiddenLeft
  <1>2. ASSUME HiddenOn(s) PROVE HiddenLeft
    <2>1. CallWatched(calls[s], calls'[s]) BY <1>2 DEF HiddenOn, CallWatched
    <2>2. \A t \in Slot : CallWatched(calls[t], calls'[t]) BY <1>2, <2>1, WatchedIs DEF HiddenOn
    <2> QED BY <2>2 DEF HiddenLeft
  <1> QED BY <1>1, <1>2

LEMMA HiddenLeaves ==
    ASSUME SessionType, HiddenInv, NEW s \in Openings, calls[s].kind # "none", UNCHANGED <<epoch, deferred, hidden, shown>>
    PROVE  /\ \A why : Fails(s, calls[s], why) => HiddenLeft
           /\ Done(s) /\ UNCHANGED <<unlocked, next>> => HiddenLeft
           /\ /\ Onward(s, calls[s]) /\ UNCHANGED <<unlocked, next>>
              /\ Opening(calls[s]) /\ LoadingAt(calls'[s]) => LoadingAt(calls[s]) \/ ~(hidden /\ ~deferred)
              /\ At(calls'[s]) = "keep" => ~Overtaken(calls[s])
              => HiddenLeft
           /\ Unlocks(s) /\ ~Overtaken(calls[s]) /\ Opening(calls[s]) /\ LoadingAt(calls[s]) => HiddenLeft
           /\ Opening(calls[s]) /\ LoadingAt(calls[s]) /\ Finished(s) => HiddenLeft
           /\ Opening(calls[s]) \/ calls[s].kind = "aside" => (LoadingAt(calls[s]) /\ StoreFinished(s) => HiddenLeft)
  <1>1. s \in Slot /\ calls[s].w \in Wallet /\ (\A t \in Slot : t \in Openings \/ t = "strengthen")
    BY Slots, CallIs DEF SessionType
  <1>2. ASSUME NEW why, Fails(s, calls[s], why) PROVE HiddenLeft
    <2>1. /\ UNCHANGED <<unlocked, pending, next, bad, salts>> /\ calls'[s] = NoCall
          /\ \A t \in Slot : t # s => calls'[t] = IF Makes(calls[s]) THEN Rejected(calls[t]) ELSE calls[t]
      BY <1>1, <1>2, FailsWell
    <2>2. \A t \in Slot : CallWatched(calls[t], calls'[t]) BY <2>1, WatchedIs
    <2> QED BY <2>1, <2>2 DEF HiddenLeft
  <1>3. ASSUME Done(s), UNCHANGED <<unlocked, next>> PROVE HiddenLeft BY <1>1, <1>3, HiddenMoves
  <1>4. ASSUME Onward(s, calls[s]), UNCHANGED <<unlocked, next>>,
               Opening(calls[s]) /\ LoadingAt(calls'[s]) => LoadingAt(calls[s]) \/ ~(hidden /\ ~deferred),
               At(calls'[s]) = "keep" => ~Overtaken(calls[s])
        PROVE  HiddenLeft
    <2>1. HiddenOn(s) BY <1>4 DEF HiddenOn, Onward
    <2> QED BY <1>1, <1>4, <2>1, HiddenMoves
  <1>5. ASSUME Unlocks(s), ~Overtaken(calls[s]), Opening(calls[s]), LoadingAt(calls[s]) PROVE HiddenLeft
    <2>1. "strengthen" \in Kinds /\ epoch \in Nat BY DEF Kinds, SessionType
    <2> DEFINE d == Call("strengthen", calls[s].w)
    <2>2. d.kind = "strengthen" /\ d.epoch = epoch BY <1>1, <2>1, BeginsIs
    <2> HIDE DEF d
    <2>3. \A c : CallWatched(c, d) BY <2>1, <2>2 DEF CallWatched
    <2>4. \A t \in Slot : calls'[t] = calls[t] \/ calls'[t] = NoCall \/ calls'[t] = d BY <1>1, <1>5 DEF Unlocks, d
    <2>5. \A t \in Slot : CallWatched(calls[t], calls'[t]) BY <2>3, <2>4, WatchedIs
    <2>6. InForce(calls[s]) BY <1>5 DEF Overtaken, InForce
    <2> QED BY <1>5, <2>5, <2>6 DEF HiddenLeft
  <1>6. ASSUME Opening(calls[s]), LoadingAt(calls[s]), Finished(s) PROVE HiddenLeft
    <2>1. CASE Fails(s, calls[s], "cancelled") BY <1>2, <2>1
    <2>2. CASE ~Overtaken(calls[s]) /\ Onward(s, calls[s]) /\ Kept BY <1>4, <1>6, <2>2 DEF Kept
    <2>3. CASE ~Overtaken(calls[s]) /\ Unlocks(s) BY <1>5, <1>6, <2>3
    <2> QED BY <1>6, <2>1, <2>2, <2>3 DEF Finished
  <1>7. ASSUME Opening(calls[s]) \/ calls[s].kind = "aside", LoadingAt(calls[s]), StoreFinished(s) PROVE HiddenLeft
    <2>1. CASE Done(s) /\ Kept BY <1>3, <2>1 DEF Kept
    <2>2. CASE Onward(s, calls[s]) /\ At(calls'[s]) = "commit" /\ Kept BY <1>4, <1>7, <2>2 DEF Kept
    <2>3. CASE calls[s].kind # "aside" /\ Finished(s) BY <1>6, <1>7, <2>3
    <2> QED BY <1>7, <2>1, <2>2, <2>3 DEF StoreFinished
  <1> QED BY <1>2, <1>3, <1>4, <1>5, <1>6, <1>7

LEMMA HiddenCallActions ==
    ASSUME NoLockWhileKeeping, SessionType, HiddenInv, NEW s \in Slot, CallActions(s)
    PROVE  HiddenLeft
  <1> DEFINE c == calls[s]
             e == calls'[s]
  <1>1. CASE Read(s)
    <2>1. c.kind # "none" /\ GoodCall(s, c) /\ c \in CallOf /\ c.w \in Wallet /\ c.kind \in Kinds /\ At(c) = "read" /\ AwaitsOf(c.kind, "read")
      BY <1>1, RunningIs DEF Read
    <2>2. UNCHANGED <<epoch, deferred, hidden, shown, unlocked, next>> BY <1>1 DEF Read, Still, lockState
    <2>3. CASE Done(s) BY <2>2, <2>3, HiddenMoves
    <2>4. CASE GoesOn(s, [c EXCEPT !.read = records[c.w]])
      <3> DEFINE d == [c EXCEPT !.read = records[c.w]]
      <3>1. records[c.w] \in Records BY <2>1, Numbers DEF PasswordNumbers
      <3>2. GoodCall(s, d) /\ At(d) = At(c) /\ d.kind = c.kind /\ d.epoch = c.epoch BY <2>1, <3>1 DEF GoodCall, CallOf, At
      <3>3. GoesOn(s, d) BY <2>4
      <3> HIDE DEF d
      <3>4. ~Ends(d.kind, At(d)) BY <2>1, <3>2 DEF Ends
      <3>5. e.kind = c.kind /\ e.epoch = c.epoch /\ After(c.kind, "read", At(e)) /\ \A t \in Slot : t # s => calls'[t] = calls[t]
        BY <2>1, <3>2, <3>3, <3>4, OnwardWell DEF Onward
      <3>6. ~LoadingAt(e) /\ At(e) # "keep" BY <3>5 DEF LoadingAt, After
      <3> QED BY <2>2, <3>5, <3>6, HiddenMoves DEF HiddenOn
    <2> QED BY <1>1, <2>3, <2>4 DEF Read
  <1>2. CASE Seal(s)
    <2>1. c.kind # "none" /\ GoodCall(s, c) /\ c \in CallOf /\ c.kind \in Kinds /\ At(c) = "seal" /\ AwaitsOf(c.kind, "seal")
      BY <1>2, RunningIs DEF Seal
    <2>2. UNCHANGED <<epoch, deferred, hidden, shown, unlocked, next>> BY <1>2 DEF Seal, Still, lockState
    <2>3. CASE Done(s) BY <2>2, <2>3, HiddenMoves
    <2>4. CASE GoesOn(s, [c EXCEPT !.salt = salts + 1])
      <3> DEFINE d == [c EXCEPT !.salt = salts + 1]
      <3>1. salts + 1 \in Nat BY Numbers DEF PasswordNumbers
      <3>2. GoodCall(s, d) /\ At(d) = At(c) /\ d.kind = c.kind /\ d.epoch = c.epoch BY <2>1, <3>1 DEF GoodCall, CallOf, At
      <3>3. GoesOn(s, d) BY <2>4
      <3> HIDE DEF d
      <3>4. ~Ends(d.kind, At(d)) BY <2>1, <3>2 DEF Ends, Kinds
      <3>5. e.kind = c.kind /\ e.epoch = c.epoch /\ After(c.kind, "seal", At(e)) /\ \A t \in Slot : t # s => calls'[t] = calls[t]
        BY <2>1, <3>2, <3>3, <3>4, OnwardWell DEF Onward
      <3>6. ~LoadingAt(e) /\ At(e) # "keep" BY <3>5 DEF LoadingAt, After
      <3> QED BY <2>2, <3>5, <3>6, HiddenMoves DEF HiddenOn
    <2> QED BY <1>2, <2>3, <2>4 DEF Seal
  <1>3. CASE Patch(s)
    <2>1. c.kind # "none" /\ GoodCall(s, c) /\ c \in CallOf /\ c.kind \in Kinds /\ At(c) = "patch" /\ AwaitsOf(c.kind, "patch")
      BY <1>3, RunningIs DEF Patch
    <2>2. UNCHANGED <<epoch, deferred, hidden, shown, unlocked, next>> BY <1>3 DEF Patch, Still, lockState
    <2>3. CASE Done(s) BY <2>2, <2>3, HiddenMoves
    <2>4. CASE c.kind = "reset" /\ GoesOn(s, [c EXCEPT !.salt = 0])
      <3> DEFINE d == [c EXCEPT !.salt = 0]
      <3>1. GoodCall(s, d) /\ At(d) = At(c) /\ d.kind = c.kind /\ d.epoch = c.epoch BY <2>1 DEF GoodCall, CallOf, At
      <3>2. GoesOn(s, d) BY <2>4
      <3> HIDE DEF d
      <3>3. ~Ends(d.kind, At(d)) BY <2>1, <2>4, <3>1 DEF Ends
      <3>4. e.kind = c.kind /\ e.epoch = c.epoch /\ After("reset", "patch", At(e)) /\ \A t \in Slot : t # s => calls'[t] = calls[t]
        BY <2>1, <2>4, <3>1, <3>2, <3>3, OnwardWell DEF Onward
      <3>5. ~LoadingAt(e) /\ At(e) # "keep" BY <3>4 DEF LoadingAt, After
      <3> QED BY <2>2, <3>4, <3>5, HiddenMoves DEF HiddenOn
    <2> QED BY <1>3, <2>3, <2>4 DEF Patch
  <1>4. CASE Load(s)
    <2>1. c.kind # "none" /\ GoodCall(s, c) /\ c \in CallOf /\ c.kind \in Kinds /\ At(c) = "open" /\ AwaitsOf(c.kind, "open")
      BY <1>4, RunningIs DEF Load
    <2>2. UNCHANGED <<epoch, deferred, hidden, shown, unlocked, next>> BY <1>4 DEF Load, Still, lockState
    <2>3. CASE Done(s) BY <2>2, <2>3, HiddenMoves
    <2>4. CASE Forget(s)
      <3>1. calls'[s] = NoCall /\ \A t \in Slot : t # s => calls'[t] = Rejected(calls[t]) BY <2>4, ForgotWell
      <3> QED BY <2>2, <3>1, WatchedIs DEF HiddenLeft
    <2>5. CASE ~HiddenPage /\ GoesOn(s, [c EXCEPT !.read = NoRecord, !.made = c.kind = "unlock" /\ ~c.read.wrapped])
      <3> DEFINE m == c.kind = "unlock" /\ ~c.read.wrapped
      <3>1. m \in BOOLEAN /\ (m => c.kind = "unlock") OBVIOUS
      <3> HIDE DEF m
      <3> DEFINE d == [c EXCEPT !.read = NoRecord, !.made = m]
      <3>2. GoodCall(s, d) /\ At(d) = At(c) /\ d.kind = c.kind /\ d.epoch = c.epoch
        BY <2>1, <3>1, NoCallIs DEF GoodCall, CallOf, At
      <3> HIDE DEF d
      <3>3. ~Ends(d.kind, At(d)) BY <2>1, <3>2 DEF Ends, AwaitsOf
      <3>4. GoesOn(s, d) BY <2>5 DEF d, m
      <3>5. e.kind = c.kind /\ e.epoch = c.epoch /\ After(c.kind, "open", At(e)) /\ \A t \in Slot : t # s => calls'[t] = calls[t]
        BY <2>1, <3>2, <3>3, <3>4, OnwardWell DEF Onward
      <3>6. At(e) # "keep" /\ ~(hidden /\ ~deferred) BY <2>5, <3>5 DEF After, HiddenPage
      <3> QED BY <2>2, <3>5, <3>6, HiddenMoves DEF HiddenOn
    <2> QED BY <1>4, <2>3, <2>4, <2>5 DEF Load
  <1>5. CASE Put(s)
    <2>1. c.kind # "none" /\ GoodCall(s, c) /\ c \in CallOf /\ c.kind \in Kinds /\ At(c) = "put" /\ AwaitsOf(c.kind, "put") /\ s \in Openings
      BY <1>5, RunningIs DEF Put, AwaitsOf
    <2>2. UNCHANGED <<epoch, deferred, hidden, shown>> BY <1>5 DEF Put, Still
    <2>3. CASE Fails(s, c, "error") BY <2>1, <2>2, <2>3, HiddenLeaves
    <2>4. CASE GoesOn(s, [c EXCEPT !.salt = 0]) /\ UNCHANGED <<worker, unlocked, pending, next, bad, salts>>
      <3> DEFINE d == [c EXCEPT !.salt = 0]
      <3>1. GoodCall(s, d) /\ At(d) = At(c) /\ d.kind = c.kind /\ d.epoch = c.epoch BY <2>1 DEF GoodCall, CallOf, At
      <3>2. GoesOn(s, d) BY <2>4
      <3> HIDE DEF d
      <3>3. ~Ends(d.kind, At(d)) BY <2>1, <3>1 DEF Ends, AwaitsOf
      <3>4. e.kind = c.kind /\ e.epoch = c.epoch /\ After(c.kind, "put", At(e)) /\ \A t \in Slot : t # s => calls'[t] = calls[t]
        BY <2>1, <3>1, <3>2, <3>3, OnwardWell DEF Onward
      <3>5. At(e) # "keep" /\ LoadingAt(c) BY <2>1, <3>4 DEF After, LoadingAt
      <3> QED BY <2>2, <2>4, <3>4, <3>5, HiddenMoves DEF HiddenOn
    <2> QED BY <1>5, <2>3, <2>4 DEF Put
  <1>6. CASE Store(s)
    <2>1. c.kind # "none" /\ GoodCall(s, c) /\ At(c) = "store" /\ AwaitsOf(c.kind, "store") /\ s \in Openings
      BY <1>6, RunningIs DEF Store, AwaitsOf
    <2>2. UNCHANGED <<epoch, deferred, hidden, shown>> BY <1>6 DEF Store, Still
    <2>3. LoadingAt(c) /\ (Opening(c) \/ c.kind = "aside") BY <2>1 DEF LoadingAt, Opening, AwaitsOf
    <2>4. CASE GoesOn(s, c) /\ UNCHANGED <<unlocked, next>>
      <3>1. ~Ends(c.kind, At(c)) BY <2>1 DEF Ends, AwaitsOf
      <3>2. Onward(s, c) /\ After(c.kind, At(c), At(calls'[s])) BY <2>1, <2>4, <3>1, OnwardWell
      <3>3. At(calls'[s]) # "keep" BY <2>1, <3>2 DEF After
      <3> QED BY <2>1, <2>2, <2>3, <2>4, <3>2, <3>3, HiddenLeaves
    <2>5. CASE StoreDone(s, c) BY <2>1, <2>2, <2>3, <2>5, FinishesWell, HiddenLeaves
    <2> QED BY <1>6, <2>4, <2>5 DEF Store
  <1>7. CASE Reopen(s)
    <2>1. c.kind # "none" /\ GoodCall(s, c) /\ At(c) = "reopen" /\ AwaitsOf(c.kind, "reopen") /\ s \in Openings
      BY <1>7, RunningIs DEF Reopen, AwaitsOf
    <2>2. UNCHANGED <<epoch, deferred, hidden, shown>> BY <1>7 DEF Reopen, Still
    <2>3. CASE Fails(s, c, "error") BY <2>1, <2>2, <2>3, HiddenLeaves
    <2>4. CASE GoesOn(s, c) /\ UNCHANGED <<unlocked, next>>
      <3>1. ~Ends(c.kind, At(c)) BY <2>1 DEF Ends, AwaitsOf
      <3>2. Onward(s, c) /\ After(c.kind, At(c), At(calls'[s])) BY <2>1, <2>4, <3>1, OnwardWell
      <3>3. At(calls'[s]) # "keep" /\ LoadingAt(c) BY <2>1, <3>2 DEF After, LoadingAt
      <3> QED BY <2>1, <2>2, <2>4, <3>2, <3>3, HiddenLeaves
    <2> QED BY <1>7, <2>3, <2>4 DEF Reopen
  <1>8. CASE DropOldCopies(s)
    <2>1. c.kind # "none" /\ At(c) = "drop" /\ AwaitsOf(c.kind, "drop") /\ s \in Openings BY <1>8, RunningIs DEF DropOldCopies, AwaitsOf
    <2>2. UNCHANGED <<epoch, deferred, hidden, shown>> BY <1>8 DEF DropOldCopies, Still
    <2>3. LoadingAt(c) /\ (Opening(c) \/ c.kind = "aside") BY <2>1 DEF LoadingAt, Opening, AwaitsOf
    <2> QED BY <1>8, <2>1, <2>2, <2>3, FinishesWell, HiddenLeaves DEF DropOldCopies
  <1>9. CASE Commit(s)
    <2>1. c.kind # "none" /\ At(c) = "commit" /\ AwaitsOf(c.kind, "commit") /\ s \in Openings BY <1>9, RunningIs DEF Commit, AwaitsOf
    <2>2. UNCHANGED <<epoch, deferred, hidden, shown>> BY <1>9 DEF Commit, Still
    <2>3. LoadingAt(c) /\ Opening(c) BY <2>1 DEF LoadingAt, Opening, AwaitsOf
    <2>4. CASE Fails(s, c, "error") BY <2>1, <2>2, <2>4, HiddenLeaves
    <2>5. CASE Finishes(s, c) BY <2>1, <2>2, <2>3, <2>5, FinishesWell, HiddenLeaves
    <2> QED BY <1>9, <2>4, <2>5 DEF Commit
  <1>10. CASE KeepSeedUnlock(s)
    <2>1. c.kind # "none" /\ At(c) = "keep" /\ AwaitsOf(c.kind, "keep") /\ s \in Openings
      BY <1>10, RunningIs DEF KeepSeedUnlock, AwaitsOf
    <2>2. UNCHANGED <<epoch, deferred, hidden, shown>> BY <1>10 DEF KeepSeedUnlock, Still
    <2>3. LoadingAt(c) /\ Opening(c) BY <2>1 DEF LoadingAt, Opening, AwaitsOf
    <2>4. SetUnlocked(s, c) BY <1>10 DEF KeepSeedUnlock
    <2>5. Unlocks(s) BY <2>1, <2>4, UnlockedWell DEF Unlocks, CallsWell
    <2>6. ~Overtaken(c) BY <2>1 DEF HiddenInv, InForce, Overtaken
    <2> QED BY <2>1, <2>2, <2>3, <2>5, <2>6, HiddenLeaves
  <1>11. CASE SetAside(s)
    <2>1. c.kind # "none" /\ GoodCall(s, c) /\ At(c) = "setAside" /\ AwaitsOf(c.kind, "setAside") /\ s \in Openings
      BY <1>11, RunningIs DEF SetAside, AwaitsOf
    <2>2. UNCHANGED <<epoch, deferred, hidden, shown, unlocked, next>> BY <1>11 DEF SetAside, Still
    <2>3. CASE Done(s) BY <2>1, <2>2, <2>3, HiddenLeaves
    <2>4. CASE GoesOn(s, c)
      <3>1. ~Ends(c.kind, At(c)) BY <2>1 DEF Ends, AwaitsOf
      <3>2. Onward(s, c) /\ After(c.kind, At(c), At(calls'[s])) BY <2>1, <2>4, <3>1, OnwardWell
      <3>3. At(calls'[s]) # "keep" /\ ~Opening(c) BY <2>1, <3>2 DEF After, Opening, AwaitsOf
      <3> QED BY <2>1, <2>2, <3>2, <3>3, HiddenLeaves
    <2> QED BY <1>11, <2>3, <2>4 DEF SetAside
  <1> QED BY <1>1, <1>2, <1>3, <1>4, <1>5, <1>6, <1>7, <1>8, <1>9, <1>10, <1>11 DEF CallActions

LEMMA HiddenStep ==
    ASSUME NoLockWhileKeeping
    PROVE  SessionType /\ HiddenInv /\ [Next]_vars => HiddenInv' /\ (hidden /\ ~deferred => unlocked' \in {unlocked, NoWallet})
  <1> SUFFICES ASSUME SessionType, HiddenInv, [Next]_vars
               PROVE  HiddenInv' /\ (hidden /\ ~deferred => unlocked' \in {unlocked, NoWallet})
    OBVIOUS
  <1>1. SessionType' BY TypeStep
  <1>2. CASE LockActions BY <1>2, HiddenLockActions
  <1>3. CASE BeginActions BY <1>3, HiddenBeginActions
  <1>4. CASE \E s \in Slot : CallActions(s)
    <2>1. HiddenLeft BY <1>4, HiddenCallActions
    <2> QED BY <1>1, <2>1, HiddenKept
  <1>5. CASE UNCHANGED vars
    BY <1>5 DEF HiddenInv, InForce, Open, vars, lockState
  <1> QED BY <1>2, <1>3, <1>4, <1>5, NextIs

\* No wallet becomes unlocked on a page that nobody looks at: accounts.ts
\* looks at the page as the keys are loaded, AppContext locks as it is hidden,
\* and what was begun before a lock is cancelled, at every await there is.
THEOREM NoneUnlocksHidden ==
    ASSUME NoLockWhileKeeping
    PROVE  Spec => HiddenStaysLocked
  <1>1. Init => SessionType /\ HiddenInv BY TypeInit, HiddenInit
  <1>2. SessionType /\ HiddenInv /\ [Next]_vars => (SessionType /\ HiddenInv)' BY TypeStep, HiddenStep
  <1>3. SessionType /\ HiddenInv /\ [Next]_vars => [hidden /\ ~deferred => unlocked' \in {unlocked, NoWallet}]_vars
    BY HiddenStep
  <1> QED BY <1>1, <1>2, <1>3, PTL DEF Spec, HiddenStaysLocked

-----------------------------------------------------------------------------
(* The keys in the worker: one person's call loads them, and between that    *)
(* and its end they are those of the wallet it opens.                        *)

\* Each of the uncommon things breaks this: see the README.
NothingRare == Rare = {}

Past(c) == c.kind # "none" /\ c.epoch # epoch

Asked == calls["person"]

\* Where the keys are: loaded by the call under way, or those of the unlocked
\* wallet, or none since a lock.
KeysHeld ==
    /\ Past(Asked) => unlocked = NoWallet /\ keys = NoWallet
    /\ InForce(Asked) /\ LoadingAt(Asked) => keys = Asked.w
    /\ ~(InForce(Asked) /\ LoadingAt(Asked)) => keys = unlocked
    /\ logs \subseteq {keys}

\* What is known of a call that nothing overtook.
CallHolds ==
    /\ Asked.dead => Past(Asked)
    /\ InForce(Asked) =>
        /\ Asked.kind = "aside" => unlocked = Asked.w
        /\ Asked.kind \in {"unlock", "reset"} => unlocked = NoWallet /\ ~next.due /\ Asked.w = shown
        /\ Makes(Asked) => ~hidden
        /\ At(Asked) = "reopen" => Asked.w \in logs
        /\ Asked.kind = "import" /\ At(Asked) \in {"drop", "commit"} => Asked.w \in moved

\* A wallet whose log does not open is there, and is none that is being made.
BadThere == (\A w \in bad : There(w)) /\ (Makes(Asked) => Asked.w \notin bad)

\* The unlocked wallet is the one on screen, or on its way there.
ShownNext == IF next.due THEN unlocked \in {NoWallet, next.to} ELSE unlocked \in {NoWallet, shown}

KeysInv == KeysHeld /\ CallHolds /\ BadThere /\ ShownNext

LEMMA KeysInit == Init => KeysInv
  <1> SUFFICES ASSUME Init PROVE KeysInv OBVIOUS
  <1>1. Asked = NoCall BY Slots DEF Init, Asked
  <1>2. ~Past(Asked) /\ ~InForce(Asked) /\ ~Asked.dead /\ ~Makes(Asked) BY <1>1, NoCallIs DEF Past, InForce, Makes
  <1>3. PICK w \in Wallet, wrapped \in BOOLEAN : \E damaged \in SUBSET {w} :
            /\ shown = w /\ bad = damaged
            /\ records = [v \in Wallet |-> IF v = w THEN Record(wrapped) ELSE NoRecord]
    BY DEF Init
  <1>4. There(w)
    <2>1. Record(wrapped).salt = 1 /\ NoRecord.salt = 0 BY DEF Record, NoRecord
    <2>2. records[w] = Record(wrapped) BY <1>3
    <2> QED BY <2>1, <2>2 DEF There
  <1>5. bad \subseteq {w} BY <1>3
  <1>6. BadThere BY <1>2, <1>4, <1>5 DEF BadThere
  <1>7. KeysHeld BY <1>2 DEF KeysHeld, Init
  <1>8. CallHolds BY <1>2 DEF CallHolds
  <1>9. ShownNext BY DEF ShownNext, Init, Settled
  <1> QED BY <1>6, <1>7, <1>8, <1>9 DEF KeysInv

\* Nothing that matters here changes.
LEMMA KeysSame ==
    ASSUME SessionType, KeysInv, Asked' = Asked, UNCHANGED <<keys, logs, unlocked, epoch, shown, next, bad, moved>>,
           hidden' => hidden \/ ~(InForce(Asked) /\ Makes(Asked)), \A w \in bad : There(w)'
    PROVE  KeysInv'
  <1>1. Past(Asked)' <=> Past(Asked) BY DEF Past
  <1>2. InForce(Asked)' <=> InForce(Asked) BY DEF InForce
  <1>3. KeysHeld' BY <1>1, <1>2 DEF KeysInv, KeysHeld
  <1>4. CallHolds' BY <1>1, <1>2 DEF KeysInv, CallHolds
  <1>5. BadThere' BY DEF KeysInv, BadThere
  <1>6. ShownNext' BY DEF KeysInv, ShownNext
  <1> QED BY <1>3, <1>4, <1>5, <1>6 DEF KeysInv

\* The call is over, and the keys are the unlocked wallet's.
LEMMA KeysEnded ==
    ASSUME SessionType, KeysInv, Asked' = NoCall, keys' = unlocked', logs' \subseteq {keys'}, \A w \in bad' : There(w)', ShownNext'
    PROVE  KeysInv'
  <1>1. ~Past(Asked)' /\ ~InForce(Asked)' /\ ~(Asked').dead /\ ~Makes(Asked') BY NoCallIs DEF Past, InForce, Makes
  <1>2. KeysHeld' BY <1>1 DEF KeysHeld
  <1>3. CallHolds' BY <1>1 DEF CallHolds
  <1>4. BadThere' BY <1>1 DEF BadThere
  <1> QED BY <1>2, <1>3, <1>4 DEF KeysInv

\* A lock comes.
LEMMA KeysLocked ==
    ASSUME NoLockWhileKeeping, SessionType, HiddenInv, KeysInv, Lock, UNCHANGED disk
    PROVE  KeysInv'
  <1>1. "person" \in Slot BY Slots
  <1>2. /\ Asked' = Rejected(Asked) /\ keys' = NoWallet /\ logs' = {} /\ unlocked' = NoWallet
    BY <1>1, LockedWell DEF Asked
  <1>3. (Asked').epoch # epoch' BY <1>1, LockedHidden DEF Asked, HiddenInv
  <1>4. GoodCall("person", Asked) BY <1>1 DEF SessionType, Asked
  <1>5. (Asked').kind = Asked.kind /\ (Asked').w = Asked.w /\ ((Asked').dead => Asked.dead \/ Asked.kind # "none")
    BY <1>2, <1>4, RejectedWell
  <1>6. Asked.kind = "none" => ~Asked.dead BY <1>4, NoCallIs DEF GoodCall
  <1>7. ~InForce(Asked)' /\ (Past(Asked)' <=> (Asked').kind # "none") BY <1>3 DEF InForce, Past
  <1>8. KeysHeld' BY <1>2, <1>7 DEF KeysHeld
  <1>9. CallHolds' BY <1>5, <1>6, <1>7 DEF CallHolds
  <1>10. BadThere' BY <1>5 DEF KeysInv, BadThere, Makes, disk, There
  <1>11. ShownNext' BY <1>2 DEF ShownNext
  <1> QED BY <1>8, <1>9, <1>10, <1>11 DEF KeysInv

LEMMA KeysLockActions ==
    ASSUME NoLockWhileKeeping, SessionType, HiddenInv, KeysInv, LockActions
    PROVE  KeysInv'
  <1>1. ASSUME UNCHANGED <<calls, keys, logs, unlocked, epoch, shown, next, moved, disk>>,
               hidden' => hidden \/ ~(InForce(Asked) /\ Makes(Asked))
        PROVE  KeysInv'
    <2>1. \A w \in bad : There(w)' BY <1>1 DEF KeysInv, BadThere, disk, There
    <2> QED BY <1>1, <2>1, KeysSame DEF Asked, disk
  <1>2. ASSUME RequestLock, UNCHANGED <<shown, next, disk>>,
               hidden' => hidden \/ ~deferred \/ ~(InForce(Asked) /\ Makes(Asked))
        PROVE  KeysInv'
    <2>1. CASE Lock BY <1>2, <2>1, KeysLocked
    <2>2. CASE deferred /\ UNCHANGED <<worker, calls, unlocked, epoch, holding, moved, unopened>>
      BY <1>1, <1>2, <2>2 DEF worker
    <2> QED BY <1>2, <2>1, <2>2 DEF RequestLock
  <1>3. CASE LockWallet BY <1>3, KeysLocked DEF LockWallet, Elsewhere
  <1>4. CASE LockWhenFree BY <1>2, <1>4 DEF LockWhenFree, Elsewhere
  <1>5. CASE LockIfIdle BY <1>2, <1>5 DEF LockIfIdle, Elsewhere
  <1>6. CASE Touch BY <1>1, <1>6 DEF Touch, Elsewhere, worker
  <1>7. CASE HoldIdleLock BY <1>1, <1>7 DEF HoldIdleLock, Elsewhere, worker
  <1>8. CASE BeginSend BY <1>1, <1>8 DEF BeginSend, Elsewhere, worker, lockState
  <1>9. CASE EndSend
    <2>1. CASE Lock BY <1>9, <2>1, KeysLocked DEF EndSend, Elsewhere
    <2>2. CASE UNCHANGED <<worker, lockState, calls>> BY <1>1, <1>9, <2>2 DEF EndSend, Elsewhere, worker, lockState
    <2> QED BY <1>9, <2>1, <2>2 DEF EndSend
  <1>10. CASE Hide
    <2>1. "person" \in Openings BY Slots
    <2>2. deferred => ~(InForce(Asked) /\ Makes(Asked)) BY <2>1 DEF HiddenInv, Asked, Makes, Opening
    <2> QED BY <1>2, <1>10, <2>2 DEF Hide
  <1>11. CASE Show
    <2>1. CASE RequestLock BY <1>2, <1>11, <2>1 DEF Show
    <2>2. CASE UNCHANGED <<worker, lockState, calls>> BY <1>1, <1>11, <2>2 DEF Show, worker, lockState
    <2> QED BY <1>11, <2>1, <2>2 DEF Show
  <1>12. \A to, gone : Change(to, gone) => KeysInv' BY KeysLocked DEF Change
  <1>13. CASE SwitchAccount \/ SwitchNetwork \/ RemoveAccount
    BY <1>12, <1>13 DEF SwitchAccount, SwitchNetwork, RemoveAccount
  <1>14. CASE SetAccount
    <2>1. /\ next.due /\ shown' = next.to /\ next' = Settled /\ bad' = bad \ {next.gone}
          /\ UNCHANGED <<calls, keys, logs, unlocked, epoch, moved, hidden>>
          /\ \A w \in Wallet : w # next.gone => records'[w] = records[w]
      BY <1>14 DEF SetAccount, worker, lockState
    <2>2. Asked' = Asked BY <2>1 DEF Asked
    <2>3. (Past(Asked)' <=> Past(Asked)) /\ (InForce(Asked)' <=> InForce(Asked)) BY <2>1, <2>2 DEF Past, InForce
    <2>4. KeysHeld' BY <2>1, <2>2, <2>3 DEF KeysInv, KeysHeld
    <2>5. CallHolds' BY <2>1, <2>2, <2>3 DEF KeysInv, CallHolds
    <2>6. \A w \in bad' : There(w)' BY <2>1 DEF KeysInv, BadThere, There, SessionType
    <2>7. BadThere' BY <2>1, <2>2, <2>6 DEF KeysInv, BadThere
    <2>8. ShownNext' BY <2>1 DEF KeysInv, ShownNext, Settled
    <2> QED BY <2>4, <2>5, <2>7, <2>8 DEF KeysInv
  <1> QED BY <1>3, <1>4, <1>5, <1>6, <1>7, <1>8, <1>9, <1>10, <1>11, <1>13, <1>14 DEF LockActions

LEMMA KeysBeginActions ==
    ASSUME NothingRare, SessionType, HiddenInv, KeysInv, BeginActions
    PROVE  KeysInv'
  <1>1. PICK s \in Openings, k \in Kinds, w \in Wallet : BegunBy(s, k, w) BY Begun
  <1>2. s = "person" /\ s \in Slot BY Slots DEF NothingRare
  <1>3. /\ (Asked').kind = k /\ (Asked').w = w /\ (Asked').epoch = epoch
        /\ (Asked').dead = FALSE /\ BeginsAt(k, At(Asked'))
    BY <1>1, <1>2, BegunWell DEF Asked
  <1>4. Asked = NoCall /\ UNCHANGED <<keys, logs, unlocked, epoch, hidden, shown, next, bad, moved, records>>
    BY <1>1, <1>2 DEF BegunBy, Asked, worker, lockState, disk
  <1>5. ~Past(Asked) /\ ~InForce(Asked) BY <1>4, NoCallIs DEF Past, InForce
  <1>6. keys = unlocked /\ logs \subseteq {keys} BY <1>5 DEF KeysInv, KeysHeld
  <1>7. At(Asked') \notin {"put", "store", "reopen", "drop", "commit", "keep"} BY <1>3 DEF BeginsAt
  <1>8. ~LoadingAt(Asked') BY <1>7 DEF LoadingAt
  <1>9. ~Past(Asked)' BY <1>3, <1>4 DEF Past
  <1>10. KeysHeld' BY <1>4, <1>6, <1>8, <1>9 DEF KeysHeld
  <1>11. ~next.due BY <1>1 DEF BegunBy, NothingAsked
  <1>12. unlocked \in {NoWallet, shown} BY <1>11 DEF KeysInv, ShownNext
  <1>13. k \in {"unlock", "reset"} => unlocked = NoWallet /\ w = shown BY <1>1, <1>12 DEF BegunBy, Open
  <1>14. k = "aside" => unlocked = w BY <1>1 DEF BegunBy, Open
  <1>15. k \in {"create", "import"} => ~hidden /\ ~There(w) BY <1>1 DEF BegunBy
  <1>16. CallHolds' BY <1>3, <1>4, <1>7, <1>11, <1>13, <1>14, <1>15 DEF CallHolds, Makes
  <1>17. BadThere' BY <1>3, <1>4, <1>15 DEF KeysInv, BadThere, Makes, There
  <1>18. ShownNext' BY <1>4 DEF KeysInv, ShownNext
  <1> QED BY <1>10, <1>16, <1>17, <1>18 DEF KeysInv

\* The call goes on.
LEMMA KeysOnward ==
    ASSUME SessionType, KeysInv, Asked.kind # "none",
           (Asked').kind = Asked.kind, (Asked').w = Asked.w, (Asked').epoch = Asked.epoch, (Asked').dead = Asked.dead,
           UNCHANGED <<unlocked, epoch, hidden, shown, next>>,
           Past(Asked) => keys' = NoWallet,
           InForce(Asked) => keys' = IF LoadingAt(Asked') THEN Asked.w ELSE unlocked,
           logs' \subseteq {keys'},
           InForce(Asked) /\ At(Asked') = "reopen" => Asked.w \in logs',
           InForce(Asked) /\ Asked.kind = "import" /\ At(Asked') \in {"drop", "commit"} => Asked.w \in moved',
           bad' \subseteq bad, \A w \in bad : There(w)'
    PROVE  KeysInv'
  <1>1. (Past(Asked)' <=> Past(Asked)) /\ (InForce(Asked)' <=> InForce(Asked)) /\ (InForce(Asked) \/ Past(Asked))
    BY DEF Past, InForce
  <1>2. Makes(Asked') <=> Makes(Asked) BY DEF Makes
  <1>3. KeysHeld' BY <1>1 DEF KeysInv, KeysHeld
  <1>4. CallHolds' BY <1>1, <1>2 DEF KeysInv, CallHolds
  <1>5. BadThere' BY <1>2 DEF KeysInv, BadThere
  <1>6. ShownNext' BY DEF KeysInv, ShownNext
  <1> QED BY <1>3, <1>4, <1>5, <1>6 DEF KeysInv

\* It fails, overtaken.
LEMMA KeysFailed ==
    ASSUME SessionType, KeysInv, Past(Asked), NEW why, Fails("person", Asked, why), UNCHANGED <<epoch, shown>>
    PROVE  KeysInv'
  <1>1. "person" \in Slot /\ Asked = calls["person"] BY Slots DEF Asked
  <1>2. Asked.w \in Wallet BY <1>1, CallIs DEF SessionType, Past
  <1>3. /\ UNCHANGED <<unlocked, pending, next, bad, salts>> /\ Asked' = NoCall
        /\ \A w \in Wallet : records'[w] = records[w] \/ (w = Asked.w /\ Makes(Asked))
        /\ IF Makes(Asked) THEN keys' = NoWallet /\ logs' = {} ELSE keys' = keys /\ logs' = logs
    BY <1>1, <1>2, FailsWell DEF Asked
  <1>4. keys' = unlocked' /\ logs' \subseteq {keys'} BY <1>3 DEF KeysInv, KeysHeld
  <1>5. \A w \in bad' : There(w)' BY <1>3 DEF KeysInv, BadThere, There, SessionType
  <1>6. ShownNext' BY <1>3 DEF KeysInv, ShownNext
  <1> QED BY <1>3, <1>4, <1>5, <1>6, KeysEnded

\* It unlocks its wallet.
LEMMA KeysUnlocked ==
    ASSUME SessionType, KeysInv, InForce(Asked), Opening(Asked), LoadingAt(Asked), Unlocks("person"), shown' = shown,
           bad' = bad, \A w \in bad : There(w)'
    PROVE  KeysInv'
  <1>1. /\ Asked' = NoCall /\ unlocked' = Asked.w /\ keys' = keys /\ logs' = logs
        /\ next' = IF Makes(Asked) THEN [to |-> Asked.w, gone |-> NoWallet, due |-> TRUE] ELSE next
    BY DEF Unlocks, Asked
  <1>2. keys' = unlocked' /\ logs' \subseteq {keys'} BY <1>1 DEF KeysInv, KeysHeld
  <1>3. ShownNext'
    <2>1. CASE Makes(Asked)
      <3>1. next'.due /\ next'.to = Asked.w BY <1>1, <2>1
      <3> QED BY <1>1, <3>1 DEF ShownNext
    <2>2. CASE ~Makes(Asked)
      <3>1. Asked.kind \in {"unlock", "reset"}
        <4>1. "person" \in Slot BY Slots
        <4>2. Asked.kind \in Kinds BY <4>1, CallIs DEF SessionType, InForce, Asked
        <4> QED BY <2>2, <4>2 DEF Makes, Opening, Kinds
      <3>2. ~next.due /\ Asked.w = shown BY <3>1 DEF KeysInv, CallHolds
      <3> QED BY <1>1, <2>2, <3>2 DEF ShownNext
    <2> QED BY <2>1, <2>2
  <1> QED BY <1>1, <1>2, <1>3, KeysEnded

\* And it is at the end of opening its log, or of taking what a file holds.
LEMMA KeysFinished ==
    ASSUME SessionType, KeysInv, Asked.kind # "none", LoadingAt(Asked), UNCHANGED <<epoch, hidden, shown>>, moved' = moved
    PROVE  /\ Opening(Asked) /\ Finished("person") => KeysInv'
           /\ /\ Opening(Asked) \/ Asked.kind = "aside"
              /\ InForce(Asked) /\ Asked.kind = "import" => Asked.w \in moved
              /\ StoreFinished("person")
              => KeysInv'
  <1>1. "person" \in Slot /\ Asked = calls["person"] BY Slots DEF Asked
  <1>2. InForce(Asked) \/ Past(Asked) BY DEF InForce, Past
  <1>3. Overtaken(Asked) => Past(Asked) BY DEF Overtaken, Past
  <1>4. ~Overtaken(Asked) => InForce(Asked) BY DEF Overtaken, InForce
  <1>5. UNCHANGED <<bad, records>> => bad' \subseteq bad /\ bad' = bad /\ \A w \in bad : There(w)' BY DEF KeysInv, BadThere, There
  <1>6. \A w \in logs : w = keys BY DEF KeysInv, KeysHeld
  <1>7. ASSUME Onward("person", Asked), Kept, LoadingAt(Asked'), At(Asked') # "reopen",
               InForce(Asked) /\ Asked.kind = "import" /\ At(Asked') \in {"drop", "commit"} => Asked.w \in moved
        PROVE  KeysInv'
    <2>1. (Asked').kind = Asked.kind /\ (Asked').w = Asked.w /\ (Asked').epoch = Asked.epoch /\ (Asked').dead = Asked.dead
      BY <1>1, <1>7 DEF Onward, Asked
    <2>2. keys' = keys /\ logs' = logs /\ UNCHANGED <<unlocked, next, bad, records>> BY <1>7 DEF Kept
    <2>3. Past(Asked) => keys' = NoWallet BY <2>2 DEF KeysInv, KeysHeld
    <2>4. InForce(Asked) => keys' = IF LoadingAt(Asked') THEN Asked.w ELSE unlocked BY <1>7, <2>2 DEF KeysInv, KeysHeld
    <2>5. logs' \subseteq {keys'} BY <1>6, <2>2
    <2> QED BY <1>5, <1>7, <2>1, <2>2, <2>3, <2>4, <2>5, KeysOnward
  <1>8. ASSUME Opening(Asked), Finished("person") PROVE KeysInv'
    <2>1. CASE Overtaken(Asked) /\ Fails("person", Asked, "cancelled") BY <1>3, <2>1, KeysFailed
    <2>2. CASE ~Overtaken(Asked) /\ Asked.kind = "unlock" /\ Onward("person", Asked) /\ At(Asked') = "keep" /\ Kept
      <3>1. LoadingAt(Asked') BY <2>2 DEF LoadingAt
      <3> QED BY <1>7, <2>2, <3>1
    <2>3. CASE ~Overtaken(Asked) /\ Unlocks("person") /\ UNCHANGED <<bad, records, salts, told>>
      BY <1>4, <1>5, <1>8, <2>3, KeysUnlocked
    <2> QED BY <1>1, <1>8, <2>1, <2>2, <2>3 DEF Finished, Asked
  <1>9. ASSUME Opening(Asked) \/ Asked.kind = "aside", InForce(Asked) /\ Asked.kind = "import" => Asked.w \in moved,
               StoreFinished("person")
        PROVE  KeysInv'
    <2>1. CASE Asked.kind = "aside" /\ Done("person") /\ Kept
      <3>1. Asked' = NoCall BY <1>1, <2>1, DoneWell DEF Asked
      <3>2. keys' = keys /\ logs' = logs /\ UNCHANGED <<unlocked, next, bad, records>> BY <2>1 DEF Kept
      <3>3. keys = unlocked BY <1>2, <2>1 DEF KeysInv, KeysHeld, CallHolds
      <3>4. ShownNext' BY <3>2 DEF KeysInv, ShownNext
      <3>5. logs' \subseteq {keys'} BY <1>6, <3>2
      <3> QED BY <1>5, <3>1, <3>2, <3>3, <3>4, <3>5, KeysEnded
    <2>2. CASE Asked.kind = "import" /\ Onward("person", Asked) /\ At(Asked') = "commit" /\ Kept
      <3>1. LoadingAt(Asked') BY <2>2 DEF LoadingAt
      <3> QED BY <1>7, <1>9, <2>2, <3>1
    <2>3. CASE Asked.kind \notin {"aside", "import"} /\ Finished("person") BY <1>8, <1>9, <2>3
    <2> QED BY <1>1, <1>9, <2>1, <2>2, <2>3 DEF StoreFinished, Asked
  <1> QED BY <1>8, <1>9

\* A step of the strengthening touches nothing of this.
LEMMA KeysStrengthen ==
    ASSUME SessionType, PasswordInv, KeysInv, CallActions("strengthen")
    PROVE  KeysInv'
  <1> DEFINE c == calls["strengthen"]
  <1>1. "strengthen" \in Slot /\ "strengthen" \notin Openings /\ "person" \in Slot /\ "person" # "strengthen" BY Slots
  <1>2. \A a : a # "none" /\ Running("strengthen", a) => a \in {"read", "seal", "patch"}
    BY <1>1, RunningIs DEF AwaitsOf
  <1>3. Read("strengthen") \/ Seal("strengthen") \/ Patch("strengthen")
    <2>1. \A a \in {"open", "put", "store", "reopen", "drop", "commit", "keep", "setAside"} : ~Running("strengthen", a)
      BY <1>2
    <2>2. ~Load("strengthen") BY <2>1 DEF Load
    <2>3. ~Put("strengthen") BY <2>1 DEF Put
    <2>4. ~Store("strengthen") BY <2>1 DEF Store
    <2>5. ~Reopen("strengthen") BY <2>1 DEF Reopen
    <2>6. ~DropOldCopies("strengthen") /\ ~Commit("strengthen") BY <2>1 DEF DropOldCopies, Commit
    <2>7. ~KeepSeedUnlock("strengthen") /\ ~SetAside("strengthen") BY <2>1 DEF KeepSeedUnlock, SetAside
    <2> QED BY <2>2, <2>3, <2>4, <2>5, <2>6, <2>7 DEF CallActions
  <1>4. UNCHANGED <<keys, logs, unlocked, epoch, hidden, shown, next, bad, moved>>
    BY <1>3 DEF Read, Seal, Patch, Still, worker, lockState, disk
  <1>5. Asked' = Asked
    <2>1. \A d : GoesOn("strengthen", d) => Asked' = Asked BY <1>1 DEF GoesOn, SessionType, Asked
    <2>2. Done("strengthen") => Asked' = Asked BY <1>1 DEF Done, SessionType, Asked
    <2> QED BY <1>3, <2>1, <2>2 DEF Read, Seal, Patch
  <1>6. \A w \in bad : There(w)'
    <2>1. \A w \in bad : There(w) BY DEF KeysInv, BadThere
    <2>2. CASE records' = records BY <2>1, <2>2 DEF There
    <2>3. CASE Patch("strengthen") /\ There(c.w) /\ SameEnvelope(c)
      <3>1. GoodCall("strengthen", c) /\ c \in CallOf /\ c.w \in Wallet /\ At(c) = "patch" BY <1>1, <2>3, RunningIs DEF Patch
      <3> DEFINE password == IF c.kind = "strengthen" THEN c.read.password ELSE c.salt
                 r == [records[c.w] EXCEPT !.salt = c.salt, !.password = password, !.weak = FALSE]
      <3>2. records' = [records EXCEPT ![c.w] = r] BY <2>3 DEF Patch
      <3>3. c.salt > 0 /\ c.salt \in Nat BY <1>1, <3>1 DEF PasswordInv, SaltsKnown, HasSealed, CallOf
      <3>4. records[c.w] \in Records BY <3>1, Numbers DEF PasswordNumbers
      <3> HIDE DEF password
      <3>5. r.salt = c.salt BY <3>4 DEF Records
      <3> HIDE DEF r
      <3>6. r # NoRecord BY <3>3, <3>5, NoCallIs
      <3>7. \A w \in Wallet : records'[w] = IF w = c.w THEN r ELSE records[w] BY <3>1, <3>2 DEF SessionType
      <3> QED BY <2>1, <3>6, <3>7 DEF There, SessionType
    <2>4. CASE Patch("strengthen") /\ ~(There(c.w) /\ SameEnvelope(c)) BY <2>2, <2>4 DEF Patch
    <2>5. CASE Read("strengthen") \/ Seal("strengthen") BY <2>2, <2>5 DEF Read, Seal, disk
    <2> QED BY <1>3, <2>3, <2>4, <2>5
  <1> QED BY <1>4, <1>5, <1>6, KeysSame

LEMMA KeysCallActions ==
    ASSUME NothingRare, SessionType, HiddenInv, PasswordInv, KeysInv, CallActions("person")
    PROVE  KeysInv'
  <1> DEFINE c == Asked
             e == Asked'
  <1>1. "person" \in Slot /\ "person" \in Openings /\ calls["person"] = c /\ calls'["person"] = e BY Slots DEF Asked
  <1>2. Past(c) => unlocked = NoWallet /\ keys = NoWallet BY DEF KeysInv, KeysHeld
  <1>3. logs \subseteq {keys} /\ (\A w \in logs : w = keys) BY DEF KeysInv, KeysHeld
  <1>4. NoWallet \notin Wallet BY SessionAssumption
  <1>5. c.kind # "none" => (InForce(c) \/ Past(c)) BY DEF InForce, Past
  <1>6. Overtaken(c) /\ c.kind # "none" => Past(c) BY DEF Overtaken, Past
  <1>7. c.dead => Past(c) BY DEF KeysInv, CallHolds
  <1>8. UNCHANGED <<bad, records>> => bad' \subseteq bad /\ (\A w \in bad : There(w)') /\ (\A w \in bad' : There(w)')
    BY DEF KeysInv, BadThere, There
  <1>9. UNCHANGED <<next, unlocked, shown>> => ShownNext' BY DEF KeysInv, ShownNext
  <1>10. ~LoadingAt(c) => keys = unlocked BY DEF KeysInv, KeysHeld
  \* A call that has loaded nothing yet ends, or goes on to load nothing yet.
  <1>11. ASSUME c.kind # "none", ~LoadingAt(c), UNCHANGED <<keys, logs, unlocked, epoch, hidden, shown, next, moved, bad>>,
                \A w \in bad : There(w)', e = NoCall \/ (e.kind = c.kind /\ e.w = c.w /\ e.epoch = c.epoch /\ e.dead = c.dead /\ ~LoadingAt(e))
         PROVE  KeysInv'
    <2>1. CASE e = NoCall BY <1>1, <1>3, <1>9, <1>10, <1>11, <2>1, KeysEnded
    <2>2. CASE e.kind = c.kind /\ e.w = c.w /\ e.epoch = c.epoch /\ e.dead = c.dead /\ ~LoadingAt(e)
      <3>1. At(e) \notin {"reopen", "drop", "commit"} BY <2>2 DEF LoadingAt
      <3> QED BY <1>2, <1>3, <1>10, <1>11, <2>2, <3>1, KeysOnward
    <2> QED BY <1>11, <2>1, <2>2
  <1>12. Done("person") => e = NoCall BY <1>1, DoneWell
  <1>13. CASE Read("person")
    <2>1. c.kind # "none" /\ GoodCall("person", c) /\ c \in CallOf /\ c.w \in Wallet /\ c.kind \in Kinds /\ At(c) = "read" /\ AwaitsOf(c.kind, "read")
      BY <1>1, <1>13, RunningIs DEF Read
    <2>2. UNCHANGED <<keys, logs, unlocked, epoch, hidden, shown, next, moved, bad, records>> /\ ~LoadingAt(c)
      BY <1>13, <2>1 DEF Read, Still, worker, lockState, disk, LoadingAt
    <2>3. CASE Done("person") BY <1>8, <1>11, <1>12, <2>1, <2>2, <2>3
    <2>4. CASE GoesOn("person", [c EXCEPT !.read = records[c.w]])
      <3> DEFINE d == [c EXCEPT !.read = records[c.w]]
      <3>1. records[c.w] \in Records BY <2>1, Numbers DEF PasswordNumbers
      <3>2. GoodCall("person", d) /\ At(d) = At(c) /\ d.kind = c.kind /\ d.w = c.w /\ d.epoch = c.epoch /\ d.dead = c.dead
        BY <2>1, <3>1 DEF GoodCall, CallOf, At
      <3>3. GoesOn("person", d) BY <2>4
      <3> HIDE DEF d
      <3>4. ~Ends(d.kind, At(d)) BY <2>1, <3>2 DEF Ends
      <3>5. e.kind = c.kind /\ e.w = c.w /\ e.epoch = c.epoch /\ e.dead = c.dead /\ After(c.kind, "read", At(e))
        BY <1>1, <2>1, <3>2, <3>3, <3>4, OnwardWell DEF Onward
      <3>6. ~LoadingAt(e) BY <3>5 DEF LoadingAt, After
      <3> QED BY <1>8, <1>11, <2>1, <2>2, <3>5, <3>6
    <2> QED BY <1>1, <1>13, <2>3, <2>4 DEF Read
  <1>14. CASE Seal("person")
    <2>1. c.kind # "none" /\ GoodCall("person", c) /\ c \in CallOf /\ c.kind \in Kinds /\ At(c) = "seal" /\ AwaitsOf(c.kind, "seal")
      BY <1>1, <1>14, RunningIs DEF Seal
    <2>2. UNCHANGED <<keys, logs, unlocked, epoch, hidden, shown, next, moved, bad, records>> /\ ~LoadingAt(c)
      BY <1>14, <2>1 DEF Seal, Still, worker, lockState, LoadingAt
    <2>3. CASE Done("person") BY <1>8, <1>11, <1>12, <2>1, <2>2, <2>3
    <2>4. CASE GoesOn("person", [c EXCEPT !.salt = salts + 1])
      <3> DEFINE d == [c EXCEPT !.salt = salts + 1]
      <3>1. salts + 1 \in Nat BY Numbers DEF PasswordNumbers
      <3>2. GoodCall("person", d) /\ At(d) = At(c) /\ d.kind = c.kind /\ d.w = c.w /\ d.epoch = c.epoch /\ d.dead = c.dead
        BY <2>1, <3>1 DEF GoodCall, CallOf, At
      <3>3. GoesOn("person", d) BY <2>4
      <3> HIDE DEF d
      <3>4. ~Ends(d.kind, At(d)) BY <2>1, <3>2 DEF Ends, Kinds
      <3>5. e.kind = c.kind /\ e.w = c.w /\ e.epoch = c.epoch /\ e.dead = c.dead /\ After(c.kind, "seal", At(e))
        BY <1>1, <2>1, <3>2, <3>3, <3>4, OnwardWell DEF Onward
      <3>6. ~LoadingAt(e) BY <3>5 DEF LoadingAt, After
      <3> QED BY <1>8, <1>11, <2>1, <2>2, <3>5, <3>6
    <2> QED BY <1>1, <1>14, <2>3, <2>4 DEF Seal
  <1>15. CASE Patch("person")
    <2>1. c.kind # "none" /\ GoodCall("person", c) /\ c \in CallOf /\ c.w \in Wallet /\ c.kind \in Kinds /\ At(c) = "patch" /\ AwaitsOf(c.kind, "patch")
      BY <1>1, <1>15, RunningIs DEF Patch
    <2>2. UNCHANGED <<keys, logs, unlocked, epoch, hidden, shown, next, moved, bad>> /\ ~LoadingAt(c)
      BY <1>15, <2>1 DEF Patch, Still, worker, lockState, LoadingAt
    <2>3. CASE UNCHANGED <<records, told>> /\ Done("person") BY <1>8, <1>11, <1>12, <2>1, <2>2, <2>3
    <2>4. CASE There(c.w) /\ SameEnvelope(c)
      <3> DEFINE password == IF c.kind = "strengthen" THEN c.read.password ELSE c.salt
                 r == [records[c.w] EXCEPT !.salt = c.salt, !.password = password, !.weak = FALSE]
      <3>1. records' = [records EXCEPT ![c.w] = r] BY <1>1, <1>15, <2>4 DEF Patch
      <3>2. c.salt > 0 /\ c.salt \in Nat BY <1>1, <2>1 DEF PasswordInv, SaltsKnown, HasSealed, CallOf
      <3>3. records[c.w] \in Records BY <2>1, Numbers DEF PasswordNumbers
      <3> HIDE DEF password
      <3>4. r.salt = c.salt BY <3>3 DEF Records
      <3> HIDE DEF r
      <3>5. r # NoRecord BY <3>2, <3>4, NoCallIs
      <3>6. \A w \in Wallet : records'[w] = IF w = c.w THEN r ELSE records[w] BY <2>1, <3>1 DEF SessionType
      <3>7. \A w \in bad : There(w)' BY <3>5, <3>6 DEF KeysInv, BadThere, There, SessionType
      <3>8. e = NoCall \/ (e.kind = c.kind /\ e.w = c.w /\ e.epoch = c.epoch /\ e.dead = c.dead /\ ~LoadingAt(e))
        <4>1. CASE Done("person") BY <1>12, <4>1
        <4>2. CASE c.kind = "reset" /\ GoesOn("person", [c EXCEPT !.salt = 0])
          <5> DEFINE d == [c EXCEPT !.salt = 0]
          <5>1. GoodCall("person", d) /\ At(d) = At(c) /\ d.kind = c.kind /\ d.w = c.w /\ d.epoch = c.epoch /\ d.dead = c.dead
            BY <2>1 DEF GoodCall, CallOf, At
          <5>2. GoesOn("person", d) BY <4>2
          <5> HIDE DEF d
          <5>3. ~Ends(d.kind, At(d)) BY <2>1, <4>2, <5>1 DEF Ends
          <5>4. e.kind = c.kind /\ e.w = c.w /\ e.epoch = c.epoch /\ e.dead = c.dead /\ After("reset", "patch", At(e))
            BY <1>1, <2>1, <4>2, <5>1, <5>2, <5>3, OnwardWell DEF Onward
          <5>5. ~LoadingAt(e) BY <5>4 DEF LoadingAt, After
          <5> QED BY <5>4, <5>5
        <4> QED BY <1>1, <1>15, <2>4, <4>1, <4>2 DEF Patch
      <3> QED BY <1>11, <2>1, <2>2, <3>7, <3>8
    <2> QED BY <1>1, <1>15, <2>3, <2>4 DEF Patch
  <1>16. CASE Load("person")
    <2>1. c.kind # "none" /\ GoodCall("person", c) /\ c \in CallOf /\ c.w \in Wallet /\ c.kind \in Kinds /\ At(c) = "open" /\ AwaitsOf(c.kind, "open")
      BY <1>1, <1>16, RunningIs DEF Load
    <2>2. UNCHANGED <<unlocked, epoch, hidden, shown, next, moved, bad, records>> /\ ~LoadingAt(c)
      BY <1>16, <2>1 DEF Load, Still, lockState, disk, LoadingAt
    <2>3. CASE Done("person") /\ UNCHANGED worker BY <1>8, <1>11, <1>12, <2>1, <2>2, <2>3 DEF worker
    <2>4. CASE HiddenPage /\ Forget("person")
      <3>1. e = NoCall /\ keys' = NoWallet /\ logs' = {} BY <1>1, <2>4, ForgotWell
      <3>2. unlocked = NoWallet
        <4>1. CASE Past(c) BY <1>2, <4>1
        <4>2. CASE InForce(c)
          <5>1. hidden BY <2>4 DEF HiddenPage
          <5>2. ~Makes(c) BY <4>2, <5>1 DEF KeysInv, CallHolds
          <5>3. c.kind \in {"unlock", "reset"} BY <2>1, <5>2 DEF AwaitsOf, Makes
          <5> QED BY <4>2, <5>3 DEF KeysInv, CallHolds
        <4> QED BY <1>5, <2>1, <4>1, <4>2
      <3> QED BY <1>8, <1>9, <2>2, <3>1, <3>2, KeysEnded
    <2>5. CASE ~Overtaken(c) /\ Keep(c.w) /\ GoesOn("person", [c EXCEPT !.read = NoRecord, !.made = c.kind = "unlock" /\ ~c.read.wrapped])
      <3> DEFINE m == c.kind = "unlock" /\ ~c.read.wrapped
      <3>1. m \in BOOLEAN /\ (m => c.kind = "unlock") OBVIOUS
      <3> HIDE DEF m
      <3> DEFINE d == [c EXCEPT !.read = NoRecord, !.made = m]
      <3>2. GoodCall("person", d) /\ At(d) = At(c) /\ d.kind = c.kind /\ d.w = c.w /\ d.epoch = c.epoch /\ d.dead = c.dead
        BY <2>1, <3>1, NoCallIs DEF GoodCall, CallOf, At
      <3> HIDE DEF d
      <3>3. ~Ends(d.kind, At(d)) BY <2>1, <3>2 DEF Ends, AwaitsOf
      <3>4. GoesOn("person", d) BY <2>5 DEF d, m
      <3>5. e.kind = c.kind /\ e.w = c.w /\ e.epoch = c.epoch /\ e.dead = c.dead /\ After(c.kind, "open", At(e))
        BY <1>1, <2>1, <3>2, <3>3, <3>4, OnwardWell DEF Onward
      <3>6. At(e) \in {"put", "store"} /\ LoadingAt(e) BY <3>5 DEF After, LoadingAt
      <3>7. keys' = c.w /\ logs' = {} BY <2>5 DEF Keep
      <3>8. ~Past(c) BY <2>5 DEF Overtaken, Past
      <3>9. At(e) \notin {"reopen", "drop", "commit"} BY <3>6
      <3> QED BY <1>8, <2>1, <2>2, <3>5, <3>6, <3>7, <3>8, <3>9, KeysOnward
    <2> QED BY <1>1, <1>16, <2>3, <2>4, <2>5 DEF Load
  <1>17. CASE Put("person")
    <2>1. c.kind # "none" /\ GoodCall("person", c) /\ c \in CallOf /\ c.w \in Wallet /\ c.kind \in Kinds /\ At(c) = "put" /\ AwaitsOf(c.kind, "put")
      BY <1>1, <1>17, RunningIs DEF Put
    <2>2. /\ records' = [records EXCEPT ![c.w] = [salt |-> c.salt, password |-> c.salt, weak |-> c.kind = "import", wrapped |-> TRUE]]
          /\ GoesOn("person", [c EXCEPT !.salt = 0]) /\ UNCHANGED <<worker, unlocked, pending, next, bad, salts>>
      BY <1>1, <1>17 DEF Put, NothingRare
    <2>3. UNCHANGED <<keys, logs, unlocked, epoch, hidden, shown, next, moved, bad>> /\ LoadingAt(c)
      BY <1>17, <2>1, <2>2 DEF Put, Still, worker, LoadingAt
    <2>4. \A w \in bad : There(w)'
      <3> DEFINE r == [salt |-> c.salt, password |-> c.salt, weak |-> c.kind = "import", wrapped |-> TRUE]
      <3>1. r.wrapped = TRUE /\ NoRecord.wrapped = FALSE BY DEF NoRecord
      <3>2. r # NoRecord BY <3>1
      <3>3. \A w \in Wallet : records'[w] = IF w = c.w THEN r ELSE records[w] BY <2>1, <2>2 DEF SessionType
      <3> HIDE DEF r
      <3> QED BY <3>2, <3>3 DEF KeysInv, BadThere, There, SessionType
    <2> DEFINE d == [c EXCEPT !.salt = 0]
    <2>5. GoodCall("person", d) /\ At(d) = At(c) /\ d.kind = c.kind /\ d.w = c.w /\ d.epoch = c.epoch /\ d.dead = c.dead
      BY <2>1 DEF GoodCall, CallOf, At
    <2>6. GoesOn("person", d) BY <2>2
    <2> HIDE DEF d
    <2>7. ~Ends(d.kind, At(d)) BY <2>1, <2>5 DEF Ends, AwaitsOf
    <2>8. e.kind = c.kind /\ e.w = c.w /\ e.epoch = c.epoch /\ e.dead = c.dead /\ After(c.kind, "put", At(e))
      BY <1>1, <2>1, <2>5, <2>6, <2>7, OnwardWell DEF Onward
    <2>9. At(e) = "store" /\ LoadingAt(e) /\ At(e) \notin {"reopen", "drop", "commit"} BY <2>8 DEF After, LoadingAt
    <2>10. InForce(c) => keys = c.w BY <2>3 DEF KeysInv, KeysHeld
    <2> QED BY <1>2, <1>3, <2>1, <2>3, <2>4, <2>8, <2>9, <2>10, KeysOnward
  <1>18. CASE Store("person")
    <2>1. c.kind # "none" /\ GoodCall("person", c) /\ c.w \in Wallet /\ At(c) = "store" /\ AwaitsOf(c.kind, "store")
      BY <1>1, <1>18, RunningIs DEF Store
    <2>2. UNCHANGED <<epoch, hidden, shown, moved>> /\ LoadingAt(c) BY <1>18, <2>1 DEF Store, Still, LoadingAt
    <2>3. InForce(c) => keys = c.w BY <2>2 DEF KeysInv, KeysHeld
    <2>4. CASE ~c.dead /\ keys = c.w /\ logs' = logs \cup {c.w} /\ GoesOn("person", c) /\ UNCHANGED <<keys, unlocked, pending, unopened, next, disk>>
      <3>1. ~Ends(c.kind, At(c)) BY <2>1 DEF Ends, AwaitsOf
      <3>2. e.kind = c.kind /\ e.w = c.w /\ e.epoch = c.epoch /\ e.dead = c.dead /\ After(c.kind, "store", At(e))
        BY <1>1, <2>1, <2>4, <3>1, OnwardWell DEF Onward
      <3>3. At(e) = "reopen" /\ LoadingAt(e) /\ At(e) \notin {"drop", "commit"} BY <3>2 DEF After, LoadingAt
      <3>4. ~Past(c) BY <1>2, <1>4, <2>1, <2>4
      <3>5. UNCHANGED <<bad, records>> BY <2>4 DEF disk
      <3>6. logs' \subseteq {keys'} /\ c.w \in logs' BY <1>3, <2>4
      <3> QED BY <1>8, <2>1, <2>2, <2>4, <3>2, <3>3, <3>4, <3>5, <3>6, KeysOnward
    <2>5. ~(keys \notin {c.w, NoWallet}) BY <1>2, <1>5, <2>1, <2>3
    <2>6. CASE (c.dead \/ c.w \in bad \/ keys = NoWallet \/ (keys # c.w /\ ~Makes(c))) /\ StoreDone("person", c)
      <3>1. ~(InForce(c) /\ c.kind = "import")
        <4> SUFFICES ASSUME InForce(c), c.kind = "import" PROVE FALSE OBVIOUS
        <4>1. keys = c.w /\ Makes(c) BY <2>3 DEF Makes
        <4>2. c.w \notin bad BY <4>1 DEF KeysInv, BadThere
        <4>3. ~c.dead BY <1>7 DEF Past, InForce
        <4> QED BY <1>4, <2>1, <2>6, <4>1, <4>2, <4>3
      <3>2. StoreFinished("person") BY <1>1, <2>1, <2>6, FinishesWell
      <3>3. Opening(c) \/ c.kind = "aside" BY <2>1 DEF Opening, AwaitsOf
      <3> QED BY <2>1, <2>2, <3>1, <3>2, <3>3, KeysFinished
    <2> QED BY <1>1, <1>18, <2>4, <2>5, <2>6 DEF Store
  <1>19. CASE Reopen("person")
    <2>1. c.kind # "none" /\ GoodCall("person", c) /\ c.w \in Wallet /\ At(c) = "reopen" /\ AwaitsOf(c.kind, "reopen")
      BY <1>1, <1>19, RunningIs DEF Reopen
    <2>2. UNCHANGED <<epoch, hidden, shown>> /\ LoadingAt(c) BY <1>19, <2>1 DEF Reopen, Still, LoadingAt
    <2>3. CASE c.dead \/ c.w \notin logs
      <3>1. Past(c) BY <1>5, <1>7, <2>1, <2>3 DEF KeysInv, CallHolds
      <3>2. Fails("person", c, "error") BY <1>1, <1>19, <2>3 DEF Reopen
      <3> QED BY <2>2, <3>1, <3>2, KeysFailed
    <2>4. CASE ~(c.dead \/ c.w \notin logs)
      <3>1. Opened(c.w) /\ GoesOn("person", c) /\ UNCHANGED <<worker, unlocked, pending, next, disk>> BY <1>1, <1>19, <2>4 DEF Reopen
      <3>2. ~Ends(c.kind, At(c)) BY <2>1 DEF Ends, AwaitsOf
      <3>3. e.kind = c.kind /\ e.w = c.w /\ e.epoch = c.epoch /\ e.dead = c.dead /\ After(c.kind, "reopen", At(e))
        BY <1>1, <2>1, <3>1, <3>2, OnwardWell DEF Onward
      <3>4. At(e) = "drop" /\ LoadingAt(e) /\ At(e) # "reopen" BY <3>3 DEF After, LoadingAt
      <3>5. UNCHANGED <<keys, logs, unlocked, next, bad, records>> BY <3>1 DEF worker, disk
      <3>6. c.w \in moved' BY <3>1 DEF Opened
      <3>7. InForce(c) => keys = c.w BY <2>2 DEF KeysInv, KeysHeld
      <3> QED BY <1>2, <1>3, <1>8, <2>1, <2>2, <3>3, <3>4, <3>5, <3>6, <3>7, KeysOnward
    <2> QED BY <2>3, <2>4
  <1>20. CASE DropOldCopies("person")
    <2>1. c.kind # "none" /\ At(c) = "drop" /\ AwaitsOf(c.kind, "drop") BY <1>1, <1>20, RunningIs DEF DropOldCopies
    <2>2. UNCHANGED <<epoch, hidden, shown, moved>> /\ LoadingAt(c) BY <1>20, <2>1 DEF DropOldCopies, Still, LoadingAt
    <2>3. StoreFinished("person") BY <1>1, <1>20, <2>1, FinishesWell DEF DropOldCopies
    <2>4. Opening(c) \/ c.kind = "aside" BY <2>1 DEF Opening, AwaitsOf
    <2>5. InForce(c) /\ c.kind = "import" => c.w \in moved BY <2>1 DEF KeysInv, CallHolds
    <2> QED BY <2>1, <2>2, <2>3, <2>4, <2>5, KeysFinished
  <1>21. CASE Commit("person")
    <2>1. c.kind = "import" /\ c.kind # "none" /\ At(c) = "commit" BY <1>1, <1>21, RunningIs DEF Commit, AwaitsOf
    <2>2. UNCHANGED <<epoch, hidden, shown, moved>> /\ LoadingAt(c) BY <1>21, <2>1 DEF Commit, Still, LoadingAt
    <2>3. CASE (c.dead \/ ~Where(c.w)) /\ Fails("person", c, "error")
      <3>1. Past(c) BY <1>5, <1>7, <2>1, <2>3 DEF KeysInv, CallHolds, Where
      <3> QED BY <2>2, <2>3, <3>1, KeysFailed
    <2>4. CASE Finishes("person", c)
      <3>1. Finished("person") BY <1>1, <2>1, <2>4, FinishesWell
      <3>2. Opening(c) BY <2>1 DEF Opening
      <3> QED BY <2>1, <2>2, <3>1, <3>2, KeysFinished
    <2> QED BY <1>1, <1>21, <2>3, <2>4 DEF Commit
  <1>22. CASE KeepSeedUnlock("person")
    <2>1. c.kind = "unlock" /\ c.kind # "none" /\ c.w \in Wallet /\ At(c) = "keep" BY <1>1, <1>22, RunningIs DEF KeepSeedUnlock, AwaitsOf
    <2>2. UNCHANGED <<shown, bad>> /\ LoadingAt(c) /\ Opening(c) BY <1>22, <2>1 DEF KeepSeedUnlock, Still, LoadingAt, Opening
    <2>3. SetUnlocked("person", c) BY <1>1, <1>22 DEF KeepSeedUnlock
    <2>4. Unlocks("person") BY <1>1, <2>1, <2>3, UnlockedWell DEF Unlocks, CallsWell
    <2>5. InForce(c) BY <1>1, <2>1 DEF HiddenInv
    <2>6. \A w \in bad : There(w)'
      <3>1. CASE ~There(c.w) BY <1>1, <1>8, <1>22, <3>1 DEF KeepSeedUnlock
      <3>2. CASE There(c.w)
        <4> DEFINE r == [records[c.w] EXCEPT !.wrapped = TRUE]
        <4>1. records[c.w] \in Records BY <2>1, Numbers DEF PasswordNumbers
        <4>2. r.wrapped = TRUE /\ NoRecord.wrapped = FALSE BY <4>1 DEF Records, NoRecord
        <4>3. r # NoRecord BY <4>2
        <4>4. records' = [records EXCEPT ![c.w] = r] BY <1>1, <1>22, <3>2 DEF KeepSeedUnlock
        <4> HIDE DEF r
        <4>5. \A w \in Wallet : records'[w] = IF w = c.w THEN r ELSE records[w] BY <2>1, <4>4 DEF SessionType
        <4> QED BY <4>3, <4>5 DEF KeysInv, BadThere, There, SessionType
      <3> QED BY <3>1, <3>2
    <2> QED BY <2>2, <2>4, <2>5, <2>6, KeysUnlocked
  <1>23. CASE SetAside("person")
    <2>1. c.kind = "aside" /\ c.kind # "none" /\ GoodCall("person", c) /\ c.w \in Wallet /\ At(c) = "setAside" /\ AwaitsOf(c.kind, "setAside")
      BY <1>1, <1>23, RunningIs DEF SetAside, AwaitsOf
    <2>2. UNCHANGED <<keys, logs, unlocked, epoch, hidden, shown, next, moved, records>> /\ ~LoadingAt(c)
      BY <1>23, <2>1 DEF SetAside, Still, worker, LoadingAt
    <2>3. CASE Done("person") /\ UNCHANGED <<bad, unopened>> BY <1>8, <1>11, <1>12, <2>1, <2>2, <2>3
    <2>4. CASE bad' = bad \ {c.w} /\ GoesOn("person", c)
      <3>1. ~Ends(c.kind, At(c)) BY <2>1 DEF Ends, AwaitsOf
      <3>2. e.kind = c.kind /\ e.w = c.w /\ e.epoch = c.epoch /\ e.dead = c.dead /\ After(c.kind, "setAside", At(e))
        BY <1>1, <2>1, <2>4, <3>1, OnwardWell DEF Onward
      <3>3. At(e) = "store" /\ LoadingAt(e) /\ At(e) \notin {"reopen", "drop", "commit"} BY <3>2 DEF After, LoadingAt
      <3>4. InForce(c) => unlocked = c.w BY <2>1 DEF KeysInv, CallHolds
      <3>5. bad' \subseteq bad /\ \A w \in bad : There(w)' BY <2>2, <2>4 DEF KeysInv, BadThere, There
      <3> QED BY <1>2, <1>3, <1>10, <2>1, <2>2, <3>2, <3>3, <3>4, <3>5, KeysOnward
    <2> QED BY <1>1, <1>23, <2>3, <2>4 DEF SetAside
  <1> QED BY <1>13, <1>14, <1>15, <1>16, <1>17, <1>18, <1>19, <1>20, <1>21, <1>22, <1>23 DEF CallActions

SessionInv == SessionType /\ PasswordInv /\ HiddenInv /\ KeysInv

LEMMA KeysStep ==
    ASSUME NothingRare
    PROVE  SessionInv /\ [Next]_vars => SessionInv'
  <1> SUFFICES ASSUME SessionInv, [Next]_vars PROVE SessionInv' OBVIOUS
  <1>1. NoLockWhileKeeping BY DEF NothingRare, NoLockWhileKeeping
  <1>2. SessionType /\ PasswordInv /\ HiddenInv /\ KeysInv BY DEF SessionInv
  <1>3. SessionType' /\ PasswordInv' /\ HiddenInv' BY <1>1, <1>2, TypeStep, PasswordStep, HiddenStep
  <1>4. KeysInv'
    <2>1. CASE LockActions BY <1>1, <1>2, <2>1, KeysLockActions
    <2>2. CASE BeginActions BY <1>2, <2>2, KeysBeginActions
    <2>3. CASE \E s \in Slot : CallActions(s)
      <3>1. PICK s \in Slot : CallActions(s) BY <2>3
      <3>2. s = "person" \/ s = "strengthen" BY Slots DEF NothingRare
      <3> QED BY <1>2, <3>1, <3>2, KeysCallActions, KeysStrengthen
    <2>4. CASE UNCHANGED vars
      <3>1. \A w \in bad : There(w)' BY <1>2, <2>4 DEF KeysInv, BadThere, There, vars, disk
      <3> QED BY <1>2, <2>4, <3>1, KeysSame DEF vars, worker, lockState, disk, Asked
    <2> QED BY <2>1, <2>2, <2>3, <2>4, NextIs
  <1> QED BY <1>3, <1>4 DEF SessionInv

\* The keys in the worker and the open log are those of the unlocked wallet,
\* whatever locks, switches and failures come between the awaits of the calls
\* of accounts.ts: once no call is loading, an open wallet has its own keys,
\* and with nothing unlocked no key is left behind.
THEOREM KeysAreTheUnlockedWallets ==
    ASSUME NothingRare
    PROVE  Spec => []KeysFollowUnlocking
  <1>1. Init => SessionInv BY TypeInit, PasswordInit, HiddenInit, KeysInit DEF SessionInv
  <1>2. SessionInv /\ [Next]_vars => SessionInv' BY KeysStep
  <1>3. SessionInv => KeysFollowUnlocking
    <2> SUFFICES ASSUME SessionInv PROVE KeysFollowUnlocking OBVIOUS
    <2>1. "person" \in Openings BY Slots
    <2>2. Quiet => ~LoadingAt(Asked) BY <2>1 DEF Quiet, Loading, LoadingAt, Asked
    <2>3. Quiet => keys = unlocked BY <2>2 DEF SessionInv, KeysInv, KeysHeld
    <2> QED BY <2>3 DEF SessionInv, KeysInv, KeysHeld, KeysFollowUnlocking
  <1> QED BY <1>1, <1>2, <1>3, PTL DEF Spec

-----------------------------------------------------------------------------
(***************************************************************************)
(* Setup.  A phrase of this screen's making cannot be mistaken for a typed *)
(* one, and comes to be a wallet's only over the step that checks it.  The *)
(* search for a month's first block halves an interval whose ends stay on  *)
(* either side of it.                                                      *)
(***************************************************************************)

IsNew(p) == p[1] = "new"
KeptWords(r) == ~r.imported => r.shown /\ (\A p \in Places : r.slots[p] = p) /\ IsNew(r.phrase)
Numbered(p) == IsNew(p) => p = NewPhrase(p[2]) /\ p[2] \in 1..news
SetupType ==
    /\ imported \in BOOLEAN /\ revealed \in BOOLEAN /\ generating \in BOOLEAN /\ news \in Nat
    /\ mark = [set |-> mark.set, notice |-> mark.notice, of |-> mark.of] /\ mark.set \in BOOLEAN /\ mark.notice \in BOOLEAN
    /\ finishing = NotFinishing \/ (finishing = [at |-> finishing.at, record |-> finishing.record] /\ finishing.at \in {"sealing", "opening"})
\* Where the words on the screen, and those a wallet is being made of, come from.
WordsInv ==
    /\ step \in {"show", "confirm"} => ~imported /\ IsNew(phrase)
    /\ step = "confirm" => revealed
    /\ step = "password" => imported \/ (revealed /\ Confirmed /\ IsNew(phrase))
    /\ finishing.at # "no" => KeptWords(finishing.record)
    /\ \A w \in wallets : KeptWords(w)
\* Which phrases can be the marked one.
MarkInv ==
    /\ finishing.at # "no" => ~generating
    /\ Numbered(phrase) /\ Numbered(mark.of)
    /\ finishing.at # "no" => Numbered(finishing.record.phrase)
    /\ \A w \in wallets : Numbered(w.phrase)
    /\ mark.set => IsNew(mark.of)
    /\ mark.notice => IsNew(mark.of) /\ phrase # mark.of /\ (finishing.at # "no" => finishing.record.phrase # mark.of)
    /\ mark.notice \/ (mark.set /\ finishing.at # "opening") => \A w \in wallets : w.phrase # mark.of
    /\ checking # NoCheck => ~IsNew(checking.phrase)

\* No answer on its way counts.
NoLook == \A q \in asked : ~Current(q)
\* What the screen said is what the choices make of the start.
Agrees(s) ==
    CASE fast \/ when = "never" -> s = <<"block", Unknown>>
      [] ~fast /\ when = "unknown" -> s = <<"block", Everything>>
      [] OTHER -> NoLook /\ (s = <<"block", birthday>> \/ \E m \in Months : s = <<"month", m>> /\ birthday = HeightFor(m))
Meant(r) == r.imported => \/ r.said = <<"block", r.start>>
                          \/ \E m \in Months : r.said = <<"month", m>> /\ r.start = HeightFor(m)
LooksTyped ==
    /\ field \in 0..MaxFields /\ form.before \in 0..field
    /\ form \in [open : BOOLEAN, lookup : {"idle", "looking", "found", "failed"}, before : Nat]
    /\ fast \in BOOLEAN /\ when \in {"unknown", "month", "never"} /\ month \in Months \cup {NoMonth}
    /\ latest \in [1..MaxFields -> Nat]
    /\ asked \subseteq [field : 1..MaxFields, token : Nat, month : Months]
    /\ \A q \in asked : q.token <= latest[q.field]
\* While the month field is open, only its own last question counts.
PickInv == Picking =>
    /\ field > form.before
    /\ \A q \in asked : Current(q) => q.field = field /\ q.month = month
    /\ form.lookup # "looking" => NoLook
    /\ form.lookup = "found" => month \in Months /\ birthday = HeightFor(month)
SaidInv ==
    /\ checking # NoCheck => Agrees(checking.said)
    /\ step = "password" /\ imported => Agrees(said)
    /\ finishing.at # "no" => Meant(finishing.record)
    /\ \A w \in wallets : Meant(w)

LEMMA SetupNumbers ==
    /\ Months \subseteq Nat \ {0} /\ (\A m \in Months : m \in Nat /\ m # NoMonth) /\ PerMonth \in Nat \ {0} /\ Blocks \subseteq 1..Tip
    /\ Tip \in Nat /\ MaxFields \in Nat /\ MaxNew \in Nat
  BY SetupAssumption DEF NoMonth

(* The month's first block *)

LEMMA MonthsFollow == \A a, b \in Nat : a <= b => MonthOf(a) <= MonthOf(b) /\ MonthOf(a) \in Nat
<1> SUFFICES ASSUME NEW a \in Nat, NEW b \in Nat, a <= b PROVE MonthOf(a) <= MonthOf(b) /\ MonthOf(a) \in Nat
  OBVIOUS
<1>1. a \div PerMonth <= b \div PerMonth /\ a \div PerMonth \in Nat
  BY SetupNumbers, SMTT(30)
<1> QED BY <1>1 DEF MonthOf

LEMMA Midway == ASSUME NEW a \in Nat, NEW b \in Nat, a < b PROVE (a + b) \div 2 \in a..(b - 1)
  BY SMTT(30)

Lookup == [month : Months, low : Heights, high : Heights]
\* The first of the heights from low to high in the month or later, or the last of them.
FirstIn(q, h) ==
    /\ h \in q.low..q.high
    /\ \A k \in q.low..q.high : MonthOf(k) >= q.month => k >= h
    /\ MonthOf(h) >= q.month \/ h = q.high
Step(f, q) ==
    IF q.low >= q.high THEN q.low
    ELSE LET mid == (q.low + q.high) \div 2 IN
        IF MonthOf(mid) < q.month THEN f[[q EXCEPT !.low = mid + 1]] ELSE f[[q EXCEPT !.high = mid]]

LEMMA Halves ==
    ASSUME NEW q \in Lookup, q.low < q.high
    PROVE  LET mid == (q.low + q.high) \div 2 IN
           /\ mid \in q.low..(q.high - 1)
           /\ [q EXCEPT !.low = mid + 1] \in Lookup /\ [q EXCEPT !.high = mid] \in Lookup
           /\ [q EXCEPT !.low = mid + 1].low <= [q EXCEPT !.low = mid + 1].high
           /\ [q EXCEPT !.high = mid].low <= [q EXCEPT !.high = mid].high
           /\ [q EXCEPT !.low = mid + 1].high - [q EXCEPT !.low = mid + 1].low < q.high - q.low
           /\ [q EXCEPT !.high = mid].high - [q EXCEPT !.high = mid].low < q.high - q.low
<1> DEFINE mid == (q.low + q.high) \div 2
<1>1. q.low \in 1..Tip /\ q.high \in 1..Tip /\ q.month \in Months
  BY DEF Lookup, Heights
<1>2. mid \in q.low..(q.high - 1)
  BY <1>1, Midway, SetupNumbers
<1>3. mid + 1 \in 1..Tip /\ mid \in 1..Tip /\ mid + 1 <= q.high /\ q.low <= mid /\ q.high - (mid + 1) < q.high - q.low /\ mid - q.low < q.high - q.low
  <2> HIDE DEF mid
  <2> QED BY <1>1, <1>2, SetupNumbers
<1>4. [q EXCEPT !.low = mid + 1] = [month |-> q.month, low |-> mid + 1, high |-> q.high]
      /\ [q EXCEPT !.high = mid] = [month |-> q.month, low |-> q.low, high |-> mid]
  <2> HIDE DEF mid
  <2> QED BY DEF Lookup
<1>5. [q EXCEPT !.low = mid + 1] \in Lookup /\ [q EXCEPT !.high = mid] \in Lookup
  <2> HIDE DEF mid
  <2> QED BY <1>1, <1>3, <1>4 DEF Lookup, Heights
<1> HIDE DEF mid
<1>6. /\ [q EXCEPT !.low = mid + 1].low <= [q EXCEPT !.low = mid + 1].high
      /\ [q EXCEPT !.high = mid].low <= [q EXCEPT !.high = mid].high
      /\ [q EXCEPT !.low = mid + 1].high - [q EXCEPT !.low = mid + 1].low < q.high - q.low
      /\ [q EXCEPT !.high = mid].high - [q EXCEPT !.high = mid].low < q.high - q.low
  BY <1>3, <1>4
<1> QED BY <1>2, <1>5, <1>6 DEF mid

\* A function that answers each lookup with the first such height solves the search's equation.
LEMMA FirstExists == \A q \in Lookup : q.low <= q.high => \E h \in q.low..q.high : FirstIn(q, h)
<1> SUFFICES ASSUME NEW q \in Lookup, q.low <= q.high PROVE \E h \in q.low..q.high : FirstIn(q, h)
  OBVIOUS
<1>1. q.low \in 1..Tip /\ q.high \in 1..Tip
  BY DEF Lookup, Heights
<1> DEFINE S == {k \in q.low..q.high : MonthOf(k) >= q.month}
<1>2. CASE S = {}
  <2>1. FirstIn(q, q.high)
    BY <1>1, <1>2, SetupNumbers DEF FirstIn
  <2> QED BY <1>1, <2>1, SetupNumbers
<1>3. CASE S # {}
  <2>1. S \subseteq Nat
    BY <1>1, SetupNumbers
  <2>2. PICK h \in S : \A k \in S : ~(<<k, h>> \in OpToRel(<, Nat))
    <3> HIDE DEF S
    <3> QED BY <1>3, <2>1, NatLessThanWellFounded, WFMin
  <2>3. \A k \in S : k \in Nat /\ h \in Nat /\ ~(k < h)
    BY <2>1, <2>2 DEF OpToRel
  <2>4. h \in q.low..q.high /\ MonthOf(h) >= q.month
    BY <2>2
  <2>5. \A k \in q.low..q.high : MonthOf(k) >= q.month => k \in S /\ k \in Nat /\ ~(k < h) /\ h \in Nat
    BY <2>3
  <2>6. \A k \in q.low..q.high : MonthOf(k) >= q.month => k >= h
    BY <2>5
  <2> QED BY <2>4, <2>6 DEF FirstIn
<1> QED BY <1>2, <1>3

LEMMA FirstIsOne == ASSUME NEW q \in Lookup, NEW h, NEW k, FirstIn(q, h), FirstIn(q, k) PROVE h = k
<1>1. q.low \in Nat /\ q.high \in Nat
  BY SetupNumbers DEF Lookup, Heights
<1>2. h \in q.low..q.high /\ k \in q.low..q.high /\ (MonthOf(k) >= q.month => k >= h) /\ (MonthOf(h) >= q.month => h >= k)
      /\ (MonthOf(h) >= q.month \/ h = q.high) /\ (MonthOf(k) >= q.month \/ k = q.high)
  BY DEF FirstIn
<1>3. h \in Nat /\ k \in Nat /\ h <= q.high /\ k <= q.high
  BY <1>1, <1>2
<1>4. CASE MonthOf(h) >= q.month /\ MonthOf(k) >= q.month
  BY <1>2, <1>3, <1>4
<1>5. CASE h = q.high /\ k = q.high
  BY <1>5
<1>6. CASE h = q.high /\ MonthOf(k) >= q.month
  BY <1>2, <1>3, <1>6, MonthsFollow
<1>7. CASE k = q.high /\ MonthOf(h) >= q.month
  BY <1>2, <1>3, <1>7, MonthsFollow
<1> QED BY <1>2, <1>4, <1>5, <1>6, <1>7

LEMMA LookupNumbers == \A q \in Lookup : q.low \in Nat /\ q.high \in Nat /\ q.month \in Nat
<1> SUFFICES ASSUME NEW q \in Lookup PROVE q.low \in Nat /\ q.high \in Nat /\ q.month \in Nat
  OBVIOUS
<1>1. q.low \in 1..Tip /\ q.high \in 1..Tip /\ q.month \in Months
  BY DEF Lookup, Heights
<1>2. q.low \in Nat /\ q.high \in Nat
  BY <1>1, SetupNumbers
<1>3. q.month \in Nat
  BY <1>1, SetupNumbers, Zenon
<1> QED BY <1>2, <1>3

\* Looking in the half that has it finds it.
LEMMA FirstInHalf ==
    ASSUME NEW q \in Lookup, q.low < q.high, NEW mid \in q.low..(q.high - 1), NEW h
    PROVE  /\ MonthOf(mid) < q.month /\ FirstIn([q EXCEPT !.low = mid + 1], h) => FirstIn(q, h)
           /\ ~(MonthOf(mid) < q.month) /\ FirstIn([q EXCEPT !.high = mid], h) => FirstIn(q, h)
<1>0. q.low \in Nat /\ q.high \in Nat /\ q.month \in Nat
  BY LookupNumbers, Zenon
<1>1. q.low \in Nat /\ q.high \in Nat /\ q.month \in Nat /\ mid \in Nat
  BY <1>0
<1>2. [q EXCEPT !.low = mid + 1] = [month |-> q.month, low |-> mid + 1, high |-> q.high]
      /\ [q EXCEPT !.high = mid] = [month |-> q.month, low |-> q.low, high |-> mid]
  BY DEF Lookup
<1>3. ASSUME MonthOf(mid) < q.month, FirstIn([q EXCEPT !.low = mid + 1], h) PROVE FirstIn(q, h)
  <2>1. /\ h \in (mid + 1)..q.high
        /\ \A k \in (mid + 1)..q.high : MonthOf(k) >= q.month => k >= h
        /\ MonthOf(h) >= q.month \/ h = q.high
    BY <1>2, <1>3 DEF FirstIn
  <2>2. \A k \in q.low..q.high : MonthOf(k) >= q.month => k \in (mid + 1)..q.high
    <3> SUFFICES ASSUME NEW k \in q.low..q.high, MonthOf(k) >= q.month, k <= mid PROVE FALSE
      BY <1>1
    <3>1. MonthOf(k) <= MonthOf(mid) /\ MonthOf(k) \in Nat /\ MonthOf(mid) \in Nat
      BY <1>1, MonthsFollow
    <3> QED BY <1>1, <1>3, <3>1
  <2>3. h \in q.low..q.high
    BY <1>1, <2>1
  <2> QED BY <2>1, <2>2, <2>3 DEF FirstIn
<1>4. ASSUME ~(MonthOf(mid) < q.month), FirstIn([q EXCEPT !.high = mid], h) PROVE FirstIn(q, h)
  <2>1. /\ h \in q.low..mid
        /\ \A k \in q.low..mid : MonthOf(k) >= q.month => k >= h
        /\ MonthOf(h) >= q.month \/ h = mid
    BY <1>2, <1>4 DEF FirstIn
  <2>2. MonthOf(mid) >= q.month
    BY <1>1, <1>4, MonthsFollow
  <2>3. \A k \in q.low..q.high : MonthOf(k) >= q.month => k >= h
    BY <1>1, <2>1
  <2>4. h \in q.low..q.high
    BY <1>1, <2>1
  <2> QED BY <2>1, <2>2, <2>3, <2>4 DEF FirstIn
<1> QED BY <1>3, <1>4

Answers == [q \in Lookup |-> IF q.low <= q.high THEN CHOOSE h \in q.low..q.high : FirstIn(q, h) ELSE q.low]

LEMMA AnswersFirst == \A q \in Lookup : q.low <= q.high => FirstIn(q, Answers[q])
  BY FirstExists DEF Answers

LEMMA AnswersSolves == Answers = [q \in Lookup |-> Step(Answers, q)]
<1> SUFFICES ASSUME NEW q \in Lookup PROVE Answers[q] = Step(Answers, q)
  BY DEF Answers
<1> DEFINE mid == (q.low + q.high) \div 2
           lower == [q EXCEPT !.low = mid + 1]
           upper == [q EXCEPT !.high = mid]
<1>1. q.low \in Nat /\ q.high \in Nat
  BY SetupNumbers DEF Lookup, Heights
<1>2. CASE q.low > q.high
  <2>1. ~(q.low <= q.high) /\ q.low >= q.high
    BY <1>1, <1>2
  <2> QED BY <2>1 DEF Answers, Step
<1>3. CASE q.low = q.high
  <2>1. FirstIn(q, Answers[q]) /\ q.low <= q.high /\ q.low >= q.high
    BY <1>1, <1>3, AnswersFirst
  <2>2. Answers[q] \in q.low..q.high
    BY <2>1 DEF FirstIn
  <2>3. Answers[q] = q.low
    BY <1>1, <1>3, <2>2
  <2> QED BY <2>1, <2>3 DEF Step
<1>4. CASE q.low < q.high
  <2>1. mid \in q.low..(q.high - 1) /\ lower \in Lookup /\ upper \in Lookup /\ lower.low <= lower.high /\ upper.low <= upper.high
    BY <1>4, Halves
  <2>2. FirstIn(lower, Answers[lower]) /\ FirstIn(upper, Answers[upper]) /\ FirstIn(q, Answers[q])
    <3> HIDE DEF lower, upper
    <3> QED BY <1>1, <1>4, <2>1, AnswersFirst
  <2>3. ~(q.low >= q.high)
    BY <1>1, <1>4
  <2>4. Step(Answers, q) = IF MonthOf(mid) < q.month THEN Answers[lower] ELSE Answers[upper]
    BY <2>3 DEF Step
  <2>5. FirstIn(q, Step(Answers, q))
    <3> HIDE DEF mid
    <3> QED BY <1>4, <2>1, <2>2, <2>4, FirstInHalf
  <2> QED BY <2>2, <2>5, FirstIsOne
<1> QED BY <1>1, <1>2, <1>3, <1>4

LEMMA SearchSolves == Search = [q \in Lookup |-> Step(Search, q)]
<1> DEFINE Solves(f) == f = [q \in Lookup |-> Step(f, q)]
<1>1. Solves(Answers)
  BY AnswersSolves
<1>2. Search = CHOOSE f : Solves(f)
  BY DEF Search, Lookup, Step
<1> HIDE DEF Solves
<1>3. Solves(Search)
  BY <1>1, <1>2
<1> QED BY <1>3 DEF Solves

LEMMA SearchFinds == \A q \in Lookup : q.low <= q.high => FirstIn(q, Search[q])
<1> DEFINE Missed == {q \in Lookup : q.low <= q.high /\ ~FirstIn(q, Search[q])}
           Widths == {q.high - q.low : q \in Missed}
<1> SUFFICES ASSUME Missed # {} PROVE FALSE
  OBVIOUS
<1>0. \A q \in Lookup : q.low \in Nat /\ q.high \in Nat
  BY SetupNumbers DEF Lookup, Heights
<1>1. Widths \subseteq Nat /\ Widths # {}
  BY <1>0
<1>2. PICK n \in Widths : \A k \in Widths : ~(<<k, n>> \in OpToRel(<, Nat))
  <2> HIDE DEF Widths
  <2> QED BY <1>1, NatLessThanWellFounded, WFMin
<1>3. PICK q \in Missed : n = q.high - q.low
  OBVIOUS
<1>4. \A r \in Missed : ~(r.high - r.low < q.high - q.low)
  <2>1. \A k \in Widths : ~(k < n)
    BY <1>1, <1>2 DEF OpToRel
  <2> QED BY <1>3, <2>1
<1>5. q \in Lookup /\ q.low <= q.high /\ ~FirstIn(q, Search[q])
  BY <1>3
<1>6. \A r \in Lookup : r.low <= r.high /\ r.high - r.low < q.high - q.low => FirstIn(r, Search[r])
  BY <1>4
<1>7. Search[q] = Step(Search, q)
  BY <1>5, SearchSolves
<1> HIDE DEF Missed, Widths
<1> DEFINE mid == (q.low + q.high) \div 2
           lower == [q EXCEPT !.low = mid + 1]
           upper == [q EXCEPT !.high = mid]
<1>8. CASE q.low = q.high
  <2>1. Step(Search, q) = q.low
    BY <1>0, <1>5, <1>8 DEF Step
  <2>2. FirstIn(q, q.low)
    BY <1>0, <1>5, <1>8 DEF FirstIn
  <2> QED BY <1>5, <1>7, <2>1, <2>2
<1>9. CASE q.low < q.high
  <2>1. mid \in q.low..(q.high - 1) /\ lower \in Lookup /\ upper \in Lookup /\ lower.low <= lower.high /\ upper.low <= upper.high
        /\ lower.high - lower.low < q.high - q.low /\ upper.high - upper.low < q.high - q.low
    BY <1>5, <1>9, Halves
  <2>2. FirstIn(lower, Search[lower]) /\ FirstIn(upper, Search[upper])
    <3> HIDE DEF lower, upper
    <3> QED BY <1>6, <2>1
  <2>3. ~(q.low >= q.high)
    BY <1>0, <1>5, <1>9
  <2>4. Step(Search, q) = IF MonthOf(mid) < q.month THEN Search[lower] ELSE Search[upper]
    BY <2>3 DEF Step
  <2>5. FirstIn(q, Step(Search, q))
    <3> HIDE DEF mid
    <3> QED BY <1>5, <1>9, <2>1, <2>2, <2>4, FirstInHalf
  <2> QED BY <1>5, <1>7, <2>5
<1> QED BY <1>0, <1>5, <1>8, <1>9

LEMMA StartsAMonth == \A m \in Months : HeightFor(m) \in Heights \cup {1} /\ FirstOf(HeightFor(m), m)
<1> SUFFICES ASSUME NEW m \in Months PROVE HeightFor(m) \in Heights \cup {1} /\ FirstOf(HeightFor(m), m)
  OBVIOUS
<1>0. m \in Nat /\ Tip \in Nat
  BY SetupNumbers
<1>1. CASE Tip < 1
  <2>1. HeightFor(m) = 1 /\ Heights = {}
    BY <1>0, <1>1 DEF HeightFor, Heights
  <2>2. MonthOf(1) < m => 1 >= Tip
    BY <1>0, <1>1
  <2> QED BY <2>1, <2>2 DEF FirstOf
<1>2. CASE Tip >= 1 /\ MonthOf(Tip) < m
  <2>1. HeightFor(m) = Tip /\ Tip \in Heights
    BY <1>0, <1>2 DEF HeightFor, Heights
  <2>2. \A k \in Heights : ~(MonthOf(k) >= m)
    <3> SUFFICES ASSUME NEW k \in Heights PROVE ~(MonthOf(k) >= m)
      OBVIOUS
    <3>1. MonthOf(k) <= MonthOf(Tip) /\ MonthOf(k) \in Nat /\ MonthOf(Tip) \in Nat
      BY <1>0, MonthsFollow DEF Heights
    <3> QED BY <1>0, <1>2, <3>1
  <2> QED BY <1>0, <2>1, <2>2 DEF FirstOf
<1>3. CASE Tip >= 1 /\ ~(MonthOf(Tip) < m)
  <2> DEFINE q == [month |-> m, low |-> 1, high |-> Tip]
  <2>1. q \in Lookup /\ q.low <= q.high /\ q.low = 1 /\ q.high = Tip /\ q.month = m
    BY <1>0, <1>3 DEF Lookup, Heights
  <2>2. HeightFor(m) = Search[q]
    BY <1>0, <1>3 DEF HeightFor
  <2>3. FirstIn(q, HeightFor(m))
    <3> HIDE DEF q
    <3> QED BY <2>1, <2>2, SearchFinds
  <2>4. /\ HeightFor(m) \in 1..Tip
        /\ \A k \in 1..Tip : MonthOf(k) >= m => k >= HeightFor(m)
        /\ MonthOf(HeightFor(m)) >= m \/ HeightFor(m) = Tip
    BY <2>1, <2>3 DEF FirstIn
  <2>5. MonthOf(HeightFor(m)) \in Nat
    BY <2>4, MonthsFollow
  <2>6. MonthOf(HeightFor(m)) < m => HeightFor(m) >= Tip
    BY <1>0, <2>4, <2>5
  <2> QED BY <2>4, <2>6 DEF FirstOf, Heights
<1> QED BY <1>0, <1>1, <1>2, <1>3

(* The words *)

NothingAfterPut == "fails after put" \notin Uncommon

LEMMA PhrasesApart ==
    /\ \A n : IsNew(NewPhrase(n)) /\ NewPhrase(n)[2] = n
    /\ \A t : ~IsNew(<<"typed", t>>)
    /\ ~IsNew(NoPhrase)
  BY DEF IsNew, NewPhrase, NoPhrase

LEMMA SetupTyped == SetupType /\ [SetupNext]_setupVars => SetupType'
<1> SUFFICES ASSUME SetupType, [SetupNext]_setupVars PROVE SetupType'
  OBVIOUS
<1> USE DEF SetupType, words, start, late, kept
<1>1. CASE Walks
  BY <1>1 DEF Walks, Welcome, BackToWelcome, Reveal, StartConfirm, BackToShow, ToPassword, BackToConfirm, Pick, Unpick
<1>2. CASE LeavesOrEnters
  BY <1>2 DEF LeavesOrEnters
<1>3. CASE StartCreate
  BY <1>3 DEF StartCreate
<1>4. CASE Generated
  <2>1. /\ generating' = FALSE /\ news' = news + 1 /\ imported' = FALSE /\ revealed' = FALSE /\ finishing' = finishing
        /\ mark' = [set |-> TRUE, notice |-> FALSE, of |-> phrase']
    BY <1>4 DEF Generated
  <2>2. mark'.set = TRUE /\ mark'.notice = FALSE /\ mark'.of = phrase'
    BY <2>1
  <2>3. mark' = [set |-> mark'.set, notice |-> mark'.notice, of |-> mark'.of] /\ mark'.set \in BOOLEAN /\ mark'.notice \in BOOLEAN
    BY <2>1, <2>2
  <2>4. imported' \in BOOLEAN /\ revealed' \in BOOLEAN /\ generating' \in BOOLEAN
    BY <2>1
  <2>5. news' \in Nat
    BY <2>1 DEF SetupType
  <2>6. finishing' = NotFinishing \/ (finishing' = [at |-> finishing'.at, record |-> finishing'.record] /\ finishing'.at \in {"sealing", "opening"})
    BY <2>1
  <2> QED BY <2>3, <2>4, <2>5, <2>6
<1>5. CASE DropWords \/ DismissNotice
  <2>1. mark' = [mark EXCEPT !.set = FALSE] \/ mark' = [mark EXCEPT !.set = FALSE, !.notice = FALSE]
    BY <1>5 DEF DropWords, DismissNotice
  <2>2. mark' = [set |-> FALSE, notice |-> mark.notice, of |-> mark.of] \/ mark' = [set |-> FALSE, notice |-> FALSE, of |-> mark.of]
    BY <2>1
  <2>3. (revealed' = FALSE \/ revealed' = revealed) /\ UNCHANGED <<imported, generating, news, finishing>>
    BY <1>5 DEF DropWords, DismissNotice
  <2>4. mark' = [set |-> mark'.set, notice |-> mark'.notice, of |-> mark'.of] /\ mark'.set \in BOOLEAN /\ mark'.notice \in BOOLEAN
    <3>1. CASE mark' = [set |-> FALSE, notice |-> mark.notice, of |-> mark.of]
      BY <3>1
    <3>2. CASE mark' = [set |-> FALSE, notice |-> FALSE, of |-> mark.of]
      BY <3>2
    <3> QED BY <2>2, <3>1, <3>2
  <2> QED BY <2>3, <2>4
<1>6. CASE ChooseHow \/ ChooseMonth \/ Answered \/ TypeBlock \/ Continue
  BY <1>6 DEF ChooseHow, ChooseMonth, Answered, TypeBlock, Continue
<1>7. CASE OnPhrase
  BY <1>7 DEF OnPhrase
<1>8. CASE Finish
  <2>1. PICK r : finishing' = [at |-> "sealing", record |-> r]
    BY <1>8 DEF Finish
  <2>2. UNCHANGED <<imported, revealed, generating, news, mark>>
    BY <1>8 DEF Finish
  <2> QED BY <2>1, <2>2
<1>9. CASE RecordPut
  <2>1. finishing.at = "sealing" /\ finishing' = [finishing EXCEPT !.at = "opening"] /\ UNCHANGED <<imported, revealed, generating, news, mark>>
    BY <1>9 DEF RecordPut
  <2>2. finishing' = [at |-> "opening", record |-> finishing.record]
    BY <2>1 DEF NotFinishing
  <2> QED BY <2>1, <2>2
<1>10. CASE Made
  <2>1. finishing' = NotFinishing /\ mark' = [mark EXCEPT !.set = FALSE] /\ UNCHANGED <<imported, revealed, generating, news>>
    BY <1>10 DEF Made
  <2>2. mark' = [set |-> FALSE, notice |-> mark.notice, of |-> mark.of]
    BY <2>1
  <2> QED BY <2>1, <2>2
<1>11. CASE MakingFails
  BY <1>11 DEF MakingFails
<1>12. CASE Reload
  <2>1. finishing' = NotFinishing /\ mark' = [mark EXCEPT !.notice = mark.set] /\ imported' = FALSE /\ revealed' = FALSE /\ generating' = FALSE /\ news' = news
    BY <1>12 DEF Reload
  <2>2. mark' = [set |-> mark.set, notice |-> mark.set, of |-> mark.of]
    BY <2>1
  <2> QED BY <2>1, <2>2
<1>13. CASE UNCHANGED setupVars
  BY <1>13 DEF setupVars
<1> QED BY <1>1, <1>2, <1>3, <1>4, <1>5, <1>6, <1>7, <1>8, <1>9, <1>10, <1>11, <1>12, <1>13 DEF SetupNext

LEMMA WordsKept == SetupType /\ WordsInv /\ [SetupNext]_setupVars => WordsInv'
<1> SUFFICES ASSUME SetupType, WordsInv, [SetupNext]_setupVars PROVE WordsInv'
  OBVIOUS
<1> USE DEF WordsInv, Confirmed, words, start, late, kept
<1>1. CASE Walks
  <2>1. UNCHANGED <<finishing, wallets>>
    BY <1>1 DEF Walks
  <2>2. CASE Welcome \/ BackToWelcome \/ Pick \/ Unpick
    BY <2>1, <2>2 DEF Welcome, BackToWelcome, Pick, Unpick, Goes
  <2>3. CASE Reveal \/ StartConfirm \/ BackToShow \/ ToPassword
    BY <2>1, <2>3 DEF Reveal, StartConfirm, BackToShow, ToPassword, Goes
  <2>4. CASE BackToConfirm
    BY <2>1, <2>4 DEF BackToConfirm, Goes
  <2> QED BY <1>1, <2>2, <2>3, <2>4 DEF Walks
<1>2. CASE LeavesOrEnters
  BY <1>2 DEF LeavesOrEnters, BackFromImport, ToImport, Goes
<1>3. CASE StartCreate
  BY <1>3 DEF StartCreate
<1>4. CASE Generated
  <2>1. step' = "show" /\ imported' = FALSE /\ phrase' = NewPhrase(news + 1) /\ UNCHANGED <<finishing, wallets>>
    BY <1>4 DEF Generated
  <2> QED BY <2>1, PhrasesApart
<1>5. CASE DropWords \/ DismissNotice
  BY <1>5 DEF DropWords, DismissNotice, Goes
<1>6. CASE ChooseHow \/ ChooseMonth \/ Answered \/ TypeBlock \/ Continue
  <2>1. UNCHANGED <<step, words, finishing, wallets>>
    BY <1>6 DEF ChooseHow, ChooseMonth, Answered, TypeBlock, Continue
  <2> QED BY <2>1
<1>7. CASE OnPhrase
  BY <1>7 DEF OnPhrase
<1>8. CASE Finish
  <2>1. /\ finishing'.at = "sealing" /\ finishing'.record.phrase = phrase /\ finishing'.record.imported = imported
        /\ finishing'.record.slots = slots /\ finishing'.record.shown = revealed
        /\ step = "password" /\ UNCHANGED <<step, words, wallets>>
    BY <1>8 DEF Finish
  <2>2. KeptWords(finishing'.record)
    BY <2>1 DEF KeptWords
  <2> QED BY <2>1, <2>2
<1>9. CASE RecordPut
  <2>1. finishing.at = "sealing" /\ finishing' = [finishing EXCEPT !.at = "opening"] /\ wallets' = wallets \cup {finishing.record} /\ UNCHANGED <<step, words>>
    BY <1>9 DEF RecordPut
  <2>2. finishing'.record = finishing.record
    BY <2>1
  <2>3. KeptWords(finishing.record)
    BY <2>1
  <2>4. \A w \in wallets' : KeptWords(w)
    BY <2>1, <2>3
  <2> QED BY <2>1, <2>2, <2>3, <2>4
<1>10. CASE Made \/ MakingFails
  <2>1. finishing'.at = "no" /\ (step' = "home" \/ step' = step) /\ UNCHANGED <<words, wallets>>
    <3>1. CASE Made
      BY <3>1 DEF Made, NotFinishing
    <3>2. CASE MakingFails
      BY <3>2 DEF MakingFails, NotFinishing
    <3> QED BY <1>10, <3>1, <3>2
  <2> QED BY <2>1
<1>11. CASE Reload
  BY <1>11 DEF Reload, NotFinishing
<1>12. CASE UNCHANGED setupVars
  BY <1>12 DEF setupVars
<1> QED BY <1>1, <1>2, <1>3, <1>4, <1>5, <1>6, <1>7, <1>8, <1>9, <1>10, <1>11, <1>12 DEF SetupNext

LEMMA NumberedStays == ASSUME NEW p, Numbered(p), news \in Nat, news' = news \/ news' = news + 1 PROVE Numbered(p)'
  <1>1. 1..news \subseteq 1..news'
    OBVIOUS
  <1> QED BY <1>1 DEF Numbered

LEMMA MarkKept == NothingAfterPut /\ SetupType /\ MarkInv /\ [SetupNext]_setupVars => MarkInv'
<1> SUFFICES ASSUME NothingAfterPut, SetupType, MarkInv, [SetupNext]_setupVars PROVE MarkInv'
  OBVIOUS
<1> USE DEF MarkInv, words, start, late, kept
<1>0. /\ mark = [set |-> mark.set, notice |-> mark.notice, of |-> mark.of] /\ mark.set \in BOOLEAN /\ mark.notice \in BOOLEAN
      /\ finishing = NotFinishing \/ (finishing = [at |-> finishing.at, record |-> finishing.record] /\ finishing.at \in {"sealing", "opening"})
      /\ news \in Nat
  BY DEF SetupType
<1>1. ASSUME UNCHANGED <<phrase, generating, checking, finishing, wallets, mark, news>> PROVE MarkInv'
  BY <1>1 DEF Numbered
<1>2. CASE Walks
  <2>1. UNCHANGED phrase
    BY <1>2 DEF Walks, Welcome, BackToWelcome, Reveal, StartConfirm, BackToShow, ToPassword, BackToConfirm, Pick, Unpick
  <2> QED BY <1>1, <1>2, <2>1 DEF Walks
<1>3. CASE LeavesOrEnters
  BY <1>1, <1>3 DEF LeavesOrEnters
<1>4. CASE StartCreate
  BY <1>0, <1>4 DEF StartCreate, Busy, Numbered, NotFinishing
<1>5. CASE Generated
  <2>0. PICK n \in Nat : n = news + 1
    BY <1>0
  <2> DEFINE p == NewPhrase(n)
  <2>1. generating /\ generating' = FALSE /\ news' = news + 1 /\ phrase' = p
        /\ mark' = [set |-> TRUE, notice |-> FALSE, of |-> p] /\ UNCHANGED <<checking, finishing, wallets>>
    BY <1>5, <2>0 DEF Generated
  <2>2. finishing.at = "no"
    BY <2>1
  <2>3. Numbered(p)' /\ IsNew(p)
    <3>1. p[2] = n /\ n \in 1..news' /\ IsNew(p)
      BY <1>0, <2>0, <2>1, PhrasesApart
    <3> QED BY <3>1 DEF Numbered
  <2>4. \A w \in wallets : w.phrase # p
    <3> SUFFICES ASSUME NEW w \in wallets, w.phrase = p PROVE FALSE
      OBVIOUS
    <3>1. p[2] \in 1..news /\ p[2] = news + 1
      BY <2>0, <2>3, PhrasesApart DEF Numbered
    <3> QED BY <1>0, <3>1
  <2>5. \A w \in wallets : Numbered(w.phrase)'
    BY <1>0, <2>1, NumberedStays
  <2> HIDE DEF p
  <2>6. phrase' = p /\ mark'.of = p /\ mark'.set = TRUE /\ mark'.notice = FALSE /\ wallets' = wallets /\ finishing'.at = "no" /\ checking' = checking
    BY <2>1, <2>2
  <2>7. Numbered(phrase)' /\ Numbered(mark.of)' /\ (\A w \in wallets : Numbered(w.phrase))' /\ IsNew(mark'.of) /\ \A w \in wallets' : w.phrase # mark'.of
    BY <2>3, <2>4, <2>5, <2>6 DEF Numbered
  <2> QED BY <2>6, <2>7
<1>6. CASE DropWords \/ DismissNotice
  <2>1. /\ phrase' = NoPhrase \/ phrase' = phrase
        /\ mark' = [mark EXCEPT !.set = FALSE] \/ mark' = [mark EXCEPT !.set = FALSE, !.notice = FALSE]
        /\ UNCHANGED <<generating, checking, finishing, wallets, news>>
    BY <1>6 DEF DropWords, DismissNotice
  <2>2. mark'.set = FALSE /\ (mark'.notice = mark.notice \/ mark'.notice = FALSE) /\ mark'.of = mark.of
    BY <1>0, <2>1
  <2>3. Numbered(phrase') /\ (mark.notice => phrase' # mark.of)
    BY <2>1, PhrasesApart DEF Numbered
  <2> QED BY <1>0, <2>1, <2>2, <2>3 DEF Numbered
<1>7. CASE ChooseHow \/ ChooseMonth \/ Answered \/ TypeBlock
  BY <1>1, <1>7 DEF ChooseHow, ChooseMonth, Answered, TypeBlock
<1>8. CASE Continue
  <2>1. PICK t \in Typed : checking' = [phrase |-> <<"typed", t>>, said |-> Says]
    BY <1>8 DEF Continue
  <2>2. ~IsNew(checking'.phrase) /\ UNCHANGED <<phrase, generating, finishing, wallets, mark, news>>
    BY <1>8, <2>1, PhrasesApart DEF Continue
  <2> QED BY <2>2 DEF Numbered
<1>9. CASE OnPhrase
  <2>1. checking # NoCheck /\ checking' = NoCheck /\ (phrase' = phrase \/ phrase' = checking.phrase) /\ UNCHANGED <<generating, finishing, wallets, mark, news>>
    BY <1>9 DEF OnPhrase
  <2>2. Numbered(phrase') /\ (mark.notice => phrase' # mark.of)
    BY <2>1 DEF Numbered
  <2> QED BY <2>1, <2>2 DEF Numbered
<1>10. CASE Finish
  <2>1. ~generating /\ finishing'.at = "sealing" /\ finishing'.record.phrase = phrase /\ finishing.at = "no"
        /\ UNCHANGED <<phrase, generating, checking, wallets, mark, news>>
    BY <1>10 DEF Finish, Busy, NotFinishing
  <2> QED BY <2>1 DEF Numbered
<1>11. CASE RecordPut
  <2>1. finishing.at = "sealing" /\ finishing' = [finishing EXCEPT !.at = "opening"] /\ wallets' = wallets \cup {finishing.record}
        /\ UNCHANGED <<phrase, generating, checking, mark, news>>
    BY <1>11 DEF RecordPut
  <2>2. finishing' = [at |-> "opening", record |-> finishing.record]
    BY <1>0, <2>1 DEF NotFinishing
  <2>3. finishing'.at = "opening" /\ finishing'.record = finishing.record
    BY <2>2
  <2> QED BY <2>1, <2>3 DEF Numbered
<1>12. CASE Made
  <2>1. finishing'.at = "no" /\ mark' = [mark EXCEPT !.set = FALSE] /\ UNCHANGED <<phrase, generating, checking, wallets, news>>
    BY <1>12 DEF Made, NotFinishing
  <2>2. mark'.set = FALSE /\ mark'.notice = mark.notice /\ mark'.of = mark.of
    BY <1>0, <2>1
  <2> QED BY <2>1, <2>2 DEF Numbered
<1>13. CASE MakingFails
  <2>1. finishing'.at = "no" /\ finishing.at = "sealing" /\ UNCHANGED <<phrase, generating, checking, wallets, mark, news>>
    BY <1>13 DEF MakingFails, NotFinishing, NothingAfterPut
  <2> QED BY <2>1 DEF Numbered
<1>14. CASE Reload
  <2>1. /\ finishing'.at = "no" /\ finishing.at # "opening" /\ phrase' = NoPhrase /\ generating' = FALSE /\ checking' = NoCheck
        /\ mark' = [mark EXCEPT !.notice = mark.set] /\ UNCHANGED <<wallets, news>>
    BY <1>14 DEF Reload, NotFinishing, NothingAfterPut
  <2>2. mark'.set = mark.set /\ mark'.notice = mark.set /\ mark'.of = mark.of
    BY <1>0, <2>1
  <2>3. Numbered(phrase') /\ (mark.set => phrase' # mark.of)
    BY <2>1, PhrasesApart DEF Numbered
  <2> QED BY <1>0, <2>1, <2>2, <2>3 DEF Numbered
<1>15. CASE UNCHANGED setupVars
  BY <1>1, <1>15 DEF setupVars
<1> QED BY <1>2, <1>3, <1>4, <1>5, <1>6, <1>7, <1>8, <1>9, <1>10, <1>11, <1>12, <1>13, <1>14, <1>15 DEF SetupNext

LEMMA WordsStart == SetupInit => SetupType /\ WordsInv /\ MarkInv
<1> SUFFICES ASSUME SetupInit PROVE SetupType /\ WordsInv /\ MarkInv
  OBVIOUS
<1>1. ~IsNew(NoPhrase)
  BY PhrasesApart
<1>2. mark = [set |-> FALSE, notice |-> FALSE, of |-> NoPhrase] /\ finishing = NotFinishing /\ wallets = {} /\ step = "welcome"
      /\ phrase = NoPhrase /\ checking = NoCheck /\ imported = FALSE /\ revealed = FALSE /\ generating = FALSE /\ news = 0
  BY DEF SetupInit
<1>3. finishing.at = "no"
  BY <1>2 DEF NotFinishing
<1> QED BY <1>1, <1>2, <1>3 DEF SetupType, WordsInv, MarkInv, Numbered

\* A wallet made new is made of words shown here and put back in order, and "it belongs to no wallet" is said only of
\* a phrase of which that is so (startCreate, startConfirm, finish, markUnfinished), as long as a new wallet opens
\* once its record is written.
THEOREM MakesOfItsWords == NothingAfterPut /\ SetupSpec => []MadeOfItsWords
<1> SUFFICES ASSUME NothingAfterPut PROVE SetupSpec => []MadeOfItsWords
  OBVIOUS
<1> DEFINE Inv == SetupType /\ WordsInv /\ MarkInv
<1>1. SetupInit => Inv
  BY WordsStart
<1>2. Inv /\ [SetupNext]_setupVars => Inv'
  BY SetupTyped, WordsKept, MarkKept
<1>3. Inv => MadeOfItsWords
  <2> SUFFICES ASSUME Inv PROVE MadeOfItsWords
    OBVIOUS
  <2>1. \A w \in wallets : ~w.imported => w.shown /\ (\A p \in Places : w.slots[p] = p) /\ w.phrase[1] = "new"
    BY DEF WordsInv, KeptWords, IsNew
  <2>2. mark.notice => \A w \in wallets : w.phrase # mark.of
    BY DEF MarkInv
  <2> QED BY <2>1, <2>2 DEF MadeOfItsWords
<1> HIDE DEF Inv
<1> QED BY <1>1, <1>2, <1>3, PTL DEF SetupSpec

(* Where the scan starts *)

OneAtATime == Uncommon \cap {"edits while checking", "opens twice", "clears while looking", "folded"} = {}
StartInv == SetupType /\ WordsInv /\ LooksTyped /\ PickInv /\ SaidInv

LEMMA AgreesStays ==
    ASSUME NEW s, Agrees(s), UNCHANGED <<fast, when>>,
           fast \/ when # "month" \/ (birthday' = birthday /\ (NoLook => NoLook')), LooksTyped
    PROVE  Agrees(s)'
<1>1. CASE fast \/ when = "never"
  BY <1>1 DEF Agrees, Unknown
<1>2. CASE ~fast /\ when = "unknown"
  BY <1>2 DEF Agrees, Everything
<1>3. CASE ~fast /\ when = "month"
  <2>1. NoLook /\ (s = <<"block", birthday>> \/ \E m \in Months : s = <<"month", m>> /\ birthday = HeightFor(m))
    BY <1>3 DEF Agrees
  <2>2. birthday' = birthday /\ NoLook'
    BY <1>3, <2>1
  <2>3. (s = <<"block", birthday'>> \/ \E m \in Months : s = <<"month", m>> /\ birthday' = HeightFor(m))
    BY <2>1, <2>2
  <2>4. ~fast' /\ when' = "month"
    BY <1>3
  <2> QED BY <2>2, <2>3, <2>4 DEF Agrees, HeightFor
<1> QED BY <1>1, <1>2, <1>3 DEF LooksTyped

\* The field asks about its month.
LEMMA Asks ==
    ASSUME NEW f \in 1..MaxFields, NEW m \in Months \cup {NoMonth}, Looks(f, m), LooksTyped,
           \A q \in asked : Current(q) => q.field = f
    PROVE  /\ m = NoMonth => UNCHANGED <<latest, asked>>
           /\ latest' \in [1..MaxFields -> Nat]
           /\ asked' \subseteq [field : 1..MaxFields, token : Nat, month : Months]
           /\ \A q \in asked' : q.token <= latest'[q.field]
           /\ m # NoMonth => \A q \in asked' : Current(q)' => q.field = f /\ q.month = m
<1>0. /\ latest \in [1..MaxFields -> Nat]
      /\ asked \subseteq [field : 1..MaxFields, token : Nat, month : Months]
      /\ \A q \in asked : q.token <= latest[q.field]
  BY DEF LooksTyped
<1>1. CASE m = NoMonth
  BY <1>0, <1>1 DEF Looks
<1>2. CASE m # NoMonth
  <2> DEFINE n == latest[f] + 1
             new == [field |-> f, token |-> n, month |-> m]
  <2>1. latest' = [latest EXCEPT ![f] = n] /\ asked' = asked \cup {new}
    BY <1>2 DEF Looks
  <2>2. n \in Nat /\ n > latest[f] /\ new \in [field : 1..MaxFields, token : Nat, month : Months]
    BY <1>0, <1>2
  <2>3. latest' \in [1..MaxFields -> Nat] /\ latest'[f] = n /\ \A g \in 1..MaxFields : g # f => latest'[g] = latest[g]
    <3> HIDE DEF n
    <3> QED BY <1>0, <2>1, <2>2
  <2>4. new.field = f /\ new.token = n /\ new.month = m
    OBVIOUS
  <2> HIDE DEF n, new
  <2>5. \A q \in asked : q.field \in 1..MaxFields /\ q.token \in Nat /\ q.token <= latest[q.field] /\ latest[q.field] \in Nat
    BY <1>0
  <2>6. \A q \in asked : q.token <= latest'[q.field]
    <3> SUFFICES ASSUME NEW q \in asked PROVE q.token <= latest'[q.field]
      OBVIOUS
    <3>1. CASE q.field = f
      BY <2>2, <2>3, <2>5, <3>1
    <3>2. CASE q.field # f
      BY <2>3, <2>5, <3>2
    <3> QED BY <3>1, <3>2
  <2>7. \A q \in asked : q.token # latest'[q.field]
    <3> SUFFICES ASSUME NEW q \in asked PROVE q.token # latest'[q.field]
      OBVIOUS
    <3>1. CASE q.field = f
      BY <2>2, <2>3, <2>5, <3>1
    <3>2. CASE q.field # f
      BY <2>3, <2>5, <3>2 DEF Current
    <3> QED BY <3>1, <3>2
  <2>8. \A q \in asked' : q = new \/ q \in asked
    BY <2>1
  <2>9. asked' \subseteq [field : 1..MaxFields, token : Nat, month : Months]
    BY <1>0, <2>2, <2>8
  <2>10. \A q \in asked' : q.token <= latest'[q.field]
    BY <2>2, <2>3, <2>4, <2>6, <2>8
  <2>11. \A q \in asked' : Current(q)' => q.field = f /\ q.month = m
    BY <2>4, <2>7, <2>8 DEF Current
  <2> QED BY <1>2, <2>3, <2>9, <2>10, <2>11
<1> QED BY <1>1, <1>2

\* What the screen says of the start is so, once the person may go on.
LEMMA SaysSo ==
    ASSUME LooksTyped, PickInv, StartKnown, fast \/ when # "month" \/ form.open
    PROVE  Agrees(Says)
<1>0. fast \in BOOLEAN /\ when \in {"unknown", "month", "never"}
  BY DEF LooksTyped
<1>1. CASE fast \/ when = "never"
  <2>1. Says = <<"block", Unknown>>
    BY <1>1 DEF Says, Picking, Shown
  <2> QED BY <1>1, <2>1 DEF Agrees
<1>2. CASE ~fast /\ when = "unknown"
  <2>1. Says = <<"block", Everything>>
    BY <1>2 DEF Says, Picking, Shown
  <2> QED BY <1>2, <2>1 DEF Agrees
<1>3. CASE ~fast /\ when = "month"
  <2>1. Picking /\ form.lookup # "looking"
    BY <1>3 DEF Picking, Shown, StartKnown
  <2>2. NoLook /\ (form.lookup = "found" => month \in Months /\ birthday = HeightFor(month))
    BY <2>1 DEF PickInv
  <2>3. Says = IF form.lookup = "found" THEN <<"month", month>> ELSE <<"block", birthday>>
    BY <1>3, <2>1 DEF Says
  <2>4. Says = <<"block", birthday>> \/ \E m \in Months : Says = <<"month", m>> /\ birthday = HeightFor(m)
    BY <2>2, <2>3
  <2> QED BY <1>3, <2>2, <2>4 DEF Agrees
<1> QED BY <1>0, <1>1, <1>2, <1>3

LEMMA StartsAsSaid == ASSUME Agrees(said), imported, LooksTyped PROVE said = <<"block", StartBlock>> \/ \E m \in Months : said = <<"month", m>> /\ StartBlock = HeightFor(m)
<1>1. CASE fast \/ when = "never"
  BY <1>1 DEF Agrees, StartBlock
<1>2. CASE ~fast /\ when = "unknown"
  BY <1>2 DEF Agrees, StartBlock
<1>3. CASE ~fast /\ when = "month"
  <2>1. StartBlock = birthday
    BY <1>3 DEF StartBlock
  <2>2. said = <<"block", birthday>> \/ \E m \in Months : said = <<"month", m>> /\ birthday = HeightFor(m)
    BY <1>3 DEF Agrees
  <2> QED BY <2>1, <2>2
<1> QED BY <1>1, <1>2, <1>3 DEF LooksTyped

LEMMA StartSame ==
    ASSUME StartInv, UNCHANGED start
    PROVE  LooksTyped' /\ PickInv' /\ \A s : Agrees(s) => Agrees(s)'
<1>1. UNCHANGED <<when, fast, month, birthday, form, field, latest, asked>>
  BY DEF start
<1>2. LooksTyped'
  BY <1>1 DEF StartInv, LooksTyped
<1>3. NoLook' = NoLook
  BY <1>1 DEF NoLook, Current
<1>4. PickInv'
  BY <1>1, <1>3 DEF StartInv, PickInv, Picking, Current, HeightFor
<1>5. \A s : Agrees(s) => Agrees(s)'
  BY <1>1, <1>3, AgreesStays DEF StartInv
<1> QED BY <1>2, <1>4, <1>5

\* The choices of the import step, which are all there is while no phrase is being checked.
LEMMA ChoicesKept ==
    ASSUME OneAtATime, StartInv, ChooseHow \/ ChooseMonth \/ TypeBlock
    PROVE  LooksTyped' /\ PickInv' /\ SaidInv'
<1>0. /\ field \in 0..MaxFields /\ form.before \in 0..field /\ form.open \in BOOLEAN
      /\ form.lookup \in {"idle", "looking", "found", "failed"}
      /\ form = [open |-> form.open, lookup |-> form.lookup, before |-> form.before]
      /\ fast \in BOOLEAN /\ when \in {"unknown", "month", "never"} /\ month \in Months \cup {NoMonth}
      /\ latest \in [1..MaxFields -> Nat]
      /\ asked \subseteq [field : 1..MaxFields, token : Nat, month : Months]
      /\ \A q \in asked : q.token <= latest[q.field]
      /\ MaxFields \in Nat
  BY SetupNumbers DEF StartInv, LooksTyped
<1>1. step = "import" /\ checking = NoCheck /\ UNCHANGED <<step, words, late, kept>>
  BY DEF ChooseHow, ChooseMonth, TypeBlock, Editable, OneAtATime
<1>2. SaidInv'
  BY <1>1 DEF StartInv, SaidInv, words, late, kept
<1>3. CASE ChooseHow /\ ~(Shown(TRUE, fast', when') /\ ~Picking)
  <2>1. form' = [form EXCEPT !.open = TRUE] /\ fast' \in BOOLEAN /\ when' \in {"unknown", "month", "never"}
        /\ UNCHANGED <<month, birthday, field, latest, asked>>
    BY <1>0, <1>3 DEF ChooseHow
  <2>2. form' = [open |-> TRUE, lookup |-> form.lookup, before |-> form.before]
    BY <1>0, <2>1
  <2>3. ~Picking'
    <3> SUFFICES ASSUME Picking' PROVE FALSE
      OBVIOUS
    <3>1. ~fast' /\ when' = "month" /\ Picking
      BY <1>3, <2>2 DEF Picking, Shown
    <3>2. form.open /\ ~fast /\ when = "month"
      BY <3>1 DEF Picking, Shown
    <3> QED BY <1>3, <3>1, <3>2 DEF ChooseHow
  <2>4. LooksTyped'
    <3>1. form' \in [open : BOOLEAN, lookup : {"idle", "looking", "found", "failed"}, before : Nat] /\ form'.before = form.before
      BY <1>0, <2>2
    <3> QED BY <1>0, <2>1, <3>1 DEF LooksTyped
  <2> QED BY <1>2, <2>3, <2>4 DEF PickInv
<1>4. CASE ChooseHow /\ Shown(TRUE, fast', when') /\ ~Picking
  <2>1. /\ field < MaxFields /\ asked = {} /\ field' = field + 1 /\ Looks(field', month)
        /\ form' = [form EXCEPT !.open = TRUE, !.lookup = LookupOf(month)]
        /\ fast' \in BOOLEAN /\ when' \in {"unknown", "month", "never"} /\ UNCHANGED <<month, birthday>>
    BY <1>0, <1>4 DEF ChooseHow, OneAtATime
  <2>2. form' = [open |-> TRUE, lookup |-> LookupOf(month), before |-> form.before] /\ LookupOf(month) \in {"idle", "looking"}
    BY <1>0, <2>1 DEF LookupOf
  <2>3. field' \in 1..MaxFields /\ field' > form.before /\ field' \in 0..MaxFields /\ form.before \in 0..field'
    BY <1>0, <2>1
  <2>4. /\ month = NoMonth => UNCHANGED <<latest, asked>>
        /\ latest' \in [1..MaxFields -> Nat]
        /\ asked' \subseteq [field : 1..MaxFields, token : Nat, month : Months]
        /\ \A q \in asked' : q.token <= latest'[q.field]
        /\ month # NoMonth => \A q \in asked' : Current(q)' => q.field = field' /\ q.month = month
    <3>1. LooksTyped /\ \A q \in asked : Current(q) => q.field = field'
      BY <2>1 DEF StartInv
    <3> QED BY <1>0, <2>1, <2>3, <3>1, Asks
  <2>5. LooksTyped'
    <3>1. form' \in [open : BOOLEAN, lookup : {"idle", "looking", "found", "failed"}, before : Nat] /\ form'.before = form.before
      BY <1>0, <2>2
    <3> QED BY <1>0, <2>1, <2>3, <2>4, <3>1 DEF LooksTyped
  <2>6. form'.lookup # "looking" => NoLook'
    BY <2>1, <2>2, <2>4 DEF LookupOf, NoLook
  <2>7. \A q \in asked' : Current(q)' => q.field = field' /\ q.month = month'
    BY <2>1, <2>4
  <2>8. field' > form'.before /\ form'.lookup # "found"
    BY <2>2, <2>3
  <2> QED BY <1>2, <2>5, <2>6, <2>7, <2>8 DEF PickInv
<1>5. CASE ChooseMonth
  <2>1. /\ Picking /\ month' \in Months \cup {NoMonth} /\ Looks(field, month')
        /\ (month' = NoMonth => form.lookup # "looking")
        /\ form' = [form EXCEPT !.lookup = LookupOf(month')] /\ UNCHANGED <<when, fast, birthday, field>>
    BY <1>5 DEF ChooseMonth, OneAtATime
  <2>2. form' = [open |-> form.open, lookup |-> LookupOf(month'), before |-> form.before] /\ LookupOf(month') \in {"idle", "looking"}
    BY <1>0, <2>1 DEF LookupOf
  <2>3. field > form.before /\ (\A q \in asked : Current(q) => q.field = field) /\ (form.lookup # "looking" => NoLook)
    BY <2>1 DEF StartInv, PickInv
  <2>4. field \in 1..MaxFields
    BY <1>0, <2>3
  <2>5. /\ month' = NoMonth => UNCHANGED <<latest, asked>>
        /\ latest' \in [1..MaxFields -> Nat]
        /\ asked' \subseteq [field : 1..MaxFields, token : Nat, month : Months]
        /\ \A q \in asked' : q.token <= latest'[q.field]
        /\ month' # NoMonth => \A q \in asked' : Current(q)' => q.field = field /\ q.month = month'
    <3>1. LooksTyped
      BY DEF StartInv
    <3>2. PICK m \in Months \cup {NoMonth} : m = month'
      BY <2>1
    <3> QED BY <2>1, <2>3, <2>4, <3>1, <3>2, Asks
  <2>6. LooksTyped'
    BY <1>0, <2>1, <2>2, <2>5 DEF LooksTyped
  <2>7. month' = NoMonth => NoLook'
    BY <2>1, <2>3, <2>5 DEF NoLook, Current
  <2>8. form'.lookup # "looking" => NoLook'
    BY <2>2, <2>7 DEF LookupOf
  <2>9. \A q \in asked' : Current(q)' => q.field = field' /\ q.month = month'
    BY <2>1, <2>5, <2>7 DEF NoLook
  <2>10. field' > form'.before /\ form'.lookup # "found"
    BY <2>1, <2>2, <2>3
  <2> QED BY <1>2, <2>6, <2>8, <2>9, <2>10 DEF PickInv
<1>6. CASE TypeBlock
  <2> DEFINE lookup == IF form.lookup = "found" THEN "idle" ELSE form.lookup
  <2>1. Picking /\ form' = [form EXCEPT !.lookup = lookup] /\ UNCHANGED <<when, fast, month, field, latest, asked>>
    BY <1>6 DEF TypeBlock
  <2>2. form' = [open |-> form.open, lookup |-> lookup, before |-> form.before]
    BY <1>0, <2>1
  <2>3. lookup \in {"idle", "looking", "failed"} /\ (lookup # "looking" => form.lookup # "looking")
    BY <1>0
  <2> HIDE DEF lookup
  <2>4. /\ field > form.before /\ (form.lookup # "looking" => NoLook)
        /\ \A q \in asked : Current(q) => q.field = field /\ q.month = month
    BY <2>1 DEF StartInv, PickInv
  <2>5. LooksTyped'
    BY <1>0, <2>1, <2>2, <2>3 DEF LooksTyped
  <2>6. NoLook => NoLook'
    BY <2>1 DEF NoLook, Current
  <2>7. field' > form'.before /\ form'.lookup # "found" /\ (form'.lookup # "looking" => NoLook')
    BY <2>1, <2>2, <2>3, <2>4, <2>6
  <2>8. \A q \in asked' : Current(q)' => q.field = field' /\ q.month = month'
    BY <2>1, <2>4 DEF Current
  <2> QED BY <1>2, <2>5, <2>7, <2>8 DEF PickInv
<1> QED BY <1>3, <1>4, <1>5, <1>6

\* An answer that counts is the one to the question the field that is open asked last; no other moves the start then.
LEMMA AnswersKept ==
    ASSUME StartInv, Answered
    PROVE  LooksTyped' /\ PickInv' /\ SaidInv'
<1>0. /\ field \in 0..MaxFields /\ form.before \in 0..field /\ form.open \in BOOLEAN
      /\ form.lookup \in {"idle", "looking", "found", "failed"}
      /\ form = [open |-> form.open, lookup |-> form.lookup, before |-> form.before]
      /\ fast \in BOOLEAN /\ when \in {"unknown", "month", "never"} /\ month \in Months \cup {NoMonth}
      /\ latest \in [1..MaxFields -> Nat]
      /\ asked \subseteq [field : 1..MaxFields, token : Nat, month : Months]
      /\ \A q \in asked : q.token <= latest[q.field]
  BY DEF StartInv, LooksTyped
<1>1. PICK q \in asked :
        /\ asked' = asked \ {q}
        /\ \/ Current(q) /\ birthday' = HeightFor(q.month) /\ Tells(q, "found")
           \/ Current(q) /\ Tells(q, "failed") /\ UNCHANGED birthday
           \/ ~Current(q) /\ UNCHANGED <<birthday, form>>
  BY DEF Answered
<1>2. UNCHANGED <<step, words, late, when, fast, month, field, latest, kept>>
  BY DEF Answered
<1>3. PICK lookup \in {form.lookup, "found", "failed"} : form' = [form EXCEPT !.lookup = lookup]
  <2>1. form = [form EXCEPT !.lookup = form.lookup]
    BY <1>0
  <2> QED BY <1>1, <2>1 DEF Tells
<1>4. form' = [open |-> form.open, lookup |-> lookup, before |-> form.before]
  BY <1>0, <1>3
<1>5. LooksTyped'
  <2>1. form' \in [open : BOOLEAN, lookup : {"idle", "looking", "found", "failed"}, before : Nat] /\ form'.before = form.before
    BY <1>0, <1>3, <1>4
  <2>2. asked' \subseteq asked
    BY <1>1
  <2> QED BY <1>0, <1>2, <2>1, <2>2 DEF LooksTyped
<1>6. Picking' = Picking
  BY <1>2, <1>4 DEF Picking, Shown
<1>7. NoLook => NoLook' /\ birthday' = birthday /\ form' = form
  BY <1>1, <1>2 DEF NoLook, Current
<1>8. SaidInv'
  <2>1. \A s : Agrees(s) => Agrees(s)'
    <3> SUFFICES ASSUME NEW s, Agrees(s) PROVE Agrees(s)'
      OBVIOUS
    <3>1. fast \/ when # "month" \/ NoLook
      BY <1>0 DEF Agrees
    <3> QED BY <1>2, <1>7, <3>1, AgreesStays DEF StartInv
  <2>2. UNCHANGED <<checking, step, imported, said, finishing, wallets>>
    BY <1>2 DEF words, late, kept
  <2> QED BY <2>1, <2>2 DEF StartInv, SaidInv
<1>9. PickInv'
  <2> SUFFICES ASSUME Picking PROVE PickInv'
    BY <1>6 DEF PickInv
  <2>1. /\ field > form.before
        /\ \A r \in asked : Current(r) => r.field = field /\ r.month = month
        /\ form.lookup # "looking" => NoLook
        /\ form.lookup = "found" => month \in Months /\ birthday = HeightFor(month)
    BY DEF StartInv, PickInv
  <2>2. field' > form'.before /\ \A r \in asked' : Current(r)' => r.field = field' /\ r.month = month'
    BY <1>1, <1>2, <1>4, <2>1 DEF Current
  <2>3. CASE ~Current(q)
    <3>1. UNCHANGED <<birthday, form>> /\ (NoLook => NoLook')
      BY <1>1, <1>7, <2>3
    <3> QED BY <1>2, <2>1, <2>2, <3>1 DEF PickInv, HeightFor
  <2>4. CASE Current(q)
    <3>1. q.field = field /\ q.month = month /\ q.token = latest[field]
      BY <2>1, <2>4 DEF Current
    <3>2. \A r \in asked : Current(r) => r = q
      <4> SUFFICES ASSUME NEW r \in asked, Current(r) PROVE r = q
        OBVIOUS
      <4>1. r.field = field /\ r.month = month /\ r.token = latest[field]
        BY <2>1 DEF Current
      <4>2. r \in [field : 1..MaxFields, token : Nat, month : Months] /\ q \in [field : 1..MaxFields, token : Nat, month : Months]
        BY <1>0
      <4> QED BY <3>1, <4>1, <4>2
    <3>3. NoLook'
      BY <1>1, <1>2, <3>2 DEF NoLook, Current
    <3>4. q.month \in Months
      BY <1>0
    <3>5. form'.lookup = "found" => month' \in Months /\ birthday' = HeightFor(month)
      <4>1. q.field > form.before
        BY <2>1, <3>1
      <4>2. \/ birthday' = HeightFor(q.month)
            \/ form' = [form EXCEPT !.lookup = "failed"]
        BY <1>1, <2>4, <4>1 DEF Tells
      <4>3. birthday' = HeightFor(q.month) \/ form'.lookup = "failed"
        BY <1>0, <4>2
      <4> QED BY <1>2, <3>1, <3>4, <4>3
    <3> QED BY <1>2, <2>2, <3>3, <3>5 DEF PickInv, HeightFor
  <2> QED BY <2>3, <2>4
<1> QED BY <1>5, <1>8, <1>9

LEMMA StartKept == OneAtATime /\ StartInv /\ [SetupNext]_setupVars => LooksTyped' /\ PickInv' /\ SaidInv'
<1> SUFFICES ASSUME OneAtATime, StartInv, [SetupNext]_setupVars PROVE LooksTyped' /\ PickInv' /\ SaidInv'
  OBVIOUS
<1>0. /\ checking # NoCheck => Agrees(checking.said)
      /\ step = "password" /\ imported => Agrees(said)
      /\ finishing.at # "no" => Meant(finishing.record)
      /\ \A w \in wallets : Meant(w)
  BY DEF StartInv, SaidInv
<1>s. ASSUME UNCHANGED start PROVE LooksTyped' /\ PickInv' /\ \A s : Agrees(s) => Agrees(s)'
  BY <1>s, StartSame
<1>1. CASE Walks
  <2>1. UNCHANGED <<late, start, kept>>
    BY <1>1 DEF Walks
  <2>2. step' = "password" /\ imported' => step = "password" /\ imported
    BY <1>1 DEF Walks, Welcome, BackToWelcome, Reveal, StartConfirm, BackToShow, ToPassword, BackToConfirm, Pick, Unpick, Goes, words, StartInv, WordsInv
  <2> QED BY <1>0, <1>s, <2>1, <2>2 DEF SaidInv, late, kept
<1>2. CASE LeavesOrEnters
  <2>1. /\ UNCHANGED <<words, generating, checking, when, fast, month, birthday, field, latest, asked, kept>>
        /\ step' \in {"existing", "import"} /\ (form' = Folded \/ form' = [Folded EXCEPT !.before = field])
    BY <1>2 DEF LeavesOrEnters, BackFromImport, ToImport, Goes
  <2>2. form' = [open |-> FALSE, lookup |-> "idle", before |-> 0] \/ form' = [open |-> FALSE, lookup |-> "idle", before |-> field]
    BY <2>1 DEF Folded
  <2>3. field \in 0..MaxFields /\ MaxFields \in Nat
    BY SetupNumbers DEF StartInv, LooksTyped
  <2>4. LooksTyped'
    <3>1. form' \in [open : BOOLEAN, lookup : {"idle", "looking", "found", "failed"}, before : Nat] /\ form'.before \in 0..field
      <4>1. CASE form' = [open |-> FALSE, lookup |-> "idle", before |-> 0]
        BY <2>3, <4>1
      <4>2. CASE form' = [open |-> FALSE, lookup |-> "idle", before |-> field]
        BY <2>3, <4>2
      <4> QED BY <2>2, <4>1, <4>2
    <3> QED BY <2>1, <3>1 DEF LooksTyped, StartInv
  <2>5. PickInv'
    <3>1. ~form'.open
      BY <2>2
    <3> QED BY <3>1 DEF PickInv, Picking, Shown
  <2>6. \A s : Agrees(s) => Agrees(s)'
    <3>1. NoLook => NoLook'
      BY <2>1 DEF NoLook, Current
    <3> QED BY <2>1, <3>1, AgreesStays DEF StartInv
  <2> QED BY <1>0, <2>1, <2>4, <2>5, <2>6 DEF SaidInv, kept
<1>3. CASE StartCreate
  <2>1. UNCHANGED <<step, words, checking, said, start, kept>>
    BY <1>3 DEF StartCreate
  <2> QED BY <1>0, <1>s, <2>1 DEF SaidInv, words, kept
<1>4. CASE Generated
  <2>1. step' = "show" /\ UNCHANGED <<checking, start, finishing, wallets>>
    BY <1>4 DEF Generated
  <2> QED BY <1>0, <1>s, <2>1 DEF SaidInv
<1>5. CASE DropWords
  <2>1. step' = "welcome" /\ UNCHANGED <<late, start, finishing, wallets>>
    BY <1>5 DEF DropWords, Goes
  <2> QED BY <1>0, <1>s, <2>1 DEF SaidInv, late
<1>6. CASE DismissNotice
  <2>1. UNCHANGED <<step, words, late, start, finishing, wallets>>
    BY <1>6 DEF DismissNotice
  <2> QED BY <1>0, <1>s, <2>1 DEF SaidInv, words, late
<1>7. CASE ChooseHow \/ ChooseMonth \/ TypeBlock
  BY <1>7, ChoicesKept
<1>8. CASE Answered
  BY <1>8, AnswersKept
<1>9. CASE Continue
  <2>1. PICK t \in Typed : checking' = [phrase |-> <<"typed", t>>, said |-> Says]
    BY <1>9 DEF Continue
  <2>2. step = "import" /\ StartKnown /\ (fast \/ when # "month" \/ form.open) /\ UNCHANGED <<step, words, generating, said, start, kept>>
    BY <1>9 DEF Continue, OneAtATime
  <2>3. Agrees(Says)
    BY <2>2, SaysSo DEF StartInv
  <2>4. checking'.said = Says
    BY <2>1
  <2>5. PICK s : s = Says
    OBVIOUS
  <2>6. Agrees(s)'
    BY <1>s, <2>2, <2>3, <2>5
  <2>7. Agrees(checking.said)'
    BY <2>4, <2>5, <2>6
  <2> QED BY <1>0, <1>s, <2>2, <2>7 DEF SaidInv, words, kept
<1>10. CASE OnPhrase
  <2>1. checking # NoCheck /\ checking' = NoCheck /\ UNCHANGED <<start, kept>>
        /\ (UNCHANGED <<step, words, said>> \/ said' = checking.said)
    BY <1>10 DEF OnPhrase
  <2>2. step' = "password" /\ imported' => Agrees(said)'
    <3>1. CASE UNCHANGED <<step, words, said>>
      BY <1>0, <1>s, <2>1, <3>1 DEF words
    <3>2. CASE said' = checking.said
      <4>1. PICK s : s = checking.said
        OBVIOUS
      <4>2. Agrees(s)'
        BY <1>0, <1>s, <2>1, <4>1
      <4> QED BY <3>2, <4>1, <4>2
    <3> QED BY <2>1, <3>1, <3>2
  <2> QED BY <1>0, <1>s, <2>1, <2>2 DEF SaidInv, kept
<1>11. CASE Finish
  <2>1. /\ finishing'.record.imported = imported /\ finishing'.record.start = StartBlock /\ finishing'.record.said = said
        /\ step = "password" /\ UNCHANGED <<step, words, late, start, wallets>>
    BY <1>11 DEF Finish
  <2>2. imported => said = <<"block", StartBlock>> \/ \E m \in Months : said = <<"month", m>> /\ StartBlock = HeightFor(m)
    BY <1>0, <2>1, StartsAsSaid DEF StartInv
  <2>3. Meant(finishing'.record)
    BY <2>1, <2>2 DEF Meant
  <2>4. Meant(finishing.record)'
    BY <2>3 DEF Meant, HeightFor
  <2>5. (\A w \in wallets : Meant(w))'
    BY <1>0, <2>1 DEF Meant, HeightFor
  <2> QED BY <1>0, <1>s, <2>1, <2>4, <2>5 DEF SaidInv, words, late
<1>12. CASE RecordPut
  <2>1. finishing.at = "sealing" /\ finishing' = [finishing EXCEPT !.at = "opening"] /\ wallets' = wallets \cup {finishing.record}
        /\ UNCHANGED <<step, words, late, start>>
    BY <1>12 DEF RecordPut
  <2>2. finishing'.record = finishing.record
    BY <2>1 DEF StartInv, SetupType, NotFinishing
  <2>3. Meant(finishing.record)' /\ (\A w \in wallets : Meant(w))'
    BY <1>0, <2>1, <2>2 DEF Meant, HeightFor
  <2> QED BY <1>0, <1>s, <2>1, <2>3 DEF SaidInv, words, late
<1>13. CASE Made \/ MakingFails
  <2>1. finishing'.at = "no" /\ (step' = "home" \/ step' = step) /\ UNCHANGED <<words, late, start, wallets>>
    <3>1. CASE Made
      BY <3>1 DEF Made, NotFinishing
    <3>2. CASE MakingFails
      BY <3>2 DEF MakingFails, NotFinishing
    <3> QED BY <1>13, <3>1, <3>2
  <2> QED BY <1>0, <1>s, <2>1 DEF SaidInv, words, late
<1>14. CASE Reload
  <2>1. /\ step' = "welcome" /\ checking' = NoCheck /\ finishing'.at = "no" /\ wallets' = wallets
        /\ when' = "unknown" /\ fast' = TRUE /\ month' = NoMonth
        /\ form' = Folded /\ field' = 0 /\ latest' = [f \in 1..MaxFields |-> 0] /\ asked' = {}
    BY <1>14 DEF Reload, NotFinishing
  <2>2. LooksTyped' /\ ~Picking'
    BY <2>1, SetupNumbers DEF LooksTyped, Folded, Picking, Shown
  <2> QED BY <1>0, <2>1, <2>2 DEF SaidInv, PickInv
<1>15. CASE UNCHANGED setupVars
  <2>1. UNCHANGED <<step, words, late, start, kept>>
    BY <1>15 DEF setupVars
  <2> QED BY <1>0, <1>s, <2>1 DEF SaidInv, words, late, kept
<1> QED BY <1>1, <1>2, <1>3, <1>4, <1>5, <1>6, <1>7, <1>8, <1>9, <1>10, <1>11, <1>12, <1>13, <1>14, <1>15 DEF SetupNext

\* A wallet restored privately is scanned from the block or the month's first block the screen named
\* (StartBlockPicker, findHeightForDate, continueWithPhrase, finish), when the person changes nothing while something
\* is checked or looked up, and goes on from the options opened.
THEOREM ScansFromWhereSaid == OneAtATime /\ SetupSpec => []ScansFromThere
<1> SUFFICES ASSUME OneAtATime PROVE SetupSpec => []ScansFromThere
  OBVIOUS
<1>1. SetupInit => StartInv
  <2> SUFFICES ASSUME SetupInit PROVE StartInv
    OBVIOUS
  <2>1. /\ step = "welcome" /\ checking = NoCheck /\ finishing = NotFinishing /\ wallets = {}
        /\ when = "unknown" /\ fast = TRUE /\ month = NoMonth
        /\ form = Folded /\ field = 0 /\ latest = [f \in 1..MaxFields |-> 0] /\ asked = {}
    BY DEF SetupInit
  <2>2. finishing.at = "no"
    BY <2>1 DEF NotFinishing
  <2>3. LooksTyped /\ ~Picking
    BY <2>1, SetupNumbers DEF LooksTyped, Folded, Picking, Shown
  <2> QED BY <2>1, <2>2, <2>3, WordsStart DEF StartInv, SaidInv, PickInv
<1>2. StartInv /\ [SetupNext]_setupVars => StartInv'
  BY SetupTyped, WordsKept, StartKept DEF StartInv
<1>3. StartInv => ScansFromThere
  <2> SUFFICES ASSUME StartInv, NEW w \in wallets, w.imported
               PROVE  \/ w.said = <<"block", w.start>>
                      \/ \E m \in Months : w.said = <<"month", m>> /\ w.start \in Heights \cup {1} /\ FirstOf(w.start, m)
    BY DEF ScansFromThere
  <2>1. Meant(w)
    BY DEF StartInv, SaidInv
  <2> QED BY <2>1, StartsAMonth DEF Meant
<1> QED BY <1>1, <1>2, <1>3, PTL DEF SetupSpec
=============================================================================

------------------------------ MODULE LogProofs ------------------------------
(***************************************************************************)
(* Proofs about SealedLog, for every number of batches, every point at     *)
(* which a log is folded, and any number of crashes.  And, sharing nothing *)
(* with these, proofs about Scanner, for any cameras and attempts.         *)
(***************************************************************************)
EXTENDS SealedLog, Scanner, FiniteSetTheorems, SequenceTheorems, WellFoundedInduction, TLAPS

\* One host has the wallet open: natively there is one, and in a browser one
\* window is meant to be at work.
OneHost == \A g, h \in Host : g = h

(***************************************************************************)
(* The newest of a bounded set of numbers                                  *)
(***************************************************************************)

Upto(S, top) == S \subseteq Nat /\ \A n \in S : n <= top

LEMMA NewestExists ==
    ASSUME NEW top \in Nat, NEW S, Upto(S, top), S # {}
    PROVE  \E n \in S : \A m \in S : m <= n
<1> DEFINE T == {top - n : n \in S}
<1>1. \A n \in S : n \in Nat /\ n <= top /\ top - n \in Nat
  BY DEF Upto
<1>2. T \subseteq Nat /\ T # {}
  BY <1>1
<1>3. \E x \in T : \A y \in T : ~(<<y, x>> \in OpToRel(<, Nat))
  <2> HIDE DEF T
  <2> QED BY <1>2, NatLessThanWellFounded, WFMin
<1>4. PICK x \in T : \A y \in T : ~(<<y, x>> \in OpToRel(<, Nat))
  BY <1>3
<1>5. \A y \in T : ~(y < x)
  BY <1>2, <1>4 DEF OpToRel
<1>6. PICK n \in S : x = top - n
  OBVIOUS
<1>7. \A m \in S : ~(top - m < top - n)
  BY <1>5, <1>6
<1>8. \A m \in S : m <= n
  BY <1>1, <1>7
<1> QED BY <1>8

LEMMA NewestBounds ==
    ASSUME NEW top \in Nat, NEW S, Upto(S, top)
    PROVE  /\ NewestOr0(S) \in Nat
           /\ S # {} => NewestOr0(S) \in S
           /\ S = {} => NewestOr0(S) = 0
           /\ \A n \in S : n <= NewestOr0(S)
<1>1. CASE S = {}
  BY <1>1 DEF NewestOr0
<1>2. CASE S # {}
  <2>1. Newest(S) \in S /\ \A m \in S : m <= Newest(S)
    BY <1>2, NewestExists DEF Newest
  <2> QED BY <1>2, <2>1 DEF NewestOr0, Upto
<1> QED BY <1>1, <1>2

LEMMA NewestIs ==
    ASSUME NEW top \in Nat, NEW S, Upto(S, top), NEW n \in S, \A m \in S : m <= n
    PROVE  NewestOr0(S) = n
<1>1. NewestOr0(S) \in Nat /\ n <= NewestOr0(S) /\ NewestOr0(S) <= n
  BY NewestBounds
<1>2. n \in Nat
  BY DEF Upto
<1> QED BY <1>1, <1>2

(***************************************************************************)
(* Types                                                                   *)
(***************************************************************************)

Number == Nat \ {0}
State == UNION {[D -> Batch] : D \in SUBSET Number}
Seal == {"good", "bad", "torn"}
Entries(T) == UNION {[D -> [is : Seal, of : T]] : D \in SUBSET Number}
LogInMemory == [open : BOOLEAN, state : State, seq : Nat, since : Nat]
Operation == [at : {"idle", "append", "confirm", "compact", "drop"}, seq : Nat,
              batch : 0..MaxBatches, state : State]

Bounded == \E top \in Nat : \A n \in DOMAIN batches \cup DOMAIN snaps : n <= top

\* An operation under way has a number, and a batch unless it sets a log aside.
OperationShape(h) ==
    /\ step[h].at # "idle" => step[h].seq # 0
    /\ step[h].at \in {"append", "confirm"} \/ (Folding(h) /\ mem[h].open) => step[h].batch \in Batch

LogType ==
    /\ store \in {"files", "rows"}
    /\ batches \in Entries(Batch) /\ snaps \in Entries(State)
    /\ Bounded
    /\ mem \in [Host -> LogInMemory] /\ step \in [Host -> Operation]
    /\ made \in 0..MaxBatches /\ damage \in Nat
    /\ acked \in SUBSET Batch /\ aside \in SUBSET Batch /\ hurt \in SUBSET Batch
    /\ \A h \in Host : OperationShape(h)

LEMMA StateIs ==
    ASSUME NEW s
    PROVE  s \in State <=> s \in [DOMAIN s -> Batch] /\ DOMAIN s \subseteq Number
BY DEF State

LEMMA EntriesAre ==
    ASSUME NEW T, NEW f
    PROVE  f \in Entries(T) <=> f \in [DOMAIN f -> [is : Seal, of : T]] /\ DOMAIN f \subseteq Number
BY DEF Entries

LEMMA NoStateType == NoState \in State /\ DOMAIN NoState = {} /\ \A T : NoState \in Entries(T)
<1>1. DOMAIN NoState = {} /\ \A T : NoState \in [{} -> T]
  BY DEF NoState
<1> QED BY <1>1, StateIs, EntriesAre

LEMMA EntryType ==
    ASSUME NEW T, NEW x \in T
    PROVE  Entry(x) \in [is : Seal, of : T] /\ Entry(x).is = "good" /\ Entry(x).of = x
BY DEF Entry, Seal

\* Adding and removing entries.
LEMMA WithIs ==
    ASSUME NEW f, NEW n, NEW x
    PROVE  /\ DOMAIN With(f, n, x) = DOMAIN f \cup {n}
           /\ With(f, n, x)[n] = x
           /\ \A k \in DOMAIN f : k # n => With(f, n, x)[k] = f[k]
BY DEF With

LEMMA WithoutIs ==
    ASSUME NEW f, NEW S
    PROVE  /\ DOMAIN Without(f, S) = DOMAIN f \ S
           /\ DOMAIN Without(f, S) \subseteq DOMAIN f
           /\ \A k \in DOMAIN f \ S : Without(f, S)[k] = f[k]
BY DEF Without

LEMMA WithState ==
    ASSUME NEW s \in State, NEW n \in Number, NEW b \in Batch
    PROVE  With(s, n, b) \in State
BY StateIs DEF With

LEMMA WithEntries ==
    ASSUME NEW T, NEW f \in Entries(T), NEW n \in Number, NEW x \in T
    PROVE  With(f, n, Entry(x)) \in Entries(T)
<1>1. f \in [DOMAIN f -> [is : Seal, of : T]] /\ DOMAIN f \subseteq Number
  BY EntriesAre
<1>2. Entry(x) \in [is : Seal, of : T]
  BY EntryType
<1>3. /\ With(f, n, Entry(x)) \in [DOMAIN f \cup {n} -> [is : Seal, of : T]]
      /\ DOMAIN f \cup {n} \subseteq Number
  BY <1>1, <1>2 DEF With
<1> QED BY <1>3, EntriesAre

LEMMA WithoutEntries ==
    ASSUME NEW T, NEW f \in Entries(T), NEW S
    PROVE  Without(f, S) \in Entries(T)
BY EntriesAre DEF Without

LEMMA WithValues ==
    ASSUME NEW f, NEW n, NEW x, n \notin DOMAIN f
    PROVE  Values(With(f, n, x)) = Values(f) \cup {x}
BY DEF With, Values

LEMMA ReplayType ==
    ASSUME LogType, NEW s \in State, NEW from
    PROVE  Replay(s, from) \in State
<1> DEFINE later == {n \in Readable(batches) : n > from}
<1>1. /\ batches \in [DOMAIN batches -> [is : Seal, of : Batch]] /\ DOMAIN batches \subseteq Number
      /\ s \in [DOMAIN s -> Batch] /\ DOMAIN s \subseteq Number
  BY StateIs, EntriesAre DEF LogType
<1>2. later \subseteq DOMAIN batches
  BY DEF Readable
<1>3. Replay(s, from) = [n \in DOMAIN s \cup later |-> IF n \in later THEN batches[n].of ELSE s[n]]
  BY DEF Replay
<1> HIDE DEF later
<1>4. Replay(s, from) \in [DOMAIN s \cup later -> Batch] /\ DOMAIN s \cup later \subseteq Number
  BY <1>1, <1>2, <1>3
<1> QED BY <1>4, StateIs

\* Entries and their parts.
LEMMA DiskTypes ==
    ASSUME LogType
    PROVE  /\ DOMAIN batches \subseteq Number /\ DOMAIN snaps \subseteq Number
           /\ \A n \in DOMAIN batches : batches[n].of \in Batch /\ batches[n].is \in Seal
           /\ \A n \in DOMAIN snaps : /\ snaps[n].of \in State /\ snaps[n].is \in Seal
                                      /\ Values(snaps[n].of) \subseteq Batch
<1>1. /\ batches \in [DOMAIN batches -> [is : Seal, of : Batch]] /\ DOMAIN batches \subseteq Number
      /\ snaps \in [DOMAIN snaps -> [is : Seal, of : State]] /\ DOMAIN snaps \subseteq Number
  BY EntriesAre DEF LogType
<1>2. \A s \in State : Values(s) \subseteq Batch
  BY StateIs DEF Values
<1> QED BY <1>1, <1>2

LEMMA NumbersType ==
    ASSUME LogType, NEW S, S \subseteq DOMAIN batches \cup DOMAIN snaps
    PROVE  \E top \in Nat : Upto(S, top)
BY DiskTypes DEF LogType, Bounded, Upto, Number

LEMMA NewestOfEntries ==
    ASSUME LogType, NEW S, S \subseteq DOMAIN batches \cup DOMAIN snaps
    PROVE  /\ NewestOr0(S) \in Nat
           /\ S # {} => NewestOr0(S) \in S
           /\ S = {} => NewestOr0(S) = 0
           /\ \A n \in S : n <= NewestOr0(S)
<1>1. PICK top \in Nat : Upto(S, top)
  BY NumbersType
<1> QED BY <1>1, NewestBounds

\* What opening and salvaging a log come to.
LEMMA OpeningTypes ==
    ASSUME LogType
    PROVE  /\ LastSnap \in Nat /\ OpenSeq \in Nat /\ SalvagedFrom \in Nat /\ HighestNumber \in Nat
           /\ DOMAIN snaps # {} => LastSnap \in DOMAIN snaps
           /\ Readable(snaps) # {} => SalvagedFrom \in Readable(snaps)
           /\ OpenState \in State /\ Salvaged \in State
<1>1. /\ LastSnap \in Nat
      /\ DOMAIN snaps # {} => LastSnap \in DOMAIN snaps
      /\ DOMAIN snaps = {} => LastSnap = 0
  BY NewestOfEntries DEF LastSnap
<1>2. /\ SalvagedFrom \in Nat
      /\ Readable(snaps) # {} => SalvagedFrom \in Readable(snaps)
  BY NewestOfEntries DEF SalvagedFrom, Readable
<1>3. HighestNumber \in Nat
  BY NewestOfEntries DEF HighestNumber, Numbered
<1>4. OpenSeq \in Nat
  <2>1. CASE LastSnap \in DOMAIN snaps
    BY <2>1, NewestOfEntries DEF OpenSeq, Later
  <2>2. CASE DOMAIN snaps = {} /\ LastSnap = 0
    <3>1. PICK top \in Nat : Upto(Later, top)
      BY NumbersType DEF Later
    <3>2. Upto(Later \cup {0}, top)
      BY <3>1 DEF Upto
    <3> QED BY <2>2, <3>2, NewestBounds DEF OpenSeq
  <2> QED BY <1>1, <2>1, <2>2
<1>5. (IF DOMAIN snaps = {} THEN NoState ELSE snaps[LastSnap].of) \in State
  BY <1>1, DiskTypes, NoStateType
<1>6. (IF Readable(snaps) = {} THEN NoState ELSE snaps[SalvagedFrom].of) \in State
  BY <1>2, DiskTypes, NoStateType DEF Readable
<1>7. OpenState \in State /\ Salvaged \in State
  BY <1>5, <1>6, ReplayType DEF OpenState, Salvaged
<1> QED BY <1>1, <1>2, <1>3, <1>4, <1>7

LEMMA InitType == Init => LogType
<1> SUFFICES ASSUME Init PROVE LogType
  OBVIOUS
<1>1. store \in {"files", "rows"}
  BY SealedLogAssumption DEF Init
<1>2. batches \in Entries(Batch) /\ snaps \in Entries(State) /\ Bounded
  BY NoStateType DEF Init, Bounded
<1>3. Closed \in LogInMemory /\ Idle \in Operation
  BY NoStateType, SealedLogAssumption DEF Closed, Idle, LogInMemory, Operation
<1>4. \A h \in Host : OperationShape(h)
  BY DEF Init, OperationShape, Idle, Folding
<1> QED BY <1>1, <1>2, <1>3, <1>4, SealedLogAssumption DEF Init, LogType

LEMMA MemoryTypes ==
    ASSUME LogType, NEW h \in Host
    PROVE  /\ mem[h] \in LogInMemory /\ step[h] \in Operation
           /\ mem[h].seq \in Nat /\ mem[h].since \in Nat /\ mem[h].state \in State /\ mem[h].open \in BOOLEAN
           /\ step[h].seq \in Nat /\ step[h].batch \in 0..MaxBatches /\ step[h].state \in State
           /\ Closed \in LogInMemory /\ Idle \in Operation
<1>1. Closed \in LogInMemory /\ Idle \in Operation
  BY NoStateType, SealedLogAssumption DEF Closed, Idle, LogInMemory, Operation
<1>2. mem[h] \in LogInMemory /\ step[h] \in Operation
  BY DEF LogType
<1> QED BY <1>1, <1>2 DEF LogInMemory, Operation


LEMMA HeldType ==
    ASSUME LogType, NEW bs \in SUBSET DOMAIN batches, NEW ss \in SUBSET DOMAIN snaps
    PROVE  Held(bs, ss) \subseteq Batch
BY DiskTypes DEF Held

\* What going bad does to the disk: one entry that could be read cannot.
LEMMA DamageIs ==
    ASSUME LogType, Damage
    PROVE  /\ batches' \in Entries(Batch) /\ snaps' \in Entries(State)
           /\ DOMAIN batches' = DOMAIN batches /\ DOMAIN snaps' = DOMAIN snaps
           /\ \A n \in DOMAIN batches : batches'[n].of = batches[n].of
           /\ \A n \in DOMAIN snaps : snaps'[n].of = snaps[n].of
           /\ \/ \E n \in Readable(batches) :
                   /\ UNCHANGED snaps /\ hurt' = hurt \cup {batches[n].of}
                   /\ Readable(batches)' = Readable(batches) \ {n}
                   /\ Numbered(batches) \ {n} \subseteq Numbered(batches)'
              \/ \E n \in Readable(snaps) :
                   /\ UNCHANGED batches /\ hurt' = hurt \cup Values(snaps[n].of)
                   /\ Readable(snaps)' = Readable(snaps) \ {n}
                   /\ Numbered(snaps) \ {n} \subseteq Numbered(snaps)'
<1>1. PICK how \in {"torn", "bad"} :
        \/ \E n \in Readable(batches) :
            /\ batches' = [batches EXCEPT ![n].is = how] /\ UNCHANGED snaps
            /\ hurt' = hurt \cup {batches[n].of}
        \/ \E n \in Readable(snaps) :
            /\ snaps' = [snaps EXCEPT ![n].is = how] /\ UNCHANGED batches
            /\ hurt' = hurt \cup Values(snaps[n].of)
  BY DEF Damage
<1>2. batches \in Entries(Batch) /\ snaps \in Entries(State) /\ how \in Seal
  BY DEF LogType, Seal
<1>3. CASE \E n \in Readable(batches) :
            /\ batches' = [batches EXCEPT ![n].is = how] /\ UNCHANGED snaps
            /\ hurt' = hurt \cup {batches[n].of}
  <2>1. PICK n \in Readable(batches) :
            /\ batches' = [batches EXCEPT ![n].is = how] /\ UNCHANGED snaps
            /\ hurt' = hurt \cup {batches[n].of}
    BY <1>3
  <2>2. n \in DOMAIN batches
    BY DEF Readable
  <2>3. /\ batches' \in [DOMAIN batches -> [is : Seal, of : Batch]] /\ DOMAIN batches' = DOMAIN batches
        /\ \A k \in DOMAIN batches : /\ batches'[k].of = batches[k].of
                                     /\ k # n => batches'[k] = batches[k]
        /\ batches'[n].is = how
    <3>1. batches \in [DOMAIN batches -> [is : Seal, of : Batch]]
      BY <1>2, EntriesAre
    <3> QED BY <1>2, <2>1, <2>2, <3>1
  <2>5. batches' \in Entries(Batch)
    BY <1>2, <2>3, EntriesAre
  <2>4. /\ Readable(batches)' = Readable(batches) \ {n}
        /\ Numbered(batches) \ {n} \subseteq Numbered(batches)'
    BY <2>3 DEF Readable, Numbered
  <2> QED BY <1>2, <2>1, <2>3, <2>4, <2>5
<1>4. CASE \E n \in Readable(snaps) :
            /\ snaps' = [snaps EXCEPT ![n].is = how] /\ UNCHANGED batches
            /\ hurt' = hurt \cup Values(snaps[n].of)
  <2>1. PICK n \in Readable(snaps) :
            /\ snaps' = [snaps EXCEPT ![n].is = how] /\ UNCHANGED batches
            /\ hurt' = hurt \cup Values(snaps[n].of)
    BY <1>4
  <2>2. n \in DOMAIN snaps
    BY DEF Readable
  <2>3. /\ snaps' \in [DOMAIN snaps -> [is : Seal, of : State]] /\ DOMAIN snaps' = DOMAIN snaps
        /\ \A k \in DOMAIN snaps : /\ snaps'[k].of = snaps[k].of
                                   /\ k # n => snaps'[k] = snaps[k]
        /\ snaps'[n].is = how
    <3>1. snaps \in [DOMAIN snaps -> [is : Seal, of : State]]
      BY <1>2, EntriesAre
    <3> QED BY <1>2, <2>1, <2>2, <3>1
  <2>5. snaps' \in Entries(State)
    BY <1>2, <2>3, EntriesAre
  <2>4. /\ Readable(snaps)' = Readable(snaps) \ {n}
        /\ Numbered(snaps) \ {n} \subseteq Numbered(snaps)'
    BY <2>3 DEF Readable, Numbered
  <2> QED BY <1>2, <2>1, <2>3, <2>4, <2>5
<1> QED BY <1>1, <1>3, <1>4

\* What a host's step does to the disk and to its memory, whatever it writes.
LEMMA MemoryStep ==
    ASSUME LogType, NEW h \in Host, NEW m \in LogInMemory, NEW s \in Operation,
           mem' = [mem EXCEPT ![h] = m], step' = [step EXCEPT ![h] = s],
           s.at # "idle" => s.seq # 0,
           s.at \in {"append", "confirm"} \/ (s.at \in {"compact", "drop"} /\ m.open) => s.batch \in Batch
    PROVE  /\ mem' \in [Host -> LogInMemory] /\ step' \in [Host -> Operation]
           /\ \A g \in Host : OperationShape(g)'
           /\ mem'[h] = m /\ step'[h] = s
<1>1. /\ mem' \in [Host -> LogInMemory] /\ step' \in [Host -> Operation]
      /\ mem'[h] = m /\ step'[h] = s
      /\ \A g \in Host : g # h => mem'[g] = mem[g] /\ step'[g] = step[g]
  BY DEF LogType
<1>2. \A g \in Host : OperationShape(g)'
  BY <1>1 DEF LogType, OperationShape, Folding
<1> QED BY <1>1, <1>2

\* What an operation that is folding leaves behind when it ends.
LEMMA FinishTypes ==
    ASSUME LogType, NEW h \in Host, Folding(h), Finish(h)
    PROVE  /\ mem' = [mem EXCEPT ![h] = Done(h)] /\ step' = [step EXCEPT ![h] = Idle]
           /\ Done(h) \in LogInMemory /\ acked' \in SUBSET Batch
<1>1. Done(h) \in LogInMemory
  BY MemoryTypes DEF Done, LogInMemory
<1>2. acked' \in SUBSET Batch
  BY DEF Finish, AnswerFold, LogType, OperationShape
<1> QED BY <1>1, <1>2 DEF Finish, Goto

LEMMA PreparedType ==
    ASSUME Idle \in Operation, NEW x \in Nat, NEW b \in Batch
    PROVE  LET next == [Idle EXCEPT !.at = "append", !.seq = x + 1, !.batch = b]
           IN  next \in Operation /\ next.at = "append" /\ next.seq # 0 /\ next.batch \in Batch
<1>1. b \in 0..MaxBatches /\ x + 1 \in Nat /\ x + 1 # 0
  BY SealedLogAssumption DEF Batch
<1>2. \A y \in Nat, c \in 0..MaxBatches :
        LET next == [Idle EXCEPT !.at = "append", !.seq = y, !.batch = c]
        IN  next \in Operation /\ next.at = "append" /\ next.seq = y /\ next.batch = c
  BY DEF Operation
<1> QED BY <1>1, <1>2

LEMMA HostStepType ==
    ASSUME LogType, NEW h \in Host, HostStep(h)
    PROVE  LogType'
<1>1. /\ mem[h] \in LogInMemory /\ step[h] \in Operation /\ OperationShape(h)
      /\ mem[h].seq \in Nat /\ mem[h].since \in Nat /\ mem[h].state \in State /\ mem[h].open \in BOOLEAN
      /\ step[h].seq \in Nat /\ step[h].batch \in 0..MaxBatches /\ step[h].state \in State
      /\ Closed \in LogInMemory /\ Idle \in Operation
      /\ mem = [mem EXCEPT ![h] = mem[h]] /\ step = [step EXCEPT ![h] = step[h]]
  BY MemoryTypes DEF LogType
<1>0. mem \in [Host -> LogInMemory] /\ step \in [Host -> Operation]
  BY DEF LogType
<1>2. SUFFICES \E m \in LogInMemory, s \in Operation :
                 /\ mem' = [mem EXCEPT ![h] = m] /\ step' = [step EXCEPT ![h] = s]
                 /\ s.at # "idle" => s.seq # 0
                 /\ s.at \in {"append", "confirm"} \/ (s.at \in {"compact", "drop"} /\ m.open)
                      => s.batch \in Batch
                 /\ batches' \in Entries(Batch) /\ snaps' \in Entries(State) /\ Bounded'
                 /\ made' \in 0..MaxBatches
                 /\ acked' \in SUBSET Batch /\ aside' \in SUBSET Batch
                 /\ UNCHANGED <<store, hurt, damage>>
  <2>1. PICK m \in LogInMemory, s \in Operation :
                 /\ mem' = [mem EXCEPT ![h] = m] /\ step' = [step EXCEPT ![h] = s]
                 /\ s.at # "idle" => s.seq # 0
                 /\ s.at \in {"append", "confirm"} \/ (s.at \in {"compact", "drop"} /\ m.open)
                      => s.batch \in Batch
                 /\ batches' \in Entries(Batch) /\ snaps' \in Entries(State) /\ Bounded'
                 /\ made' \in 0..MaxBatches
                 /\ acked' \in SUBSET Batch /\ aside' \in SUBSET Batch
                 /\ UNCHANGED <<store, hurt, damage>>
    BY <1>2
  <2>2. /\ mem' \in [Host -> LogInMemory] /\ step' \in [Host -> Operation]
        /\ \A g \in Host : OperationShape(g)'
    BY <2>1, MemoryStep
  <2> QED BY <2>1, <2>2 DEF LogType
<1>3. UNCHANGED diskVars => batches' \in Entries(Batch) /\ snaps' \in Entries(State) /\ Bounded'
  BY DEF diskVars, LogType, Bounded
<1>4. /\ made \in 0..MaxBatches /\ acked \in SUBSET Batch /\ aside \in SUBSET Batch
      /\ batches \in Entries(Batch) /\ snaps \in Entries(State) /\ Bounded
  BY DEF LogType
<1>5. CASE OpenLog(h)
  <2>1. [open |-> TRUE, state |-> OpenState, seq |-> OpenSeq,
         since |-> Cardinality(DOMAIN batches) + Cardinality(DOMAIN snaps)] \in LogInMemory
    <3>1. PICK top \in Nat : \A n \in DOMAIN batches \cup DOMAIN snaps : n <= top
      BY DEF LogType, Bounded
    <3>2. /\ Cardinality(DOMAIN batches) \in Nat /\ Cardinality(DOMAIN snaps) \in Nat
      BY <3>1, DiskTypes, FS_BoundedSetOfNaturals, FS_CardinalityType DEF Number
    <3> QED BY <3>2, OpeningTypes DEF LogInMemory
  <2> QED BY <1>1, <1>3, <1>4, <1>5, <2>1 DEF OpenLog, At, Kept
<1>6. CASE Prepare(h)
  <2>1. made' \in Batch /\ made' \in 0..MaxBatches
    BY <1>4, <1>6, SealedLogAssumption DEF Prepare, Batch
  <2> DEFINE next == [Idle EXCEPT !.at = "append", !.seq = mem[h].seq + 1, !.batch = made']
  <2>2. next \in Operation /\ next.at = "append" /\ next.seq # 0 /\ next.batch \in Batch
    BY <1>1, <2>1, PreparedType
  <2>3. step' = [step EXCEPT ![h] = next]
    BY <1>6 DEF Prepare, Goto
  <2> HIDE DEF next
  <2> QED BY <1>1, <1>3, <1>4, <1>6, <2>1, <2>2, <2>3 DEF Prepare, Kept
<1>7. CASE AppendEntry(h)
  <2>1. step[h].seq \in Number /\ step[h].batch \in Batch
    BY <1>1, <1>7 DEF AppendEntry, At, OperationShape, Number
  <2>2. batches' \in Entries(Batch) /\ DOMAIN batches' = DOMAIN batches \cup {step[h].seq}
    <3>1. batches' = With(batches, step[h].seq, Entry(step[h].batch))
      BY <1>7 DEF AppendEntry
    <3>2. With(batches, step[h].seq, Entry(step[h].batch)) \in Entries(Batch)
      BY <1>4, <2>1, WithEntries
    <3> QED BY <1>0, <3>1, <3>2, WithIs
  <2>3. Bounded'
    <3>1. PICK top \in Nat : \A n \in DOMAIN batches \cup DOMAIN snaps : n <= top
      BY DEF LogType, Bounded
    <3> DEFINE new == top + step[h].seq
    <3>2. new \in Nat /\ \A n \in DOMAIN batches' \cup DOMAIN snaps' : n <= new
      BY <1>1, <1>7, <2>2, <3>1, DiskTypes DEF AppendEntry, Number
    <3> QED BY <3>2 DEF Bounded
  <2> DEFINE next == [step[h] EXCEPT !.at = "confirm"]
  <2>4. next \in Operation /\ next.seq # 0 /\ next.batch \in Batch
    BY <1>1, <2>1 DEF Operation, Number
  <2>5. step' = [step EXCEPT ![h] = next]
    BY <1>7 DEF AppendEntry, Goto
  <2>6. UNCHANGED <<store, snaps, mem, made, acked, aside, hurt, damage>>
    BY <1>7 DEF AppendEntry, Kept
  <2> HIDE DEF next
  <2> QED BY <1>1, <1>4, <2>2, <2>3, <2>4, <2>5, <2>6
<1>8. CASE Abandon(h)
  BY <1>1, <1>3, <1>4, <1>8 DEF Abandon, Goto, Kept, Idle
<1>9. CASE Confirm(h)
  <2> DEFINE log == [mem[h] EXCEPT !.state = With(@, step[h].seq, step[h].batch),
                                   !.seq = step[h].seq, !.since = @ + 1]
             next == IF DueAfter(log.since) THEN [step[h] EXCEPT !.at = "compact", !.state = log.state]
                     ELSE Idle
  <2>1. step[h].seq \in Number /\ step[h].batch \in Batch
    BY <1>1, <1>9 DEF Confirm, At, OperationShape, Number
  <2>2. With(mem[h].state, step[h].seq, step[h].batch) \in State
    BY <1>1, <2>1, WithState
  <2>3. log \in LogInMemory /\ log.state \in State
    <3>1. mem[h].since + 1 \in Nat
      BY <1>1
    <3> QED BY <1>1, <2>2, <3>1 DEF LogInMemory
  <2>4. next \in Operation
    BY <1>1, <2>3 DEF Operation
  <2>5. /\ mem' = [mem EXCEPT ![h] = log] /\ step' = [step EXCEPT ![h] = next]
        /\ acked' \in SUBSET Batch
    BY <1>4, <1>9, <2>1 DEF Confirm, Goto
  <2>6. next.at # "idle" => next.seq # 0 /\ next.batch \in Batch
    BY <1>1, <2>1 DEF Idle, Number, Operation
  <2>7. next.at \notin {"append", "confirm"}
    BY <1>1 DEF Idle, Operation
  <2>8. next.at \in {"idle", "compact"}
    BY <1>1 DEF Idle, Operation
  <2> HIDE DEF log, next
  <2> QED BY <1>3, <1>4, <1>9, <2>3, <2>4, <2>5, <2>6, <2>7, <2>8 DEF Confirm
<1>10. CASE CompactRows(h)
  <2>1. step[h].seq \in Number /\ Folding(h)
    BY <1>1, <1>10 DEF CompactRows, At, OperationShape, Number, Folding
  <2>2. /\ snaps' \in Entries(State) /\ batches' \in Entries(Batch)
        /\ DOMAIN snaps' \subseteq DOMAIN snaps \cup {step[h].seq} /\ DOMAIN batches' \subseteq DOMAIN batches
    <3> DEFINE older == {n \in DOMAIN snaps : n < step[h].seq}
    <3>1. /\ snaps' = With(Without(snaps, older), step[h].seq, Entry(step[h].state))
          /\ batches' = Without(batches, Covered(step[h].seq))
      BY <1>10 DEF CompactRows
    <3> HIDE DEF older
    <3>2. /\ Without(snaps, older) \in Entries(State) /\ Without(batches, Covered(step[h].seq)) \in Entries(Batch)
      BY <1>4, WithoutEntries
    <3>3. With(Without(snaps, older), step[h].seq, Entry(step[h].state)) \in Entries(State)
      BY <1>1, <2>1, <3>2, WithEntries
    <3>4. DOMAIN snaps' = DOMAIN Without(snaps, older) \cup {step[h].seq}
      BY <1>0, <3>1, WithIs
    <3>5. DOMAIN Without(snaps, older) \subseteq DOMAIN snaps /\ DOMAIN batches' \subseteq DOMAIN batches
      BY <3>1, WithoutIs
    <3> QED BY <3>1, <3>2, <3>3, <3>4, <3>5
  <2>3. Bounded'
    <3>1. PICK top \in Nat : \A n \in DOMAIN batches \cup DOMAIN snaps : n <= top
      BY DEF LogType, Bounded
    <3> DEFINE new == top + step[h].seq
    <3>2. new \in Nat /\ \A n \in DOMAIN batches' \cup DOMAIN snaps' : n <= new
      BY <1>1, <2>2, <3>1, DiskTypes DEF Number
    <3> QED BY <3>2 DEF Bounded
  <2>4. /\ mem' = [mem EXCEPT ![h] = Done(h)] /\ step' = [step EXCEPT ![h] = Idle]
        /\ Done(h) \in LogInMemory /\ acked' \in SUBSET Batch
    BY <1>10, <2>1, FinishTypes DEF CompactRows
  <2> QED BY <1>1, <1>4, <1>10, <2>2, <2>3, <2>4 DEF CompactRows, Idle
<1>11. CASE NameSnapshot(h)
  <2>1. step[h].seq \in Number /\ Folding(h)
    BY <1>1, <1>11 DEF NameSnapshot, At, OperationShape, Number, Folding
  <2>2. snaps' \in Entries(State) /\ DOMAIN snaps' = {step[h].seq}
    <3>1. snaps' = With(NoState, step[h].seq, Entry(step[h].state))
      BY <1>11 DEF NameSnapshot
    <3>2. With(NoState, step[h].seq, Entry(step[h].state)) \in Entries(State)
      BY <1>1, <2>1, WithEntries, NoStateType
    <3>3. DOMAIN snaps' = DOMAIN NoState \cup {step[h].seq}
      BY <1>0, <3>1, WithIs
    <3> QED BY <3>1, <3>2, <3>3, NoStateType
  <2>3. Bounded'
    <3>1. PICK top \in Nat : \A n \in DOMAIN batches \cup DOMAIN snaps : n <= top
      BY DEF LogType, Bounded
    <3> DEFINE new == top + step[h].seq
    <3>2. new \in Nat /\ \A n \in DOMAIN batches' \cup DOMAIN snaps' : n <= new
      BY <1>1, <1>11, <2>2, <3>1, DiskTypes DEF Number, NameSnapshot
    <3> QED BY <3>2 DEF Bounded
  <2>4. [step[h] EXCEPT !.at = "drop"] \in Operation
    BY <1>1 DEF Operation
  <2> QED BY <1>1, <1>4, <1>11, <2>1, <2>2, <2>3, <2>4
          DEF NameSnapshot, Goto, Kept, OperationShape, Operation, Number
<1>12. CASE RemoveBatch(h)
  <2>1. batches' \in Entries(Batch) /\ DOMAIN batches' \subseteq DOMAIN batches
    <3>1. PICK n \in Covered(step[h].seq) : batches' = Without(batches, {n})
      BY <1>12 DEF RemoveBatch
    <3>2. Without(batches, {n}) \in Entries(Batch)
      BY <1>4, WithoutEntries
    <3>3. DOMAIN batches' \subseteq DOMAIN batches
      BY <3>1, WithoutIs
    <3> QED BY <3>1, <3>2, <3>3
  <2>2. Bounded'
    BY <1>4, <1>12, <2>1 DEF Bounded, RemoveBatch
  <2> QED BY <1>1, <1>4, <1>12, <2>1, <2>2 DEF RemoveBatch, Kept, OperationShape, Folding
<1>13. CASE EndCompact(h)
  <2>1. Folding(h)
    BY <1>13 DEF EndCompact, At, Folding
  <2>2. /\ mem' = [mem EXCEPT ![h] = Done(h)] /\ step' = [step EXCEPT ![h] = Idle]
        /\ Done(h) \in LogInMemory /\ acked' \in SUBSET Batch
    BY <1>13, <2>1, FinishTypes DEF EndCompact
  <2> QED BY <1>1, <1>3, <1>4, <1>13, <2>2 DEF EndCompact, Idle
<1>14. CASE CompactFails(h)
  <2>1. acked' \in SUBSET Batch
    BY <1>1, <1>4, <1>14 DEF CompactFails, AnswerFold, OperationShape
  <2> QED BY <1>1, <1>3, <1>4, <1>14, <2>1 DEF CompactFails, Goto, Idle
<1>15. CASE SetAside(h)
  <2>1. aside' \in SUBSET Batch
    BY <1>4, <1>15, HeldType DEF SetAside, CopiedAside
  <2> DEFINE next == [Idle EXCEPT !.at = "compact", !.seq = HighestNumber + 1, !.state = Salvaged]
  <2>2. HighestNumber + 1 \in Nat /\ HighestNumber + 1 # 0 /\ Salvaged \in State
    BY OpeningTypes
  <2>3. next \in Operation /\ next.at = "compact" /\ next.seq # 0
    BY <1>1, <2>2 DEF Operation
  <2>4. step' = [step EXCEPT ![h] = next]
    BY <1>15 DEF SetAside, Goto
  <2> HIDE DEF next
  <2> QED BY <1>1, <1>3, <1>4, <1>15, <2>1, <2>3, <2>4 DEF SetAside
<1>16. CASE Crash(h)
  BY <1>1, <1>3, <1>4, <1>16 DEF Crash, Goto, Kept, Idle
<1> QED BY <1>5, <1>6, <1>7, <1>8, <1>9, <1>10, <1>11, <1>12, <1>13, <1>14, <1>15, <1>16 DEF HostStep

LEMMA StepType == LogType /\ [Next]_vars => LogType'
<1> SUFFICES ASSUME LogType, [Next]_vars PROVE LogType'
  OBVIOUS
<1>1. CASE UNCHANGED vars
  BY <1>1 DEF vars, LogType, Bounded, OperationShape, Folding
<1>2. CASE Damage
  <2>1. hurt' \in SUBSET Batch
    BY <1>2, DamageIs, DiskTypes DEF LogType, Readable
  <2>2. Bounded' /\ \A h \in Host : OperationShape(h)'
    BY <1>2, DamageIs DEF Damage, LogType, Bounded, OperationShape, Folding
  <2>3. UNCHANGED <<store, mem, step, made, acked, aside>> /\ damage' = damage + 1
    BY <1>2 DEF Damage
  <2> QED BY <1>2, <2>1, <2>2, <2>3, DamageIs DEF LogType
<1> QED BY <1>1, <1>2, HostStepType DEF Next

(***************************************************************************)
(* What each step of a host leaves in its memory                           *)
(***************************************************************************)

LEMMA OpenLogLeaves ==
    ASSUME LogType, NEW h \in Host, OpenLog(h)
    PROVE  /\ step[h].at = "idle" /\ ~mem[h].open /\ Opens
           /\ mem'[h].open /\ mem'[h].state = OpenState /\ mem'[h].seq = OpenSeq
           /\ mem'[h].since = Cardinality(DOMAIN batches) + Cardinality(DOMAIN snaps)
           /\ step' = step /\ UNCHANGED <<batches, snaps, store, acked, aside, hurt, damage>>
BY DEF OpenLog, At, LogType, diskVars, Kept

LEMMA PrepareLeaves ==
    ASSUME LogType, NEW h \in Host, Prepare(h)
    PROVE  /\ step[h].at = "idle" /\ mem[h].open
           /\ step'[h].at = "append" /\ step'[h].seq = mem[h].seq + 1
           /\ mem' = mem /\ UNCHANGED <<batches, snaps, store, acked, aside, hurt, damage>>
<1>1. /\ step[h].at = "idle" /\ mem[h].open
      /\ mem' = mem /\ UNCHANGED <<batches, snaps, store, acked, aside, hurt, damage>>
      /\ step' = [step EXCEPT ![h] = [Idle EXCEPT !.at = "append", !.seq = mem[h].seq + 1, !.batch = made']]
  BY DEF Prepare, At, Goto, diskVars, Kept
<1>2. step'[h] = [Idle EXCEPT !.at = "append", !.seq = mem[h].seq + 1, !.batch = made']
  BY <1>1 DEF LogType
<1>3. step'[h].at = "append" /\ step'[h].seq = mem[h].seq + 1
  BY <1>2, MemoryTypes DEF Idle
<1> QED BY <1>1, <1>3

LEMMA AppendLeaves ==
    ASSUME LogType, NEW h \in Host, AppendEntry(h)
    PROVE  /\ step[h].at = "append" /\ step[h].seq \notin DOMAIN batches
           /\ batches' = With(batches, step[h].seq, Entry(step[h].batch))
           /\ step'[h].at = "confirm" /\ step'[h].seq = step[h].seq /\ step'[h].batch = step[h].batch
           /\ mem' = mem /\ UNCHANGED <<snaps, store, acked, aside, hurt, damage>>
<1>1. step[h] \in Operation
  BY DEF LogType
<1>2. step'[h] = [step[h] EXCEPT !.at = "confirm"]
  BY DEF AppendEntry, Goto, LogType
<1>3. step'[h].at = "confirm" /\ step'[h].seq = step[h].seq /\ step'[h].batch = step[h].batch
  BY <1>1, <1>2 DEF Operation
<1> QED BY <1>3 DEF AppendEntry, At, Taken, Kept

LEMMA AbandonLeaves ==
    ASSUME LogType, NEW h \in Host, Abandon(h)
    PROVE  /\ step[h].at = "append" /\ step'[h].at = "idle"
           /\ mem' = mem /\ UNCHANGED <<batches, snaps, store, acked, aside, hurt, damage>>
BY DEF Abandon, At, Goto, LogType, diskVars, Kept, Idle

LEMMA ConfirmLeaves ==
    ASSUME LogType, NEW h \in Host, Confirm(h)
    PROVE  /\ step[h].at = "confirm"
           /\ mem'[h].open = mem[h].open /\ mem'[h].seq = step[h].seq
           /\ mem'[h].state = With(mem[h].state, step[h].seq, step[h].batch)
           /\ mem'[h].since = mem[h].since + 1
           /\ \/ /\ step'[h].at = "compact" /\ step'[h].seq = step[h].seq
                 /\ step'[h].batch = step[h].batch /\ step'[h].state = mem'[h].state
                 /\ UNCHANGED acked
              \/ step'[h].at = "idle" /\ acked' = acked \cup {step[h].batch}
           /\ UNCHANGED <<batches, snaps, store, aside, hurt, damage>>
<1> DEFINE log == [mem[h] EXCEPT !.state = With(@, step[h].seq, step[h].batch),
                                 !.seq = step[h].seq, !.since = @ + 1]
<1>1. mem[h] \in LogInMemory /\ step[h] \in Operation
  BY DEF LogType
<1>2. /\ log.open = mem[h].open /\ log.seq = step[h].seq /\ log.since = mem[h].since + 1
      /\ log.state = With(mem[h].state, step[h].seq, step[h].batch)
  BY <1>1 DEF LogInMemory
<1>3. /\ mem' = [mem EXCEPT ![h] = log]
      /\ \/ step' = [step EXCEPT ![h] = [step[h] EXCEPT !.at = "compact", !.state = log.state]] /\ UNCHANGED acked
         \/ step' = [step EXCEPT ![h] = Idle] /\ acked' = acked \cup {step[h].batch}
  BY DEF Confirm, Goto
<1> HIDE DEF log
<1>4. mem'[h] = log
  BY <1>3 DEF LogType
<1>5. CASE step' = [step EXCEPT ![h] = [step[h] EXCEPT !.at = "compact", !.state = log.state]] /\ UNCHANGED acked
  <2>1. step'[h] = [step[h] EXCEPT !.at = "compact", !.state = log.state]
    BY <1>5 DEF LogType
  <2>2. /\ step'[h].at = "compact" /\ step'[h].seq = step[h].seq
        /\ step'[h].batch = step[h].batch /\ step'[h].state = log.state
    BY <1>1, <2>1 DEF Operation
  <2> QED BY <1>2, <1>4, <1>5, <2>2 DEF Confirm, At, diskVars
<1>6. CASE step' = [step EXCEPT ![h] = Idle] /\ acked' = acked \cup {step[h].batch}
  <2>1. step'[h].at = "idle"
    BY <1>6 DEF LogType, Idle
  <2> QED BY <1>2, <1>4, <1>6, <2>1 DEF Confirm, At, diskVars
<1> QED BY <1>3, <1>5, <1>6

LEMMA FinishLeaves ==
    ASSUME LogType, NEW h \in Host, Folding(h), Finish(h)
    PROVE  /\ mem'[h].open /\ mem'[h].since = 0 /\ step'[h].at = "idle"
           /\ mem[h].open => /\ mem'[h].state = mem[h].state /\ mem'[h].seq = mem[h].seq
                             /\ acked' = acked \cup {step[h].batch}
           /\ ~mem[h].open => /\ mem'[h].state = step[h].state /\ mem'[h].seq = step[h].seq
                              /\ acked' = acked
<1>1. mem'[h] = Done(h) /\ step'[h] = Idle
  BY DEF Finish, Goto, LogType
<1>2. mem[h] \in LogInMemory
  BY DEF LogType
<1> QED BY <1>1, <1>2 DEF Finish, AnswerFold, Done, Idle, LogInMemory

LEMMA NameLeaves ==
    ASSUME LogType, NEW h \in Host, NameSnapshot(h)
    PROVE  /\ store = "files" /\ step[h].at = "compact"
           /\ snaps' = With(NoState, step[h].seq, Entry(step[h].state))
           /\ step'[h].at = "drop" /\ step'[h].seq = step[h].seq
           /\ step'[h].batch = step[h].batch /\ step'[h].state = step[h].state
           /\ mem' = mem /\ UNCHANGED <<batches, store, acked, aside, hurt, damage>>
<1>1. step[h] \in Operation
  BY DEF LogType
<1>2. step'[h] = [step[h] EXCEPT !.at = "drop"]
  BY DEF NameSnapshot, Goto, LogType
<1>3. /\ step'[h].at = "drop" /\ step'[h].seq = step[h].seq
      /\ step'[h].batch = step[h].batch /\ step'[h].state = step[h].state
  BY <1>1, <1>2 DEF Operation
<1> QED BY <1>3 DEF NameSnapshot, At, Kept

LEMMA RemoveLeaves ==
    ASSUME LogType, NEW h \in Host, RemoveBatch(h)
    PROVE  /\ step[h].at = "drop"
           /\ \E n \in DOMAIN batches : n <= step[h].seq /\ batches' = Without(batches, {n})
           /\ UNCHANGED <<mem, step, snaps, store, acked, aside, hurt, damage>>
BY DEF RemoveBatch, At, Kept, Covered

LEMMA FailLeaves ==
    ASSUME LogType, NEW h \in Host, CompactFails(h)
    PROVE  /\ step[h].at \in {"compact", "drop"} /\ step'[h].at = "idle"
           /\ acked' = IF mem[h].open THEN acked \cup {step[h].batch} ELSE acked
           /\ mem' = mem /\ UNCHANGED <<batches, snaps, store, aside, hurt, damage>>
BY DEF CompactFails, Folding, AnswerFold, Goto, LogType, diskVars, Idle

LEMMA AsideLeaves ==
    ASSUME LogType, NEW h \in Host, SetAside(h)
    PROVE  /\ step[h].at = "idle" /\ ~mem[h].open /\ ~Opens
           /\ aside' = aside \cup Held(DOMAIN batches, DOMAIN snaps)
           /\ step'[h].at = "compact" /\ step'[h].seq = HighestNumber + 1 /\ step'[h].state = Salvaged
           /\ mem' = mem /\ UNCHANGED <<batches, snaps, store, acked, hurt, damage>>
<1>1. step'[h] = [Idle EXCEPT !.at = "compact", !.seq = HighestNumber + 1, !.state = Salvaged]
  BY DEF SetAside, Goto, LogType
<1>2. \A q, s : LET next == [Idle EXCEPT !.at = "compact", !.seq = q, !.state = s]
                IN  next.at = "compact" /\ next.seq = q /\ next.state = s
  BY DEF Idle
<1>3. step'[h].at = "compact" /\ step'[h].seq = HighestNumber + 1 /\ step'[h].state = Salvaged
  BY <1>1, <1>2
<1> QED BY <1>3 DEF SetAside, At, CopiedAside, diskVars

LEMMA CrashLeaves ==
    ASSUME LogType, NEW h \in Host, Crash(h)
    PROVE  /\ ~mem'[h].open /\ step'[h].at = "idle"
           /\ UNCHANGED <<batches, snaps, store, acked, aside, hurt, damage>>
BY DEF Crash, Goto, LogType, Closed, Idle, diskVars, Kept

(***************************************************************************)
(* What is read of a log                                                   *)
(***************************************************************************)

\* A snapshot holds nothing numbered above it.
SnapsBelow == \A k \in DOMAIN snaps : DOMAIN snaps[k].of \subseteq 1..k

\* A batch that can be read: written after the newest snapshot that opens, or in it.
CanBeRead(b) ==
    \/ \E n \in Readable(batches) : n > SalvagedFrom /\ batches[n].of = b
    \/ \E k \in Readable(snaps) : k = SalvagedFrom /\ b \in Values(snaps[k].of)
InLog(b) ==
    \/ \E n \in DOMAIN batches : batches[n].of = b
    \/ \E k \in DOMAIN snaps : b \in Values(snaps[k].of)

FromBounds ==
    /\ SalvagedFrom \in Nat
    /\ Readable(snaps) = {} => SalvagedFrom = 0
    /\ Readable(snaps) # {} => SalvagedFrom \in Readable(snaps)
    /\ \A n \in Readable(snaps) : n <= SalvagedFrom
    /\ \A k \in Readable(snaps) : (\A n \in Readable(snaps) : n <= k) => SalvagedFrom = k

LEMMA FromIs == LogType => FromBounds
<1> SUFFICES ASSUME LogType PROVE FromBounds
  OBVIOUS
<1>1. Readable(snaps) \subseteq DOMAIN batches \cup DOMAIN snaps
  BY DEF Readable
<1>2. PICK top \in Nat : Upto(Readable(snaps), top)
  BY <1>1, NumbersType
<1> QED BY <1>2, NewestBounds, NewestIs DEF SalvagedFrom, FromBounds

LEMMA ReplayValues ==
    LogType => \A base \in State, from \in Nat : DOMAIN base \subseteq 1..from =>
      \A b : b \in Values(Replay(base, from)) <=>
               b \in Values(base) \/ \E n \in Readable(batches) : n > from /\ batches[n].of = b
<1> SUFFICES ASSUME LogType, NEW base \in State, NEW from \in Nat, DOMAIN base \subseteq 1..from, NEW b
             PROVE  b \in Values(Replay(base, from)) <=>
                      b \in Values(base) \/ \E n \in Readable(batches) : n > from /\ batches[n].of = b
  OBVIOUS
<1> DEFINE later == {n \in Readable(batches) : n > from}
           whole == Replay(base, from)
<1>1. DOMAIN whole = DOMAIN base \cup later
  BY DEF Replay
<1>2. \A n \in later : whole[n] = batches[n].of
  BY DEF Replay
<1>3. \A n \in DOMAIN base : n \notin later /\ whole[n] = base[n]
  <2>1. \A n \in DOMAIN base : n \notin later
    OBVIOUS
  <2> QED BY <2>1 DEF Replay
<1>4. b \in Values(whole) <=> \E n \in DOMAIN whole : whole[n] = b
  BY DEF Values
<1>5. b \in Values(base) <=> \E n \in DOMAIN base : base[n] = b
  BY DEF Values
<1> HIDE DEF whole
<1>6. b \in Values(whole) <=> (\E n \in DOMAIN base : base[n] = b) \/ \E n \in later : batches[n].of = b
  BY <1>1, <1>2, <1>3, <1>4
<1> QED BY <1>5, <1>6 DEF whole

LEMMA SalvagedIs ==
    LogType /\ SnapsBelow => \A b : b \in Values(Salvaged) <=> CanBeRead(b)
<1> SUFFICES ASSUME LogType, SnapsBelow, NEW b
             PROVE  b \in Values(Salvaged) <=> CanBeRead(b)
  OBVIOUS
<1>1. CASE Readable(snaps) = {}
  <2>1. NoState \in State /\ DOMAIN NoState \subseteq 1..SalvagedFrom /\ Values(NoState) = {}
    BY NoStateType DEF Values
  <2>2. Salvaged = Replay(NoState, SalvagedFrom)
    BY <1>1 DEF Salvaged
  <2> QED BY <1>1, <2>1, <2>2, FromIs, ReplayValues DEF CanBeRead, FromBounds
<1>2. CASE Readable(snaps) # {}
  <2>1. SalvagedFrom \in Readable(snaps) /\ SalvagedFrom \in DOMAIN snaps
    BY <1>2, FromIs DEF Readable, FromBounds
  <2>2. snaps[SalvagedFrom].of \in State /\ DOMAIN snaps[SalvagedFrom].of \subseteq 1..SalvagedFrom
    BY <2>1, DiskTypes DEF SnapsBelow
  <2>3. Salvaged = Replay(snaps[SalvagedFrom].of, SalvagedFrom)
    BY <1>2 DEF Salvaged
  <2> QED BY <2>1, <2>2, <2>3, FromIs, ReplayValues DEF CanBeRead, FromBounds
<1> QED BY <1>1, <1>2

LEMMA HeldIs ==
    ASSUME NEW b
    PROVE  b \in Held(DOMAIN batches, DOMAIN snaps) <=> InLog(b)
BY DEF Held, InLog

\* A log that opens is opened to what a salvage would read of it.
LEMMA OpensSalvaged ==
    LogType /\ Opens => OpenState = Salvaged /\ LastSnap = SalvagedFrom
<1> SUFFICES ASSUME LogType, Opens
             PROVE  OpenState = Salvaged /\ LastSnap = SalvagedFrom
  OBVIOUS
<1>1. CASE DOMAIN snaps = {}
  <2>1. Readable(snaps) = {} /\ LastSnap = 0 /\ SalvagedFrom = 0
    BY <1>1 DEF Readable, LastSnap, SalvagedFrom, NewestOr0
  <2> QED BY <1>1, <2>1 DEF OpenState, Salvaged
<1>2. CASE DOMAIN snaps # {}
  <2>1. LastSnap \in Readable(snaps) /\ \A n \in DOMAIN snaps : n <= LastSnap
    BY <1>2, NewestOfEntries DEF Opens, LastSnap
  <2>2. \A n \in Readable(snaps) : n <= LastSnap
    BY <2>1 DEF Readable
  <2>3. LastSnap = SalvagedFrom
    BY <2>1, <2>2, FromIs DEF FromBounds
  <2> QED BY <1>2, <2>1, <2>3 DEF OpenState, Salvaged
<1> QED BY <1>1, <1>2

(***************************************************************************)
(* Answered batches survive                                                *)
(***************************************************************************)

\* What is older than a snapshot that opens is in it, or was set aside.
Coherent ==
    \A k \in Readable(snaps) :
        /\ \A n \in DOMAIN batches : n <= k => batches[n].of \in aside \cup Values(snaps[k].of)
        /\ \A j \in DOMAIN snaps : j <= k => Values(snaps[j].of) \subseteq aside \cup Values(snaps[k].of)

\* A state in memory, as of this number, carries all that was answered and all
\* that the disk holds, but for a batch whose write has not taken effect yet.
Carries(state, seq, but) ==
    /\ DOMAIN state \subseteq 1..seq
    /\ \A n \in Readable(snaps) : n <= seq
    /\ acked \ hurt \subseteq Values(state) /\ acked \subseteq aside \cup Values(state)
    /\ \A n \in DOMAIN batches : n = but \/ batches[n].of \in aside \cup Values(state)
    /\ \A n \in DOMAIN snaps : Values(snaps[n].of) \subseteq aside \cup Values(state)

\* The batch an operation is being answered for, once it has taken effect.
Owed(h) == mem[h].open /\ Folding(h) => CanBeRead(step[h].batch) /\ step[h].batch \in Values(mem[h].state)

HostCarries(h) ==
    /\ step[h].at \in {"append", "confirm"} => mem[h].open /\ step[h].seq = mem[h].seq + 1
    /\ step[h].at = "confirm" =>
         step[h].seq \in DOMAIN batches /\ batches[step[h].seq] = Entry(step[h].batch)
    /\ step[h].at = "drop" => snaps = With(NoState, step[h].seq, Entry(step[h].state))
    /\ mem[h].open /\ Folding(h) => step[h].state = mem[h].state /\ step[h].seq = mem[h].seq
    /\ mem[h].open => Carries(mem[h].state, mem[h].seq, IF step[h].at = "confirm" THEN step[h].seq ELSE 0)
    /\ ~mem[h].open /\ Folding(h) => Carries(step[h].state, step[h].seq, 0)
    /\ Owed(h)

DiskCarries ==
    /\ SnapsBelow /\ Coherent
    /\ \A b \in acked \ hurt : CanBeRead(b)
    /\ \A b \in acked : b \in aside \/ InLog(b)

SurviveInv == LogType /\ DiskCarries /\ \A h \in Host : HostCarries(h)

LEMMA SurviveSuffices == SurviveInv => AckedSurvive
BY SalvagedIs, HeldIs DEF SurviveInv, DiskCarries, AckedSurvive

LEMMA InitSurvive == Init => SurviveInv
<1> SUFFICES ASSUME Init PROVE SurviveInv
  OBVIOUS
<1>1. LogType
  BY InitType
<1>2. DOMAIN batches = {} /\ DOMAIN snaps = {} /\ acked = {}
  BY NoStateType DEF Init
<1>3. \A h \in Host : HostCarries(h)
  BY DEF Init, HostCarries, Owed, Folding, Closed, Idle
<1>4. DiskCarries
  BY <1>2 DEF DiskCarries, SnapsBelow, Coherent, Readable
<1> QED BY <1>1, <1>3, <1>4 DEF SurviveInv

\* What each change of the disk leaves to be read.
LEMMA SameDisk ==
    ASSUME UNCHANGED <<batches, snaps>>
    PROVE  /\ \A b : CanBeRead(b)' <=> CanBeRead(b)
           /\ \A b : InLog(b)' <=> InLog(b)
           /\ SnapsBelow' <=> SnapsBelow
           /\ aside' = aside => (Coherent' <=> Coherent)
BY DEF CanBeRead, InLog, SnapsBelow, Coherent, Readable, SalvagedFrom

LEMMA AppendReads ==
    ASSUME LogType, DiskCarries, NEW n \in Number, NEW b \in Batch, n \notin DOMAIN batches,
           \A k \in Readable(snaps) : k < n,
           batches' = With(batches, n, Entry(b)), UNCHANGED <<snaps, aside>>
    PROVE  /\ \A c : CanBeRead(c) => CanBeRead(c)'
           /\ \A c : InLog(c) => InLog(c)'
           /\ SnapsBelow' /\ Coherent'
           /\ n \in DOMAIN batches' /\ batches'[n] = Entry(b)
           /\ DOMAIN batches' = DOMAIN batches \cup {n}
           /\ \A k \in DOMAIN batches : batches'[k] = batches[k]
<1>1. /\ DOMAIN batches' = DOMAIN batches \cup {n} /\ batches'[n] = Entry(b)
      /\ \A k \in DOMAIN batches : batches'[k] = batches[k]
  BY DEF With
<1>2. Readable(batches) \subseteq Readable(batches)'
  BY <1>1 DEF Readable
<1>3. SalvagedFrom' = SalvagedFrom /\ Readable(snaps)' = Readable(snaps)
  BY DEF SalvagedFrom, Readable
<1>4. \A c : CanBeRead(c) => CanBeRead(c)'
  BY <1>1, <1>2, <1>3 DEF CanBeRead, Readable
<1>5. \A c : InLog(c) => InLog(c)'
  BY <1>1 DEF InLog
<1>6. SnapsBelow'
  BY DEF DiskCarries, SnapsBelow
<1>7. Coherent'
  <2> SUFFICES ASSUME NEW k \in Readable(snaps)'
               PROVE  /\ \A m \in DOMAIN batches' : m <= k => batches'[m].of \in aside \cup Values(snaps[k].of)
                      /\ \A j \in DOMAIN snaps : j <= k => Values(snaps[j].of) \subseteq aside \cup Values(snaps[k].of)
    BY DEF Coherent
  <2>1. k \in Readable(snaps) /\ k \in Nat /\ ~(n <= k)
    BY <1>3, DiskTypes DEF Readable, Number
  <2> QED BY <1>1, <2>1 DEF DiskCarries, Coherent
<1> QED BY <1>1, <1>4, <1>5, <1>6, <1>7

LEMMA RemoveReads ==
    ASSUME LogType, DiskCarries, NEW n \in DOMAIN batches, NEW k \in DOMAIN snaps, NEW s \in State,
           snaps = With(NoState, k, Entry(s)), n <= k, batches[n].of \in aside \cup Values(s),
           batches' = Without(batches, {n}), UNCHANGED <<snaps, aside>>
    PROVE  /\ \A b : CanBeRead(b) => CanBeRead(b)'
           /\ \A b : InLog(b) => InLog(b)' \/ b \in aside
           /\ SnapsBelow' /\ Coherent'
           /\ DOMAIN batches' = DOMAIN batches \ {n}
           /\ \A m \in DOMAIN batches' : batches'[m] = batches[m]
<1>1. /\ DOMAIN batches' = DOMAIN batches \ {n}
      /\ \A m \in DOMAIN batches' : batches'[m] = batches[m]
  BY DEF Without
<1>2. DOMAIN snaps = {k} /\ snaps[k] = Entry(s) /\ k \in Nat /\ n \in Nat
  <2>1. DOMAIN snaps = DOMAIN NoState \cup {k} /\ snaps[k] = Entry(s)
    BY DEF With
  <2>2. k \in Nat /\ n \in Nat
    BY DiskTypes DEF Number
  <2> QED BY <2>1, <2>2, NoStateType
<1>3. Readable(snaps) = {k} /\ snaps[k].of = s
  BY <1>2, EntryType DEF Readable
<1>4. SalvagedFrom = k /\ SalvagedFrom' = SalvagedFrom /\ Readable(snaps)' = Readable(snaps)
  BY <1>2, <1>3, FromIs DEF SalvagedFrom, Readable, FromBounds
<1>5. \A m \in Readable(batches) : m > k => m \in Readable(batches)'
  BY <1>1, <1>2 DEF Readable
<1>6. \A b : CanBeRead(b) => CanBeRead(b)'
  BY <1>1, <1>4, <1>5 DEF CanBeRead, Readable
<1>7. \A b : InLog(b) => InLog(b)' \/ b \in aside
  BY <1>1, <1>2, <1>3 DEF InLog
<1>8. SnapsBelow' /\ Coherent'
  BY <1>1 DEF DiskCarries, SnapsBelow, Coherent, Readable
<1> QED BY <1>1, <1>6, <1>7, <1>8

\* A snapshot of a state that carries everything, in the place of what it covers.
LEMMA SnapshotReads ==
    ASSUME LogType, LogType', DiskCarries, NEW s \in State, NEW q \in Number, Carries(s, q, 0),
           DOMAIN snaps' \subseteq DOMAIN snaps \cup {q}, q \in DOMAIN snaps', snaps'[q] = Entry(s),
           \A k \in DOMAIN snaps' : k # q => k > q /\ snaps'[k] = snaps[k],
           DOMAIN batches' \subseteq DOMAIN batches,
           \A m \in DOMAIN batches' : batches'[m] = batches[m],
           acked' \subseteq acked \cup Values(s), UNCHANGED <<aside, hurt>>
    PROVE  /\ \A b \in Values(s) : CanBeRead(b)' /\ InLog(b)'
           /\ Readable(snaps)' = {q}
           /\ DiskCarries' /\ Carries(s, q, 0)'
<1>1. Readable(snaps)' = {q} /\ snaps'[q].of = s
  <2>1. \A k \in DOMAIN snaps' : k # q => k \notin Readable(snaps)'
    <3> SUFFICES ASSUME NEW k \in DOMAIN snaps', k # q, k \in Readable(snaps)'
                 PROVE  FALSE
      OBVIOUS
    <3>1. k \in Readable(snaps) /\ k > q
      BY DEF Readable
    <3> QED BY <3>1, DiskTypes DEF Carries, Number, Readable
  <2> QED BY <2>1, EntryType DEF Readable
<1>2. SalvagedFrom' = q
  <2>1. FromBounds'
    BY FromIs, PTL
  <2> QED BY <1>1, <2>1 DEF FromBounds, Number
<1>3. \A b \in Values(s) : CanBeRead(b)' /\ InLog(b)'
  BY <1>1, <1>2 DEF CanBeRead, InLog
<1>4. SnapsBelow'
  BY <1>1 DEF DiskCarries, SnapsBelow, Carries
<1>5. Coherent'
  <2>1. /\ \A m \in DOMAIN batches' : batches'[m].of \in aside \cup Values(s)
        /\ \A j \in DOMAIN snaps' : j <= q => j = q
    BY DiskTypes DEF Carries, Number
  <2> QED BY <1>1, <2>1 DEF Coherent
<1>6. Carries(s, q, 0)'
  BY <1>1 DEF Carries, Number
<1> QED BY <1>1, <1>3, <1>4, <1>5, <1>6 DEF DiskCarries, Carries

\* What can still be read after an entry goes bad is what was not in that entry.
LEMMA DamageReads ==
    ASSUME LogType, LogType', DiskCarries, Damage
    PROVE  DiskCarries'
<1>1. /\ DOMAIN batches' = DOMAIN batches /\ DOMAIN snaps' = DOMAIN snaps
      /\ \A n \in DOMAIN batches : batches'[n].of = batches[n].of
      /\ \A n \in DOMAIN snaps : snaps'[n].of = snaps[n].of
      /\ UNCHANGED <<acked, aside>>
  BY DamageIs DEF Damage
<1>2. /\ Readable(batches)' \subseteq Readable(batches) /\ Readable(snaps)' \subseteq Readable(snaps)
      /\ hurt \subseteq hurt'
  BY DamageIs
<1>3. SnapsBelow'
  BY <1>1 DEF DiskCarries, SnapsBelow
<1>4. Coherent'
  <2>1. \A k \in Readable(snaps)' : k \in Readable(snaps) /\ snaps'[k].of = snaps[k].of
    BY <1>1, <1>2 DEF Readable
  <2> QED BY <1>1, <2>1 DEF DiskCarries, Coherent
<1>5. \A b \in acked' : b \in aside' \/ InLog(b)'
  BY <1>1 DEF DiskCarries, InLog
<1>6. ASSUME NEW b \in acked' \ hurt'
      PROVE  CanBeRead(b)'
  <2>1. CanBeRead(b)
    BY <1>1, <1>2, <1>6 DEF DiskCarries
  <2>2. CASE \E n \in Readable(batches) :
               /\ UNCHANGED snaps /\ hurt' = hurt \cup {batches[n].of}
               /\ Readable(batches)' = Readable(batches) \ {n}
    <3>1. PICK n \in Readable(batches) :
               /\ UNCHANGED snaps /\ hurt' = hurt \cup {batches[n].of}
               /\ Readable(batches)' = Readable(batches) \ {n}
      BY <2>2
    <3>2. SalvagedFrom' = SalvagedFrom /\ Readable(snaps)' = Readable(snaps)
      BY <3>1 DEF SalvagedFrom, Readable
    <3>3. batches[n].of # b
      BY <1>6, <3>1
    <3>4. \A m \in Readable(batches) : batches'[m].of = batches[m].of
      BY <1>1 DEF Readable
    <3> QED BY <2>1, <3>1, <3>2, <3>3, <3>4 DEF CanBeRead
  <2>3. CASE \E n \in Readable(snaps) :
               /\ UNCHANGED batches /\ hurt' = hurt \cup Values(snaps[n].of)
               /\ Readable(snaps)' = Readable(snaps) \ {n}
    <3>1. PICK n \in Readable(snaps) :
               /\ UNCHANGED batches /\ hurt' = hurt \cup Values(snaps[n].of)
               /\ Readable(snaps)' = Readable(snaps) \ {n}
      BY <2>3
    <3>2. b \notin Values(snaps[n].of) /\ Readable(batches)' = Readable(batches)
      BY <1>6, <3>1 DEF Readable
    <3>3. /\ SalvagedFrom' \in Nat
          /\ Readable(snaps)' = {} => SalvagedFrom' = 0
          /\ Readable(snaps)' # {} => SalvagedFrom' \in Readable(snaps)'
      <4>1. FromBounds'
        BY FromIs, PTL
      <4> QED BY <4>1 DEF FromBounds
    <3>4. /\ SalvagedFrom \in Nat
          /\ \A m \in Readable(snaps) : m <= SalvagedFrom
      BY FromIs DEF FromBounds
    <3>5. SalvagedFrom' <= SalvagedFrom
      BY <3>1, <3>3, <3>4
    <3>6. CASE \E m \in Readable(batches) : m > SalvagedFrom /\ batches[m].of = b
      <4>1. PICK m \in Readable(batches) : m > SalvagedFrom /\ batches[m].of = b
        BY <3>6
      <4>2. m \in Nat /\ m > SalvagedFrom'
        BY <3>3, <3>4, <3>5, <4>1, DiskTypes DEF Readable, Number
      <4> QED BY <3>1, <3>2, <4>1, <4>2 DEF CanBeRead
    <3>7. CASE \E k \in Readable(snaps) : k = SalvagedFrom /\ b \in Values(snaps[k].of)
      <4>1. PICK k \in Readable(snaps) : k = SalvagedFrom /\ b \in Values(snaps[k].of)
        BY <3>7
      <4>2. k \in Readable(snaps)'
        BY <3>1, <3>2, <4>1
      <4>3. SalvagedFrom' = k
        <5>1. \A j \in Readable(snaps)' : j <= k
          BY <3>1, <3>4, <4>1
        <5>2. FromBounds'
          BY FromIs, PTL
        <5> QED BY <4>2, <5>1, <5>2 DEF FromBounds
      <4>4. snaps'[k].of = snaps[k].of
        BY <1>1, <4>1 DEF Readable
      <4> QED BY <4>1, <4>2, <4>3, <4>4 DEF CanBeRead
    <3> QED BY <2>1, <3>6, <3>7 DEF CanBeRead
  <2> QED BY <2>2, <2>3, DamageIs
<1> QED BY <1>3, <1>4, <1>5, <1>6 DEF DiskCarries

LEMMA OpenCarries ==
    ASSUME LogType, DiskCarries, Opens
    PROVE  Carries(OpenState, OpenSeq, 0)
<1> DEFINE base == IF DOMAIN snaps = {} THEN NoState ELSE snaps[LastSnap].of
<1>1. /\ LastSnap \in Nat /\ OpenSeq \in Nat /\ LastSnap <= OpenSeq
      /\ \A n \in Later : n <= OpenSeq
      /\ \A n \in DOMAIN snaps : n <= LastSnap
      /\ DOMAIN snaps # {} => LastSnap \in DOMAIN snaps
  <2>1. /\ LastSnap \in Nat /\ \A n \in DOMAIN snaps : n <= LastSnap
    BY NewestOfEntries DEF LastSnap
  <2>2. DOMAIN snaps # {} => LastSnap \in DOMAIN snaps
    BY OpeningTypes
  <2>3. PICK top \in Nat : Upto(DOMAIN batches \cup DOMAIN snaps, top)
    BY NumbersType
  <2>4. LastSnap + top \in Nat /\ Upto(Later \cup {LastSnap}, LastSnap + top)
    BY <2>1, <2>3 DEF Upto, Later
  <2>5. OpenSeq \in Nat /\ \A n \in Later \cup {LastSnap} : n <= OpenSeq
    BY <2>4, NewestBounds DEF OpenSeq
  <2> QED BY <2>1, <2>2, <2>5
<1>2. OpenState = Salvaged /\ LastSnap = SalvagedFrom
  BY OpensSalvaged
<1>3. \A b : b \in Values(OpenState) <=> CanBeRead(b)
  BY <1>2, SalvagedIs DEF DiskCarries
<1>4. DOMAIN snaps # {} => LastSnap \in Readable(snaps)
  BY DEF Opens
<1>5. base \in State /\ DOMAIN base \subseteq 1..LastSnap
  BY <1>1, DiskTypes, NoStateType DEF DiskCarries, SnapsBelow
<1>6. DOMAIN OpenState \subseteq 1..OpenSeq
  <2>1. DOMAIN OpenState = DOMAIN base \cup {n \in Readable(batches) : n > LastSnap}
    BY DEF OpenState, Replay
  <2>2. \A n \in Readable(batches) : n > LastSnap => n \in 1..OpenSeq
    BY <1>1, DiskTypes DEF Readable, Number, Later
  <2>3. \A n \in DOMAIN base : n \in 1..OpenSeq
    BY <1>1, <1>5
  <2> QED BY <2>1, <2>2, <2>3
<1>7. \A n \in DOMAIN batches : batches[n].of \in aside \cup Values(OpenState)
  <2> SUFFICES ASSUME NEW n \in DOMAIN batches
               PROVE  batches[n].of \in aside \cup Values(OpenState)
    OBVIOUS
  <2>1. n \in Nat /\ n # 0
    BY DiskTypes DEF Number
  <2>2. CASE n > LastSnap
    BY <1>2, <1>3, <2>2 DEF Opens, Later, CanBeRead
  <2>3. CASE n <= LastSnap
    <3>1. LastSnap \in Readable(snaps)
      BY <1>4, <2>1, <2>3, NewestOfEntries DEF LastSnap
    <3>2. batches[n].of \in aside \cup Values(snaps[LastSnap].of)
      BY <2>3, <3>1 DEF DiskCarries, Coherent
    <3> QED BY <1>2, <1>3, <3>1, <3>2 DEF CanBeRead
  <2> QED BY <1>1, <2>1, <2>2, <2>3
<1>8. \A j \in DOMAIN snaps : Values(snaps[j].of) \subseteq aside \cup Values(OpenState)
  <2> SUFFICES ASSUME NEW j \in DOMAIN snaps
               PROVE  Values(snaps[j].of) \subseteq aside \cup Values(OpenState)
    OBVIOUS
  <2>1. LastSnap \in Readable(snaps) /\ j <= LastSnap
    BY <1>1, <1>4
  <2>2. Values(snaps[j].of) \subseteq aside \cup Values(snaps[LastSnap].of)
    BY <2>1 DEF DiskCarries, Coherent
  <2> QED BY <1>2, <1>3, <2>1, <2>2 DEF CanBeRead
<1>9. acked \subseteq aside \cup Values(OpenState)
  BY <1>7, <1>8 DEF DiskCarries, InLog
<1>10. \A n \in Readable(snaps) : n <= OpenSeq
  BY <1>1, DiskTypes DEF Readable, Number
<1> QED BY <1>3, <1>6, <1>7, <1>8, <1>9, <1>10 DEF Carries, DiskCarries

\* The batch whose write is confirmed joins the state.
LEMMA ConfirmCarries ==
    ASSUME LogType, NEW s \in State, NEW q \in Nat, NEW n \in Number, n = q + 1, NEW b \in Batch,
           Carries(s, q, n), n \in DOMAIN batches, batches[n] = Entry(b),
           acked' \subseteq acked \cup {b}, UNCHANGED <<batches, snaps, aside, hurt>>
    PROVE  /\ Carries(With(s, n, b), n, 0)' /\ b \in Values(With(s, n, b)) /\ CanBeRead(b)
<1>1. n \notin DOMAIN s /\ DOMAIN With(s, n, b) = DOMAIN s \cup {n}
  BY DEF Carries, With
<1>2. Values(With(s, n, b)) = Values(s) \cup {b}
  BY <1>1, WithValues
<1>3. batches[n].of = b /\ n \in Readable(batches)
  BY EntryType DEF Readable
<1>4. \A k \in Readable(snaps) : k <= n
  BY DiskTypes DEF Carries, Readable, Number
<1>5. Carries(With(s, n, b), n, 0)
  BY <1>1, <1>2, <1>3, <1>4 DEF Carries
<1>6. Carries(With(s, n, b), n, 0)'
  BY <1>2, <1>5 DEF Carries, Readable
<1>7. SalvagedFrom < n
  BY FromIs DEF FromBounds, Carries
<1>8. CanBeRead(b)
  BY <1>3, <1>7, FromIs DEF CanBeRead, FromBounds
<1> QED BY <1>2, <1>6, <1>8

LEMMA FoldShape ==
    ASSUME LogType, NEW h \in Host
    PROVE  Folding(h) <=> step[h].at \in {"compact", "drop"}
BY DEF Folding

\* A fold that ends leaves the log open on a state that carries everything.
LEMMA FinishSurvives ==
    ASSUME SurviveInv, NEW h \in Host, Folding(h), Finish(h), DiskCarries',
           NEW s \in State, NEW q \in Nat, Carries(s, q, 0)',
           mem[h].open => s = mem[h].state /\ q = mem[h].seq,
           ~mem[h].open => s = step[h].state /\ q = step[h].seq
    PROVE  HostCarries(h)'
<1>1. /\ mem'[h].open /\ step'[h].at = "idle" /\ mem'[h].state = s /\ mem'[h].seq = q
  BY FinishLeaves, MemoryTypes DEF SurviveInv
<1> QED BY <1>1 DEF HostCarries, Owed, Folding

LEMMA SalvagedBelow ==
    ASSUME LogType, SnapsBelow
    PROVE  /\ DOMAIN Salvaged \subseteq 1..HighestNumber
           /\ \A n \in Readable(snaps) : n <= HighestNumber
<1>1. /\ HighestNumber \in Nat
      /\ \A n \in Numbered(batches) \cup Numbered(snaps) : n <= HighestNumber
  BY NewestOfEntries DEF HighestNumber, Numbered
<1>2. Readable(batches) \subseteq Numbered(batches) /\ Readable(snaps) \subseteq Numbered(snaps)
  BY DEF Readable, Numbered
<1> DEFINE base == IF Readable(snaps) = {} THEN NoState ELSE snaps[SalvagedFrom].of
<1>3. DOMAIN base \subseteq 1..HighestNumber
  <2>1. CASE Readable(snaps) = {}
    BY <2>1, NoStateType
  <2>2. CASE Readable(snaps) # {}
    <3>1. SalvagedFrom \in Readable(snaps) /\ SalvagedFrom \in DOMAIN snaps /\ SalvagedFrom \in Nat
      BY <2>2, FromIs DEF FromBounds, Readable
    <3>2. SalvagedFrom <= HighestNumber /\ DOMAIN snaps[SalvagedFrom].of \subseteq 1..SalvagedFrom
      BY <1>1, <1>2, <3>1 DEF SnapsBelow
    <3> QED BY <1>1, <2>2, <3>1, <3>2
  <2> QED BY <2>1, <2>2
<1>4. \A n \in Readable(batches) : n \in 1..HighestNumber
  BY <1>1, <1>2, DiskTypes DEF Readable, Number
<1>5. DOMAIN Salvaged = DOMAIN base \cup {n \in Readable(batches) : n > SalvagedFrom}
  BY DEF Salvaged, Replay
<1> QED BY <1>1, <1>2, <1>3, <1>4, <1>5

LEMMA HostStepSurvives ==
    ASSUME SurviveInv, LogType', NEW h \in Host, HostStep(h)
    PROVE  DiskCarries' /\ HostCarries(h)'
<1>1. LogType /\ DiskCarries /\ HostCarries(h)
  BY DEF SurviveInv
<1>2. /\ mem \in [Host -> LogInMemory] /\ step \in [Host -> Operation]
      /\ mem[h].open \in BOOLEAN /\ mem[h].state \in State /\ mem[h].seq \in Nat
      /\ step[h].state \in State /\ step[h].seq \in Nat /\ step[h].batch \in 0..MaxBatches
      /\ OperationShape(h)
  BY <1>1, MemoryTypes DEF LogType
<1>3. UNCHANGED <<batches, snaps, acked, aside, hurt>> => DiskCarries'
  BY <1>1, SameDisk DEF DiskCarries
<1>4. ASSUME NEW s \in State, NEW q \in Nat, NEW but \in Nat,
             UNCHANGED <<batches, snaps, acked, aside, hurt>>, Carries(s, q, but)
      PROVE  Carries(s, q, but)'
  BY <1>4 DEF Carries, Readable
<1>5. PICK state \in State, seq \in Nat : state = mem[h].state /\ seq = mem[h].seq
  BY <1>2
<1>6. PICK n \in Nat, b \in 0..MaxBatches, new \in State :
         n = step[h].seq /\ b = step[h].batch /\ new = step[h].state
  BY <1>2
<1>7. CASE OpenLog(h)
  <2>1. /\ Opens /\ mem'[h].open /\ mem'[h].state = OpenState /\ mem'[h].seq = OpenSeq
        /\ step'[h].at = "idle" /\ UNCHANGED <<batches, snaps, acked, aside, hurt>>
    BY <1>1, <1>7, OpenLogLeaves
  <2>2. PICK s \in State, q \in Nat : s = OpenState /\ q = OpenSeq
    BY <1>1, OpeningTypes
  <2>3. Carries(s, q, 0)
    BY <1>1, <2>1, <2>2, OpenCarries
  <2>4. Carries(s, q, 0)'
    BY <1>4, <2>1, <2>3
  <2> QED BY <1>3, <2>1, <2>2, <2>4 DEF HostCarries, Owed, Folding
<1>8. CASE Prepare(h)
  <2>1. /\ step[h].at = "idle" /\ mem[h].open /\ step'[h].at = "append" /\ step'[h].seq = mem[h].seq + 1
        /\ mem' = mem /\ UNCHANGED <<batches, snaps, acked, aside, hurt>>
    BY <1>1, <1>8, PrepareLeaves
  <2>2. Carries(state, seq, 0)'
    BY <1>1, <1>4, <1>5, <2>1 DEF HostCarries
  <2> QED BY <1>2, <1>3, <1>5, <2>1, <2>2 DEF HostCarries, Owed, Folding
<1>9. CASE AppendEntry(h)
  <2>1. /\ step[h].at = "append" /\ n \notin DOMAIN batches
        /\ batches' = With(batches, n, Entry(b))
        /\ step'[h].at = "confirm" /\ step'[h].seq = n /\ step'[h].batch = b
        /\ mem' = mem /\ UNCHANGED <<snaps, acked, aside, hurt>>
    BY <1>1, <1>6, <1>9, AppendLeaves
  <2>2. mem[h].open /\ n = seq + 1 /\ Carries(state, seq, 0)
    BY <1>1, <1>5, <1>6, <2>1 DEF HostCarries
  <2>3. n \in Number /\ b \in Batch
    BY <1>2, <1>6, <2>1 DEF OperationShape, Number
  <2>4. \A k \in Readable(snaps) : k < n
    BY <1>1, <2>2, DiskTypes DEF Carries, Readable, Number
  <2>5. /\ \A c : CanBeRead(c) => CanBeRead(c)'
        /\ \A c : InLog(c) => InLog(c)'
        /\ SnapsBelow' /\ Coherent'
        /\ n \in DOMAIN batches' /\ batches'[n] = Entry(b)
        /\ DOMAIN batches' = DOMAIN batches \cup {n}
        /\ \A k \in DOMAIN batches : batches'[k] = batches[k]
    BY <1>1, <2>1, <2>3, <2>4, AppendReads
  <2>6. DiskCarries'
    BY <1>1, <2>1, <2>5 DEF DiskCarries
  <2>7. Carries(state, seq, n)'
    BY <1>1, <2>1, <2>2, <2>5, DiskTypes DEF Carries, Readable, Number
  <2> QED BY <1>2, <1>5, <2>1, <2>2, <2>5, <2>6, <2>7 DEF HostCarries, Owed, Folding
<1>10. CASE Abandon(h)
  <2>1. /\ step[h].at = "append" /\ step'[h].at = "idle"
        /\ mem' = mem /\ UNCHANGED <<batches, snaps, acked, aside, hurt>>
    BY <1>1, <1>10, AbandonLeaves
  <2>2. mem[h].open /\ Carries(state, seq, 0)'
    BY <1>1, <1>4, <1>5, <2>1 DEF HostCarries
  <2> QED BY <1>2, <1>3, <1>5, <2>1, <2>2 DEF HostCarries, Owed, Folding
<1>11. CASE Confirm(h)
  <2>1. /\ step[h].at = "confirm"
        /\ mem'[h].open = mem[h].open /\ mem'[h].seq = n
        /\ mem'[h].state = With(state, n, b)
        /\ \/ /\ step'[h].at = "compact" /\ step'[h].seq = n
              /\ step'[h].batch = b /\ step'[h].state = mem'[h].state
              /\ UNCHANGED acked
           \/ step'[h].at = "idle" /\ acked' = acked \cup {b}
        /\ UNCHANGED <<batches, snaps, aside, hurt>>
    BY <1>1, <1>5, <1>6, <1>11, ConfirmLeaves
  <2>2. /\ mem[h].open /\ n = seq + 1
        /\ n \in DOMAIN batches /\ batches[n] = Entry(b)
        /\ Carries(state, seq, n)
    BY <1>1, <1>5, <1>6, <2>1 DEF HostCarries
  <2>3. n \in Number /\ b \in Batch
    BY <1>2, <1>6, <2>1 DEF OperationShape, Number
  <2>4. PICK s \in State : s = With(state, n, b)
    BY <2>3, WithState
  <2>5. acked' \subseteq acked \cup {b} /\ acked \subseteq acked'
    BY <2>1
  <2>6. Carries(s, n, 0)' /\ b \in Values(s) /\ CanBeRead(b)
    BY <1>1, <2>1, <2>2, <2>3, <2>4, <2>5, ConfirmCarries
  <2>7. /\ \A c : CanBeRead(c)' <=> CanBeRead(c)
        /\ \A c : InLog(c)' <=> InLog(c)
        /\ SnapsBelow' /\ Coherent'
    BY <1>1, <2>1, SameDisk DEF DiskCarries
  <2>8. InLog(b)
    BY <2>6 DEF CanBeRead, InLog, Readable
  <2>9. DiskCarries'
    BY <1>1, <2>1, <2>5, <2>6, <2>7, <2>8 DEF DiskCarries
  <2> QED BY <1>2, <2>1, <2>2, <2>4, <2>6, <2>7, <2>9 DEF HostCarries, Owed, Folding
<1>12. ASSUME Folding(h)
       PROVE  /\ Carries(new, n, 0) /\ n \in Number
              /\ mem[h].open => new = state /\ n = seq /\ CanBeRead(b) /\ b \in Values(new)
  BY <1>1, <1>2, <1>5, <1>6, <1>12 DEF HostCarries, Owed, OperationShape, Folding, Number
<1>13. ASSUME Folding(h), Finish(h), Carries(new, n, 0)', DiskCarries'
       PROVE  HostCarries(h)'
  BY <1>2, <1>5, <1>6, <1>12, <1>13, FinishSurvives
<1>14. ASSUME Folding(h), Finish(h)
       PROVE  acked' \subseteq acked \cup Values(new)
  BY <1>1, <1>6, <1>12, <1>14, FinishLeaves
<1>15. CASE CompactRows(h)
  <2>1. Folding(h) /\ Finish(h) /\ UNCHANGED <<aside, hurt>>
    BY <1>15 DEF CompactRows, At, Folding
  <2> DEFINE older == {k \in DOMAIN snaps : k < n}
  <2>2. /\ snaps' = With(Without(snaps, older), n, Entry(new))
        /\ batches' = Without(batches, Covered(n))
    BY <1>6, <1>15 DEF CompactRows
  <2>3. /\ DOMAIN snaps' = (DOMAIN snaps \ older) \cup {n} /\ snaps'[n] = Entry(new)
        /\ \A k \in DOMAIN snaps' : k # n => snaps'[k] = snaps[k]
        /\ DOMAIN batches' \subseteq DOMAIN batches
        /\ \A m \in DOMAIN batches' : batches'[m] = batches[m]
    BY <2>2 DEF With, Without
  <2>4. \A k \in DOMAIN snaps' : k # n => k > n
    BY <1>1, <2>3, DiskTypes DEF Number
  <2> HIDE DEF older
  <2>5. DOMAIN snaps' \subseteq DOMAIN snaps \cup {n} /\ n \in DOMAIN snaps'
    BY <2>3
  <2>6. DiskCarries' /\ Carries(new, n, 0)'
    BY <1>1, <1>12, <1>14, <2>1, <2>3, <2>4, <2>5, SnapshotReads
  <2> QED BY <1>13, <2>1, <2>6
<1>16. CASE NameSnapshot(h)
  <2>1. /\ step[h].at = "compact" /\ snaps' = With(NoState, n, Entry(new))
        /\ step'[h].at = "drop" /\ step'[h].seq = n
        /\ step'[h].batch = b /\ step'[h].state = new
        /\ mem' = mem /\ UNCHANGED <<batches, acked, aside, hurt>>
    BY <1>1, <1>6, <1>16, NameLeaves
  <2>2. DOMAIN snaps' = DOMAIN NoState \cup {n} /\ snaps'[n] = Entry(new)
    BY <2>1 DEF With
  <2>3. DOMAIN snaps' = {n}
    BY <2>2, NoStateType
  <2>4. Folding(h)
    BY <2>1 DEF Folding
  <2>5. /\ \A c \in Values(new) : CanBeRead(c)'
        /\ DiskCarries' /\ Carries(new, n, 0)'
    BY <1>1, <1>12, <2>1, <2>2, <2>3, <2>4, SnapshotReads
  <2> QED BY <1>2, <1>5, <1>12, <2>1, <2>4, <2>5 DEF HostCarries, Owed, Folding
<1>17. CASE RemoveBatch(h)
  <2>1. /\ step[h].at = "drop" /\ snaps = With(NoState, n, Entry(new))
        /\ UNCHANGED <<mem, step, snaps, acked, aside, hurt>>
    BY <1>1, <1>6, <1>17, RemoveLeaves DEF HostCarries
  <2>2. PICK m \in DOMAIN batches : m <= n /\ batches' = Without(batches, {m})
    BY <1>1, <1>6, <1>17, RemoveLeaves
  <2>3. Folding(h)
    BY <2>1 DEF Folding
  <2>4. batches[m].of \in aside \cup Values(new) /\ n \in DOMAIN snaps /\ snaps[n] = Entry(new)
    <3>1. DOMAIN snaps = DOMAIN NoState \cup {n} /\ snaps[n] = Entry(new)
      BY <2>1 DEF With
    <3>2. batches[m].of \in aside \cup Values(new)
      BY <1>1, <1>12, <2>3, DiskTypes DEF Carries, Number
    <3> QED BY <3>1, <3>2
  <2>5. /\ \A c : CanBeRead(c) => CanBeRead(c)'
        /\ \A c : InLog(c) => InLog(c)' \/ c \in aside
        /\ SnapsBelow' /\ Coherent'
        /\ DOMAIN batches' = DOMAIN batches \ {m}
        /\ \A k \in DOMAIN batches' : batches'[k] = batches[k]
    BY <1>1, <2>1, <2>2, <2>4, RemoveReads
  <2>6. DiskCarries'
    BY <1>1, <2>1, <2>5 DEF DiskCarries
  <2>7. Carries(new, n, 0)'
    BY <1>12, <2>1, <2>3, <2>5 DEF Carries, Readable
  <2> QED BY <1>1, <1>2, <1>5, <1>6, <1>12, <2>1, <2>3, <2>5, <2>6, <2>7 DEF HostCarries, Owed, Folding
<1>18. CASE EndCompact(h)
  <2>1. Folding(h) /\ Finish(h) /\ UNCHANGED <<batches, snaps, aside, hurt>>
    BY <1>18 DEF EndCompact, At, Folding, diskVars
  <2>2. Carries(new, n, 0)'
    BY <1>12, <1>14, <2>1 DEF Carries, Readable
  <2>3. acked' = acked \/ (mem[h].open /\ acked' = acked \cup {b})
    BY <1>1, <1>2, <1>6, <2>1, FinishLeaves
  <2>4. /\ \A c : CanBeRead(c)' <=> CanBeRead(c)
        /\ \A c : InLog(c)' <=> InLog(c)
        /\ SnapsBelow' /\ Coherent'
    BY <1>1, <2>1, SameDisk DEF DiskCarries
  <2>5. CanBeRead(b) => InLog(b)
    BY DEF CanBeRead, InLog, Readable
  <2>6. DiskCarries'
    BY <1>1, <1>12, <2>1, <2>3, <2>4, <2>5 DEF DiskCarries
  <2> QED BY <1>13, <2>1, <2>2, <2>6
<1>19. CASE CompactFails(h)
  <2>1. /\ step[h].at \in {"compact", "drop"} /\ step'[h].at = "idle"
        /\ acked' = IF mem[h].open THEN acked \cup {b} ELSE acked
        /\ mem' = mem /\ UNCHANGED <<batches, snaps, aside, hurt>>
    BY <1>1, <1>6, <1>19, FailLeaves
  <2>2. Folding(h)
    BY <2>1 DEF Folding
  <2>3. /\ \A c : CanBeRead(c)' <=> CanBeRead(c)
        /\ \A c : InLog(c)' <=> InLog(c)
        /\ SnapsBelow' /\ Coherent'
    BY <1>1, <2>1, SameDisk DEF DiskCarries
  <2>4. CanBeRead(b) => InLog(b)
    BY DEF CanBeRead, InLog, Readable
  <2>5. DiskCarries'
    BY <1>1, <1>12, <2>1, <2>2, <2>3, <2>4 DEF DiskCarries
  <2>6. mem[h].open => Carries(state, seq, 0)'
    BY <1>12, <2>1, <2>2 DEF Carries, Readable
  <2> QED BY <1>2, <1>5, <2>1, <2>5, <2>6 DEF HostCarries, Owed, Folding
<1>20. CASE SetAside(h)
  <2>1. /\ step[h].at = "idle" /\ ~mem[h].open
        /\ aside' = aside \cup Held(DOMAIN batches, DOMAIN snaps)
        /\ step'[h].at = "compact" /\ step'[h].seq = HighestNumber + 1 /\ step'[h].state = Salvaged
        /\ mem' = mem /\ UNCHANGED <<batches, snaps, acked, hurt>>
    BY <1>1, <1>20, AsideLeaves
  <2>2. PICK s \in State, q \in Nat : s = Salvaged /\ q = HighestNumber + 1
    BY <1>1, OpeningTypes
  <2>3. /\ \A c : CanBeRead(c)' <=> CanBeRead(c)
        /\ \A c : InLog(c)' <=> InLog(c)
        /\ SnapsBelow'
    BY <1>1, <2>1, SameDisk DEF DiskCarries
  <2>4. Coherent'
    BY <1>1, <2>1 DEF DiskCarries, Coherent, Readable
  <2>5. DiskCarries'
    BY <1>1, <2>1, <2>3, <2>4 DEF DiskCarries
  <2>6. DOMAIN s \subseteq 1..q /\ \A k \in Readable(snaps) : k <= q
    BY <1>1, <2>2, SalvagedBelow, OpeningTypes, DiskTypes DEF DiskCarries, Readable, Number
  <2>7. acked \ hurt \subseteq Values(s)
    BY <1>1, <2>2, SalvagedIs DEF DiskCarries
  <2>8. /\ acked \subseteq aside' /\ \A k \in DOMAIN batches : batches[k].of \in aside'
        /\ \A k \in DOMAIN snaps : Values(snaps[k].of) \subseteq aside'
    BY <1>1, <2>1, HeldIs DEF DiskCarries, InLog
  <2>9. Carries(s, q, 0)'
    BY <2>1, <2>6, <2>7, <2>8 DEF Carries, Readable
  <2> QED BY <1>2, <2>1, <2>2, <2>5, <2>9 DEF HostCarries, Owed, Folding
<1>21. CASE Crash(h)
  <2>1. ~mem'[h].open /\ step'[h].at = "idle" /\ UNCHANGED <<batches, snaps, acked, aside, hurt>>
    BY <1>1, <1>21, CrashLeaves
  <2> QED BY <1>3, <2>1 DEF HostCarries, Owed, Folding
<1> QED BY <1>7, <1>8, <1>9, <1>10, <1>11, <1>15, <1>16, <1>17, <1>18, <1>19, <1>20, <1>21 DEF HostStep

LEMMA StepSurvives ==
    ASSUME OneHost
    PROVE  SurviveInv /\ [Next]_vars => SurviveInv'
<1> SUFFICES ASSUME SurviveInv, [Next]_vars PROVE SurviveInv'
  OBVIOUS
<1>1. LogType'
  BY StepType DEF SurviveInv
<1>2. CASE UNCHANGED vars
  <2>1. DiskCarries'
    BY <1>2, SameDisk DEF SurviveInv, DiskCarries, vars
  <2>2. \A h \in Host : HostCarries(h)'
    BY <1>2 DEF SurviveInv, HostCarries, Owed, Folding, Carries, CanBeRead, Readable, SalvagedFrom, vars
  <2> QED BY <1>1, <2>1, <2>2 DEF SurviveInv
<1>3. CASE Damage
  <2>1. DiskCarries'
    BY <1>1, <1>3, DamageReads DEF SurviveInv
  <2>2. \A h \in Host : mem'[h] = Closed /\ step'[h] = Idle
    BY <1>3 DEF Damage
  <2>3. \A h \in Host : HostCarries(h)'
    BY <2>2 DEF HostCarries, Owed, Folding, Closed, Idle
  <2> QED BY <1>1, <2>1, <2>3 DEF SurviveInv
<1>4. ASSUME NEW h \in Host, HostStep(h)
      PROVE  SurviveInv'
  <2>1. DiskCarries' /\ HostCarries(h)'
    BY <1>1, <1>4, HostStepSurvives
  <2>2. \A g \in Host : g = h
    BY DEF OneHost
  <2> QED BY <1>1, <2>1, <2>2 DEF SurviveInv
<1> QED BY <1>2, <1>3, <1>4 DEF Next

\* Whatever entries go bad, wherever a crash falls and however often a fold of
\* the log fails: every answered batch can be read, unless the entry it was in
\* went bad, and even then that entry is in the log or in a copy set aside.
THEOREM AnsweredSurvive ==
    ASSUME OneHost
    PROVE  Spec => []AckedSurvive
<1>1. SurviveInv /\ [Next]_vars => SurviveInv'
  BY StepSurvives
<1> QED BY <1>1, InitSurvive, SurviveSuffices, PTL DEF Spec

(***************************************************************************)
(* What is in memory is what an opening would read                         *)
(***************************************************************************)

OpenBounds ==
    /\ LastSnap \in Nat /\ OpenSeq \in Nat /\ LastSnap <= OpenSeq
    /\ OpenSeq \in Later \cup {LastSnap}
    /\ DOMAIN snaps # {} => LastSnap \in DOMAIN snaps
    /\ DOMAIN snaps = {} => LastSnap = 0
    /\ \A n \in DOMAIN snaps : n <= LastSnap
    /\ \A n \in DOMAIN batches : n <= OpenSeq
    /\ \A q \in DOMAIN snaps : (\A n \in DOMAIN snaps : n <= q) => LastSnap = q
    /\ \A q \in Later \cup {LastSnap} : (\A n \in Later \cup {LastSnap} : n <= q) => OpenSeq = q

LEMMA OpeningBounds == LogType => OpenBounds
<1> SUFFICES ASSUME LogType PROVE OpenBounds
  OBVIOUS
<1>1. PICK top \in Nat : Upto(DOMAIN batches \cup DOMAIN snaps, top)
  BY NumbersType
<1>2. Upto(DOMAIN snaps, top)
  BY <1>1 DEF Upto
<1>3. /\ LastSnap \in Nat
      /\ DOMAIN snaps # {} => LastSnap \in DOMAIN snaps
      /\ DOMAIN snaps = {} => LastSnap = 0
      /\ \A n \in DOMAIN snaps : n <= LastSnap
      /\ \A q \in DOMAIN snaps : (\A n \in DOMAIN snaps : n <= q) => LastSnap = q
  BY <1>2, NewestBounds, NewestIs DEF LastSnap
<1>4. Upto(Later \cup {LastSnap}, LastSnap + top) /\ LastSnap + top \in Nat
  BY <1>1, <1>3 DEF Upto, Later
<1>5. /\ OpenSeq \in Nat /\ OpenSeq \in Later \cup {LastSnap}
      /\ \A n \in Later \cup {LastSnap} : n <= OpenSeq
      /\ \A q \in Later \cup {LastSnap} : (\A n \in Later \cup {LastSnap} : n <= q) => OpenSeq = q
  BY <1>4, NewestBounds, NewestIs DEF OpenSeq
<1>6. \A n \in DOMAIN batches : n <= OpenSeq
  <2> SUFFICES ASSUME NEW n \in DOMAIN batches PROVE n <= OpenSeq
    OBVIOUS
  <2>1. n \in Nat
    BY DiskTypes DEF Number
  <2>2. CASE n > LastSnap
    BY <1>5, <2>2 DEF Later
  <2>3. CASE n <= LastSnap
    BY <1>3, <1>5, <2>1, <2>3
  <2> QED BY <1>3, <2>1, <2>2, <2>3
<1> QED BY <1>3, <1>5, <1>6 DEF OpenBounds

\* Batches that follow one another from the newest snapshot leave no gap.
LEMMA NoGap ==
    ASSUME LogType, Opens
    PROVE  Later = (LastSnap + 1)..OpenSeq
<1>1. OpenBounds
  BY OpeningBounds
<1>2. Later \subseteq (LastSnap + 1)..OpenSeq
  BY <1>1, DiskTypes DEF OpenBounds, Later, Number
<1> DEFINE gaps == (LastSnap + 1)..OpenSeq \ Later
<1>3. ASSUME gaps # {} PROVE FALSE
  <2>1. Upto(gaps, OpenSeq) /\ OpenSeq \in Nat
    BY <1>1 DEF OpenBounds, Upto
  <2>2. PICK n \in gaps : \A m \in gaps : m <= n
    <3> HIDE DEF gaps
    <3> QED BY <1>3, <2>1, NewestExists
  <2>3. n \in Nat /\ n > LastSnap /\ n <= OpenSeq /\ n \notin Later
    BY <1>1 DEF OpenBounds
  <2>4. n + 1 \in (LastSnap + 1)..OpenSeq
    BY <1>1, <2>3 DEF OpenBounds
  <2>5. n + 1 \in Later
    BY <2>2, <2>3, <2>4
  <2>6. n + 1 = LastSnap + 1 \/ (n + 1) - 1 \in Later
    BY <2>5 DEF Opens
  <2> QED BY <1>1, <2>3, <2>6 DEF OpenBounds
<1> QED BY <1>2, <1>3

\* A log whose newest snapshot has nothing after it opens to that snapshot.
SnapshotOpens(s, q) ==
    /\ q \in DOMAIN snaps /\ snaps[q] = Entry(s)
    /\ \A k \in DOMAIN snaps : k <= q
    /\ \A n \in DOMAIN batches : n <= q
    /\ Numbered(batches) = DOMAIN batches /\ Numbered(snaps) = DOMAIN snaps

OpensToSnapshot ==
    \A s \in State, q \in Nat : SnapshotOpens(s, q) => Opens /\ OpenState = s /\ OpenSeq = q

LEMMA OpensAtSnapshot == LogType => OpensToSnapshot
<1> SUFFICES ASSUME LogType, NEW s \in State, NEW q \in Nat, SnapshotOpens(s, q)
             PROVE  Opens /\ OpenState = s /\ OpenSeq = q
  BY DEF OpensToSnapshot
<1>1. OpenBounds
  BY OpeningBounds
<1>2. LastSnap = q
  BY <1>1 DEF OpenBounds, SnapshotOpens
<1>3. Later = {}
  BY <1>2, DiskTypes DEF Later, SnapshotOpens, Number
<1>4. q \in Readable(snaps) /\ snaps[q].of = s
  BY EntryType DEF SnapshotOpens, Readable
<1>5. OpenSeq = q
  BY <1>1, <1>2, <1>3 DEF OpenBounds
<1>6. Opens
  BY <1>2, <1>3, <1>4 DEF Opens, SnapshotOpens
<1>7. {n \in Readable(batches) : n > LastSnap} = {}
  BY <1>3 DEF Later, Readable
<1>8. OpenState = [n \in DOMAIN s |-> s[n]]
  <2>1. DOMAIN snaps # {}
    BY DEF SnapshotOpens
  <2>2. OpenState = Replay(s, LastSnap)
    BY <1>2, <1>4, <2>1 DEF OpenState
  <2>3. Replay(s, LastSnap) = [n \in DOMAIN s \cup {} |-> IF n \in {} THEN batches[n].of ELSE s[n]]
    BY <1>7 DEF Replay
  <2> QED BY <2>2, <2>3
<1>9. s = [n \in DOMAIN s |-> s[n]]
  BY StateIs
<1> QED BY <1>5, <1>6, <1>8, <1>9

LEMMA AppendedEntries ==
    ASSUME NEW n, NEW b, batches' = With(batches, n, Entry(b)), n \notin DOMAIN batches
    PROVE  /\ DOMAIN batches' = DOMAIN batches \cup {n}
           /\ batches'[n].of = b
           /\ \A k \in DOMAIN batches : batches'[k] = batches[k]
           /\ Readable(batches)' = Readable(batches) \cup {n}
           /\ Numbered(batches)' = Numbered(batches) \cup {n}
<1>1. /\ DOMAIN batches' = DOMAIN batches \cup {n} /\ batches'[n] = Entry(b)
      /\ \A k \in DOMAIN batches : batches'[k] = batches[k]
  BY DEF With
<1>2. batches'[n].of = b /\ batches'[n].is = "good"
  BY <1>1 DEF Entry
<1> QED BY <1>1, <1>2 DEF Readable, Numbered

\* An entry appended one past the newest is read by the next opening.
LEMMA AppendOpens ==
    ASSUME LogType, LogType', Opens, NEW n \in Number, n = OpenSeq + 1, NEW b \in Batch,
           batches' = With(batches, n, Entry(b)), UNCHANGED snaps
    PROVE  Opens' /\ OpenSeq' = n /\ OpenState' = With(OpenState, n, b)
<1>1. OpenBounds
  BY OpeningBounds
<1>2. OpenBounds'
  BY OpeningBounds, PTL
<1>3. n \notin DOMAIN batches /\ n > LastSnap /\ n \in Nat
  BY <1>1 DEF OpenBounds, Number
<1>4. /\ DOMAIN batches' = DOMAIN batches \cup {n} /\ batches'[n].of = b
      /\ \A k \in DOMAIN batches : batches'[k] = batches[k]
  BY <1>3, AppendedEntries
<1>5. LastSnap' = LastSnap /\ Readable(snaps)' = Readable(snaps) /\ Numbered(snaps)' = Numbered(snaps)
  BY DEF LastSnap, Readable, Numbered
<1>6. /\ Readable(batches)' = Readable(batches) \cup {n}
      /\ Numbered(batches)' = Numbered(batches) \cup {n}
  BY <1>3, AppendedEntries
<1>7. Later' = Later \cup {n}
  BY <1>3, <1>4, <1>5 DEF Later
<1>8. OpenSeq' = n
  <2>1. n \in Later' \cup {LastSnap'} /\ \A m \in Later' \cup {LastSnap'} : m <= n
    BY <1>1, <1>3, <1>5, <1>7, DiskTypes DEF OpenBounds, Later, Number
  <2> QED BY <1>2, <2>1 DEF OpenBounds
<1>9. Opens'
  <2>1. \A m \in Later' : m = LastSnap' + 1 \/ m - 1 \in Later'
    <3>1. \A m \in Later : m = LastSnap + 1 \/ m - 1 \in Later
      BY DEF Opens
    <3>2. n = LastSnap + 1 \/ n - 1 \in Later
      BY <1>1 DEF OpenBounds
    <3> QED BY <1>5, <1>7, <3>1, <3>2
  <2> QED BY <1>4, <1>5, <1>6, <1>7, <2>1 DEF Opens
<1> DEFINE base == IF DOMAIN snaps = {} THEN NoState ELSE snaps[LastSnap].of
           after == {k \in Readable(batches) : k > LastSnap}
<1>10. OpenState = [k \in DOMAIN base \cup after |-> IF k \in after THEN batches[k].of ELSE base[k]]
  BY DEF OpenState, Replay
<1>11. {k \in Readable(batches)' : k > LastSnap'} = after \cup {n}
  BY <1>3, <1>5, <1>6
<1>12. OpenState' = [k \in DOMAIN base \cup (after \cup {n}) |->
                       IF k \in after \cup {n} THEN batches'[k].of ELSE base[k]]
  BY <1>5, <1>11 DEF OpenState, Replay
<1> HIDE DEF base
<1>13. \A k \in after : batches'[k].of = batches[k].of /\ k # n
  BY <1>3, <1>4 DEF Readable
<1>14. batches'[n].of = b
  BY <1>4
<1>15. With(OpenState, n, b) = [k \in (DOMAIN base \cup after) \cup {n} |-> IF k = n THEN b ELSE OpenState[k]]
  BY <1>10 DEF With
<1> HIDE DEF after
<1>16. \A k \in DOMAIN base \cup after : k # n =>
         OpenState[k] = IF k \in after THEN batches[k].of ELSE base[k]
  BY <1>10
<1>17. \A k \in DOMAIN base \cup (after \cup {n}) :
         (IF k \in after \cup {n} THEN batches'[k].of ELSE base[k]) = (IF k = n THEN b ELSE OpenState[k])
  BY <1>13, <1>14, <1>16
<1>18. DOMAIN base \cup (after \cup {n}) = (DOMAIN base \cup after) \cup {n}
  OBVIOUS
<1>19. OpenState' = With(OpenState, n, b)
  BY <1>12, <1>15, <1>17, <1>18
<1> QED BY <1>8, <1>9, <1>19

\* While no entry has gone bad.
SoundDisk ==
    /\ Readable(batches) = DOMAIN batches /\ Readable(snaps) = DOMAIN snaps
    /\ \A k \in DOMAIN snaps : DOMAIN snaps[k].of = 1..k
    /\ Opens

LEMMA SoundDomain == LogType /\ SoundDisk => DOMAIN OpenState = 1..OpenSeq
<1> SUFFICES ASSUME LogType, SoundDisk PROVE DOMAIN OpenState = 1..OpenSeq
  OBVIOUS
<1>1. OpenBounds /\ Later = (LastSnap + 1)..OpenSeq
  BY OpeningBounds, NoGap DEF SoundDisk
<1> DEFINE base == IF DOMAIN snaps = {} THEN NoState ELSE snaps[LastSnap].of
<1>2. DOMAIN base = 1..LastSnap
  <2>1. CASE DOMAIN snaps = {}
    <3>1. LastSnap = 0 /\ DOMAIN base = {}
      BY <1>1, <2>1, NoStateType DEF OpenBounds
    <3> QED BY <3>1
  <2>2. CASE DOMAIN snaps # {}
    BY <1>1, <2>2 DEF SoundDisk, OpenBounds
  <2> QED BY <2>1, <2>2
<1>3. DOMAIN OpenState = DOMAIN base \cup {n \in Readable(batches) : n > LastSnap}
  BY DEF OpenState, Replay
<1>4. {n \in Readable(batches) : n > LastSnap} = Later
  BY DEF SoundDisk, Later
<1> HIDE DEF base
<1> QED BY <1>1, <1>2, <1>3, <1>4 DEF OpenBounds

\* At most one entry goes bad, and none that is kept as a row.
Mild == MaxDamage <= 1 /\ "rows" \notin Fragile

\* The highest number that can be read is at most one short of the batches.
Near == \A n \in DOMAIN batches : n <= HighestNumber + 1

InStep(h) ==
    mem[h].open =>
      /\ Opens
      /\ step[h].at = "confirm" =>
           /\ OpenState = With(mem[h].state, step[h].seq, step[h].batch) /\ OpenSeq = step[h].seq
           /\ Cardinality(DOMAIN batches) <= mem[h].since + 1
      /\ step[h].at # "confirm" =>
           /\ OpenState = mem[h].state /\ OpenSeq = mem[h].seq
           /\ Cardinality(DOMAIN batches) <= mem[h].since

\* A fresh log begun from a damaged one is numbered no lower than a batch of it.
BegunAbove(h) ==
    ~mem[h].open /\ Folding(h) => store = "files" /\ \A n \in DOMAIN batches : n <= step[h].seq

Sound(h) == Folding(h) => mem[h].open
WholeInv ==
    /\ damage <= MaxDamage /\ (damage # 0 => store \in Fragile)
    /\ damage = 0 => SoundDisk /\ \A h \in Host : Sound(h)
    /\ damage = 0 \/ Mild => Near /\ \A h \in Host : InStep(h) /\ BegunAbove(h)

LEMMA HighestBounds ==
    LogType => /\ HighestNumber \in Nat
               /\ \A n \in Numbered(batches) \cup Numbered(snaps) : n <= HighestNumber
BY NewestOfEntries DEF HighestNumber, Numbered

HighestAbove == HighestNumber \in Nat /\ \A n \in Numbered(batches) \cup Numbered(snaps) : n <= HighestNumber
LEMMA HighestIs == LogType => HighestAbove
BY HighestBounds DEF HighestAbove

LEMMA OpensNear == LogType /\ Opens => Near
<1> SUFFICES ASSUME LogType, Opens, NEW n \in DOMAIN batches
             PROVE  n <= HighestNumber + 1
  BY DEF Near
<1>1. n \in Numbered(batches) /\ n \in Nat
  BY DiskTypes DEF Opens, Number
<1> QED BY <1>1, HighestIs DEF HighestAbove

LEMMA SameOpening ==
    ASSUME UNCHANGED <<batches, snaps>>
    PROVE  /\ Opens' = Opens /\ OpenState' = OpenState /\ OpenSeq' = OpenSeq
           /\ SoundDisk' = SoundDisk /\ Near' = Near
<1>1. /\ Later' = Later /\ LastSnap' = LastSnap /\ Readable(batches)' = Readable(batches)
      /\ Readable(snaps)' = Readable(snaps) /\ Numbered(batches)' = Numbered(batches)
      /\ Numbered(snaps)' = Numbered(snaps)
  BY DEF Later, LastSnap, Readable, Numbered
<1>2. Opens' = Opens /\ OpenSeq' = OpenSeq
  BY <1>1 DEF Opens, OpenSeq
<1>3. OpenState' = OpenState
  BY <1>1 DEF OpenState, Replay
<1>4. Near' = Near
  BY <1>1 DEF Near, HighestNumber
<1>5. SoundDisk' = SoundDisk
  BY <1>1, <1>2 DEF SoundDisk
<1> QED BY <1>2, <1>3, <1>4, <1>5

LEMMA CountType == LogType => IsFiniteSet(DOMAIN batches) /\ Cardinality(DOMAIN batches) \in Nat
                              /\ Cardinality(DOMAIN snaps) \in Nat
<1> SUFFICES ASSUME LogType
             PROVE  /\ IsFiniteSet(DOMAIN batches) /\ Cardinality(DOMAIN batches) \in Nat
                    /\ Cardinality(DOMAIN snaps) \in Nat
  OBVIOUS
<1>1. PICK top \in Nat : \A n \in DOMAIN batches \cup DOMAIN snaps : n <= top
  BY DEF LogType, Bounded
<1>2. DOMAIN batches \in SUBSET Nat /\ DOMAIN snaps \in SUBSET Nat
  BY DiskTypes DEF Number
<1> QED BY <1>1, <1>2, FS_BoundedSetOfNaturals, FS_CardinalityType

\* One entry gone bad leaves the numbers near.
LEMMA DamageNear ==
    ASSUME LogType, LogType', SoundDisk, Damage
    PROVE  Near'
<1>1. OpenBounds /\ Opens
  BY OpeningBounds DEF SoundDisk
<1>2. /\ DOMAIN batches' = DOMAIN batches /\ DOMAIN snaps' = DOMAIN snaps
      /\ \/ \E n \in Readable(batches) : UNCHANGED snaps /\ Numbered(batches) \ {n} \subseteq Numbered(batches)'
         \/ UNCHANGED batches
  BY DamageIs
<1>3. HighestAbove'
  BY HighestIs, PTL
<1>4. Numbered(batches) = DOMAIN batches /\ Numbered(snaps) = DOMAIN snaps
  BY <1>1 DEF Opens
<1>5. CASE UNCHANGED batches
  <2>1. Numbered(batches)' = DOMAIN batches'
    BY <1>4, <1>5 DEF Numbered
  <2> QED BY <1>2, <1>3, <2>1, DiskTypes DEF Near, HighestAbove, Number
<1>6. CASE \E n \in Readable(batches) : UNCHANGED snaps /\ Numbered(batches) \ {n} \subseteq Numbered(batches)'
  <2>1. PICK n \in Readable(batches) : UNCHANGED snaps /\ Numbered(batches) \ {n} \subseteq Numbered(batches)'
    BY <1>6
  <2>2. \A m \in DOMAIN batches : m # n => m <= HighestNumber'
    BY <1>3, <1>4, <2>1 DEF HighestAbove
  <2>3. \A k \in DOMAIN snaps : k <= HighestNumber'
    BY <1>3, <1>4, <2>1 DEF HighestAbove, Numbered
  <2>4. n \in DOMAIN batches /\ n \in Nat /\ n # 0 /\ \A m \in DOMAIN batches : m \in Nat
    BY DiskTypes DEF Readable, Number
  <2>6. /\ LastSnap \in Nat
        /\ DOMAIN snaps = {} => LastSnap = 0
        /\ DOMAIN snaps # {} => LastSnap \in DOMAIN snaps
    BY <1>1 DEF OpenBounds
  <2>7. HighestNumber' \in Nat
    BY <1>3 DEF HighestAbove
  <2>8. LastSnap <= HighestNumber'
    <3> HIDE DEF HighestNumber, LastSnap
    <3>1. CASE DOMAIN snaps = {}
      <4>1. LastSnap = 0
        BY <2>6, <3>1
      <4> QED BY <2>7, <4>1
    <3>2. CASE DOMAIN snaps # {}
      BY <2>3, <2>6, <3>2
    <3> QED BY <3>1, <3>2
  <2>5. n <= HighestNumber' + 1
    <3>1. CASE n <= LastSnap
      BY <2>4, <2>6, <2>7, <2>8, <3>1
    <3>2. CASE n = LastSnap + 1
      <4>1. PICK last \in Nat : last = LastSnap
        BY <2>6
      <4>2. PICK high \in Nat : high = HighestNumber'
        BY <2>7
      <4>3. last <= high /\ n = last + 1
        BY <2>8, <3>2, <4>1, <4>2
      <4>4. n <= high + 1
        BY <4>3
      <4> QED BY <4>2, <4>4
    <3>3. CASE n - 1 \in Later
      <4>1. n - 1 \in DOMAIN batches /\ n - 1 # n
        BY <2>4, <3>3 DEF Later
      <4>2. n - 1 <= HighestNumber'
        BY <2>2, <4>1
      <4> QED BY <1>3, <2>4, <4>2 DEF HighestAbove
    <3>4. n > LastSnap => n \in Later
      BY <2>4 DEF Later
    <3> QED BY <1>1, <2>4, <3>1, <3>2, <3>3, <3>4 DEF Opens, OpenBounds
  <2> QED BY <1>2, <1>3, <2>2, <2>4, <2>5 DEF Near, HighestAbove
<1> QED BY <1>2, <1>5, <1>6

\* A fold that leaves one snapshot above every batch left.
LEMMA FoldOpens ==
    ASSUME LogType', NEW q \in Nat, NEW s \in State, DOMAIN snaps' = {q}, snaps'[q] = Entry(s),
           Numbered(batches) = DOMAIN batches, \A k \in DOMAIN batches : k <= q,
           DOMAIN batches' \subseteq DOMAIN batches, \A k \in DOMAIN batches' : batches'[k] = batches[k]
    PROVE  Opens' /\ OpenState' = s /\ OpenSeq' = q /\ Near'
<1>1. OpensToSnapshot'
  BY OpensAtSnapshot, PTL
<1>2. Numbered(batches)' = DOMAIN batches' /\ Numbered(snaps)' = DOMAIN snaps'
  BY EntryType DEF Numbered, Entry
<1>3. \A k \in DOMAIN snaps' : k <= q
  OBVIOUS
<1>4. SnapshotOpens(s, q)'
  BY <1>2, <1>3 DEF SnapshotOpens
<1>5. Opens' /\ OpenState' = s /\ OpenSeq' = q
  BY <1>1, <1>4 DEF OpensToSnapshot
<1>6. LogType' /\ Opens' => Near'
  BY OpensNear, PTL
<1> QED BY <1>5, <1>6

LEMMA FoldSound ==
    ASSUME Opens', NEW q \in Nat, NEW s \in State, DOMAIN snaps' = {q}, snaps'[q] = Entry(s),
           Readable(batches) = DOMAIN batches, DOMAIN s = 1..q,
           DOMAIN batches' \subseteq DOMAIN batches, \A k \in DOMAIN batches' : batches'[k] = batches[k]
    PROVE  SoundDisk'
<1>1. Readable(batches)' = DOMAIN batches'
  BY DEF Readable
<1>2. snaps'[q].of = s /\ snaps'[q].is = "good"
  BY EntryType
<1>3. Readable(snaps)' = DOMAIN snaps'
  BY <1>2 DEF Readable
<1> QED BY <1>1, <1>2, <1>3 DEF SoundDisk

LEMMA CountAdded ==
    ASSUME NEW S, IsFiniteSet(S), NEW x, NEW c \in Nat, Cardinality(S) <= c
    PROVE  Cardinality(S \cup {x}) <= c + 1
<1>1. Cardinality(S) \in Nat
  BY FS_CardinalityType
<1> QED BY <1>1, FS_AddElement

LEMMA CountRemoved ==
    ASSUME NEW S, IsFiniteSet(S), NEW x, NEW c \in Nat, Cardinality(S) <= c
    PROVE  Cardinality(S \ {x}) <= c
<1>1. Cardinality(S) \in Nat /\ Cardinality(S \ {x}) \in Nat
  BY FS_CardinalityType, FS_RemoveElement
<1>2. Cardinality(S \ {x}) <= Cardinality(S)
  BY FS_Subset
<1> QED BY <1>1, <1>2

WholeAt(h) ==
    /\ damage = 0 => SoundDisk /\ Sound(h)
    /\ damage = 0 \/ Mild => Near /\ InStep(h) /\ BegunAbove(h)

LEMMA HostStepWhole ==
    ASSUME SurviveInv, LogType', NEW h \in Host, HostStep(h), WholeAt(h),
           damage # 0 => store \in Fragile
    PROVE  WholeAt(h)' /\ UNCHANGED <<damage, store>>
<1>1. LogType /\ HostCarries(h)
  BY DEF SurviveInv
<1>2. /\ mem \in [Host -> LogInMemory] /\ step \in [Host -> Operation]
      /\ mem[h].open \in BOOLEAN /\ mem[h].state \in State /\ mem[h].seq \in Nat /\ mem[h].since \in Nat
      /\ step[h].state \in State /\ step[h].seq \in Nat /\ step[h].batch \in 0..MaxBatches
      /\ OperationShape(h)
  BY <1>1, MemoryTypes DEF LogType
<1>3. /\ OpenBounds /\ IsFiniteSet(DOMAIN batches)
      /\ Cardinality(DOMAIN batches) \in Nat /\ Cardinality(DOMAIN snaps) \in Nat
  BY <1>1, OpeningBounds, CountType
<1>4. PICK state \in State, seq \in Nat, since \in Nat :
         state = mem[h].state /\ seq = mem[h].seq /\ since = mem[h].since
  BY <1>2
<1>5. PICK n \in Nat, b \in 0..MaxBatches, new \in State :
         n = step[h].seq /\ b = step[h].batch /\ new = step[h].state
  BY <1>2
<1>6. UNCHANGED <<batches, snaps>> =>
        /\ Opens' = Opens /\ OpenState' = OpenState /\ OpenSeq' = OpenSeq
        /\ SoundDisk' = SoundDisk /\ Near' = Near
  BY SameOpening
<1>7. CASE OpenLog(h)
  <2>1. /\ Opens /\ mem'[h].open /\ mem'[h].state = OpenState /\ mem'[h].seq = OpenSeq
        /\ mem'[h].since = Cardinality(DOMAIN batches) + Cardinality(DOMAIN snaps)
        /\ step'[h].at = "idle" /\ UNCHANGED <<batches, snaps, damage, store>>
    BY <1>1, <1>7, OpenLogLeaves
  <2>2. Cardinality(DOMAIN batches') <= mem'[h].since
    BY <1>3, <2>1
  <2>3. InStep(h)' /\ BegunAbove(h)' /\ Sound(h)'
    BY <1>6, <2>1, <2>2 DEF InStep, BegunAbove, Sound, Folding
  <2> QED BY <1>6, <2>1, <2>3 DEF WholeAt
<1>8. CASE Prepare(h)
  <2>1. /\ step[h].at = "idle" /\ mem[h].open /\ step'[h].at = "append"
        /\ mem' = mem /\ UNCHANGED <<batches, snaps, damage, store>>
    BY <1>1, <1>8, PrepareLeaves
  <2>2. InStep(h) => InStep(h)'
    BY <1>6, <2>1 DEF InStep
  <2> QED BY <1>6, <2>1, <2>2 DEF WholeAt, BegunAbove, Sound, Folding
<1>9. CASE AppendEntry(h)
  <2>1. /\ step[h].at = "append" /\ n \notin DOMAIN batches
        /\ batches' = With(batches, n, Entry(b))
        /\ step'[h].at = "confirm" /\ step'[h].seq = n /\ step'[h].batch = b
        /\ mem' = mem /\ UNCHANGED <<snaps, damage, store>>
    BY <1>1, <1>5, <1>9, AppendLeaves
  <2>2. mem[h].open /\ n = seq + 1 /\ n \in Number /\ b \in Batch
    BY <1>1, <1>2, <1>4, <1>5, <2>1 DEF HostCarries, OperationShape, Number
  <2>3. /\ DOMAIN batches' = DOMAIN batches \cup {n}
        /\ Readable(batches)' = Readable(batches) \cup {n}
    BY <2>1, AppendedEntries
  <2>4. ASSUME InStep(h)
        PROVE  InStep(h)' /\ Near' /\ Opens'
    <3>1. Opens /\ OpenState = state /\ OpenSeq = seq /\ Cardinality(DOMAIN batches) <= since
      BY <1>4, <2>1, <2>2, <2>4 DEF InStep
    <3>2. Opens' /\ OpenSeq' = n /\ OpenState' = With(state, n, b)
      BY <1>1, <2>1, <2>2, <3>1, AppendOpens
    <3>3. Cardinality(DOMAIN batches') <= since + 1
      BY <1>3, <2>3, <3>1, CountAdded
    <3>4. LogType' /\ Opens' => Near'
      BY OpensNear, PTL
    <3>5. mem'[h].state = state /\ mem'[h].since = since
      BY <1>4, <2>1
    <3> QED BY <2>1, <3>2, <3>3, <3>4, <3>5 DEF InStep
  <2>5. SoundDisk /\ Opens' => SoundDisk'
    BY <2>1, <2>3 DEF SoundDisk, Readable
  <2> QED BY <2>1, <2>2, <2>4, <2>5 DEF WholeAt, BegunAbove, Sound, Folding
<1>10. CASE Abandon(h)
  <2>1. /\ step[h].at = "append" /\ step'[h].at = "idle"
        /\ mem' = mem /\ UNCHANGED <<batches, snaps, damage, store>>
    BY <1>1, <1>10, AbandonLeaves
  <2>2. InStep(h) => InStep(h)'
    BY <1>6, <2>1 DEF InStep
  <2> QED BY <1>6, <2>1, <2>2 DEF WholeAt, BegunAbove, Sound, Folding
<1>11. CASE Confirm(h)
  <2>1. /\ step[h].at = "confirm" /\ step'[h].at # "confirm"
        /\ mem'[h].open = mem[h].open /\ mem'[h].seq = n
        /\ mem'[h].state = With(state, n, b) /\ mem'[h].since = since + 1
        /\ UNCHANGED <<batches, snaps, damage, store>>
    BY <1>1, <1>4, <1>5, <1>11, ConfirmLeaves
  <2>2. mem[h].open
    BY <1>1, <2>1 DEF HostCarries
  <2>3. InStep(h) => InStep(h)'
    BY <1>4, <1>5, <1>6, <2>1, <2>2 DEF InStep
  <2> QED BY <1>6, <2>1, <2>2, <2>3 DEF WholeAt, BegunAbove, Sound
\* An open log is folded at the number and the state an opening would read.
<1>12. ASSUME Folding(h), mem[h].open, InStep(h)
       PROVE  /\ Opens /\ OpenState = new /\ OpenSeq = n /\ new = state /\ n = seq
              /\ Numbered(batches) = DOMAIN batches
              /\ \A k \in DOMAIN batches \cup DOMAIN snaps : k <= n
              /\ SoundDisk => Readable(batches) = DOMAIN batches /\ DOMAIN new = 1..n
  <2>1. Opens /\ OpenState = state /\ OpenSeq = seq /\ state = new /\ seq = n
    BY <1>1, <1>4, <1>5, <1>12 DEF InStep, HostCarries, Folding
  <2>2. \A k \in DOMAIN snaps : k <= n
    <3>1. LastSnap \in Nat /\ LastSnap <= n /\ \A k \in DOMAIN snaps : k <= LastSnap /\ k \in Nat
      BY <1>1, <1>3, <2>1, DiskTypes DEF OpenBounds, Number
    <3> QED BY <3>1
  <2>3. \A k \in DOMAIN batches : k <= n
    BY <1>3, <2>1 DEF OpenBounds
  <2>4. SoundDisk => Readable(batches) = DOMAIN batches /\ DOMAIN new = 1..n
    BY <1>1, <2>1, SoundDomain DEF SoundDisk
  <2> QED BY <2>1, <2>2, <2>3, <2>4 DEF Opens
<1>13. CASE CompactRows(h)
  <2>1. Folding(h) /\ Finish(h) /\ store = "rows" /\ UNCHANGED <<damage, store>>
    BY <1>13 DEF CompactRows, At, Folding
  <2>2. ASSUME damage = 0 \/ Mild
        PROVE  mem[h].open /\ InStep(h)
    BY <1>2, <2>1, <2>2 DEF WholeAt, BegunAbove
  <2> DEFINE older == {k \in DOMAIN snaps : k < n}
  <2>3. /\ snaps' = With(Without(snaps, older), n, Entry(new))
        /\ batches' = Without(batches, Covered(n))
    BY <1>5, <1>13 DEF CompactRows
  <2>4. /\ DOMAIN snaps' = (DOMAIN snaps \ older) \cup {n} /\ snaps'[n] = Entry(new)
        /\ DOMAIN batches' = DOMAIN batches \ Covered(n)
        /\ \A m \in DOMAIN batches' : batches'[m] = batches[m]
    BY <2>3 DEF With, Without
  <2>5. /\ mem'[h].open /\ mem'[h].since = 0 /\ step'[h].at = "idle"
        /\ mem[h].open => mem'[h].state = state /\ mem'[h].seq = seq
    BY <1>1, <1>4, <2>1, FinishLeaves
  <2>6. ASSUME InStep(h), mem[h].open
        PROVE  /\ Opens' /\ OpenState' = new /\ OpenSeq' = n /\ Near' /\ DOMAIN batches' = {}
               /\ SoundDisk => SoundDisk'
    <3>1. DOMAIN batches' = {}
      BY <1>12, <2>1, <2>4, <2>6 DEF Covered
    <3>2. DOMAIN snaps' = {n}
      <4>1. \A k \in DOMAIN snaps : k = n \/ k \in older
        BY <1>1, <1>12, <2>1, <2>6, DiskTypes DEF Number
      <4> HIDE DEF older
      <4> QED BY <2>4, <4>1
    <3>3. Opens' /\ OpenState' = new /\ OpenSeq' = n /\ Near'
      BY <1>12, <2>1, <2>4, <2>6, <3>1, <3>2, FoldOpens
    <3>4. SoundDisk => SoundDisk'
      BY <1>12, <2>1, <2>4, <2>6, <3>1, <3>2, <3>3, FoldSound
    <3> QED BY <3>1, <3>3, <3>4
  <2>7. ASSUME InStep(h), mem[h].open
        PROVE  InStep(h)'
    <3>1. Cardinality(DOMAIN batches') <= mem'[h].since
      BY <2>5, <2>6, <2>7, FS_EmptySet
    <3> QED BY <1>12, <2>1, <2>5, <2>6, <2>7, <3>1 DEF InStep
  <2> QED BY <2>1, <2>2, <2>5, <2>6, <2>7 DEF WholeAt, BegunAbove, Sound, Folding
<1> DEFINE rest == /\ Numbered(batches) = DOMAIN batches /\ \A k \in DOMAIN batches : k <= n
                   /\ SoundDisk => Readable(batches) = DOMAIN batches /\ DOMAIN new = 1..n
\* What files hold once the snapshot has its name, and as batches go.
<1>14. ASSUME snaps' = With(NoState, n, Entry(new)), DOMAIN batches' \subseteq DOMAIN batches,
              \A k \in DOMAIN batches' : batches'[k] = batches[k]
       PROVE  /\ rest => Opens' /\ OpenState' = new /\ OpenSeq' = n /\ Near' /\ (SoundDisk => SoundDisk')
              /\ (\A k \in DOMAIN batches : k <= n) => Near'
  <2>1. DOMAIN snaps' = DOMAIN NoState \cup {n} /\ snaps'[n] = Entry(new)
    BY <1>14 DEF With
  <2>2. DOMAIN snaps' = {n}
    BY <2>1, NoStateType
  <2>3. rest => Opens' /\ OpenState' = new /\ OpenSeq' = n /\ Near'
    BY <1>14, <2>1, <2>2, FoldOpens
  <2>4. rest /\ SoundDisk => SoundDisk'
    BY <1>14, <2>1, <2>2, <2>3, FoldSound
  <2>5. HighestAbove'
    BY HighestIs, PTL
  <2>6. n \in Numbered(snaps)'
    BY <2>1, <2>2 DEF Numbered, Entry
  <2>7. HighestNumber' \in Nat /\ n <= HighestNumber'
    BY <2>5, <2>6 DEF HighestAbove
  <2>8. PICK high \in Nat : high = HighestNumber'
    BY <2>7
  <2>9. ASSUME \A k \in DOMAIN batches : k <= n PROVE \A k \in DOMAIN batches' : k <= high + 1
    <3>1. \A k \in DOMAIN batches' : k \in Nat /\ k <= n
      BY <1>1, <1>14, <2>9, DiskTypes DEF Number
    <3> QED BY <2>7, <2>8, <3>1
  <2> QED BY <2>3, <2>4, <2>8, <2>9 DEF Near
<1>15. CASE NameSnapshot(h)
  <2>1. /\ store = "files" /\ step[h].at = "compact" /\ snaps' = With(NoState, n, Entry(new))
        /\ step'[h].at = "drop" /\ step'[h].seq = n
        /\ mem' = mem /\ UNCHANGED <<batches, damage, store>>
    BY <1>1, <1>5, <1>15, NameLeaves
  <2>2. Folding(h)
    BY <2>1 DEF Folding
  <2>3. ASSUME InStep(h), mem[h].open
        PROVE  InStep(h)' /\ Near' /\ (SoundDisk => SoundDisk')
    <3>1. Opens' /\ OpenState' = state /\ OpenSeq' = seq /\ Near' /\ (SoundDisk => SoundDisk')
      BY <1>12, <1>14, <2>1, <2>2, <2>3
    <3>2. Cardinality(DOMAIN batches) <= since
      BY <1>4, <2>1, <2>3 DEF InStep
    <3> QED BY <1>4, <2>1, <3>1, <3>2 DEF InStep
  <2>4. ASSUME BegunAbove(h), ~mem[h].open
        PROVE  InStep(h)' /\ Near' /\ BegunAbove(h)'
    <3>1. \A k \in DOMAIN batches : k <= n
      BY <1>5, <2>2, <2>4 DEF BegunAbove
    <3>2. Near'
      BY <1>14, <2>1, <3>1
    <3> QED BY <2>1, <2>4, <3>1, <3>2 DEF InStep, BegunAbove
  <2> QED BY <1>2, <2>1, <2>2, <2>3, <2>4 DEF WholeAt, BegunAbove, Sound
<1>16. CASE RemoveBatch(h)
  <2>1. /\ step[h].at = "drop" /\ snaps = With(NoState, n, Entry(new))
        /\ UNCHANGED <<mem, step, snaps, store, damage>>
    BY <1>1, <1>5, <1>16, RemoveLeaves DEF HostCarries
  <2>2. PICK m \in DOMAIN batches : m <= n /\ batches' = Without(batches, {m})
    BY <1>1, <1>5, <1>16, RemoveLeaves
  <2>3. DOMAIN batches' = DOMAIN batches \ {m} /\ \A k \in DOMAIN batches' : batches'[k] = batches[k]
    BY <2>2 DEF Without
  <2>4. Folding(h) /\ (Folding(h)' = Folding(h))
    BY <2>1 DEF Folding
  <2>5. ASSUME InStep(h), mem[h].open
        PROVE  InStep(h)' /\ Near' /\ (SoundDisk => SoundDisk')
    <3>1. Opens' /\ OpenState' = state /\ OpenSeq' = seq /\ Near' /\ (SoundDisk => SoundDisk')
      BY <1>12, <1>14, <2>1, <2>3, <2>4, <2>5
    <3>2. Cardinality(DOMAIN batches) <= since
      BY <1>4, <2>1, <2>5 DEF InStep
    <3>3. Cardinality(DOMAIN batches') <= since
      BY <1>3, <2>3, <3>2, CountRemoved
    <3> QED BY <1>4, <2>1, <3>1, <3>3 DEF InStep
  <2>6. ASSUME BegunAbove(h), ~mem[h].open
        PROVE  InStep(h)' /\ Near' /\ BegunAbove(h)'
    <3>1. store = "files" /\ \A k \in DOMAIN batches : k <= n
      BY <1>5, <2>4, <2>6 DEF BegunAbove
    <3>2. Near'
      BY <1>14, <2>1, <2>3, <3>1
    <3> QED BY <1>5, <2>1, <2>3, <2>6, <3>1, <3>2 DEF InStep, BegunAbove
  <2> QED BY <1>2, <2>1, <2>4, <2>5, <2>6 DEF WholeAt, BegunAbove, Sound
<1>17. CASE EndCompact(h)
  <2>1. /\ Folding(h) /\ Finish(h) /\ UNCHANGED <<batches, snaps, damage, store>>
        /\ step[h].at = "drop" /\ Covered(n) = {}
    BY <1>5, <1>17 DEF EndCompact, At, Folding, diskVars
  <2>2. snaps' = With(NoState, n, Entry(new))
    BY <1>1, <1>5, <2>1 DEF HostCarries
  <2>3. /\ mem'[h].open /\ mem'[h].since = 0 /\ step'[h].at = "idle"
        /\ mem[h].open => mem'[h].state = state /\ mem'[h].seq = seq
        /\ ~mem[h].open => mem'[h].state = new /\ mem'[h].seq = n
    BY <1>1, <1>4, <1>5, <2>1, FinishLeaves
  <2>4. ASSUME \A k \in DOMAIN batches : k <= n
        PROVE  DOMAIN batches = {} /\ Opens' /\ OpenState' = new /\ OpenSeq' = n
    <3>1. DOMAIN batches = {}
      BY <2>1, <2>4 DEF Covered
    <3>2. Numbered(batches) = DOMAIN batches
      BY <3>1 DEF Numbered
    <3>3. DOMAIN snaps' = DOMAIN NoState \cup {n} /\ snaps'[n] = Entry(new)
      BY <2>2 DEF With
    <3> QED BY <2>1, <2>4, <3>1, <3>2, <3>3, NoStateType, FoldOpens
  <2>5. ASSUME damage = 0 \/ Mild
        PROVE  \A k \in DOMAIN batches : k <= n
    <3>1. CASE mem[h].open
      BY <1>12, <2>1, <2>5, <3>1 DEF WholeAt
    <3>2. CASE ~mem[h].open
      BY <1>5, <2>1, <2>5, <3>2 DEF WholeAt, BegunAbove
    <3> QED BY <1>2, <3>1, <3>2
  <2>6. ASSUME damage = 0 \/ Mild
        PROVE  InStep(h)'
    <3>1. DOMAIN batches' = {} /\ Opens' /\ OpenState' = new /\ OpenSeq' = n
      BY <2>1, <2>4, <2>5, <2>6
    <3>2. mem'[h].state = new /\ mem'[h].seq = n
      BY <1>2, <1>12, <2>1, <2>3, <2>6 DEF WholeAt
    <3>3. Cardinality(DOMAIN batches') <= mem'[h].since
      BY <2>3, <3>1, FS_EmptySet
    <3> QED BY <2>3, <3>1, <3>2, <3>3 DEF InStep
  <2> QED BY <1>6, <2>1, <2>3, <2>6 DEF WholeAt, BegunAbove, Sound, Folding
<1>18. CASE CompactFails(h)
  <2>1. /\ step[h].at \in {"compact", "drop"} /\ step'[h].at = "idle"
        /\ mem' = mem /\ UNCHANGED <<batches, snaps, damage, store>>
    BY <1>1, <1>18, FailLeaves
  <2>2. InStep(h) => InStep(h)'
    BY <1>6, <2>1 DEF InStep
  <2> QED BY <1>6, <2>1, <2>2 DEF WholeAt, BegunAbove, Sound, Folding
<1>19. CASE SetAside(h)
  <2>1. /\ step[h].at = "idle" /\ ~mem[h].open /\ ~Opens
        /\ step'[h].at = "compact" /\ step'[h].seq = HighestNumber + 1
        /\ mem' = mem /\ UNCHANGED <<batches, snaps, store, damage>>
    BY <1>1, <1>19, AsideLeaves
  <2>2. damage # 0
    BY <2>1 DEF WholeAt, SoundDisk
  <2>3. Mild => store = "files"
    BY <1>1, <2>2 DEF LogType, Mild
  <2>4. Mild => BegunAbove(h)'
    BY <2>1, <2>2, <2>3 DEF WholeAt, BegunAbove, Near
  <2>5. InStep(h)'
    BY <2>1 DEF InStep
  <2> QED BY <1>6, <2>1, <2>2, <2>4, <2>5 DEF WholeAt
<1>20. CASE Crash(h)
  <2>1. ~mem'[h].open /\ step'[h].at = "idle" /\ UNCHANGED <<batches, snaps, damage, store>>
    BY <1>1, <1>20, CrashLeaves
  <2> QED BY <1>6, <2>1 DEF WholeAt, InStep, BegunAbove, Sound, Folding
<1> QED BY <1>7, <1>8, <1>9, <1>10, <1>11, <1>13, <1>15, <1>16, <1>17, <1>18, <1>19, <1>20 DEF HostStep

LEMMA DamageWhole ==
    ASSUME SurviveInv, LogType', WholeInv, Damage
    PROVE  WholeInv'
<1>1. LogType /\ damage \in Nat /\ damage' = damage + 1 /\ damage < MaxDamage /\ store \in Fragile /\ store' = store
  BY DEF SurviveInv, LogType, Damage
<1>2. \A h \in Host : mem'[h] = Closed /\ step'[h] = Idle
  BY DEF Damage
<1>3. \A h \in Host : InStep(h)' /\ BegunAbove(h)'
  BY <1>2 DEF InStep, BegunAbove, Folding, Closed, Idle
<1>4. ASSUME Mild PROVE Near'
  <2>1. damage = 0
    BY <1>1, <1>4, SealedLogAssumption DEF Mild
  <2> QED BY <1>1, <2>1, DamageNear DEF WholeInv
<1>5. damage' # 0 /\ damage' <= MaxDamage
  BY <1>1, SealedLogAssumption
<1> QED BY <1>1, <1>3, <1>4, <1>5 DEF WholeInv

LEMMA InitWhole == Init => WholeInv
<1> SUFFICES ASSUME Init PROVE WholeInv
  OBVIOUS
<1>1. LogType /\ OpenBounds
  BY InitType, OpeningBounds
<1>2. DOMAIN batches = {} /\ DOMAIN snaps = {}
  BY NoStateType DEF Init
<1>3. SoundDisk /\ Near
  BY <1>1, <1>2 DEF SoundDisk, Near, Opens, Readable, Numbered, Later
<1>4. \A h \in Host : InStep(h) /\ BegunAbove(h) /\ Sound(h)
  BY DEF Init, InStep, BegunAbove, Sound, Folding, Closed, Idle
<1> QED BY <1>3, <1>4, SealedLogAssumption DEF WholeInv, Init

LEMMA StepWhole ==
    ASSUME OneHost
    PROVE  SurviveInv /\ WholeInv /\ [Next]_vars => WholeInv'
<1> SUFFICES ASSUME SurviveInv, WholeInv, [Next]_vars PROVE WholeInv'
  OBVIOUS
<1>1. LogType'
  BY StepType DEF SurviveInv
<1>2. CASE UNCHANGED vars
  <2>1. /\ SoundDisk' = SoundDisk /\ Near' = Near
        /\ Opens' = Opens /\ OpenState' = OpenState /\ OpenSeq' = OpenSeq
    BY <1>2, SameOpening DEF vars
  <2>2. \A h \in Host : (InStep(h) => InStep(h)') /\ BegunAbove(h)' = BegunAbove(h) /\ Sound(h)' = Sound(h)
    BY <1>2, <2>1 DEF vars, InStep, BegunAbove, Sound, Folding
  <2> QED BY <1>2, <2>1, <2>2 DEF WholeInv, vars
<1>3. CASE Damage
  BY <1>1, <1>3, DamageWhole
<1>4. ASSUME NEW h \in Host, HostStep(h)
      PROVE  WholeInv'
  <2>1. WholeAt(h)' /\ UNCHANGED <<damage, store>>
    BY <1>1, <1>4, HostStepWhole DEF WholeInv, WholeAt
  <2>2. \A g \in Host : g = h
    BY DEF OneHost
  <2> QED BY <2>1, <2>2 DEF WholeInv, WholeAt
<1> QED BY <1>2, <1>3, <1>4 DEF Next

WholeAlways == SurviveInv /\ WholeInv

LEMMA WholeSpec ==
    ASSUME OneHost
    PROVE  Spec => []WholeAlways
<1>1. SurviveInv /\ [Next]_vars => SurviveInv'
  BY StepSurvives
<1>2. SurviveInv /\ WholeInv /\ [Next]_vars => WholeInv'
  BY StepWhole
<1> QED BY <1>1, <1>2, InitSurvive, InitWhole, PTL DEF Spec, WholeAlways

\* Where at most one entry goes bad, and it is no snapshot or batch kept as a
\* row: whenever no operation runs, an open log is in memory what an opening
\* would read, to the number, and knows of every batch there is to be folded;
\* and a log no entry of which went bad opens, wherever a crash fell.
THEOREM MemoryFollowsDisk ==
    ASSUME OneHost, Mild
    PROVE  Spec => []MemoryIsDisk
<1>1. WholeAlways => MemoryIsDisk
  BY DEF WholeAlways, WholeInv, InStep, SoundDisk, MemoryIsDisk, At
<1> QED BY <1>1, WholeSpec, PTL

\* However many entries go bad: before the first one does, a log opens.
UndamagedOpens == damage = 0 => Opens

THEOREM SoundLogOpens ==
    ASSUME OneHost
    PROVE  Spec => []UndamagedOpens
<1>1. WholeAlways => UndamagedOpens
  BY DEF WholeAlways, WholeInv, SoundDisk, UndamagedOpens
<1> QED BY <1>1, WholeSpec, PTL

(***************************************************************************)
(* The log implements what DurableStore promises                           *)
(***************************************************************************)

LEMMA OneHostShows ==
    ASSUME OneHost, NEW h \in Host
    PROVE  /\ mem[h].open => OneOpen /\ OneView = mem[h].state
           /\ ~mem[h].open => ~OneOpen /\ OneView = NoState
<1>1. \A g \in Host : g = h
  BY DEF OneHost
<1>2. OneOpen <=> mem[h].open
  BY <1>1 DEF OneOpen
<1>3. mem[h].open => (CHOOSE g \in Host : mem[g].open) = h
  BY <1>1
<1> QED BY <1>2, <1>3 DEF OneView

\* A state without gaps is the sequence of its batches.
LEMMA AppendIsWith ==
    ASSUME NEW s \in State, NEW q \in Nat, DOMAIN s = 1..q, NEW b \in Batch
    PROVE  Append(s, b) = With(s, q + 1, b)
<1>1. s \in [1..q -> Batch]
  BY StateIs
<1>2. s \in Seq(Batch) /\ Len(s) = q
  BY <1>1
<1>3. /\ Append(s, b) \in Seq(Batch) /\ Len(Append(s, b)) = q + 1
      /\ \A k \in 1..q : Append(s, b)[k] = s[k]
      /\ Append(s, b)[q + 1] = b
  BY <1>2, AppendProperties
<1>4. Append(s, b) = [k \in 1..(q + 1) |-> Append(s, b)[k]]
  <2>1. \A t \in Seq(Batch) : t = [k \in 1..Len(t) |-> t[k]]
    OBVIOUS
  <2> QED BY <1>3, <2>1
<1>5. DOMAIN s \cup {q + 1} = 1..(q + 1)
  OBVIOUS
<1>6. \A k \in 1..(q + 1) : Append(s, b)[k] = IF k = q + 1 THEN b ELSE s[k]
  BY <1>3
<1> QED BY <1>4, <1>5, <1>6 DEF With

DurableStep == damage' = 0 => DS!DSNext \/ UNCHANGED DS!dsVars

LEMMA HostStepDurable ==
    ASSUME OneHost, WholeAlways, WholeAlways', NEW h \in Host, HostStep(h)
    PROVE  DurableStep
<1>1. LogType /\ HostCarries(h)
  BY DEF WholeAlways, SurviveInv
<1>2. damage' = damage
  BY HostStepWhole DEF WholeAlways, WholeInv, WholeAt, SurviveInv
<1>3. SUFFICES ASSUME damage = 0, damage' = 0
               PROVE  DS!DSNext \/ UNCHANGED <<OpenState, OneOpen, OneView>>
  BY <1>2 DEF DurableStep, DS!dsVars
<1>4. SoundDisk /\ SoundDisk' /\ Sound(h) /\ InStep(h) /\ InStep(h)'
  BY <1>3 DEF WholeAlways, WholeInv
<1>5. /\ mem[h].open => OneOpen /\ OneView = mem[h].state
      /\ ~mem[h].open => ~OneOpen /\ OneView = NoState
  BY OneHostShows
<1>6. /\ mem'[h].open => OneOpen' /\ OneView' = mem'[h].state
      /\ ~mem'[h].open => ~OneOpen' /\ OneView' = NoState
  <2>1. \A g \in Host : g = h
    BY DEF OneHost
  <2>2. OneOpen' <=> mem'[h].open
    BY <2>1 DEF OneOpen
  <2>3. mem'[h].open => (CHOOSE g \in Host : mem'[g].open) = h
    BY <2>1
  <2> QED BY <2>2, <2>3 DEF OneView
<1>7. UNCHANGED <<batches, snaps>> => OpenState' = OpenState
  BY SameOpening
<1>8. /\ mem[h].state \in State /\ mem[h].seq \in Nat /\ step[h].seq \in Nat /\ step[h].batch \in 0..MaxBatches
      /\ OperationShape(h)
  BY <1>1, MemoryTypes DEF LogType
<1>9. CASE OpenLog(h)
  <2>1. ~mem[h].open /\ mem'[h].open /\ mem'[h].state = OpenState /\ UNCHANGED <<batches, snaps>>
    BY <1>1, <1>9, OpenLogLeaves
  <2>2. DS!Open
    BY <1>5, <1>6, <1>7, <2>1 DEF DS!Open
  <2> QED BY <2>2 DEF DS!DSNext
<1>10. ASSUME UNCHANGED <<mem, batches, snaps>>
       PROVE  UNCHANGED <<OpenState, OneOpen, OneView>>
  BY <1>7, <1>10 DEF OneOpen, OneView
<1>11. CASE Prepare(h)
  BY <1>1, <1>10, <1>11, PrepareLeaves
<1>12. CASE AppendEntry(h)
  <2>1. /\ step[h].at = "append"
        /\ batches' = With(batches, step[h].seq, Entry(step[h].batch))
        /\ step'[h].at = "confirm" /\ step'[h].seq = step[h].seq /\ step'[h].batch = step[h].batch
        /\ mem' = mem
    BY <1>1, <1>12, AppendLeaves
  <2>2. mem[h].open /\ step[h].seq = mem[h].seq + 1
    BY <1>1, <2>1 DEF HostCarries
  <2>3. OpenState = mem[h].state /\ OpenSeq = mem[h].seq
    BY <1>4, <2>1, <2>2 DEF InStep
  <2>4. OpenState' = With(mem[h].state, step[h].seq, step[h].batch)
    BY <1>4, <2>1, <2>2 DEF InStep
  <2>5. step[h].batch \in Batch
    BY <1>8, <2>1 DEF OperationShape
  <2>6. DOMAIN mem[h].state = 1..mem[h].seq
    BY <1>1, <1>4, <2>3, SoundDomain
  <2>7. OpenState' = Append(mem[h].state, step[h].batch)
    BY <1>8, <2>2, <2>4, <2>5, <2>6, AppendIsWith
  <2>8. DS!Land
    BY <1>5, <1>6, <2>1, <2>2, <2>3, <2>5, <2>7 DEF DS!Land
  <2> QED BY <2>8 DEF DS!DSNext
<1>13. CASE Abandon(h)
  BY <1>1, <1>10, <1>13, AbandonLeaves
<1>14. CASE Confirm(h)
  <2>1. /\ step[h].at = "confirm"
        /\ mem'[h].open = mem[h].open
        /\ mem'[h].state = With(mem[h].state, step[h].seq, step[h].batch)
        /\ UNCHANGED <<batches, snaps>>
    BY <1>1, <1>14, ConfirmLeaves
  <2>2. mem[h].open
    BY <1>1, <2>1 DEF HostCarries
  <2>3. OpenState = With(mem[h].state, step[h].seq, step[h].batch)
    BY <1>4, <2>1, <2>2 DEF InStep
  <2>4. DS!Show
    BY <1>5, <1>6, <1>7, <2>1, <2>2, <2>3 DEF DS!Show
  <2> QED BY <2>4 DEF DS!DSNext
\* A fold changes neither what is kept nor what is shown.
<1>15. ASSUME Folding(h), mem'[h].open, mem'[h].state = mem[h].state, step'[h].at # "confirm"
       PROVE  UNCHANGED <<OpenState, OneOpen, OneView>>
  <2>1. mem[h].open /\ step[h].at # "confirm"
    BY <1>4, <1>15 DEF Sound, Folding
  <2>2. OpenState = mem[h].state /\ OpenState' = mem'[h].state
    BY <1>4, <1>15, <2>1 DEF InStep
  <2> QED BY <1>5, <1>6, <1>15, <2>1, <2>2
<1>16. ASSUME Folding(h), Finish(h)
       PROVE  UNCHANGED <<OpenState, OneOpen, OneView>>
  <2>1. mem[h].open
    BY <1>4, <1>16 DEF Sound
  <2>2. mem'[h].open /\ mem'[h].state = mem[h].state /\ step'[h].at = "idle"
    BY <1>1, <1>16, <2>1, FinishLeaves
  <2> QED BY <1>15, <1>16, <2>2
<1>17. CASE CompactRows(h)
  BY <1>16, <1>17 DEF CompactRows, Folding, At
<1>18. CASE NameSnapshot(h)
  <2>1. Folding(h) /\ mem' = mem /\ step'[h].at = "drop"
    BY <1>1, <1>18, NameLeaves DEF Folding
  <2>2. mem[h].open
    BY <1>4, <2>1 DEF Sound
  <2> QED BY <1>15, <2>1, <2>2
<1>19. CASE RemoveBatch(h)
  <2>1. Folding(h) /\ mem' = mem /\ step'[h].at = "drop"
    BY <1>1, <1>19, RemoveLeaves DEF Folding
  <2>2. mem[h].open
    BY <1>4, <2>1 DEF Sound
  <2> QED BY <1>15, <2>1, <2>2
<1>20. CASE EndCompact(h)
  BY <1>16, <1>20 DEF EndCompact, Folding, At
<1>21. CASE CompactFails(h)
  BY <1>1, <1>10, <1>21, FailLeaves
<1>22. CASE SetAside(h)
  BY <1>1, <1>4, <1>22, AsideLeaves DEF SoundDisk
<1>23. CASE Crash(h)
  <2>1. ~mem'[h].open /\ UNCHANGED <<batches, snaps>>
    BY <1>1, <1>23, CrashLeaves
  <2>2. mem[h].open
    BY <1>4, <1>23 DEF Crash, Sound
  <2>3. DS!Close
    BY <1>5, <1>6, <1>7, <2>1, <2>2 DEF DS!Close, NoState
  <2> QED BY <2>3 DEF DS!DSNext
<1> QED BY <1>9, <1>11, <1>12, <1>13, <1>14, <1>17, <1>18, <1>19, <1>20, <1>21, <1>22, <1>23 DEF HostStep

LEMMA StepDurable ==
    ASSUME OneHost, WholeAlways, WholeAlways', [Next]_vars
    PROVE  [damage' = 0 => DS!DSNext]_DS!dsVars
<1>1. CASE UNCHANGED vars
  <2>1. UNCHANGED <<OpenState, OneOpen, OneView>>
    BY <1>1, SameOpening DEF vars, OneOpen, OneView
  <2> QED BY <2>1 DEF DS!dsVars
<1>2. CASE Damage
  <2>1. damage' # 0
    BY <1>2 DEF Damage, WholeAlways, SurviveInv, LogType
  <2> QED BY <2>1
<1>3. ASSUME NEW h \in Host, HostStep(h)
      PROVE  [damage' = 0 => DS!DSNext]_DS!dsVars
  BY <1>3, HostStepDurable DEF DurableStep
<1> QED BY <1>1, <1>2, <1>3 DEF Next

LEMMA InitDurable == Init => DS!DSInit
<1> SUFFICES ASSUME Init PROVE DS!DSInit
  OBVIOUS
<1>1. DOMAIN batches = {} /\ DOMAIN snaps = {}
  BY NoStateType DEF Init
<1>2. OpenState = [k \in {} |-> NoState[k]]
  BY <1>1, NoStateType DEF OpenState, Replay, Readable
<1>3. OpenState = <<>>
  BY <1>2 DEF NoState
<1>4. ~OneOpen
  BY DEF Init, OneOpen, Closed
<1> QED BY <1>3, <1>4 DEF DS!DSInit, OneView, NoState

\* Until an entry goes bad, the log keeps what DurableStore promises its users:
\* opening reads what is kept, writing an entry keeps one batch more, the wallet
\* in memory then shows it, folding changes nothing, and a crash closes.
THEOREM LogIsDurable ==
    ASSUME OneHost
    PROVE  Spec => ImplementsDurable
<1>1. Spec => []WholeAlways
  BY WholeSpec
<1>2. WholeAlways /\ WholeAlways' /\ [Next]_vars => [damage' = 0 => DS!DSNext]_DS!dsVars
  BY StepDurable
<1> QED BY <1>1, <1>2, InitDurable, PTL DEF Spec, ImplementsDurable

-----------------------------------------------------------------------------
(***************************************************************************)
(* Scanner.  An attempt that was stopped holds no camera: one it is granted*)
(* late is given back in the step that learns of it.  The newest attempt has*)
(* the camera's options to itself.                                         *)
(***************************************************************************)

Places == {"none", "ask", "list", "try", "back", "draw", "options", "play", "look", "detect", "over"}
Playing == {"play", "look", "detect"}
Options == [torch : BOOLEAN, zoom : BOOLEAN]
Presses == [kind : {"torch", "zoom"}, next : Options, by : Attempt]
AnyCamera == Camera \cup {NoCamera}
ScannerType ==
    /\ opened \in BOOLEAN /\ drawn \in BOOLEAN /\ torchOn \in BOOLEAN /\ zoomed \in BOOLEAN
    /\ run \in 0..MaxAttempts /\ video \in 0..MaxAttempts /\ handed \subseteq Attempt /\ (opened => run \in Attempt)
    /\ at \in [Attempt -> Places] /\ picked \in AnyCamera /\ remembered \in AnyCamera
    /\ want \in [Attempt -> AnyCamera] /\ first \in [Attempt -> AnyCamera] /\ stream \in [Attempt -> AnyCamera]
    /\ left \in [Attempt -> SUBSET Camera]
    /\ reader \in [Attempt -> {"none", "opening", "worker", "page", "shell", "closed"}]
    /\ reading \in [Attempt -> {"no", "worker", "page", "shell"}]
    /\ options \in Options /\ lens \in Options /\ offered \subseteq {"torch", "zoom"} /\ pressed \subseteq Presses

\* While the attempt that runs has its options, no other is still to be given any.
OptionsAlone ==
    opened /\ at[run] \in {"options"} \cup Playing => \A n \in Attempt : n # run => at[n] # "options"

\* The attempts that handed a text on are over.
HandedOnce == handed \subseteq 1..run /\ (opened => run \notin handed)

\* What was asked of the camera, what it does and what the buttons say go together.
ButtonsInv ==
    opened =>
      /\ (at[run] = "options" => pressed = {} /\ torchOn = FALSE /\ zoomed = TRUE)
      /\ (at[run] \in Playing =>
             /\ options = lens
             /\ ("torch" \in offered => torchOn = lens.torch) /\ ("zoom" \in offered => zoomed = lens.zoom)
             /\ (\A p \in pressed : p.by = run /\ p.next = Changed(p.kind)) /\ \A p, q \in pressed : p = q)

AllUnchanged == <<shell, available, opened, run, problem, drawn, video, remembered, picked, used, at, want, left, first, stream,
                  options, lens, offered, torchOn, zoomed, pressed, reader, reading, workersFail, handed>>

(* Types *)

LEMMA ScannerNumbers == MaxAttempts \in Nat /\ NoCamera \notin Camera /\ Rare \subseteq RareThings
  BY ScannerAssumption

LEMMA PersonTyped == ScannerType /\ (Open \/ Cancel \/ TryAgain \/ NextCamera \/ Draw) => ScannerType'
<1> SUFFICES ASSUME ScannerType, Open \/ Cancel \/ TryAgain \/ NextCamera \/ Draw PROVE ScannerType'
  OBVIOUS
<1> USE ScannerNumbers DEF ScannerType, Attempt, AnyCamera, host, sheet, chosen, course, buttons, readers
<1>b. ASSUME NEW camera \in AnyCamera, Begin(camera), opened', UNCHANGED <<drawn, torchOn, zoomed, video, handed, options, lens, offered, pressed>>,
             picked' \in AnyCamera, remembered' \in AnyCamera
      PROVE  ScannerType'
  BY <1>b DEF Begin, Places
<1>1. CASE Open
  <2>1. Wanted(picked) \in AnyCamera
    BY DEF Wanted
  <2> QED BY <1>1, <1>b, <2>1 DEF Open
<1>2. CASE Cancel
  <2>1. stream' \in [Attempt -> AnyCamera]
    BY <1>2 DEF Cancel, Shut, CleanUp
  <2>2. /\ reader' \in [Attempt -> {"none", "opening", "worker", "page", "shell", "closed"}]
        /\ reading' \in [Attempt -> {"no", "worker", "page", "shell"}]
    BY <1>2 DEF Cancel, Shut, CleanUp, Close
  <2> QED BY <1>2, <2>1, <2>2 DEF Cancel, Shut
<1>3. CASE TryAgain
  <2>1. Wanted(picked) \in AnyCamera
    BY DEF Wanted
  <2> QED BY <1>3, <1>b, <2>1 DEF TryAgain
<1>4. CASE NextCamera
  <2>1. PICK c \in Camera : remembered' = c /\ picked' = c /\ IF picked = c THEN UNCHANGED <<run, course, readers>> ELSE Begin(c)
    BY <1>4 DEF NextCamera
  <2>2. UNCHANGED <<opened, drawn, torchOn, zoomed, video, handed, options, lens, offered, pressed>> /\ opened
    BY <1>4 DEF NextCamera
  <2>3. CASE picked = c
    BY <2>1, <2>2, <2>3
  <2>4. CASE picked # c
    BY <2>1, <2>2, <2>4, <1>b
  <2> QED BY <2>3, <2>4
<1>5. CASE Draw
  BY <1>5 DEF Draw
<1> QED BY <1>1, <1>2, <1>3, <1>4, <1>5

LEMMA AttemptTyped == ScannerType /\ (\E n \in Attempt : Granted(n) \/ Refused(n) \/ Listed(n) \/ Tried(n) \/ Back(n)) => ScannerType'
<1> SUFFICES ASSUME ScannerType, NEW n \in Attempt, Granted(n) \/ Refused(n) \/ Listed(n) \/ Tried(n) \/ Back(n) PROVE ScannerType'
  OBVIOUS
<1> USE ScannerNumbers DEF ScannerType, AnyCamera, host, sheet, chosen, course, buttons, readers, StillThere, Unsettled, Places
<1>e. ASSUME Ends(n) PROVE at' \in [Attempt -> Places] /\ stream' \in [Attempt -> AnyCamera]
  BY <1>e DEF Ends, Goes
<1>f. ASSUME Fails(n) PROVE at' \in [Attempt -> Places] /\ drawn' \in BOOLEAN
  BY <1>f DEF Fails, Goes
<1>s. ASSUME NEW c \in AnyCamera, Settles(n, c), StillThere, UNCHANGED handed PROVE ScannerType'
  BY <1>s DEF Settles, Goes
<1>1. CASE Granted(n)
  BY <1>1, <1>e DEF Granted, Goes
<1>2. CASE Refused(n)
  BY <1>2, <1>f DEF Refused
<1>3. CASE Listed(n)
  <2>1. CASE Ends(n) /\ UNCHANGED <<problem, drawn, want, left, first>> /\ Unsettled
    BY <1>3, <1>e, <2>1 DEF Listed
  <2>2. CASE first' = [first EXCEPT ![n] = stream[n]] /\ left' = [left EXCEPT ![n] = Camera \ {stream[n]}]
             /\ stream' = [stream EXCEPT ![n] = NoCamera] /\ Goes(n, "try") /\ UNCHANGED <<problem, drawn, want>> /\ Unsettled
    BY <1>3, <2>2 DEF Listed, Goes
  <2>3. CASE Settles(n, stream[n])
    BY <1>3, <1>s, <2>3 DEF Listed
  <2>4. CASE ListFails(n)
    BY <1>3, <1>f, <2>4 DEF Listed, ListFails
  <2> QED BY <1>3, <2>1, <2>2, <2>3, <2>4 DEF Listed
<1>4. CASE Tried(n)
  <2>1. PICK c \in left[n], opens \in BOOLEAN :
        IF opens /\ c \in Focusing /\ ~Stopped(n) THEN Settles(n, c)
        ELSE /\ left' = [left EXCEPT ![n] = @ \ {c}]
             /\ Goes(n, IF Stopped(n) THEN "over" ELSE IF left[n] = {c} THEN "back" ELSE "try")
             /\ UNCHANGED <<problem, drawn, want, first, stream>> /\ Unsettled
    BY <1>4 DEF Tried
  <2>2. CASE Settles(n, c)
    BY <1>4, <1>s, <2>2 DEF Tried
  <2>3. CASE /\ left' = [left EXCEPT ![n] = @ \ {c}]
             /\ Goes(n, IF Stopped(n) THEN "over" ELSE IF left[n] = {c} THEN "back" ELSE "try")
             /\ UNCHANGED <<problem, drawn, want, first, stream>> /\ Unsettled
    BY <1>4, <2>3 DEF Tried, Goes
  <2> QED BY <2>1, <2>2, <2>3
<1>5. CASE Back(n)
  <2>1. CASE Ends(n) /\ UNCHANGED <<problem, drawn, want, left, first>> /\ Unsettled
    BY <1>5, <1>e, <2>1 DEF Back
  <2>2. CASE Settles(n, first[n])
    BY <1>5, <1>s, <2>2 DEF Back
  <2>3. CASE Fails(n) /\ UNCHANGED <<want, left, first, stream>> /\ Unsettled
    BY <1>5, <1>f, <2>3 DEF Back
  <2> QED BY <1>5, <2>1, <2>2, <2>3 DEF Back
<1> QED BY <1>1, <1>2, <1>3, <1>4, <1>5

LEMMA PreviewTyped == ScannerType /\ (\E n \in Attempt : Ready(n) \/ Optioned(n) \/ Played(n)) => ScannerType'
<1> SUFFICES ASSUME ScannerType, NEW n \in Attempt, Ready(n) \/ Optioned(n) \/ Played(n) PROVE ScannerType'
  OBVIOUS
<1> USE ScannerNumbers DEF ScannerType, AnyCamera, host, sheet, chosen, course, buttons, readers, StillThere, Unsettled, Places, Goes
<1>1. CASE Ready(n)
  <2>1. at' \in [Attempt -> Places] /\ stream' \in [Attempt -> AnyCamera]
    BY <1>1 DEF Ready, Ends
  <2>2. options' \in Options /\ lens' \in Options /\ offered' \subseteq {"torch", "zoom"} /\ torchOn' \in BOOLEAN /\ zoomed' \in BOOLEAN
    <3>1. \/ UNCHANGED <<options, lens, offered, torchOn, zoomed>>
          \/ offered' \subseteq {"torch", "zoom"} /\ torchOn' = FALSE /\ zoomed' = TRUE /\ options' = Plain /\ lens' = Plain
      BY <1>1 DEF Ready
    <3>2. Plain \in Options
      BY DEF Plain, Options
    <3>3. CASE UNCHANGED <<options, lens, offered, torchOn, zoomed>>
      BY <3>3
    <3> QED BY <3>1, <3>2, <3>3
  <2> QED BY <1>1, <2>1, <2>2 DEF Ready
<1>2. CASE Optioned(n)
  <2>1. options' \in Options /\ lens' \in Options
    <3>1. Zoomed \in Options
      BY DEF Zoomed, Options
    <3>2. \/ options' = Zoomed /\ lens' = (IF Stopped(n) THEN lens ELSE Zoomed)
          \/ UNCHANGED <<options, lens>>
      BY <1>2 DEF Optioned
    <3> QED BY <3>1, <3>2
  <2>2. at' \in [Attempt -> Places] /\ video' \in 0..MaxAttempts
    <3>1. n \in 0..MaxAttempts /\ 0 \in 0..MaxAttempts
      BY DEF Attempt
    <3>2. at' = [at EXCEPT ![n] = "play"] /\ video' \in {0, n}
      BY <1>2 DEF Optioned
    <3> QED BY <3>1, <3>2
  <2> QED BY <1>2, <2>1, <2>2 DEF Optioned
<1>3. CASE Played(n)
  BY <1>3 DEF Played, Fails
<1> QED BY <1>1, <1>2, <1>3

LEMMA PressTyped == ScannerType /\ (Press \/ PressInVain \/ Applied \/ NotApplied) => ScannerType'
<1> SUFFICES ASSUME ScannerType, Press \/ PressInVain \/ Applied \/ NotApplied PROVE ScannerType'
  OBVIOUS
<1> USE ScannerNumbers DEF ScannerType, host, sheet, chosen, course, readers
<1>1. CASE Press
  <2>1. PICK kind \in offered : pressed' = pressed \cup {[kind |-> kind, next |-> Changed(kind), by |-> run]}
    BY <1>1 DEF Press
  <2>2. run \in Attempt
    BY <1>1 DEF Press
  <2>3. Changed(kind) \in Options
    BY DEF Changed, Options
  <2>4. pressed' \subseteq Presses
    <3>1. kind \in {"torch", "zoom"}
      OBVIOUS
    <3> QED BY <2>1, <2>2, <2>3, <3>1 DEF Presses
  <2> QED BY <1>1, <2>4 DEF Press
<1>2. CASE Applied
  <2>1. PICK p \in pressed :
        /\ pressed' = pressed \ {p}
        /\ options' = p.next /\ lens' = (IF p.by = run THEN p.next ELSE lens)
        /\ torchOn' = (IF p.kind = "torch" THEN ~torchOn ELSE torchOn)
        /\ zoomed' = (IF p.kind = "zoom" THEN ~zoomed ELSE zoomed)
        /\ UNCHANGED <<host, sheet, chosen, course, offered, readers, handed>>
    BY <1>2 DEF Applied
  <2>2. p.next \in Options
    BY DEF Presses
  <2> QED BY <2>1, <2>2
<1>3. CASE NotApplied
  <2>1. PICK p \in pressed :
        /\ pressed' = pressed \ {p} /\ offered' = offered \ {p.kind}
        /\ UNCHANGED <<host, sheet, chosen, course, options, lens, torchOn, zoomed, readers, handed>>
    BY <1>3 DEF NotApplied
  <2> QED BY <2>1
<1>4. CASE PressInVain
  <2>1. torchOn' \in BOOLEAN /\ zoomed' \in BOOLEAN
    BY <1>4 DEF PressInVain
  <2> QED BY <1>4, <2>1 DEF PressInVain
<1> QED BY <1>1, <1>2, <1>3, <1>4

LEMMA ReadsTyped ==
    ScannerType /\ (\E n \in Attempt : ReaderOpens(n) \/ Tick(n) \/ Detected(n) \/ FromWorker(n) \/ FromPage(n) \/ FromShell(n)
                                       \/ SetWorkerAside(n)) => ScannerType'
<1> SUFFICES ASSUME ScannerType, NEW n \in Attempt,
                    ReaderOpens(n) \/ Tick(n) \/ Detected(n) \/ FromWorker(n) \/ FromPage(n) \/ FromShell(n) \/ SetWorkerAside(n)
             PROVE ScannerType'
  OBVIOUS
<1> USE ScannerNumbers DEF ScannerType, AnyCamera, host, sheet, chosen, course, buttons, readers, Unread, Places, Goes
<1>1. CASE ReaderOpens(n)
  BY <1>1 DEF ReaderOpens
<1>2. CASE Tick(n)
  BY <1>2 DEF Tick
<1>f. ASSUME FinishScan(n) PROVE /\ opened' \in BOOLEAN /\ drawn' \in BOOLEAN /\ stream' \in [Attempt -> AnyCamera] /\ handed' \subseteq Attempt
                                 /\ (opened' => opened)
  <2>1. CASE UNCHANGED <<opened, drawn, stream, handed>>
    BY <2>1
  <2>2. CASE handed' = handed \cup {n} /\ opened' = FALSE /\ drawn' = FALSE /\ stream' = [stream EXCEPT ![n] = NoCamera]
    BY <2>2
  <2> QED BY <1>f, <2>1, <2>2 DEF FinishScan
<1>3. CASE Detected(n)
  <2>1. /\ opened' \in BOOLEAN /\ drawn' \in BOOLEAN /\ stream' \in [Attempt -> AnyCamera] /\ handed' \subseteq Attempt
        /\ (opened' => opened)
    BY <1>3, <1>f DEF Detected
  <2>2. /\ reader' \in [Attempt -> {"none", "opening", "worker", "page", "shell", "closed"}]
        /\ reading' \in [Attempt -> {"no", "worker", "page", "shell"}]
    BY <1>3 DEF Detected, Close
  <2>3. at' \in [Attempt -> Places] /\ UNCHANGED <<run, video, want, left, first, workersFail>> /\ Unread
    BY <1>3 DEF Detected
  <2> QED BY <2>1, <2>2, <2>3
<1>a. ASSUME NEW who, Answers(n, who) PROVE ScannerType'
  <2>1. /\ opened' \in BOOLEAN /\ drawn' \in BOOLEAN /\ stream' \in [Attempt -> AnyCamera] /\ handed' \subseteq Attempt
        /\ (opened' => opened)
    BY <1>a, <1>f DEF Answers
  <2>2. /\ reader' \in [Attempt -> {"none", "opening", "worker", "page", "shell", "closed"}]
        /\ reading' \in [Attempt -> {"no", "worker", "page", "shell"}]
    BY <1>a DEF Answers
  <2>3. UNCHANGED <<run, video, at, want, left, first, workersFail>> /\ Unread
    BY <1>a DEF Answers
  <2> QED BY <2>1, <2>2, <2>3
<1>4. CASE FromWorker(n) \/ FromPage(n) \/ FromShell(n)
  BY <1>4, <1>a DEF FromWorker, FromPage, FromShell
<1>5. CASE SetWorkerAside(n)
  BY <1>5 DEF SetWorkerAside
<1> QED BY <1>1, <1>2, <1>3, <1>4, <1>5

LEMMA ScannerTypeStep == ScannerType /\ [ScannerNext]_scannerVars => ScannerType'
<1>1. ScannerType /\ UNCHANGED scannerVars => ScannerType'
  BY DEF ScannerType, scannerVars, host, sheet, chosen, course, buttons, readers
<1> QED BY <1>1, PersonTyped, AttemptTyped, PreviewTyped, PressTyped, ReadsTyped DEF ScannerNext, AttemptStep

LEMMA ScannerStart == ScannerInit => ScannerType /\ NothingLeftRunning /\ HandedOnce /\ OptionsAlone /\ ButtonsInv
<1> SUFFICES ASSUME ScannerInit PROVE ScannerType /\ NothingLeftRunning /\ HandedOnce /\ OptionsAlone /\ ButtonsInv
  OBVIOUS
<1>1. ScannerType
  <2>1. Plain \in Options
    BY DEF Plain, Options
  <2>2. /\ at \in [Attempt -> Places] /\ want \in [Attempt -> AnyCamera] /\ first \in [Attempt -> AnyCamera]
        /\ stream \in [Attempt -> AnyCamera] /\ left \in [Attempt -> SUBSET Camera]
    BY DEF ScannerInit, AnyCamera, Places
  <2>3. /\ reader \in [Attempt -> {"none", "opening", "worker", "page", "shell", "closed"}]
        /\ reading \in [Attempt -> {"no", "worker", "page", "shell"}]
    BY DEF ScannerInit
  <2>4. /\ opened = FALSE /\ drawn = FALSE /\ torchOn = FALSE /\ zoomed = TRUE /\ run = 0 /\ video = 0 /\ handed = {}
        /\ picked \in AnyCamera /\ remembered \in AnyCamera /\ options = Plain /\ lens = Plain /\ offered = {} /\ pressed = {}
    BY DEF ScannerInit, AnyCamera
  <2>5. 0 \in 0..MaxAttempts
    BY ScannerNumbers
  <2> QED BY <2>1, <2>2, <2>3, <2>4, <2>5 DEF ScannerType
<1>2. NothingLeftRunning /\ HandedOnce /\ OptionsAlone /\ ButtonsInv
  BY DEF ScannerInit, NothingLeftRunning, HandedOnce, OptionsAlone, ButtonsInv
<1> QED BY <1>1, <1>2

(* What a text is handed to *)

\* A step hands nothing on, or the text of the attempt that runs, and closes the scanner.
LEMMA HandsOrNot ==
    ASSUME ScannerType, [ScannerNext]_scannerVars
    PROVE  \/ UNCHANGED handed /\ (opened' => (opened /\ run' \in {run, run + 1}) \/ run' = run + 1) /\ run' \in {run, run + 1}
           \/ opened /\ handed' = handed \cup {run} /\ opened' = FALSE /\ run' = run
<1> USE DEF host, sheet, chosen, course, buttons, readers
<1>1. CASE Open \/ TryAgain
  BY <1>1 DEF Open, TryAgain, Begin
<1>2. CASE NextCamera
  <2>1. opened /\ UNCHANGED <<opened, handed>> /\ run' \in {run, run + 1}
    BY <1>2 DEF NextCamera, Begin
  <2> QED BY <2>1
<1>3. CASE Cancel \/ Draw \/ Press \/ PressInVain \/ Applied \/ NotApplied
  BY <1>3 DEF Cancel, Shut, Draw, Press, PressInVain, Applied, NotApplied
<1>4. ASSUME NEW n \in Attempt, Granted(n) \/ Refused(n) \/ Listed(n) \/ Tried(n) \/ Back(n) \/ Ready(n) \/ Optioned(n) \/ Played(n)
             \/ ReaderOpens(n) \/ Tick(n) \/ SetWorkerAside(n)
      PROVE  UNCHANGED <<handed, opened, run>>
  BY <1>4 DEF Granted, Refused, Listed, Tried, Back, Ready, Optioned, Played, StillThere, ReaderOpens, Tick, SetWorkerAside
<1>5. ASSUME NEW n \in Attempt, Detected(n) \/ FromWorker(n) \/ FromPage(n) \/ FromShell(n)
      PROVE  UNCHANGED <<handed, opened, run>> \/ (opened /\ handed' = handed \cup {run} /\ opened' = FALSE /\ run' = run)
  <2>1. (FinishScan(n) \/ UNCHANGED <<opened, handed>>) /\ run' = run
    BY <1>5 DEF Detected, FromWorker, FromPage, FromShell, Answers
  <2> QED BY <2>1 DEF FinishScan, Stopped
<1>6. CASE UNCHANGED scannerVars
  BY <1>6 DEF scannerVars
<1> QED BY <1>1, <1>2, <1>3, <1>4, <1>5, <1>6 DEF ScannerNext, AttemptStep

LEMMA HandedStep == ScannerType /\ HandedOnce /\ [ScannerNext]_scannerVars => HandedOnce'
<1> SUFFICES ASSUME ScannerType, HandedOnce, [ScannerNext]_scannerVars PROVE HandedOnce'
  OBVIOUS
<1>0. run \in Nat /\ (opened => run \in 1..run)
  BY ScannerNumbers DEF ScannerType, Attempt
<1>1. CASE UNCHANGED handed /\ (opened' => (opened /\ run' \in {run, run + 1}) \/ run' = run + 1) /\ run' \in {run, run + 1}
  <2>1. handed \subseteq 1..run /\ run + 1 \notin 1..run /\ 1..run \subseteq 1..(run + 1)
    BY <1>0 DEF HandedOnce
  <2> QED BY <1>1, <2>1 DEF HandedOnce
<1>2. CASE opened /\ handed' = handed \cup {run} /\ opened' = FALSE /\ run' = run
  BY <1>0, <1>2 DEF HandedOnce
<1> QED BY <1>1, <1>2, HandsOrNot

\* However late a reader answers, a camera's text is handed to the form once in
\* an opening, and never after the scanner closed or went on to another camera
\* (QrScanner.tsx, finish).
THEOREM HandsOneText == ScannerSpec => OnlyTheCurrentHands
<1>1. ScannerInit => ScannerType /\ HandedOnce
  BY ScannerStart
<1>2. ScannerType /\ HandedOnce /\ [ScannerNext]_scannerVars => ScannerType' /\ HandedOnce'
  BY ScannerTypeStep, HandedStep
<1>3. ScannerType /\ HandedOnce /\ [ScannerNext]_scannerVars => [handed' # handed => opened /\ run \notin handed /\ handed' = handed \cup {run}]_scannerVars
  <2> SUFFICES ASSUME ScannerType, HandedOnce, [ScannerNext]_scannerVars, handed' # handed PROVE opened /\ run \notin handed /\ handed' = handed \cup {run}
    OBVIOUS
  <2> QED BY HandsOrNot DEF HandedOnce
<1> QED BY <1>1, <1>2, <1>3, PTL DEF ScannerSpec, OnlyTheCurrentHands

(* The camera *)

LEMMA BeginsAnew == ASSUME ScannerType, NothingLeftRunning, NEW camera, Begin(camera) PROVE NothingLeftRunning'
<1>1. \A n \in Attempt : stream'[n] = NoCamera /\ reader'[n] # "worker" /\ reading'[n] # "worker"
  BY DEF Begin, NothingLeftRunning, Stopped, ScannerType
<1> QED BY <1>1 DEF NothingLeftRunning

LEMMA ShutsDown == ASSUME ScannerType, NothingLeftRunning, opened, Shut PROVE NothingLeftRunning'
<1>1. run \in Attempt /\ run # 0
  BY DEF ScannerType, Attempt
<1>2. \A n \in Attempt : stream'[n] = NoCamera /\ reader'[n] # "worker" /\ reading'[n] # "worker"
  BY <1>1 DEF Shut, CleanUp, Close, NothingLeftRunning, Stopped, ScannerType
<1> QED BY <1>2 DEF NothingLeftRunning

\* The readers are as they were, and so is which attempt runs: what is left is the attempt's own course.
LEMMA CourseStep ==
    ASSUME NothingLeftRunning, NEW n \in Attempt, UNCHANGED <<opened, run, reader, reading>>,
           \A k \in Attempt : k # n => at'[k] = at[k] /\ stream'[k] = stream[k],
           UNCHANGED problem \/ problem' # 0,
           stream'[n] # NoCamera => /\ ~Stopped(n) /\ at'[n] \notin {"ask", "try", "back"}
                                    /\ (at'[n] = "over" => problem' # 0)
    PROVE  NothingLeftRunning'
  BY DEF NothingLeftRunning, Stopped

LEMMA TakesCamera == ScannerType /\ NothingLeftRunning
    /\ (\E n \in Attempt : Granted(n) \/ Refused(n) \/ Listed(n) \/ Tried(n) \/ Back(n)) => NothingLeftRunning'
<1> SUFFICES ASSUME ScannerType, NothingLeftRunning, NEW n \in Attempt, Granted(n) \/ Refused(n) \/ Listed(n) \/ Tried(n) \/ Back(n)
             PROVE NothingLeftRunning'
  OBVIOUS
<1> USE DEF Goes, readers
<1>0. at \in [Attempt -> Places] /\ stream \in [Attempt -> AnyCamera]
  BY DEF ScannerType
<1>1. UNCHANGED <<opened, run, reader, reading>>
  BY DEF Granted, Refused, Listed, Tried, Back, StillThere
<1>2. /\ stream[n] # NoCamera => ~Stopped(n) /\ at[n] \notin {"ask", "try", "back"}
      /\ n # 0
  BY DEF NothingLeftRunning, Attempt
<1> DEFINE Same == \A k \in Attempt : k # n => at'[k] = at[k] /\ stream'[k] = stream[k]
<1>e. ASSUME Ends(n), UNCHANGED problem PROVE NothingLeftRunning'
  <2>1. Same /\ stream'[n] = NoCamera
    BY <1>0, <1>e DEF Ends
  <2> HIDE DEF Goes
  <2> QED BY <1>1, <1>e, <2>1, CourseStep
<1>f. ASSUME Fails(n), UNCHANGED stream PROVE NothingLeftRunning'
  <2>1. Same /\ stream'[n] = stream[n] /\ at'[n] = "over" /\ problem' # 0
    BY <1>0, <1>2, <1>f DEF Fails
  <2> HIDE DEF Goes
  <2> QED BY <1>1, <1>2, <2>1, CourseStep
<1>s. ASSUME NEW c, Settles(n, c), ~Stopped(n) PROVE NothingLeftRunning'
  <2>1. Same /\ at'[n] = "draw" /\ UNCHANGED problem
    BY <1>0, <1>s DEF Settles
  <2> HIDE DEF Goes
  <2> QED BY <1>1, <1>s, <2>1, CourseStep
<1>c. ASSUME Same, UNCHANGED problem, stream'[n] # NoCamera => ~Stopped(n) /\ at'[n] = "list" PROVE NothingLeftRunning'
  <2> HIDE DEF Goes
  <2> QED BY <1>1, <1>c, CourseStep
<1> HIDE DEF Same
<1>3. CASE Granted(n)
  <2>1. CASE Stopped(n) /\ Ends(n)
    BY <1>3, <1>e, <2>1 DEF Granted
  <2>2. CASE ~Stopped(n)
    <3>1. PICK c \in Camera : Goes(n, "list") /\ stream' = [stream EXCEPT ![n] = c]
      BY <1>3, <2>2 DEF Granted
    <3>2. Same /\ at'[n] = "list"
      BY <1>0, <3>1 DEF Same
    <3> QED BY <1>3, <1>c, <2>2, <3>2 DEF Granted
  <2> QED BY <1>3, <2>1, <2>2 DEF Granted
<1>4. CASE Refused(n)
  <2>1. stream[n] = NoCamera /\ UNCHANGED stream
    BY <1>2, <1>4 DEF Refused
  <2>2. CASE want[n] # NoCamera
    <3>1. Same /\ UNCHANGED problem
      BY <1>4, <2>1, <2>2 DEF Refused, Same
    <3> QED BY <1>c, <2>1, <3>1
  <2>3. CASE want[n] = NoCamera
    BY <1>4, <1>f, <2>1, <2>3 DEF Refused
  <2> QED BY <2>2, <2>3
<1>5. CASE Listed(n)
  <2>1. CASE Stopped(n) /\ Ends(n) /\ UNCHANGED problem
    BY <1>e, <2>1
  <2>2. CASE stream' = [stream EXCEPT ![n] = NoCamera] /\ Goes(n, "try") /\ UNCHANGED problem
    <3>1. Same /\ stream'[n] = NoCamera
      BY <1>0, <2>2 DEF Same
    <3> QED BY <1>c, <2>2, <3>1
  <2>3. CASE ~Stopped(n) /\ Settles(n, stream[n])
    BY <1>s, <2>3
  <2>4. CASE ListFails(n)
    BY <1>f, <2>4 DEF ListFails
  <2> QED BY <1>5, <2>1, <2>2, <2>3, <2>4 DEF Listed
<1>6. CASE Tried(n)
  <2>0. stream[n] = NoCamera
    BY <1>2, <1>6 DEF Tried
  <2>1. PICK c \in left[n], opens \in BOOLEAN :
        IF opens /\ c \in Focusing /\ ~Stopped(n) THEN Settles(n, c)
        ELSE /\ left' = [left EXCEPT ![n] = @ \ {c}]
             /\ Goes(n, IF Stopped(n) THEN "over" ELSE IF left[n] = {c} THEN "back" ELSE "try")
             /\ UNCHANGED <<problem, drawn, want, first, stream>> /\ Unsettled
    BY <1>6 DEF Tried
  <2>2. CASE ~Stopped(n) /\ Settles(n, c)
    BY <1>s, <2>2
  <2>3. CASE Goes(n, IF Stopped(n) THEN "over" ELSE IF left[n] = {c} THEN "back" ELSE "try") /\ UNCHANGED <<problem, stream>>
    <3>1. Same
      BY <1>0, <2>3 DEF Same
    <3> QED BY <1>c, <2>0, <2>3, <3>1
  <2> QED BY <2>1, <2>2, <2>3
<1>7. CASE Back(n)
  <2>1. CASE Stopped(n) /\ Ends(n) /\ UNCHANGED problem
    BY <1>e, <2>1
  <2>2. CASE ~Stopped(n) /\ Settles(n, first[n])
    BY <1>s, <2>2
  <2>3. CASE Fails(n) /\ UNCHANGED stream
    BY <1>f, <2>3
  <2> QED BY <1>7, <2>1, <2>2, <2>3 DEF Back
<1> QED BY <1>3, <1>4, <1>5, <1>6, <1>7

LEMMA ShowsPreview == ScannerType /\ NothingLeftRunning /\ (\E n \in Attempt : Ready(n) \/ Optioned(n) \/ Played(n)) => NothingLeftRunning'
<1> SUFFICES ASSUME ScannerType, NothingLeftRunning, NEW n \in Attempt, Ready(n) \/ Optioned(n) \/ Played(n) PROVE NothingLeftRunning'
  OBVIOUS
<1> USE DEF Goes
<1>0. at \in [Attempt -> Places] /\ stream \in [Attempt -> AnyCamera] /\ n # 0
  BY DEF ScannerType, Attempt
<1>1. UNCHANGED <<opened, run, reader, reading>>
  BY DEF Ready, Optioned, Played, StillThere, sheet, readers
<1>2. stream[n] # NoCamera => ~Stopped(n)
  BY DEF NothingLeftRunning
<1>c. ASSUME NEW place \in {"over", "options", "play", "look"}, at' = [at EXCEPT ![n] = place],
             \A k \in Attempt : k # n => stream'[k] = stream[k], UNCHANGED problem \/ problem' # 0,
             stream'[n] \in {NoCamera, stream[n]}, place = "over" => stream'[n] = NoCamera \/ problem' # 0
      PROVE  NothingLeftRunning'
  <2>1. at'[n] = place /\ \A k \in Attempt : k # n => at'[k] = at[k] /\ stream'[k] = stream[k]
    BY <1>0, <1>c
  <2>2. stream'[n] # NoCamera => /\ ~Stopped(n) /\ at'[n] \notin {"ask", "try", "back"} /\ (at'[n] = "over" => problem' # 0)
    BY <1>2, <1>c, <2>1
  <2> HIDE DEF Goes
  <2> QED BY <1>1, <1>c, <2>1, <2>2, CourseStep
<1>3. CASE Ready(n)
  <2>1. CASE Ends(n)
    <3>1. /\ at' = [at EXCEPT ![n] = "over"] /\ UNCHANGED problem
          /\ stream'[n] = NoCamera /\ \A k \in Attempt : k # n => stream'[k] = stream[k]
      BY <1>0, <1>3, <2>1 DEF Ends, Ready, sheet
    <3> QED BY <1>c, <3>1
  <2>2. CASE Goes(n, "options") /\ UNCHANGED stream
    <3>1. UNCHANGED problem
      BY <1>3 DEF Ready, sheet
    <3> QED BY <1>c, <2>2, <3>1
  <2> QED BY <1>3, <2>1, <2>2 DEF Ready
<1>4. CASE Optioned(n)
  <2>1. at' = [at EXCEPT ![n] = "play"] /\ UNCHANGED <<stream, problem>>
    BY <1>4 DEF Optioned
  <2> QED BY <1>c, <2>1
<1>5. CASE Played(n)
  <2>0. UNCHANGED stream
    BY <1>5 DEF Played
  <2>1. CASE at' = [at EXCEPT ![n] = "look"] /\ UNCHANGED problem
    BY <1>c, <2>0, <2>1
  <2>2. CASE Fails(n)
    <3>1. at' = [at EXCEPT ![n] = "over"] /\ problem' # 0
      BY <1>0, <2>2 DEF Fails
    <3> QED BY <1>c, <2>0, <3>1
  <2> QED BY <1>5, <2>1, <2>2 DEF Played
<1> QED BY <1>3, <1>4, <1>5

LEMMA Reads == ScannerType /\ NothingLeftRunning
    /\ (\E n \in Attempt : ReaderOpens(n) \/ Tick(n) \/ Detected(n) \/ FromWorker(n) \/ FromPage(n) \/ FromShell(n) \/ SetWorkerAside(n))
    => NothingLeftRunning'
<1> SUFFICES ASSUME ScannerType, NothingLeftRunning, NEW n \in Attempt,
                    ReaderOpens(n) \/ Tick(n) \/ Detected(n) \/ FromWorker(n) \/ FromPage(n) \/ FromShell(n) \/ SetWorkerAside(n)
             PROVE NothingLeftRunning'
  OBVIOUS
<1> USE DEF Goes
<1>0. /\ at \in [Attempt -> Places] /\ stream \in [Attempt -> AnyCamera] /\ (opened => run \in Attempt)
      /\ reader \in [Attempt -> {"none", "opening", "worker", "page", "shell", "closed"}]
      /\ reading \in [Attempt -> {"no", "worker", "page", "shell"}]
  BY DEF ScannerType
<1>1. CASE ReaderOpens(n)
  <2>1. \A k \in Attempt : k # n => reader'[k] = reader[k]
    BY <1>0, <1>1 DEF ReaderOpens
  <2>2. (reader'[n] = "worker" => ~Stopped(n)) /\ reader[n] = "opening"
    <3>1. reader[n] = "opening" /\ reader'[n] = (IF Stopped(n) THEN "closed" ELSE IF shell THEN "shell" ELSE IF workersFail THEN "page" ELSE "worker")
      BY <1>0, <1>1 DEF ReaderOpens
    <3>2. ASSUME Stopped(n) PROVE reader'[n] = "closed"
      BY <3>1, <3>2
    <3> QED BY <3>1, <3>2
  <2>3. UNCHANGED <<opened, run, problem, at, stream, reading>>
    BY <1>1 DEF ReaderOpens, sheet, course, Unread
  <2>4. reading[n] # "worker"
    BY <2>2 DEF NothingLeftRunning
  <2> QED BY <2>1, <2>2, <2>3, <2>4 DEF NothingLeftRunning, Stopped
<1>2. CASE Tick(n)
  <2>1. at[n] = "look" /\ at' = [at EXCEPT ![n] = "detect"] /\ UNCHANGED <<opened, run, problem, stream, reader, reading>>
    BY <1>2 DEF Tick, sheet, readers, Unread
  <2>2. at'[n] = "detect" /\ \A k \in Attempt : k # n => at'[k] = at[k]
    BY <1>0, <2>1
  <2> QED BY <2>1, <2>2 DEF NothingLeftRunning, Stopped
\* A text found closes the scanner, with the camera and the reader let go of.
<1>f. ASSUME ~Stopped(n), FinishScan(n), \A k \in Attempt : reader'[k] = "worker" \/ reading'[k] = "worker" => k # n /\ reader'[k] = reader[k] /\ reading'[k] = reading[k]
      PROVE  NothingLeftRunning'
  <2>1. n = run /\ opened' = FALSE /\ stream' = [stream EXCEPT ![n] = NoCamera]
    BY <1>f DEF FinishScan, Stopped
  <2>2. \A k \in Attempt : stream'[k] = NoCamera /\ reader'[k] # "worker" /\ reading'[k] # "worker"
    BY <1>0, <1>f, <2>1 DEF NothingLeftRunning, Stopped
  <2> QED BY <2>1, <2>2 DEF NothingLeftRunning
<1>3. CASE Detected(n)
  <2>0. /\ at[n] = "detect" /\ at' = [at EXCEPT ![n] = IF Stopped(n) THEN "over" ELSE "look"]
        /\ UNCHANGED <<run, problem>>
    BY <1>3 DEF Detected, Unread
  <2>1. CASE ~Stopped(n) /\ FinishScan(n) /\ Close(n)
    <3>1. n # 0
      BY DEF Attempt
    <3>2. /\ reader' = [reader EXCEPT ![n] = IF @ \in {"none", "opening"} THEN @ ELSE "closed"]
          /\ reading' = [reading EXCEPT ![n] = IF @ = "worker" THEN "no" ELSE @]
      BY <2>1, <3>1 DEF Close
    <3>3. /\ \A k \in Attempt : k # n => reader'[k] = reader[k] /\ reading'[k] = reading[k]
          /\ reader'[n] # "worker" /\ reading'[n] # "worker"
      BY <1>0, <3>2
    <3> QED BY <1>f, <2>1, <3>3
  <2>2. CASE UNCHANGED <<opened, stream, reader>> /\ (UNCHANGED reading \/ reading' = [reading EXCEPT ![n] =
                 IF @ # "no" \/ reader[n] \in {"none", "opening"} THEN @
                 ELSE IF reader[n] = "closed" THEN (IF shell THEN "shell" ELSE "page") ELSE reader[n]])
    <3>1. /\ \A k \in Attempt : k # n => reading'[k] = reading[k]
          /\ reading'[n] = "worker" => reading[n] = "worker" \/ reader[n] = "worker"
      BY <1>0, <2>2
    <3>2. /\ \A k \in Attempt : k # n => at'[k] = at[k]
          /\ at'[n] = IF Stopped(n) THEN "over" ELSE "look"
      BY <1>0, <2>0
    <3>3. NothingLeftRunning'
      BY <2>0, <2>2, <3>1, <3>2 DEF NothingLeftRunning, Stopped
    <3> QED BY <3>3
  <2>3. CASE Stopped(n) /\ FinishScan(n) /\ UNCHANGED <<reader, reading>>
    <3>1. UNCHANGED <<opened, stream>>
      BY <2>3 DEF FinishScan
    <3> QED BY <2>2, <2>3, <3>1
  <2> QED BY <1>3, <2>1, <2>2, <2>3 DEF Detected
<1>4. CASE FromWorker(n) \/ FromPage(n) \/ FromShell(n)
  <2>1. PICK who : Answers(n, who)
    BY <1>4 DEF FromWorker, FromPage, FromShell
  <2>2. UNCHANGED <<run, problem, at>>
    BY <2>1 DEF Answers, Unread
  <2>3. CASE UNCHANGED <<opened, stream, reader>> /\ reading' = [reading EXCEPT ![n] = "no"]
    <3>1. \A k \in Attempt : reading'[k] = "worker" => reading[k] = "worker"
      BY <1>0, <2>3
    <3> QED BY <2>2, <2>3, <3>1 DEF NothingLeftRunning, Stopped
  <2>4. CASE /\ FinishScan(n) /\ reading' = [reading EXCEPT ![n] = "no"]
             /\ reader' = IF Stopped(n) THEN reader ELSE [reader EXCEPT ![n] = "closed"]
    <3>1. CASE Stopped(n)
      BY <2>3, <2>4, <3>1 DEF FinishScan
    <3>2. CASE ~Stopped(n)
      <4>1. reader'[n] # "worker" /\ reading'[n] # "worker" /\ \A k \in Attempt : k # n => reader'[k] = reader[k] /\ reading'[k] = reading[k]
        BY <1>0, <2>4, <3>2
      <4> QED BY <1>f, <2>4, <3>2, <4>1
    <3> QED BY <3>1, <3>2
  <2> QED BY <2>1, <2>3, <2>4 DEF Answers
<1>5. CASE SetWorkerAside(n)
  <2>1. UNCHANGED <<opened, run, problem, at, stream>>
    BY <1>5 DEF SetWorkerAside, sheet, course, Unread
  <2>2. /\ \A k \in Attempt : k # n => reader'[k] = reader[k] /\ reading'[k] = reading[k]
        /\ reader'[n] = "page" /\ reading'[n] = "no"
    BY <1>0, <1>5 DEF SetWorkerAside
  <2> QED BY <2>1, <2>2 DEF NothingLeftRunning, Stopped
<1> QED BY <1>1, <1>2, <1>3, <1>4, <1>5

LEMMA CameraStep == ScannerType /\ NothingLeftRunning /\ [ScannerNext]_scannerVars => NothingLeftRunning'
<1> SUFFICES ASSUME ScannerType, NothingLeftRunning, [ScannerNext]_scannerVars PROVE NothingLeftRunning'
  OBVIOUS
<1>1. CASE Open \/ TryAgain
  BY <1>1, BeginsAnew DEF Open, TryAgain
<1>2. CASE Cancel
  BY <1>2, ShutsDown DEF Cancel
<1>u. ASSUME UNCHANGED <<opened, run, problem, at, stream, reader, reading>> PROVE NothingLeftRunning'
  BY <1>u DEF NothingLeftRunning, Stopped
<1>3. CASE NextCamera
  <2>1. PICK c \in Camera : IF picked = c THEN UNCHANGED <<run, course, readers>> ELSE Begin(c)
    BY <1>3 DEF NextCamera
  <2>2. CASE picked = c
    BY <1>3, <1>u, <2>1, <2>2 DEF NextCamera, course, readers
  <2>3. CASE picked # c
    BY <2>1, <2>3, BeginsAnew
  <2> QED BY <2>2, <2>3
<1>4. CASE Draw \/ Press \/ PressInVain \/ Applied \/ NotApplied \/ UNCHANGED scannerVars
  BY <1>4, <1>u DEF Draw, Press, PressInVain, Applied, NotApplied, scannerVars, sheet, course, readers
<1> QED BY <1>1, <1>2, <1>3, <1>4, TakesCamera, ShowsPreview, Reads DEF ScannerNext, AttemptStep

\* However late the camera was granted, listed, tried or given its options, and
\* whatever of it failed, it runs only for the newest attempt of an open scanner,
\* and for one that is over only under the notice of a failure; no worker
\* outlives its attempt, nor a picture its worker (QrScanner.tsx; qrClient.ts).
THEOREM LeavesNothingRunning == ScannerSpec => []NothingLeftRunning
<1>1. ScannerInit => ScannerType /\ NothingLeftRunning
  BY ScannerStart
<1>2. ScannerType /\ NothingLeftRunning /\ [ScannerNext]_scannerVars => ScannerType' /\ NothingLeftRunning'
  BY ScannerTypeStep, CameraStep
<1> QED BY <1>1, <1>2, PTL DEF ScannerSpec

(* The buttons *)

NoOddOptions == Rare = {}

LEMMA AloneKept ==
    ASSUME ScannerType, OptionsAlone,
           opened' => opened /\ run' = run /\ (at'[run] \in {"options"} \cup Playing => at[run] \in {"options"} \cup Playing),
           \A k \in Attempt : at'[k] = "options" => at[k] = "options"
    PROVE  OptionsAlone'
  BY DEF OptionsAlone

LEMMA AloneStep == NoOddOptions /\ ScannerType /\ OptionsAlone /\ [ScannerNext]_scannerVars => OptionsAlone'
<1> SUFFICES ASSUME NoOddOptions, ScannerType, OptionsAlone, [ScannerNext]_scannerVars PROVE OptionsAlone'
  OBVIOUS
<1> USE DEF Goes
<1>0. at \in [Attempt -> Places] /\ (opened => run \in Attempt) /\ run \in Nat
  BY ScannerNumbers DEF ScannerType
<1>b. ASSUME NEW camera, Begin(camera) PROVE OptionsAlone'
  <2>1. run' = run + 1 /\ run + 1 \in Attempt
    BY <1>0, <1>b, ScannerNumbers DEF Begin, Attempt
  <2>2. at'[run'] = "ask"
    BY <1>0, <1>b, <2>1 DEF Begin
  <2> QED BY <2>2 DEF OptionsAlone, Playing
<1>k. ASSUME opened' => opened, UNCHANGED run, NEW n \in Attempt, NEW place \in Places \ {"options"}, at' = [at EXCEPT ![n] = place],
             place \in Playing => at[n] \in {"options"} \cup Playing
      PROVE  OptionsAlone'
  <2>1. \A k \in Attempt : at'[k] = at[k] \/ (k = n /\ at'[k] = place)
    BY <1>0, <1>k
  <2> QED BY <1>0, <1>k, <2>1, AloneKept
<1>u. ASSUME opened' => opened, UNCHANGED <<run, at>> PROVE OptionsAlone'
  BY <1>u, AloneKept
<1> USE DEF Places, Playing
<1>e. ASSUME NEW n \in Attempt, UNCHANGED <<opened, run>>, Ends(n) \/ Fails(n) PROVE OptionsAlone'
  <2>1. at' = [at EXCEPT ![n] = "over"]
    BY <1>e DEF Ends, Fails
  <2> QED BY <1>e, <1>k, <2>1
<1>s. ASSUME NEW n \in Attempt, NEW c, UNCHANGED <<opened, run>>, Settles(n, c) PROVE OptionsAlone'
  <2>1. at' = [at EXCEPT ![n] = "draw"]
    BY <1>s DEF Settles
  <2> QED BY <1>s, <1>k, <2>1
<1>1. CASE Open \/ TryAgain
  BY <1>1, <1>b DEF Open, TryAgain
<1>2. CASE Cancel
  BY <1>2, <1>u DEF Cancel, Shut
<1>3. CASE NextCamera
  <2>1. PICK c \in Camera : IF picked = c THEN UNCHANGED <<run, course, readers>> ELSE Begin(c)
    BY <1>3 DEF NextCamera
  <2>2. CASE picked = c
    BY <1>3, <1>u, <2>1, <2>2 DEF NextCamera, course
  <2>3. CASE picked # c
    BY <1>b, <2>1, <2>3
  <2> QED BY <2>2, <2>3
<1>4. CASE Draw \/ Press \/ PressInVain \/ Applied \/ NotApplied \/ UNCHANGED scannerVars
  <2>1. UNCHANGED <<opened, run, at>>
    BY <1>4 DEF Draw, Press, PressInVain, Applied, NotApplied, scannerVars, sheet, course
  <2> QED BY <1>u, <2>1
<1>5. ASSUME NEW n \in Attempt, Granted(n) \/ Refused(n) \/ Listed(n) \/ Tried(n) \/ Back(n) PROVE OptionsAlone'
  <2>0. UNCHANGED <<opened, run>>
    BY <1>5 DEF Granted, Refused, Listed, Tried, Back, StillThere
  <2>1. CASE Granted(n)
    <3>1. Ends(n) \/ at' = [at EXCEPT ![n] = "list"]
      BY <2>1 DEF Granted
    <3> QED BY <1>e, <1>k, <2>0, <3>1
  <2>2. CASE Refused(n)
    <3>1. Fails(n) \/ UNCHANGED at
      BY <2>2 DEF Refused
    <3> QED BY <1>e, <1>u, <2>0, <3>1
  <2>3. CASE Listed(n)
    <3>1. Ends(n) \/ Fails(n) \/ at' = [at EXCEPT ![n] = "try"] \/ Settles(n, stream[n])
      BY <2>3 DEF Listed, ListFails
    <3> QED BY <1>e, <1>k, <1>s, <2>0, <3>1
  <2>4. CASE Tried(n)
    <3>1. PICK c \in left[n], opens \in BOOLEAN :
           IF opens /\ c \in Focusing /\ ~Stopped(n) THEN Settles(n, c)
           ELSE Goes(n, IF Stopped(n) THEN "over" ELSE IF left[n] = {c} THEN "back" ELSE "try")
      BY <2>4 DEF Tried
    <3>2. CASE Settles(n, c)
      BY <1>s, <2>0, <3>2
    <3>3. CASE Goes(n, IF Stopped(n) THEN "over" ELSE IF left[n] = {c} THEN "back" ELSE "try")
      <4>1. PICK place \in {"over", "back", "try"} : at' = [at EXCEPT ![n] = place]
        BY <3>3
      <4> QED BY <1>k, <2>0, <4>1
    <3> QED BY <3>1, <3>2, <3>3
  <2>5. CASE Back(n)
    <3>1. Ends(n) \/ Fails(n) \/ Settles(n, first[n])
      BY <2>5 DEF Back
    <3> QED BY <1>e, <1>s, <2>0, <3>1
  <2> QED BY <1>5, <2>1, <2>2, <2>3, <2>4, <2>5
<1>6. ASSUME NEW n \in Attempt, Ready(n) PROVE OptionsAlone'
  <2>0. UNCHANGED <<opened, run>>
    BY <1>6 DEF Ready, sheet
  <2>1. CASE Ends(n)
    BY <1>e, <2>0, <2>1
  <2>2. CASE ~Stopped(n) /\ at' = [at EXCEPT ![n] = "options"] /\ \A k \in Attempt : at[k] # "options"
    <3>1. n = run /\ \A k \in Attempt : k # n => at'[k] # "options"
      BY <1>0, <2>2 DEF Stopped
    <3> QED BY <2>0, <3>1 DEF OptionsAlone
  <2>3. \/ Ends(n)
        \/ ~Stopped(n) /\ Goes(n, "options") /\ (Usually("slow options") => \A k \in Attempt : at[k] # "options")
    BY <1>6 DEF Ready
  <2>4. Usually("slow options")
    BY DEF Usually, NoOddOptions
  <2> QED BY <2>1, <2>2, <2>3, <2>4
<1>7. ASSUME NEW n \in Attempt, Optioned(n) \/ Played(n) \/ Tick(n) \/ Detected(n) PROVE OptionsAlone'
  <2>0. UNCHANGED run /\ (opened' => opened)
    <3>1. CASE Detected(n)
      <4>1. (FinishScan(n) \/ UNCHANGED opened) /\ UNCHANGED run
        BY <3>1 DEF Detected
      <4> QED BY <4>1 DEF FinishScan
    <3>2. CASE Tick(n)
      <4>1. UNCHANGED sheet
        BY <3>2 DEF Tick
      <4> QED BY <4>1 DEF sheet
    <3>3. CASE Optioned(n)
      BY <3>3 DEF Optioned
    <3>4. CASE Played(n)
      <4>1. StillThere
        BY <3>4 DEF Played
      <4> QED BY <4>1 DEF StillThere
    <3> QED BY <1>7, <3>1, <3>2, <3>3, <3>4
  <2>1. at[n] \in {"options"} \cup Playing
    BY <1>7 DEF Optioned, Played, Tick, Detected
  <2>2. PICK place \in {"play", "look", "detect", "over"} : at' = [at EXCEPT ![n] = place]
    BY <1>7 DEF Optioned, Played, Fails, Tick, Detected
  <2> QED BY <1>k, <2>0, <2>1, <2>2
<1>8. ASSUME NEW n \in Attempt, ReaderOpens(n) \/ FromWorker(n) \/ FromPage(n) \/ FromShell(n) \/ SetWorkerAside(n) PROVE OptionsAlone'
  BY <1>8, <1>u DEF ReaderOpens, FromWorker, FromPage, FromShell, Answers, FinishScan, SetWorkerAside, sheet, course
<1> QED BY <1>1, <1>2, <1>3, <1>4, <1>5, <1>6, <1>7, <1>8 DEF ScannerNext, AttemptStep

LEMMA ButtonsKept ==
    ASSUME ScannerType, ButtonsInv, opened' => opened /\ run' = run /\ (at'[run] = "options" => at[run] = "options")
                                               /\ (at'[run] \in Playing => at[run] \in Playing),
           UNCHANGED <<options, lens, offered, torchOn, zoomed, pressed>>
    PROVE  ButtonsInv'
  BY DEF ButtonsInv, Changed

LEMMA ButtonsStep == NoOddOptions /\ ScannerType /\ OptionsAlone /\ ButtonsInv /\ [ScannerNext]_scannerVars => ButtonsInv'
<1> SUFFICES ASSUME NoOddOptions, ScannerType, OptionsAlone, ButtonsInv, [ScannerNext]_scannerVars PROVE ButtonsInv'
  OBVIOUS
<1> USE DEF buttons, Goes
<1>0. at \in [Attempt -> Places] /\ (opened => run \in Attempt) /\ options \in Options /\ lens \in Options /\ pressed \subseteq Presses /\ run \in Nat
  BY ScannerNumbers DEF ScannerType
<1>b. ASSUME NEW camera, Begin(camera) PROVE at'[run'] = "ask"
  <2>1. run' = run + 1 /\ run + 1 \in Attempt
    BY <1>0, <1>b, ScannerNumbers DEF Begin, Attempt
  <2> QED BY <1>0, <1>b, <2>1 DEF Begin
<1>1. CASE Open \/ TryAgain
  <2>1. at'[run'] = "ask"
    BY <1>1, <1>b DEF Open, TryAgain
  <2> QED BY <2>1 DEF ButtonsInv, Playing
<1>2. CASE Cancel
  BY <1>2 DEF Cancel, Shut, ButtonsInv
<1>3. CASE NextCamera
  <2>1. PICK c \in Camera : IF picked = c THEN UNCHANGED <<run, course, readers>> ELSE Begin(c)
    BY <1>3 DEF NextCamera
  <2>2. CASE picked = c
    BY <1>3, <2>1, <2>2, ButtonsKept DEF NextCamera, course
  <2>3. CASE picked # c
    <3>1. at'[run'] = "ask"
      BY <2>1, <2>3, <1>b
    <3> QED BY <3>1 DEF ButtonsInv, Playing
  <2> QED BY <2>2, <2>3
<1>4. CASE Draw \/ UNCHANGED scannerVars
  BY <1>4, ButtonsKept DEF Draw, scannerVars, sheet, course
<1>v. CASE PressInVain
  <2>1. UNCHANGED <<opened, run, at>> /\ at[run] \in {"ask", "list", "try", "back", "draw"}
    BY <1>v DEF PressInVain, sheet, course
  <2> QED BY <2>1 DEF ButtonsInv, Playing
<1>5. CASE Press
  <2>1. PICK kind \in offered : pressed' = pressed \cup {[kind |-> kind, next |-> Changed(kind), by |-> run]}
    BY <1>5 DEF Press
  <2> DEFINE p == [kind |-> kind, next |-> Changed(kind), by |-> run]
  <2>2. /\ opened /\ at[run] \in Playing /\ pressed = {}
        /\ UNCHANGED <<opened, run, at, options, lens, offered, torchOn, zoomed>>
    BY <1>5 DEF Press, sheet, course, Playing, NoOddOptions
  <2>3. p.kind = kind /\ p.by = run /\ p.next = Changed(kind)
    OBVIOUS
  <2>4. \A k : Changed(k)' = Changed(k)
    BY <2>2 DEF Changed
  <2>5. pressed' = {p}
    BY <2>1, <2>2
  <2>6. \A q \in pressed' : q.by = run' /\ q.next = Changed(q.kind)
    <3> HIDE DEF p
    <3> QED BY <2>2, <2>3, <2>5
  <2>7. \A q \in pressed' : q.by = run' /\ q.next = Changed(q.kind)'
    BY <2>4, <2>6
  <2>8. \A q, r \in pressed' : q = r
    BY <2>5
  <2> HIDE DEF p
  <2>9. at'[run'] \in Playing /\ at'[run'] # "options"
    BY <2>2 DEF Playing
  <2> QED BY <2>2, <2>7, <2>8, <2>9 DEF ButtonsInv
<1>6. CASE Applied
  <2>1. PICK p \in pressed :
        /\ pressed' = pressed \ {p}
        /\ options' = p.next /\ lens' = (IF p.by = run THEN p.next ELSE lens)
        /\ torchOn' = (IF p.kind = "torch" THEN ~torchOn ELSE torchOn)
        /\ zoomed' = (IF p.kind = "zoom" THEN ~zoomed ELSE zoomed)
        /\ UNCHANGED <<sheet, course, offered>>
    BY <1>6 DEF Applied
  <2>2. UNCHANGED <<opened, run, at>>
    BY <2>1 DEF sheet, course
  <2>3. CASE ~opened
    BY <2>2, <2>3 DEF ButtonsInv
  <2>4. CASE opened /\ at[run] \in Playing
    <3>1. /\ options = lens /\ p.by = run /\ p.next = Changed(p.kind) /\ pressed' = {} /\ p.kind \in {"torch", "zoom"}
          /\ ("torch" \in offered => torchOn = lens.torch) /\ ("zoom" \in offered => zoomed = lens.zoom)
      BY <2>1, <2>4, <1>0 DEF ButtonsInv, Presses
    <3>2. options' = p.next /\ lens' = p.next
      BY <2>1, <3>1
    <3>3. CASE p.kind = "torch"
      <4>1. p.next.torch = ~torchOn /\ p.next.zoom = lens.zoom
        BY <1>0, <3>1, <3>3 DEF Changed, Options
      <4> QED BY <2>1, <2>2, <2>4, <3>1, <3>2, <3>3, <4>1 DEF ButtonsInv, Playing
    <3>4. CASE p.kind = "zoom"
      <4>1. p.next.zoom = ~zoomed /\ p.next.torch = lens.torch
        BY <1>0, <3>1, <3>4 DEF Changed, Options
      <4> QED BY <2>1, <2>2, <2>4, <3>1, <3>2, <3>4, <4>1 DEF ButtonsInv, Playing
    <3> QED BY <3>1, <3>3, <3>4
  <2>5. CASE opened /\ at[run] \notin Playing
    <3>1. at[run] # "options"
      BY <2>1, <2>5 DEF ButtonsInv
    <3> QED BY <2>2, <2>5, <3>1 DEF ButtonsInv
  <2> QED BY <2>3, <2>4, <2>5
<1>7. CASE NotApplied
  <2>1. PICK p \in pressed : pressed' = pressed \ {p} /\ offered' = offered \ {p.kind}
    BY <1>7 DEF NotApplied
  <2>2. UNCHANGED <<opened, run, at, options, lens, torchOn, zoomed>>
    BY <1>7 DEF NotApplied, sheet, course
  <2>3. Changed("torch")' = Changed("torch") /\ Changed("zoom")' = Changed("zoom") /\ \A k : Changed(k)' = Changed(k)
    BY <2>2 DEF Changed
  <2>4. (opened /\ at[run] # "options") \/ ~opened
    BY <2>1 DEF ButtonsInv
  <2> QED BY <2>1, <2>2, <2>3, <2>4 DEF ButtonsInv
<1>8. ASSUME NEW n \in Attempt, Granted(n) \/ Refused(n) \/ Listed(n) \/ Tried(n) \/ Back(n) PROVE ButtonsInv'
  <2>1. UNCHANGED <<opened, run, options, lens, offered, torchOn, zoomed, pressed>>
    BY <1>8 DEF Granted, Refused, Listed, Tried, Back, StillThere
  <2>2. \A k \in Attempt : at'[k] \in {"options"} \cup Playing => at'[k] = at[k]
    <3>e. ASSUME NEW place \in Places \ ({"options"} \cup Playing), Goes(n, place) PROVE \A k \in Attempt : at'[k] \in {"options"} \cup Playing => at'[k] = at[k]
      BY <1>0, <3>e
    <3>1. CASE Granted(n)
      BY <1>0, <3>1 DEF Granted, Ends, Playing
    <3>2. CASE Refused(n)
      BY <1>0, <3>2 DEF Refused, Fails, Playing
    <3>3. CASE Listed(n)
      BY <1>0, <3>3 DEF Listed, ListFails, Fails, Ends, Settles, Playing
    <3>4. CASE Tried(n)
      <4>1. PICK c \in left[n], opens \in BOOLEAN :
             IF opens /\ c \in Focusing /\ ~Stopped(n) THEN Settles(n, c)
             ELSE Goes(n, IF Stopped(n) THEN "over" ELSE IF left[n] = {c} THEN "back" ELSE "try")
        BY <3>4 DEF Tried
      <4>2. (IF Stopped(n) THEN "over" ELSE IF left[n] = {c} THEN "back" ELSE "try") \in Places \ ({"options"} \cup Playing)
        BY DEF Places, Playing
      <4>3. "draw" \in Places \ ({"options"} \cup Playing)
        BY DEF Places, Playing
      <4> HIDE DEF Goes
      <4>4. Settles(n, c) => Goes(n, "draw")
        BY DEF Settles
      <4> QED BY <3>e, <4>1, <4>2, <4>3, <4>4
    <3>5. CASE Back(n)
      BY <1>0, <3>5 DEF Back, Ends, Settles, Fails, Playing
    <3> QED BY <1>8, <3>1, <3>2, <3>3, <3>4, <3>5
  <2>3. opened => run \in Attempt
    BY <1>0
  <2>4. opened' => opened /\ run' = run /\ (at'[run] = "options" => at[run] = "options") /\ (at'[run] \in Playing => at[run] \in Playing)
    BY <2>1, <2>2, <2>3
  <2> QED BY <2>1, <2>4, ButtonsKept
<1>9. ASSUME NEW n \in Attempt, Ready(n) PROVE ButtonsInv'
  <2>1. UNCHANGED <<opened, run, pressed>>
    BY <1>9 DEF Ready, sheet
  <2>2. CASE Ends(n) /\ UNCHANGED <<options, lens, offered, torchOn, zoomed>>
    <3>1. \A k \in Attempt : at'[k] # "over" => at'[k] = at[k]
      BY <1>0, <2>2 DEF Ends
    <3>2. opened' => opened /\ run' = run /\ (at'[run] = "options" => at[run] = "options") /\ (at'[run] \in Playing => at[run] \in Playing)
      BY <1>0, <2>1, <3>1 DEF Playing
    <3> QED BY <2>1, <2>2, <3>2, ButtonsKept
  <2>3. CASE ~Stopped(n) /\ (Usually("slow options") => pressed = {}) /\ Goes(n, "options") /\ torchOn' = FALSE /\ zoomed' = TRUE
    <3>1. pressed = {} /\ n = run
      BY <2>3 DEF Usually, NoOddOptions, Stopped
    <3>2. at'[run] = "options"
      BY <1>0, <2>3, <3>1
    <3> QED BY <2>1, <2>3, <3>1, <3>2 DEF ButtonsInv, Playing
  <2> QED BY <1>9, <2>2, <2>3 DEF Ready
<1>10. ASSUME NEW n \in Attempt, Optioned(n) PROVE ButtonsInv'
  <2>1. /\ UNCHANGED <<opened, run, offered, torchOn, zoomed, pressed>> /\ at[n] = "options" /\ at' = [at EXCEPT ![n] = "play"]
        /\ options' = Zoomed /\ lens' = (IF Stopped(n) THEN lens ELSE Zoomed)
    BY <1>10 DEF Optioned, NoOddOptions
  <2>2. CASE ~Stopped(n)
    <3>1. n = run /\ opened /\ at'[run] = "play"
      BY <1>0, <2>1, <2>2 DEF Stopped
    <3>2. pressed = {} /\ torchOn = FALSE /\ zoomed = TRUE
      BY <2>1, <3>1 DEF ButtonsInv
    <3>3. Zoomed.torch = FALSE /\ Zoomed.zoom = ("zoom" \in offered)
      BY DEF Zoomed
    <3>4. options' = lens' /\ lens'.torch = FALSE /\ ("zoom" \in offered => lens'.zoom = TRUE)
      BY <2>1, <2>2, <3>3
    <3> QED BY <2>1, <3>1, <3>2, <3>4 DEF ButtonsInv
  <2>3. CASE Stopped(n) /\ opened
    <3>1. n # run /\ run \in Attempt
      BY <1>0, <2>3 DEF Stopped
    <3>2. at[run] \notin {"options"} \cup Playing
      BY <2>1, <2>3, <3>1 DEF OptionsAlone
    <3>3. at'[run] = at[run]
      BY <1>0, <2>1, <3>1
    <3> QED BY <2>1, <3>2, <3>3 DEF ButtonsInv
  <2>4. CASE ~opened
    BY <2>1, <2>4 DEF ButtonsInv
  <2> QED BY <2>2, <2>3, <2>4
<1>11. ASSUME NEW n \in Attempt, Played(n) \/ Tick(n) \/ Detected(n) PROVE ButtonsInv'
  <2>1. /\ UNCHANGED <<run, options, lens, offered, torchOn, zoomed, pressed>> /\ at[n] \in Playing
        /\ \A k \in Attempt : at'[k] = at[k] \/ (k = n /\ at'[k] # "options")
    <3>1. CASE Played(n)
      BY <1>0, <3>1 DEF Played, StillThere, Playing, Fails
    <3>2. CASE Tick(n)
      BY <1>0, <3>2 DEF Tick, sheet, Unread, Playing
    <3>3. CASE Detected(n)
      BY <1>0, <3>3 DEF Detected, Unread, Playing
    <3> QED BY <1>11, <3>1, <3>2, <3>3
  <2>2. opened' => opened
    BY <1>11 DEF Played, Tick, Detected, StillThere, sheet, FinishScan
  <2>3. opened' => opened /\ run' = run /\ (at'[run] = "options" => at[run] = "options") /\ (at'[run] \in Playing => at[run] \in Playing)
    BY <1>0, <2>1, <2>2
  <2> QED BY <2>1, <2>3, ButtonsKept
<1>12. ASSUME NEW n \in Attempt, ReaderOpens(n) \/ FromWorker(n) \/ FromPage(n) \/ FromShell(n) \/ SetWorkerAside(n) PROVE ButtonsInv'
  <2>1. UNCHANGED <<run, options, lens, offered, torchOn, zoomed, pressed, at>>
    BY <1>12 DEF ReaderOpens, FromWorker, FromPage, FromShell, Answers, SetWorkerAside, Unread, sheet, course
  <2>2. opened' => opened
    BY <1>12 DEF ReaderOpens, FromWorker, FromPage, FromShell, Answers, SetWorkerAside, sheet, FinishScan
  <2> QED BY <2>1, <2>2, ButtonsKept
<1> QED BY <1>1, <1>2, <1>3, <1>4, <1>5, <1>6, <1>7, <1>8, <1>9, <1>10, <1>11, <1>12, <1>v DEF ScannerNext, AttemptStep

\* Once no press is on its way, Torch and Zoom say what the camera does, through
\* any changes of camera, presses in vain and refusals of a press: where each is
\* pressed after the camera answered the last change of its options, a camera let
\* go of answers before the next is asked, and one takes the zoom it offers
\* (QrScanner.tsx, applyOptions).
THEOREM ButtonsSayWhatIsSo == NoOddOptions /\ ScannerSpec => []ButtonsTellTheCamera
<1> SUFFICES ASSUME NoOddOptions PROVE ScannerSpec => []ButtonsTellTheCamera
  OBVIOUS
<1>1. ScannerInit => ScannerType /\ OptionsAlone /\ ButtonsInv
  BY ScannerStart
<1>2. ScannerType /\ OptionsAlone /\ ButtonsInv /\ [ScannerNext]_scannerVars => ScannerType' /\ OptionsAlone' /\ ButtonsInv'
  BY ScannerTypeStep, AloneStep, ButtonsStep
<1>3. ButtonsInv => ButtonsTellTheCamera
  BY DEF ButtonsInv, ButtonsTellTheCamera, Stopped, Playing
<1> QED BY <1>1, <1>2, <1>3, PTL DEF ScannerSpec
=============================================================================

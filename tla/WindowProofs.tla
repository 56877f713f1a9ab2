----------------------------- MODULE WindowProofs -----------------------------
(***************************************************************************)
(* Proofs about WindowOwner, for two windows that are loaded and that ask  *)
(* for the wallet any number of times; and about Restore, for any chain    *)
(* and any breaks.  The two share this module and nothing else.            *)
(***************************************************************************)
EXTENDS WindowOwner, Restore, SequenceTheorems, WellFoundedInduction, TLAPS

\* A third window that asks just then, and a wait as short as what it waits
\* for, each break WhoWorksHolds: see the README.
TwoWindows == \A u, v, w \in Window : u = v \/ v = w \/ u = w
Prompted == TwoWindows /\ Prompt

Places == {"closed", "acquiring", "elsewhere", "starting", "here", "waiting", "held", "granted", "refused", "stealing",
           "leaving"}

WindowType ==
    /\ holder \in Window \cup {NoWindow}
    /\ line \in Seq(Window)
    /\ tasks \in [Window -> Seq({"grant", "null", "reject"})]
    /\ at \in [Window -> Places]
    /\ release \in [Window -> BOOLEAN] /\ busy \in [Window -> BOOLEAN] /\ frozen \in [Window -> BOOLEAN]
    /\ locking \in [Window -> SUBSET Id]
    /\ mail \in [Window -> Seq(Message)]
    /\ loads \in [Window -> 0..MaxLoads] /\ asks \in [Window -> 0..MaxAsks]

\* What a window has still to be told squares what it believes with who holds the lock.
Told(w) ==
    \/ tasks[w] = <<>> /\ at[w] \notin {"acquiring", "stealing"} /\ (holder = w <=> release[w])
    \/ tasks[w] = <<"null">> /\ at[w] = "acquiring" /\ ~release[w] /\ holder # w
    \/ tasks[w] = <<"grant">> /\ ~release[w] /\ holder = w
          /\ at[w] \in {"acquiring", "waiting", "granted", "refused", "stealing"}
    \/ tasks[w] = <<"reject">> /\ holder # w
          /\ at[w] \in {"elsewhere", "starting", "here", "held", "refused", "leaving"}
    \/ tasks[w] = <<"reject", "grant">> /\ at[w] = "stealing" /\ holder = w

\* Whoever works with the wallet, or is about to, has not let it go.
Works(w) ==
    /\ at[w] \in {"starting", "here"} => release[w]
    /\ at[w] = "closed" => holder # w
    /\ release[w] => at[w] \in {"elsewhere", "starting", "here", "held", "refused", "stealing", "leaving"}
    /\ locking[w] # {} => at[w] \in {"here", "leaving"}
    /\ frozen[w] => at[w] = "here"

InLine(ln, w) == \E i \in DOMAIN ln : ln[i] = w
Lined(w) ==
    InLine(line, w) => tasks[w] = <<>> /\ ~release[w] /\ holder # w /\ at[w] \in {"waiting", "granted", "refused"}
OneInLine == Len(line) <= 1 /\ (line # <<>> => holder # NoWindow)

(* Requests, in any state of the mail and of who locks for whom *)

Mails == [Window -> Seq(Message)]
Locks == [Window -> SUBSET Id]
Current(w) == <<w, asks[w]>>
Asks(w) == at[w] \in {"waiting", "held"}
Asked(ms, w) == {ms[w][i].id : i \in {j \in DOMAIN ms[w] : ms[w][j].type = "request"}}

\* A message is about it, or a window locks its wallet for it.
Alive(ms, lk, v, id) == (\E i \in DOMAIN ms[v] : ms[v][i].id = id) \/ id \in lk[v]

\* Nothing is about a request nobody has made; requests come from the other
\* window, answers are to this one's.
Numbered(ms, lk, w) ==
    /\ \A i \in DOMAIN ms[w] :
        /\ ms[w][i].id[2] <= asks[ms[w][i].id[1]]
        /\ ms[w][i].type = "request" <=> ms[w][i].id[1] # w
    /\ \A id \in lk[w] : id[1] # w /\ id[2] <= asks[id[1]]

\* The other window asks only when it has read this one's request: an answer comes first.
Ordered(ms, lk, w) ==
    \A i \in DOMAIN ms[w] : ms[w][i].type = "request" =>
        /\ \A v \in Window \ {w} : ~Alive(ms, lk, v, Current(w))
        /\ \A j \in DOMAIN ms[w] : ms[w][j].id = Current(w) => j < i
AnswerFirst(w) == Asks(w) => Ordered(mail, locking, w)

\* Who came to hold the lock without an answer, and lost it again, gets none any more.
Quiet(ms, lk, w) == \A v \in Window : ~Alive(ms, lk, v, Current(w))
Lost(w) == at[w] = "held" /\ (~release[w] \/ tasks[w] # <<>>)
LostUnanswered(w) == Lost(w) => Quiet(mail, locking, w)

Placed(w) == Told(w) /\ Works(w) /\ Lined(w)
Answered(w) == Numbered(mail, locking, w) /\ AnswerFirst(w) /\ LostUnanswered(w)

WindowInv ==
    /\ WindowType
    /\ OneInLine
    /\ \A w \in Window : Placed(w)
    /\ \A w \in Window : Answered(w)

-----------------------------------------------------------------------------
(* Sequences *)

LEMMA TaskFacts ==
    ASSUME NEW x, NEW y
    PROVE  /\ Append(<<>>, x) = <<x>> /\ Append(<<x>>, y) = <<x, y>>
           /\ Head(<<x>>) = x /\ Tail(<<x>>) = <<>> /\ Head(<<x, y>>) = x /\ Tail(<<x, y>>) = <<y>>
           /\ <<x>> # <<>> /\ <<x, y>> # <<>> /\ <<x>> # <<x, y>>
           /\ DOMAIN <<x, y>> = 1..2 /\ DOMAIN <<x>> = 1..1
           /\ <<x, y>>[1] = x /\ <<x, y>>[2] = y /\ <<x>>[1] = x
<1>1. Append(<<>>, x) = <<x>>  OBVIOUS
<1>2. Append(<<x>>, y) = <<x, y>>
  <2>1. <<x>> \in Seq({x, y}) /\ <<x, y>> \in Seq({x, y}) /\ Append(<<x>>, y) \in Seq({x, y})  OBVIOUS
  <2>2. Len(Append(<<x>>, y)) = 2 /\ Append(<<x>>, y)[1] = x /\ Append(<<x>>, y)[2] = y  OBVIOUS
  <2>3. Len(<<x, y>>) = 2 /\ <<x, y>>[1] = x /\ <<x, y>>[2] = y  OBVIOUS
  <2>4. \A i \in 1..2 : Append(<<x>>, y)[i] = <<x, y>>[i]  BY <2>2, <2>3
  <2> QED BY <2>1, <2>2, <2>3, <2>4, SeqEqual
<1>3. Head(<<x>>) = x /\ Head(<<x, y>>) = x  OBVIOUS
<1>4. Tail(<<x>>) = <<>>  OBVIOUS
<1>5. Tail(<<x, y>>) = <<y>>  OBVIOUS
<1>6. Len(<<>>) = 0 /\ Len(<<x>>) = 1 /\ Len(<<x, y>>) = 2  OBVIOUS
<1>7. DOMAIN <<x, y>> = 1..2 /\ DOMAIN <<x>> = 1..1  OBVIOUS
<1>8. <<x, y>>[1] = x /\ <<x, y>>[2] = y /\ <<x>>[1] = x  OBVIOUS
<1> QED BY <1>1, <1>2, <1>3, <1>4, <1>5, <1>6, <1>7, <1>8

\* A window stands in line once; given up, it stands there no more.
LEMMA GivenUp ==
    ASSUME NEW ln \in Seq(Window), Len(ln) <= 1, NEW w \in Window
    PROVE  /\ RemoveFirst(ln, w) \in Seq(Window) /\ Len(RemoveFirst(ln, w)) <= 1
           /\ ln = <<>> => RemoveFirst(ln, w) = <<>>
           /\ \A v \in Window : InLine(RemoveFirst(ln, w), v) => v # w /\ InLine(ln, v)
<1>1. CASE ~ \E i \in 1..Len(ln) : ln[i] = w
  <2>1. RemoveFirst(ln, w) = ln  BY <1>1 DEF RemoveFirst
  <2> QED BY <2>1, <1>1 DEF InLine
<1>2. CASE \E i \in 1..Len(ln) : ln[i] = w
  <2>0. Len(ln) \in Nat /\ ln \in [1..Len(ln) -> Window]  BY LenProperties
  <2>1. Len(ln) = 1 /\ ln[1] = w  BY <1>2, <2>0
  <2>2. {i \in 1..Len(ln) : ln[i] = w} = {1}  BY <2>1
  <2>4. RemoveFirst(ln, w) = SubSeq(ln, 1, 0) \o SubSeq(ln, 2, 1)
    BY <1>2, <2>1, <2>2 DEF RemoveFirst, RemoveAt, SelectInSeq, Min
  <2>5. RemoveFirst(ln, w) = <<>>
    BY <2>4
  <2> QED BY <2>5 DEF InLine
<1> QED BY <1>1, <1>2

-----------------------------------------------------------------------------
(* What becomes of the mail *)

LEMMA MessageFields ==
    ASSUME NEW m \in Message
    PROVE  /\ m.id \in Id /\ m.id[1] \in Window /\ m.id[2] \in Nat
           /\ m.type \in {"request", "granted", "refused"}
BY DEF Message, Id

LEMMA IdIsPair ==
    ASSUME NEW id \in Id
    PROVE  id = <<id[1], id[2]>> /\ id[1] \in Window /\ id[2] \in Nat /\ id[2] \in 1..MaxAsks
BY DEF Id

\* The first message is received, or all are lost with the page, or none.
Fewer(s, t) == t = s \/ (s # <<>> /\ t = Tail(s)) \/ t = <<>>

Shifted(s, t) == \E k \in Nat : \A i \in DOMAIN t : i + k \in DOMAIN s /\ t[i] = s[i + k]

LEMMA FewerMessages ==
    ASSUME NEW s \in Seq(Message), NEW t, Fewer(s, t)
    PROVE  t \in Seq(Message) /\ Shifted(s, t)
<1>1. CASE t = s
  <2>1. \A i \in DOMAIN t : i + 0 \in DOMAIN s /\ t[i] = s[i + 0]  BY <1>1, LenProperties
  <2> QED BY <1>1, <2>1 DEF Shifted
<1>2. CASE s # <<>> /\ t = Tail(s)
  <2>1. /\ t \in Seq(Message) /\ Len(t) = Len(s) - 1
        /\ \A i \in 1..Len(t) : t[i] = s[i + 1]
    BY <1>2, HeadTailProperties
  <2>2. DOMAIN t = 1..Len(t) /\ DOMAIN s = 1..Len(s) /\ Len(s) \in Nat  BY <2>1, LenProperties
  <2>3. \A i \in DOMAIN t : i + 1 \in DOMAIN s /\ t[i] = s[i + 1]  BY <2>1, <2>2
  <2> QED BY <2>1, <2>3 DEF Shifted
<1>3. CASE t = <<>>
  <2>1. DOMAIN t = {}  BY <1>3
  <2> QED BY <1>3, <2>1 DEF Shifted
<1> QED BY <1>1, <1>2, <1>3 DEF Fewer

Absorbs(ms, lk, ms2, lk2) ==
    /\ \A v \in Window : Fewer(ms[v], ms2[v])
    /\ \A v \in Window : lk2[v] \subseteq lk[v] \cup Asked(ms, v)

\* Messages received and requests taken up bring no request back to life.
LEMMA NoneRevived ==
    ASSUME NEW ms \in Mails, NEW lk \in Locks, NEW ms2 \in Mails, NEW lk2 \in Locks, Absorbs(ms, lk, ms2, lk2)
    PROVE  \A v \in Window, id \in Window \X Nat : Alive(ms2, lk2, v, id) => Alive(ms, lk, v, id)
<1> SUFFICES ASSUME NEW v \in Window, NEW id \in Window \X Nat, Alive(ms2, lk2, v, id)
             PROVE  Alive(ms, lk, v, id)
    OBVIOUS
<1>1. ms[v] \in Seq(Message) /\ Fewer(ms[v], ms2[v])  BY DEF Mails, Absorbs
<1>2. CASE \E i \in DOMAIN ms2[v] : ms2[v][i].id = id
  <2>1. PICK i \in DOMAIN ms2[v] : ms2[v][i].id = id  BY <1>2
  <2>2. PICK k \in Nat : \A j \in DOMAIN ms2[v] : j + k \in DOMAIN ms[v] /\ ms2[v][j] = ms[v][j + k]
    <3>1. Shifted(ms[v], ms2[v])  BY <1>1, FewerMessages
    <3> QED BY <3>1 DEF Shifted
  <2> QED BY <2>1, <2>2 DEF Alive
<1>3. CASE id \in lk2[v]
  <2>1. id \in lk[v] \/ id \in Asked(ms, v)  BY <1>3 DEF Absorbs
  <2> QED BY <2>1 DEF Alive, Asked
<1> QED BY <1>2, <1>3 DEF Alive

LEMMA SettledMail ==
    ASSUME WindowType,
           NEW ms \in Mails, NEW lk \in Locks, NEW ms2 \in Mails, NEW lk2 \in Locks, Absorbs(ms, lk, ms2, lk2),
           NEW w \in Window
    PROVE  /\ Numbered(ms, lk, w) => Numbered(ms2, lk2, w)
           /\ Ordered(ms, lk, w) => Ordered(ms2, lk2, w)
           /\ Quiet(ms, lk, w) => Quiet(ms2, lk2, w)
<1>1. ms[w] \in Seq(Message) /\ Fewer(ms[w], ms2[w]) /\ ms2[w] \in Seq(Message)  BY DEF Mails, Absorbs
<1>2. PICK k \in Nat : \A j \in DOMAIN ms2[w] : j + k \in DOMAIN ms[w] /\ ms2[w][j] = ms[w][j + k]
  <2>1. Shifted(ms[w], ms2[w])  BY <1>1, FewerMessages
  <2> QED BY <2>1 DEF Shifted
<1>3. \A v \in Window : Alive(ms2, lk2, v, Current(w)) => Alive(ms, lk, v, Current(w))
  BY NoneRevived DEF WindowType, Current
<1>4. DOMAIN ms2[w] \subseteq Nat  BY <1>1, LenProperties
<1>5. ASSUME Numbered(ms, lk, w) PROVE Numbered(ms2, lk2, w)
  <2>1. \A i \in DOMAIN ms2[w] :
          /\ ms2[w][i].id[2] <= asks[ms2[w][i].id[1]]
          /\ ms2[w][i].type = "request" <=> ms2[w][i].id[1] # w
    BY <1>2, <1>5 DEF Numbered
  <2>2. ASSUME NEW id \in lk2[w] PROVE id[1] # w /\ id[2] <= asks[id[1]]
    <3>1. CASE id \in lk[w]  BY <3>1, <1>5 DEF Numbered
    <3>2. CASE id \in Asked(ms, w)  BY <3>2, <1>5 DEF Numbered, Asked
    <3> QED BY <3>1, <3>2 DEF Absorbs
  <2> QED BY <2>1, <2>2 DEF Numbered
<1>6. ASSUME Ordered(ms, lk, w) PROVE Ordered(ms2, lk2, w)
  <2> SUFFICES ASSUME NEW i \in DOMAIN ms2[w], ms2[w][i].type = "request"
               PROVE  /\ \A v \in Window \ {w} : ~Alive(ms2, lk2, v, Current(w))
                      /\ \A j \in DOMAIN ms2[w] : ms2[w][j].id = Current(w) => j < i
      BY DEF Ordered
  <2>1. i + k \in DOMAIN ms[w] /\ ms[w][i + k].type = "request"  BY <1>2
  <2>2. \A v \in Window \ {w} : ~Alive(ms, lk, v, Current(w))  BY <2>1, <1>6 DEF Ordered
  <2>3. \A j \in DOMAIN ms[w] : ms[w][j].id = Current(w) => j < i + k  BY <2>1, <1>6 DEF Ordered
  <2>4. ASSUME NEW j \in DOMAIN ms2[w], ms2[w][j].id = Current(w) PROVE j < i
    <3>1. j + k \in DOMAIN ms[w] /\ ms[w][j + k].id = Current(w)  BY <1>2, <2>4
    <3>2. j + k < i + k  BY <2>3, <3>1
    <3> QED BY <3>2, <1>4
  <2> QED BY <2>2, <2>4, <1>3
<1>7. Quiet(ms, lk, w) => Quiet(ms2, lk2, w)  BY <1>3 DEF Quiet
<1> QED BY <1>5, <1>6, <1>7

Delivered(ms, new, from, type, id) ==
    /\ new \in Mails
    /\ new[from] = ms[from]
    /\ \A v \in Window : \A i \in DOMAIN ms[v] : i \in DOMAIN new[v] /\ new[v][i] = ms[v][i]
    /\ \A v \in Window : \A i \in DOMAIN new[v] \ DOMAIN ms[v] :
          v # from /\ (\A j \in DOMAIN new[v] : j <= i) /\ new[v][i].id = id /\ new[v][i].type = type

LEMMA Posted ==
    ASSUME NEW ms \in Mails, NEW from \in Window, NEW type \in {"request", "granted", "refused"}, NEW id \in Id
    PROVE  Delivered(ms, Post(ms, from, type, id), from, type, id)
<1> DEFINE m == [type |-> type, id |-> id]
           new == Post(ms, from, type, id)
<1>1. m \in Message  BY DEF Message
<1>2. new \in Mails
  BY <1>1, AppendProperties DEF Post, Mails
<1>3. ASSUME NEW v \in Window
      PROVE  /\ \A i \in DOMAIN ms[v] : i \in DOMAIN new[v] /\ new[v][i] = ms[v][i]
             /\ \A i \in DOMAIN new[v] \ DOMAIN ms[v] :
                   v # from /\ (\A j \in DOMAIN new[v] : j <= i) /\ new[v][i] = m
  <2>1. ms[v] \in Seq(Message)  BY DEF Mails
  <2>2. new[v] = ms[v] \/ (v # from /\ new[v] = Append(ms[v], m))  BY DEF Post
  <2>3. CASE new[v] = ms[v]  BY <2>3
  <2>4. CASE v # from /\ new[v] = Append(ms[v], m)
    <3>1. /\ new[v] \in Seq(Message) /\ Len(new[v]) = Len(ms[v]) + 1
          /\ \A i \in 1..Len(ms[v]) : new[v][i] = ms[v][i]
          /\ new[v][Len(ms[v]) + 1] = m
      BY <2>1, <2>4, <1>1, AppendProperties
    <3>2. DOMAIN ms[v] = 1..Len(ms[v]) /\ DOMAIN new[v] = 1..Len(new[v]) /\ Len(ms[v]) \in Nat
      BY <2>1, <3>1, LenProperties
    <3> HIDE DEF new, m
    <3> QED BY <3>1, <3>2, <2>4
  <2> QED BY <2>2, <2>3, <2>4
<1>4. new[from] = ms[from]  BY DEF Post
<1>5. m.id = id /\ m.type = type  OBVIOUS
<1> HIDE DEF new, m
<1>6. ASSUME NEW v \in Window, NEW i \in DOMAIN new[v] \ DOMAIN ms[v]
      PROVE  v # from /\ (\A j \in DOMAIN new[v] : j <= i) /\ new[v][i].id = id /\ new[v][i].type = type
  BY <1>3, <1>5
<1>7. Delivered(ms, new, from, type, id)  BY <1>2, <1>3, <1>4, <1>6 DEF Delivered
<1> QED BY <1>7 DEF new

LEMMA Others ==
    ASSUME Prompted, NEW u \in Window, NEW v \in Window, NEW w \in Window, u # w, v # w
    PROVE  u = v
BY DEF Prompted, TwoWindows

\* An answer goes only to a request still alive, so nothing that waits for
\* none is answered.
LEMMA AnswerPosted ==
    ASSUME Prompted, WindowType,
           NEW ms \in Mails, NEW lk \in Locks, NEW ms1 \in Mails, NEW lk2 \in Locks, Absorbs(ms, lk, ms1, lk2),
           NEW a \in Window, NEW type \in {"granted", "refused"}, NEW id \in Id,
           Alive(ms, lk, a, id), id[1] # a, id[2] <= asks[id[1]],
           NEW w \in Window
    PROVE  /\ Numbered(ms, lk, w) => Numbered(Post(ms1, a, type, id), lk2, w)
           /\ Ordered(ms, lk, w) => Ordered(Post(ms1, a, type, id), lk2, w)
           /\ Quiet(ms, lk, w) => Quiet(Post(ms1, a, type, id), lk2, w)
<1> DEFINE new == Post(ms1, a, type, id)
<1>0. Delivered(ms1, new, a, type, id)
  <2>1. type \in {"request", "granted", "refused"}  OBVIOUS
  <2> QED BY <2>1, Posted
<1> HIDE DEF new
<1>1. new \in Mails /\ new[a] = ms1[a]  BY <1>0 DEF Delivered
<1>2. \A v \in Window : \A i \in DOMAIN ms1[v] : i \in DOMAIN new[v] /\ new[v][i] = ms1[v][i]  BY <1>0 DEF Delivered
<1>3. \A v \in Window : \A i \in DOMAIN new[v] \ DOMAIN ms1[v] :
        v # a /\ (\A j \in DOMAIN new[v] : j <= i) /\ new[v][i].id = id /\ new[v][i].type = type
  BY <1>0 DEF Delivered
<1>4. /\ Numbered(ms, lk, w) => Numbered(ms1, lk2, w)
      /\ Ordered(ms, lk, w) => Ordered(ms1, lk2, w)
      /\ Quiet(ms, lk, w) => Quiet(ms1, lk2, w)
  BY SettledMail
<1>5. \A v \in Window : DOMAIN new[v] \subseteq Nat /\ DOMAIN ms1[v] \subseteq Nat  BY <1>1, LenProperties DEF Mails
<1>6. ASSUME Numbered(ms, lk, w) PROVE Numbered(new, lk2, w)
  <2>1. Numbered(ms1, lk2, w)  BY <1>4, <1>6
  <2>2. ASSUME NEW i \in DOMAIN new[w]
        PROVE  new[w][i].id[2] <= asks[new[w][i].id[1]] /\ (new[w][i].type = "request" <=> new[w][i].id[1] # w)
    <3>1. CASE i \in DOMAIN ms1[w]  BY <3>1, <2>1, <1>2 DEF Numbered
    <3>2. CASE i \notin DOMAIN ms1[w]
      <4>1. w # a /\ new[w][i].id = id /\ new[w][i].type = type  BY <3>2, <1>3
      <4>2. id[1] = w  BY <4>1, Others, IdIsPair
      <4> QED BY <4>1, <4>2
    <3> QED BY <3>1, <3>2
  <2> QED BY <2>1, <2>2 DEF Numbered
<1>7. \A v \in Window, x \in Window \X Nat : x # id => (Alive(new, lk2, v, x) => Alive(ms1, lk2, v, x))
  BY <1>2, <1>3 DEF Alive
<1>8. Current(w) \in Window \X Nat /\ (id = Current(w) => w # a)  BY DEF Current, WindowType
<1>9. ASSUME Quiet(ms, lk, w) PROVE Quiet(new, lk2, w)
  <2>1. id # Current(w)  BY <1>9 DEF Quiet
  <2>2. Quiet(ms1, lk2, w)  BY <1>4, <1>9
  <2> QED BY <2>1, <2>2, <1>7, <1>8 DEF Quiet
<1>10. ASSUME Ordered(ms, lk, w) PROVE Ordered(new, lk2, w)
  <2>1. Ordered(ms1, lk2, w)  BY <1>4, <1>10
  <2> SUFFICES ASSUME NEW i \in DOMAIN new[w], new[w][i].type = "request"
               PROVE  /\ \A v \in Window \ {w} : ~Alive(new, lk2, v, Current(w))
                      /\ \A j \in DOMAIN new[w] : new[w][j].id = Current(w) => j < i
      BY DEF Ordered
  <2>2. i \in DOMAIN ms1[w] /\ ms1[w][i].type = "request"  BY <1>2, <1>3
  <2>3. \A v \in Window \ {w} : ~Alive(ms1, lk2, v, Current(w))  BY <2>1, <2>2 DEF Ordered
  <2>4. \A j \in DOMAIN ms1[w] : ms1[w][j].id = Current(w) => j < i  BY <2>1, <2>2 DEF Ordered
  <2>5. id # Current(w)
    <3>1. PICK k \in DOMAIN ms[w] : ms[w][k].type = "request"
      <4>1. ms[w] \in Seq(Message) /\ Fewer(ms[w], ms1[w])  BY DEF Mails, Absorbs
      <4>2. Shifted(ms[w], ms1[w])  BY <4>1, FewerMessages
      <4> QED BY <4>2, <2>2 DEF Shifted
    <3>2. \A v \in Window \ {w} : ~Alive(ms, lk, v, Current(w))  BY <3>1, <1>10 DEF Ordered
    <3> QED BY <3>2, <1>8
  <2>6. \A v \in Window \ {w} : ~Alive(new, lk2, v, Current(w))  BY <2>3, <2>5, <1>7, <1>8
  <2>7. ASSUME NEW j \in DOMAIN new[w], new[w][j].id = Current(w) PROVE j < i
    <3>1. j \in DOMAIN ms1[w]  BY <2>5, <2>7, <1>3
    <3> QED BY <3>1, <2>4, <2>7, <1>2
  <2> QED BY <2>6, <2>7
<1> USE DEF new
<1> QED BY <1>6, <1>9, <1>10

\* A request goes out when this window has read all of the other's.
LEMMA RequestPosted ==
    ASSUME Prompted, WindowType, WindowType',
           NEW a \in Window, mail[a] = <<>>, locking[a] = {},
           asks' = [asks EXCEPT ![a] = @ + 1], locking' = locking,
           mail' = Post(mail, a, "request", Current(a)'),
           NEW w \in Window
    PROVE  /\ Numbered(mail, locking, w) => Numbered(mail, locking, w)'
           /\ (w = a \/ Ordered(mail, locking, w)) => Ordered(mail, locking, w)'
           /\ w # a /\ Quiet(mail, locking, w) => Quiet(mail, locking, w)'
<1> DEFINE id == Current(a)'
<1>1. mail \in Mails /\ mail' \in Mails /\ locking \in Locks  BY DEF WindowType, Mails, Locks
<1>2. id = <<a, asks[a] + 1>> /\ asks'[a] = asks[a] + 1 /\ asks[a] \in Nat /\ id \in Id
  <2>1. asks \in [Window -> 0..MaxAsks] /\ asks' \in [Window -> 0..MaxAsks] /\ MaxAsks \in Nat
    BY WindowAssumption DEF WindowType
  <2>2. asks'[a] = asks[a] + 1 /\ asks[a] \in Nat  BY <2>1
  <2>3. asks[a] + 1 \in 1..MaxAsks  BY <2>1, <2>2
  <2>4. id = <<a, asks[a] + 1>>  BY <2>2 DEF Current
  <2> HIDE DEF id
  <2> QED BY <2>2, <2>3, <2>4 DEF Id
<1>14. Delivered(mail, mail', a, "request", id)  BY <1>1, <1>2, Posted
<1> HIDE DEF id
<1>3. mail'[a] = <<>> /\ DOMAIN mail'[a] = {}
  BY <1>14 DEF Delivered
<1>4. \A v \in Window : \A i \in DOMAIN mail[v] : i \in DOMAIN mail'[v] /\ mail'[v][i] = mail[v][i]
  BY <1>14 DEF Delivered
<1>5. \A v \in Window : \A i \in DOMAIN mail'[v] \ DOMAIN mail[v] :
        v # a /\ (\A j \in DOMAIN mail'[v] : j <= i) /\ mail'[v][i].id = id /\ mail'[v][i].type = "request"
  BY <1>14 DEF Delivered
<1>6. \A v \in Window : asks[v] \in Nat /\ asks'[v] \in Nat /\ asks[v] <= asks'[v]
  <2>1. asks \in [Window -> 0..MaxAsks] /\ asks' \in [Window -> 0..MaxAsks]  BY DEF WindowType
  <2> QED BY <2>1
<1>7. \A v \in Window : DOMAIN mail'[v] \subseteq Nat  BY <1>1, LenProperties DEF Mails
<1>8. ASSUME Numbered(mail, locking, w) PROVE Numbered(mail, locking, w)'
  <2>1. ASSUME NEW i \in DOMAIN mail'[w]
        PROVE  mail'[w][i].id[2] <= asks'[mail'[w][i].id[1]] /\ (mail'[w][i].type = "request" <=> mail'[w][i].id[1] # w)
    <3>1. CASE i \in DOMAIN mail[w]
      <4>1. mail[w][i] \in Message  BY <3>1, <1>1, LenProperties DEF Mails
      <4>2. mail[w][i].id[1] \in Window /\ mail[w][i].id[2] \in Nat  BY <4>1, MessageFields
      <4>3. mail[w][i].id[2] <= asks[mail[w][i].id[1]] /\ (mail[w][i].type = "request" <=> mail[w][i].id[1] # w)
        BY <3>1, <1>8 DEF Numbered
      <4> QED BY <4>2, <4>3, <1>4, <1>6, <3>1
    <3>2. CASE i \notin DOMAIN mail[w]
      <4>1. w # a /\ mail'[w][i].id = id /\ mail'[w][i].type = "request"  BY <3>2, <1>5
      <4> QED BY <4>1, <1>2
    <3> QED BY <3>1, <3>2
  <2>2. ASSUME NEW x \in locking[w] PROVE x[1] # w /\ x[2] <= asks'[x[1]]
    <3>1. x[1] \in Window /\ x[2] \in Nat  BY IdIsPair DEF WindowType
    <3> QED BY <3>1, <1>6, <1>8 DEF Numbered
  <2> QED BY <2>1, <2>2 DEF Numbered
<1>9. \A v \in Window, x \in Window \X Nat : x # id => (Alive(mail', locking', v, x) => Alive(mail, locking, v, x))
  BY <1>4, <1>5 DEF Alive
<1>10. w # a => Current(w)' = Current(w) /\ Current(w) # id /\ Current(w) \in Window \X Nat
  BY <1>2 DEF Current, WindowType
<1>11. ASSUME w # a, Quiet(mail, locking, w) PROVE Quiet(mail, locking, w)'
  BY <1>9, <1>10, <1>11 DEF Quiet
<1>12. ASSUME w # a, Ordered(mail, locking, w) PROVE Ordered(mail, locking, w)'
  <2> SUFFICES ASSUME NEW i \in DOMAIN mail'[w], mail'[w][i].type = "request"
               PROVE  /\ \A v \in Window \ {w} : ~Alive(mail', locking', v, Current(w)')
                      /\ \A j \in DOMAIN mail'[w] : mail'[w][j].id = Current(w)' => j < i
      BY DEF Ordered
  <2>1. \A v \in Window \ {w} : v = a  BY Others, <1>12
  <2>2. ~Alive(mail', locking', a, Current(w)')  BY <1>3 DEF Alive
  <2>3. ASSUME NEW j \in DOMAIN mail'[w], mail'[w][j].id = Current(w)' PROVE j < i
    <3>1. j \in DOMAIN mail[w] /\ mail[w][j].id = Current(w)  BY <2>3, <1>4, <1>5, <1>10, <1>12
    <3>2. CASE i \in DOMAIN mail[w]  BY <3>1, <3>2, <1>4, <1>12 DEF Ordered
    <3>3. CASE i \notin DOMAIN mail[w]
      <4>1. j <= i /\ j # i  BY <3>1, <3>3, <1>5
      <4> QED BY <4>1, <1>7
    <3> QED BY <3>2, <3>3
  <2> QED BY <2>1, <2>2, <2>3
<1>13. w = a => Ordered(mail, locking, w)'  BY <1>3 DEF Ordered
<1> QED BY <1>8, <1>11, <1>12, <1>13

-----------------------------------------------------------------------------
(* Steps *)

LEMMA MailTyped ==
    ASSUME WindowType
    PROVE  mail \in Mails /\ locking \in Locks
BY DEF WindowType, Mails, Locks

\* A step that sends nothing and begins no wait for an answer.
LEMMA AnsweredLeft ==
    ASSUME WindowType, WindowType', asks' = asks, Absorbs(mail, locking, mail', locking'),
           NEW w \in Window, Answered(w), Asks(w)' => Asks(w), Lost(w)' => Lost(w) \/ Quiet(mail, locking, w)
    PROVE  Answered(w)'
<1>1. mail \in Mails /\ locking \in Locks /\ mail' \in Mails /\ locking' \in Locks
  BY DEF WindowType, Mails, Locks
<1>2. /\ Numbered(mail, locking, w) => Numbered(mail', locking', w)
      /\ Ordered(mail, locking, w) => Ordered(mail', locking', w)
      /\ Quiet(mail, locking, w) => Quiet(mail', locking', w)
  BY <1>1, SettledMail
<1>3. /\ Numbered(mail', locking', w) => Numbered(mail, locking, w)'
      /\ Ordered(mail', locking', w) => Ordered(mail, locking, w)'
      /\ Quiet(mail', locking', w) => Quiet(mail, locking, w)'
  BY DEF Numbered, Ordered, Quiet, Alive, Current
<1> QED BY <1>2, <1>3 DEF Answered, AnswerFirst, LostUnanswered

LEMMA NothingSent ==
    ASSUME WindowType, WindowType', asks' = asks, mail' = mail, locking' = locking,
           NEW w \in Window, Answered(w), Asks(w)' => Asks(w), Lost(w)' => Lost(w) \/ Quiet(mail, locking, w)
    PROVE  Answered(w)'
<1>1. Absorbs(mail, locking, mail', locking')  BY DEF Absorbs, Fewer
<1> QED BY <1>1, AnsweredLeft

\* What the browser tells whom, one task at a time.
LEMMA TellType ==
    ASSUME NEW ts \in [Window -> Seq({"grant", "null", "reject"})], NEW w \in Window,
           NEW task \in {"grant", "null", "reject"}
    PROVE  /\ Tell(ts, w, task) \in [Window -> Seq({"grant", "null", "reject"})]
           /\ \A v \in Window \ {w} : Tell(ts, w, task)[v] = ts[v]
           /\ Tell(ts, w, task)[w] = Append(ts[w], task)
BY AppendProperties DEF Tell

LEMMA LoadStep ==
    ASSUME Prompted, WindowInv, NEW a \in Window, Load(a)
    PROVE  WindowInv'
<1>1. WindowType /\ OneInLine /\ Placed(a) /\ Answered(a)  BY DEF WindowInv
<1>2. tasks[a] = <<>> /\ ~release[a] /\ holder # a /\ ~InLine(line, a) /\ at[a] = "closed"
  BY <1>1, TaskFacts DEF Placed, Told, Works, Lined, Load
<1>3. \A t \in {"grant", "null"} : Tell(tasks, a, t) \in [Window -> Seq({"grant", "null", "reject"})]
  BY <1>1, TellType DEF WindowType
<1>4. WindowType'
  <2>1. loads' \in [Window -> 0..MaxLoads]  BY <1>1, WindowAssumption DEF Load, WindowType
  <2>2. tasks' \in [Window -> Seq({"grant", "null", "reject"})] /\ holder' \in Window \cup {NoWindow}
    BY <1>1, <1>3 DEF Load, WindowType
  <2>3. at' \in [Window -> Places]  BY <1>1 DEF Load, WindowType, Become, Places
  <2> QED BY <2>1, <2>2, <2>3, <1>1 DEF Load, WindowType
<1>5. OneInLine'  BY <1>1 DEF OneInLine, Load
<1>6. tasks'[a] = (IF holder = NoWindow THEN <<"grant">> ELSE <<"null">>) /\ at'[a] = "acquiring"
  <2>1. Tell(tasks, a, "grant")[a] = <<"grant">> /\ Tell(tasks, a, "null")[a] = <<"null">>
    BY <1>1, <1>2, TaskFacts DEF WindowType, Tell
  <2> QED BY <2>1, <1>1 DEF Load, Become, WindowType
<1>7. \A w \in Window \ {a} : tasks'[w] = tasks[w] /\ at'[w] = at[w]
  BY <1>1 DEF Load, Become, WindowType, Tell
<1>8. ASSUME NEW w \in Window PROVE Placed(w)'
  <2>1. Placed(w)  BY DEF WindowInv
  <2>2. CASE w = a
    <3>1. Told(a)'  BY <1>2, <1>6 DEF Told, Load
    <3>2. Works(a)'  BY <1>1, <1>2, <1>6 DEF Works, Load, Placed
    <3>3. Lined(a)'  BY <1>2 DEF Lined, Load
    <3> QED BY <2>2, <3>1, <3>2, <3>3 DEF Placed
  <2>3. CASE w # a
    <3>1. tasks'[w] = tasks[w] /\ at'[w] = at[w]  BY <1>7, <2>3
    <3>2. holder' = w <=> holder = w  BY <2>3, WindowAssumption DEF Load
    <3>3. Told(w)'  BY <2>1, <3>1, <3>2 DEF Told, Load, Placed
    <3>4. Works(w)'  BY <2>1, <3>1, <3>2 DEF Works, Load, Placed
    <3>5. Lined(w)'  BY <2>1, <3>1, <3>2 DEF Lined, Load, Placed
    <3> QED BY <3>3, <3>4, <3>5 DEF Placed
  <2> QED BY <2>2, <2>3
<1>9. ASSUME NEW w \in Window PROVE Answered(w)'
  <2>1. Answered(w)  BY DEF WindowInv
  <2>2. Asks(w)' => Asks(w)  BY <1>6, <1>7 DEF Asks
  <2>3. Lost(w)' => Lost(w)  BY <1>6, <1>7 DEF Lost, Load
  <2> QED BY <2>1, <2>2, <2>3, <1>1, <1>4, NothingSent DEF Load
<1> QED BY <1>4, <1>5, <1>8, <1>9 DEF WindowInv

\* Who was not spoken to, and holds the lock as before, is placed as before.
LEMMA PlacedLeft ==
    ASSUME NEW w \in Window, Placed(w), tasks'[w] = tasks[w], at'[w] = at[w], release'[w] = release[w],
           holder' = w <=> holder = w, locking'[w] \subseteq locking[w], frozen'[w] => frozen[w],
           InLine(line', w) => InLine(line, w)
    PROVE  Placed(w)'
<1>1. Told(w)'  BY DEF Told, Placed
<1>2. Works(w)'  BY DEF Works, Placed
<1>3. Lined(w)'  BY DEF Lined, Placed
<1> QED BY <1>1, <1>2, <1>3 DEF Placed

\* The next in line has the lock and is told so.
LEMMA PassedOn ==
    ASSUME NEW ln \in Seq(Window), Len(ln) <= 1, NEW ts, PassOn(ln, ts)
    PROVE  /\ line' = <<>>
           /\ \/ ln = <<>> /\ holder' = NoWindow /\ tasks' = ts
              \/ \E x \in Window : InLine(ln, x) /\ holder' = x /\ tasks' = Tell(ts, x, "grant")
<1>1. CASE ln = <<>>  BY <1>1 DEF PassOn
<1>2. CASE ln # <<>>
  <2>1. Len(ln) = 1 /\ Len(ln) \in Nat /\ ln \in [1..Len(ln) -> Window]
    <3>1. Len(ln) \in Nat /\ ln \in [1..Len(ln) -> Window]  BY LenProperties
    <3>2. Len(ln) # 0  BY <1>2, EmptySeq
    <3> QED BY <3>1, <3>2
  <2>2. Head(ln) = ln[1] /\ ln[1] \in Window /\ InLine(ln, ln[1])
    BY <2>1 DEF InLine
  <2>3. Tail(ln) \in Seq(Window) /\ Len(Tail(ln)) = 0  BY <1>2, <2>1, HeadTailProperties
  <2>4. Tail(ln) = <<>>  BY <2>3, EmptySeq
  <2> QED BY <1>2, <2>2, <2>4 DEF PassOn
<1> QED BY <1>1, <1>2

\* The lock changes hands: a lets it go, having no more business with it.
LEMMA HandedOn ==
    ASSUME Prompted, WindowInv, NEW a \in Window, holder = a,
           NEW ln \in Seq(Window), Len(ln) <= 1, \A v \in Window : InLine(ln, v) => v # a /\ InLine(line, v),
           NEW ts \in [Window -> Seq({"grant", "null", "reject"})], \A v \in Window \ {a} : ts[v] = tasks[v],
           PassOn(ln, ts),
           \A v \in Window \ {a} : at'[v] = at[v] /\ release'[v] = release[v] /\ locking'[v] = locking[v] /\ frozen'[v] = frozen[v]
    PROVE  /\ holder' \in Window \cup {NoWindow} /\ holder' # a /\ line' = <<>>
           /\ tasks' \in [Window -> Seq({"grant", "null", "reject"})] /\ tasks'[a] = ts[a]
           /\ \A v \in Window \ {a} : Placed(v)' /\ (tasks'[v] = tasks[v] \/ (tasks'[v] = <<"grant">> /\ tasks[v] = <<>>))
           /\ \A v \in Window \ {a} : Lost(v)' => Lost(v)
<1>1. WindowType /\ OneInLine /\ \A v \in Window : Placed(v)  BY DEF WindowInv
<1>2. CASE ln = <<>> /\ holder' = NoWindow /\ tasks' = ts /\ line' = <<>>
  <2>1. ASSUME NEW v \in Window \ {a} PROVE Placed(v)'
    <3>1. ~InLine(line', v)  BY <1>2 DEF InLine
    <3>2. holder' # v /\ holder # v  BY <1>2, WindowAssumption
    <3> QED BY <1>1, <1>2, <3>1, <3>2, PlacedLeft
  <2>2. holder' # a  BY <1>2, WindowAssumption
  <2>3. \A v \in Window \ {a} : Lost(v)' => Lost(v)  BY <1>2 DEF Lost
  <2>4. \A v \in Window \ {a} : tasks'[v] = tasks[v]  BY <1>2
  <2>5. tasks' \in [Window -> Seq({"grant", "null", "reject"})] /\ tasks'[a] = ts[a]  BY <1>2
  <2>6. \A v \in Window \ {a} : Placed(v)' /\ (tasks'[v] = tasks[v] \/ (tasks'[v] = <<"grant">> /\ tasks[v] = <<>>))
    BY <2>1, <2>4
  <2>7. holder' \in Window \cup {NoWindow} /\ line' = <<>>  BY <1>2
  <2> QED BY <2>2, <2>3, <2>5, <2>6, <2>7
<1>3. ASSUME line' = <<>>, NEW x \in Window, InLine(ln, x), holder' = x, tasks' = Tell(ts, x, "grant")
      PROVE  /\ holder' \in Window \cup {NoWindow} /\ holder' # a
             /\ tasks' \in [Window -> Seq({"grant", "null", "reject"})] /\ tasks'[a] = ts[a]
             /\ \A v \in Window \ {a} : Placed(v)' /\ (tasks'[v] = tasks[v] \/ (tasks'[v] = <<"grant">> /\ tasks[v] = <<>>))
             /\ \A v \in Window \ {a} : Lost(v)' => Lost(v)
  <2>1. x # a /\ InLine(line, x)  BY <1>3
  <2>2. /\ tasks' \in [Window -> Seq({"grant", "null", "reject"})]
        /\ \A v \in Window \ {x} : tasks'[v] = ts[v]
        /\ tasks'[x] = Append(ts[x], "grant")
    BY <1>3, TellType
  <2>3. tasks[x] = <<>> /\ ~release[x] /\ at[x] \in {"waiting", "granted", "refused"}
    BY <2>1, <1>1 DEF Placed, Lined
  <2>12. \A v \in Window \ {a} : ts[v] = tasks[v]  OBVIOUS
  <2>4. tasks'[x] = <<"grant">>
    <3>1. ts[x] = <<>>  BY <2>1, <2>3, <2>12
    <3>2. Append(<<>>, "grant") = <<"grant">>  BY TaskFacts
    <3> QED BY <3>1, <3>2, <2>2
  <2>5. Told(x)'  BY <2>1, <2>3, <2>4, <1>3 DEF Told
  <2>6. Works(x)'  BY <2>1, <2>3, <1>1, <1>3 DEF Works, Placed
  <2>7. Lined(x)'  BY <1>3 DEF Lined, InLine
  <2>8. Placed(x)'  BY <2>5, <2>6, <2>7 DEF Placed
  <2>9. ASSUME NEW v \in Window \ {a, x} PROVE Placed(v)'
    <3>1. ~InLine(line', v)  BY <1>3 DEF InLine
    <3>2. holder' # v /\ holder # v  BY <1>3
    <3> QED BY <1>1, <2>2, <3>1, <3>2, PlacedLeft
  <2>10. \A v \in Window \ {a} : tasks'[v] = tasks[v] \/ (tasks'[v] = <<"grant">> /\ tasks[v] = <<>>)
    <3> SUFFICES ASSUME NEW v \in Window \ {a}
                 PROVE  tasks'[v] = tasks[v] \/ (tasks'[v] = <<"grant">> /\ tasks[v] = <<>>)
        OBVIOUS
    <3>1. CASE v = x  BY <3>1, <2>3, <2>4
    <3>2. CASE v # x
      <4>1. tasks'[v] = ts[v]  BY <3>2, <2>2
      <4> QED BY <4>1, <2>12
    <3> QED BY <3>1, <3>2
  <2>11. \A v \in Window \ {a, x} : Lost(v)' => Lost(v)  BY <2>2 DEF Lost
  <2>13. ~Lost(x)'  BY <2>1, <2>3 DEF Lost
  <2> QED BY <2>1, <2>2, <2>8, <2>9, <2>10, <2>11, <2>13, <1>3
<1>4. line' = <<>> /\ \/ ln = <<>> /\ holder' = NoWindow /\ tasks' = ts
                      \/ \E x \in Window : InLine(ln, x) /\ holder' = x /\ tasks' = Tell(ts, x, "grant")
  BY PassedOn
<1> QED BY <1>2, <1>3, <1>4

\* A page that goes, whether it held the lock, stood in line or neither.
LEMMA Unloaded ==
    ASSUME Prompted, WindowInv, NEW a \in Window, Unload(a),
           mail' = [mail EXCEPT ![a] = <<>>], frozen' \in [Window -> BOOLEAN], ~frozen'[a],
           \A v \in Window \ {a} : frozen'[v] = frozen[v],
           loads' = loads, asks' = asks
    PROVE  WindowInv'
<1> DEFINE ln == RemoveFirst(line, a)
           left == [tasks EXCEPT ![a] = <<>>]
<1>1. WindowType /\ OneInLine /\ \A v \in Window : Placed(v)  BY DEF WindowInv
<1>2. /\ ln \in Seq(Window) /\ Len(ln) <= 1 /\ (line = <<>> => ln = <<>>)
      /\ \A v \in Window : InLine(ln, v) => v # a /\ InLine(line, v)
  BY <1>1, GivenUp DEF WindowType, OneInLine
<1>3. left \in [Window -> Seq({"grant", "null", "reject"})] /\ left[a] = <<>> /\ \A v \in Window \ {a} : left[v] = tasks[v]
  BY <1>1 DEF WindowType
<1>4. IF holder = a THEN PassOn(ln, left) ELSE line' = ln /\ tasks' = left /\ holder' = holder
  BY DEF Unload
<1>5. /\ at'[a] = "closed" /\ ~release'[a] /\ locking'[a] = {}
      /\ \A v \in Window \ {a} : at'[v] = at[v] /\ release'[v] = release[v] /\ locking'[v] = locking[v]
  BY <1>1 DEF Unload, Become, WindowType
<1> HIDE DEF ln, left
<1>6. /\ holder' \in Window \cup {NoWindow} /\ holder' # a
      /\ tasks' \in [Window -> Seq({"grant", "null", "reject"})] /\ tasks'[a] = <<>>
      /\ \A v \in Window \ {a} : Placed(v)' /\ (Lost(v)' => Lost(v))
      /\ line' \in Seq(Window) /\ OneInLine' /\ ~InLine(line', a)
  <2>1. CASE holder = a
    <3>1. PassOn(ln, left)  BY <1>4, <2>1
    <3>2. /\ holder' \in Window \cup {NoWindow} /\ holder' # a /\ line' = <<>>
          /\ tasks' \in [Window -> Seq({"grant", "null", "reject"})] /\ tasks'[a] = left[a]
          /\ \A v \in Window \ {a} : Placed(v)'
          /\ \A v \in Window \ {a} : Lost(v)' => Lost(v)
      BY <2>1, <3>1, <1>2, <1>3, <1>5, HandedOn
    <3> QED BY <3>2, <1>3 DEF OneInLine, InLine
  <2>2. CASE holder # a
    <3>1. line' = ln /\ tasks' = left /\ holder' = holder  BY <1>4, <2>2
    <3>2. ASSUME NEW v \in Window \ {a} PROVE Placed(v)'
      <4>1. InLine(line', v) => InLine(line, v)  BY <3>1, <1>2
      <4> QED BY <4>1, <3>1, <1>1, <1>3, <1>5, PlacedLeft
    <3>3. \A v \in Window \ {a} : Lost(v)' => Lost(v)  BY <3>1, <1>3, <1>5 DEF Lost
    <3>4. OneInLine'  BY <3>1, <1>1, <1>2 DEF OneInLine
    <3> QED BY <3>1, <3>2, <3>3, <3>4, <1>1, <1>2, <1>3, <2>2 DEF WindowType
  <2> QED BY <2>1, <2>2
<1>7. WindowType'
  <2>1. at' \in [Window -> Places]  BY <1>1 DEF Unload, Become, WindowType, Places
  <2>2. release' \in [Window -> BOOLEAN] /\ busy' \in [Window -> BOOLEAN] /\ locking' \in [Window -> SUBSET Id]
    BY <1>1 DEF Unload, WindowType
  <2>3. mail' \in [Window -> Seq(Message)]  BY <1>1 DEF WindowType
  <2> QED BY <2>1, <2>2, <2>3, <1>1, <1>6 DEF WindowType
<1>8. Placed(a)'
  <2>1. Told(a)'  BY <1>5, <1>6 DEF Told
  <2>2. Works(a)'  BY <1>5, <1>6 DEF Works
  <2>3. Lined(a)'  BY <1>6 DEF Lined
  <2> QED BY <2>1, <2>2, <2>3 DEF Placed
<1>9. Absorbs(mail, locking, mail', locking')
  <2>1. \A v \in Window : Fewer(mail[v], mail'[v])  BY <1>1 DEF Fewer, WindowType
  <2>2. \A v \in Window : locking'[v] \subseteq locking[v]  BY <1>5
  <2> QED BY <2>1, <2>2 DEF Absorbs
<1>10. ASSUME NEW w \in Window PROVE Answered(w)'
  <2>1. Answered(w)  BY DEF WindowInv
  <2>2. Asks(w)' => Asks(w)  BY <1>5 DEF Asks
  <2>3. Lost(w)' => Lost(w)  BY <1>5, <1>6 DEF Lost
  <2> QED BY <2>1, <2>2, <2>3, <1>1, <1>7, <1>9, AnsweredLeft
<1> QED BY <1>6, <1>7, <1>8, <1>10 DEF WindowInv

LEMMA CloseStep ==
    ASSUME Prompted, WindowInv, NEW a \in Window, Close(a) \/ Leave(a)
    PROVE  WindowInv'
<1>1. frozen \in [Window -> BOOLEAN]  BY DEF WindowInv, WindowType
<1>2. CASE Close(a)  BY <1>1, <1>2, Unloaded DEF Close
<1>3. CASE Leave(a)  BY <1>1, <1>3, Unloaded DEF Leave, Runs, pageVars
<1> QED BY <1>2, <1>3

\* Nothing is said to anyone, and the lock stays where it is.
LEMMA StaysPut ==
    ASSUME Prompted, WindowInv, NEW a \in Window, WindowType',
           holder' = holder, line' = line, tasks' = tasks, release' = release, locking' = locking, mail' = mail,
           asks' = asks, \A v \in Window \ {a} : at'[v] = at[v] /\ frozen'[v] = frozen[v],
           Told(a) => Told(a)', Works(a) => Works(a)',
           at'[a] # at[a] => (tasks[a] = <<>> /\ ~InLine(line, a) /\ ~Asks(a)') \/ (at[a] = "starting" /\ at'[a] = "here")
    PROVE  WindowInv'
<1>1. WindowType /\ OneInLine /\ \A v \in Window : Placed(v)  BY DEF WindowInv
<1>2. \A v \in Window : v # a => Placed(v)'  BY <1>1, PlacedLeft
<1>3. Lined(a)'  BY <1>1 DEF Lined, Placed
<1>4. Placed(a)'  BY <1>1, <1>3 DEF Placed
<1>5. ASSUME NEW w \in Window PROVE Answered(w)'
  <2>1. Answered(w)  BY DEF WindowInv
  <2>2. Asks(w)' => Asks(w)  BY DEF Asks
  <2>3. Lost(w)' => Lost(w)  BY DEF Lost, Asks
  <2> QED BY <2>1, <2>2, <2>3, <1>1, NothingSent
<1> QED BY <1>1, <1>2, <1>4, <1>5 DEF WindowInv, OneInLine

LEMMA FreezeStep ==
    ASSUME Prompted, WindowInv, NEW a \in Window, Freeze(a) \/ Thaw(a) \/ BeginSend(a) \/ EndSend(a)
    PROVE  WindowInv'
<1>1. WindowType /\ Placed(a)  BY DEF WindowInv
<1>2. WindowType'
  BY <1>1 DEF Freeze, Thaw, BeginSend, EndSend, WindowType, pageVars
<1>3. Told(a)'  BY <1>1 DEF Freeze, Thaw, BeginSend, EndSend, Told, Placed
<1>4. Works(a)'
  BY <1>1 DEF Freeze, Thaw, BeginSend, EndSend, Works, Placed, Prompted, pageVars, WindowType
<1>5. \A v \in Window \ {a} : at'[v] = at[v] /\ frozen'[v] = frozen[v]
  BY <1>1 DEF Freeze, Thaw, BeginSend, EndSend, pageVars, WindowType
<1> QED BY <1>2, <1>3, <1>4, <1>5, StaysPut DEF Freeze, Thaw, BeginSend, EndSend, pageVars

LEMMA OpenStep ==
    ASSUME Prompted, WindowInv, NEW a \in Window, Open(a)
    PROVE  WindowInv'
<1>1. WindowType /\ Placed(a)  BY DEF WindowInv
<1>2. at' \in [Window -> Places] /\ at'[a] = "here" /\ at[a] = "starting" /\ \A v \in Window \ {a} : at'[v] = at[v]
  BY <1>1 DEF Open, Become, WindowType, Places
<1>3. WindowType'  BY <1>1, <1>2 DEF Open, WindowType, pageVars
<1>4. Told(a)'  BY <1>1, <1>2 DEF Open, Told, Placed
<1>5. Works(a)'  BY <1>1, <1>2 DEF Open, Works, Placed, pageVars
<1> QED BY <1>1, <1>2, <1>3, <1>4, <1>5, StaysPut DEF Open, pageVars

\* What the browser says next, and to whom in which place.
LEMMA NextTask ==
    ASSUME NEW a \in Window, Told(a), tasks[a] # <<>>
    PROVE  \/ /\ tasks[a] = <<"null">> /\ Head(tasks[a]) = "null" /\ Tail(tasks[a]) = <<>>
              /\ at[a] = "acquiring" /\ ~release[a] /\ holder # a
           \/ /\ tasks[a] = <<"grant">> /\ Head(tasks[a]) = "grant" /\ Tail(tasks[a]) = <<>>
              /\ at[a] \in {"acquiring", "waiting", "granted", "refused", "stealing"} /\ ~release[a] /\ holder = a
           \/ /\ tasks[a] = <<"reject">> /\ Head(tasks[a]) = "reject" /\ Tail(tasks[a]) = <<>>
              /\ at[a] \in {"elsewhere", "starting", "here", "held", "refused", "leaving"} /\ holder # a
           \/ /\ tasks[a] = <<"reject", "grant">> /\ Head(tasks[a]) = "reject" /\ Tail(tasks[a]) = <<"grant">>
              /\ at[a] = "stealing" /\ holder = a
<1>1. CASE tasks[a] = <<"null">>
  <2>1. Head(<<"null">>) = "null" /\ Tail(<<"null">>) = <<>> /\ <<"null">> # <<"grant">> /\ <<"null">> # <<"reject">>
        /\ <<"null">> # <<"reject", "grant">>
    BY TaskFacts
  <2> QED BY <1>1, <2>1 DEF Told
<1>2. CASE tasks[a] = <<"grant">>
  <2>1. Head(<<"grant">>) = "grant" /\ Tail(<<"grant">>) = <<>> /\ <<"null">> # <<"grant">> /\ <<"grant">> # <<"reject">>
        /\ <<"grant">> # <<"reject", "grant">>
    BY TaskFacts
  <2> QED BY <1>2, <2>1 DEF Told
<1>3. CASE tasks[a] = <<"reject">>
  <2>1. Head(<<"reject">>) = "reject" /\ Tail(<<"reject">>) = <<>> /\ <<"null">> # <<"reject">> /\ <<"grant">> # <<"reject">>
        /\ <<"reject">> # <<"reject", "grant">>
    BY TaskFacts
  <2> QED BY <1>3, <2>1 DEF Told
<1>4. CASE tasks[a] = <<"reject", "grant">>
  <2>1. /\ Head(<<"reject", "grant">>) = "reject" /\ Tail(<<"reject", "grant">>) = <<"grant">>
        /\ <<"null">> # <<"reject", "grant">> /\ <<"grant">> # <<"reject", "grant">> /\ <<"reject">> # <<"reject", "grant">>
    <3>1. Head(<<"reject", "grant">>) = "reject" /\ Tail(<<"reject", "grant">>) = <<"grant">>  BY TaskFacts
    <3>2. Len(<<"reject", "grant">>) = 2 /\ Len(<<"null">>) = 1 /\ Len(<<"grant">>) = 1 /\ Len(<<"reject">>) = 1  OBVIOUS
    <3> QED BY <3>1, <3>2
  <2> QED BY <1>4, <2>1 DEF Told
<1> QED BY <1>1, <1>2, <1>3, <1>4 DEF Told

LEMMA HearStep ==
    ASSUME Prompted, WindowInv, NEW a \in Window, Hear(a)
    PROVE  WindowInv'
<1>1. WindowType /\ OneInLine /\ \A v \in Window : Placed(v)  BY DEF WindowInv
<1>2. tasks[a] # <<>> /\ tasks' = [tasks EXCEPT ![a] = Tail(@)] /\ at[a] # "starting" /\ at[a] # "closed"
  BY DEF Hear, Listens, Runs, Prompted
<1>3. ~InLine(line, a)  BY <1>1, <1>2 DEF Placed, Lined
<1>4. Tail(tasks[a]) \in Seq({"grant", "null", "reject"})  BY <1>1, <1>2, HeadTailProperties DEF WindowType
<1>5. tasks' \in [Window -> Seq({"grant", "null", "reject"})] /\ tasks'[a] = Tail(tasks[a])
      /\ \A v \in Window \ {a} : tasks'[v] = tasks[v]
  BY <1>1, <1>2, <1>4 DEF WindowType
<1>6. at' \in [Window -> Places] /\ release' \in [Window -> BOOLEAN]
      /\ \A v \in Window \ {a} : at'[v] = at[v] /\ release'[v] = release[v]
  BY <1>1 DEF Hear, WindowType, Become, GotIt, Places
<1>7. WindowType'  BY <1>1, <1>5, <1>6 DEF WindowType, Hear, pageVars
<1>8. Told(a)' /\ Works(a)' /\ (Asks(a)' => Asks(a)) /\ (Lost(a)' => Lost(a))
  <2>1. locking[a] # {} => at[a] \in {"here", "leaving"}  BY <1>1 DEF Placed, Works
  <2>2. frozen'[a] = FALSE /\ locking'[a] = locking[a] /\ holder' = holder
    BY <1>1 DEF Hear, Listens, Runs, pageVars, WindowType
  <2>3. \A p \in Places : [at EXCEPT ![a] = p][a] = p  BY <1>1 DEF WindowType
  <2>4. Told(a)  BY <1>1 DEF Placed
  <2>5. CASE Head(tasks[a]) = "null" /\ Tail(tasks[a]) = <<>> /\ at[a] = "acquiring" /\ ~release[a] /\ holder # a
    <3>1. at'[a] = "elsewhere" /\ ~release'[a] /\ tasks'[a] = <<>>
      BY <1>5, <2>3, <2>5 DEF Hear, Become, Places
    <3> QED BY <3>1, <2>1, <2>2, <2>5 DEF Told, Works, Asks, Lost
  <2>6. CASE /\ Head(tasks[a]) = "grant" /\ Tail(tasks[a]) = <<>>
             /\ at[a] \in {"acquiring", "waiting", "granted", "refused", "stealing"} /\ ~release[a] /\ holder = a
    <3>1. release'[a] /\ tasks'[a] = <<>>
      BY <1>1, <1>5, <2>6 DEF Hear, WindowType
    <3>2. at'[a] = IF at[a] = "waiting" THEN "held" ELSE IF at[a] = "refused" THEN "refused" ELSE "starting"
      BY <1>1, <2>3, <2>6 DEF Hear, GotIt, Places
    <3> QED BY <3>1, <3>2, <2>1, <2>2, <2>6 DEF Told, Works, Asks, Lost
  <2>7. CASE /\ tasks[a] = <<"reject">> /\ Head(tasks[a]) = "reject" /\ Tail(tasks[a]) = <<>>
             /\ at[a] \in {"elsewhere", "starting", "here", "held", "refused", "leaving"} /\ holder # a
    <3>1. ~release'[a] /\ tasks'[a] = <<>>
      BY <1>1, <1>5, <2>7 DEF Hear, WindowType
    <3>2. at'[a] = IF release[a] /\ at[a] = "here" THEN "leaving" ELSE at[a]
      BY <1>1, <2>3, <2>7 DEF Hear, Places
    <3>3. at[a] = "here" => release[a]  BY <1>1 DEF Placed, Works
    <3> QED BY <3>1, <3>2, <3>3, <1>2, <2>1, <2>2, <2>7 DEF Told, Works, Asks, Lost
  <2>8. CASE /\ tasks[a] = <<"reject", "grant">> /\ Head(tasks[a]) = "reject" /\ Tail(tasks[a]) = <<"grant">>
             /\ at[a] = "stealing" /\ holder = a
    <3>1. ~release'[a] /\ tasks'[a] = <<"grant">> /\ at'[a] = "stealing"
      BY <1>1, <1>5, <2>8 DEF Hear, WindowType
    <3> QED BY <3>1, <2>1, <2>2, <2>8 DEF Told, Works, Asks, Lost
  <2> QED BY <2>4, <2>5, <2>6, <2>7, <2>8, <1>2, NextTask
<1>9. \A v \in Window \ {a} : Placed(v)'  BY <1>1, <1>5, <1>6, PlacedLeft DEF Hear, pageVars
<1>10. Placed(a)'  BY <1>3, <1>8 DEF Placed, Lined, Hear
<1>11. ASSUME NEW w \in Window PROVE Answered(w)'
  <2>1. Answered(w)  BY DEF WindowInv
  <2>2. Asks(w)' => Asks(w)  BY <1>6, <1>8 DEF Asks
  <2>3. Lost(w)' => Lost(w)  BY <1>5, <1>6, <1>8 DEF Lost
  <2> QED BY <2>1, <2>2, <2>3, <1>1, <1>7, NothingSent DEF Hear, pageVars
<1>12. OneInLine'  BY <1>1 DEF OneInLine, Hear
<1> QED BY <1>7, <1>9, <1>10, <1>11, <1>12 DEF WindowInv

LEMMA NoneHolds ==
    ASSUME WindowType, OneInLine, holder = NoWindow
    PROVE  line = <<>> /\ \A v \in Window : holder # v
BY WindowAssumption DEF OneInLine

LEMMA UseHereStep ==
    ASSUME Prompted, WindowInv, NEW a \in Window, UseHere(a)
    PROVE  WindowInv'
<1>1. WindowType /\ OneInLine /\ \A v \in Window : Placed(v)  BY DEF WindowInv
<1>2. at[a] = "elsewhere" /\ tasks[a] = <<>> /\ mail[a] = <<>> /\ locking[a] = {} /\ ~frozen[a] /\ ~InLine(line, a)
      /\ (holder = a <=> release[a])
  <2>1. at[a] = "elsewhere" /\ tasks[a] = <<>> /\ mail[a] = <<>> /\ ~frozen[a]
    BY DEF UseHere, Prompted, Runs
  <2>2. Told(a) /\ Works(a) /\ Lined(a)  BY <1>1 DEF Placed
  <2> QED BY <2>1, <2>2, TaskFacts DEF Told, Works, Lined
<1>3. CASE release[a]
  <2>1. at' = GotIt(a) /\ UNCHANGED <<holder, line, tasks, mail, asks, release, busy, locking, frozen, loads>>
    BY <1>3 DEF UseHere
  <2>2. at' \in [Window -> Places] /\ at'[a] = "starting" /\ \A v \in Window \ {a} : at'[v] = at[v]
    BY <1>1, <2>1 DEF WindowType, GotIt, Places
  <2>3. WindowType'  BY <1>1, <2>1, <2>2 DEF WindowType
  <2>4. Told(a)'  BY <1>2, <1>3, <2>1, <2>2 DEF Told
  <2>5. Works(a)'  BY <1>2, <1>3, <2>1, <2>2 DEF Works
  <2>6. ~Asks(a)'  BY <2>2 DEF Asks
  <2> QED BY <2>1, <2>2, <2>3, <2>4, <2>5, <2>6, <1>2, StaysPut
<1>4. CASE ~release[a]
  <2>1. /\ asks' = [asks EXCEPT ![a] = @ + 1] /\ asks[a] < MaxAsks
        /\ mail' = Post(mail, a, "request", Current(a)')
        /\ UNCHANGED <<release, busy, locking, frozen, loads>>
        /\ IF holder = NoWindow
           THEN holder' = a /\ tasks' = Tell(tasks, a, "grant") /\ UNCHANGED line
           ELSE line' = Append(line, a) /\ UNCHANGED <<holder, tasks>>
    BY <1>4 DEF UseHere, Current
  <2>2. at' \in [Window -> Places] /\ at'[a] = "waiting" /\ \A v \in Window \ {a} : at'[v] = at[v]
    BY <1>1, <1>4 DEF WindowType, UseHere, Become, Places
  <2>3. asks' \in [Window -> 0..MaxAsks] /\ Current(a)' \in Id
    <3>1. asks \in [Window -> 0..MaxAsks] /\ MaxAsks \in Nat  BY <1>1, WindowAssumption DEF WindowType
    <3>2. asks[a] + 1 \in 1..MaxAsks /\ asks[a] + 1 \in 0..MaxAsks  BY <3>1, <2>1
    <3>3. asks' \in [Window -> 0..MaxAsks] /\ asks'[a] = asks[a] + 1  BY <3>1, <3>2, <2>1
    <3> QED BY <3>2, <3>3 DEF Current, Id
  <2>4. mail' \in [Window -> Seq(Message)]
    <3>1. mail \in Mails  BY <1>1 DEF WindowType, Mails
    <3>2. Delivered(mail, Post(mail, a, "request", Current(a)'), a, "request", Current(a)')
      BY <3>1, <2>3, Posted
    <3> QED BY <3>2, <2>1 DEF Delivered, Mails
  <2>5. /\ holder' \in Window \cup {NoWindow} /\ line' \in Seq(Window) /\ OneInLine'
        /\ tasks' \in [Window -> Seq({"grant", "null", "reject"})]
        /\ \A v \in Window \ {a} : Placed(v)' /\ tasks'[v] = tasks[v]
        /\ Told(a)' /\ Lined(a)' /\ Works(a)'
    <3>1. CASE holder = NoWindow
      <4>1. holder' = a /\ tasks' = Tell(tasks, a, "grant") /\ line' = line  BY <2>1, <3>1
      <4>2. tasks' \in [Window -> Seq({"grant", "null", "reject"})] /\ tasks'[a] = Append(tasks[a], "grant")
            /\ \A v \in Window \ {a} : tasks'[v] = tasks[v]
        BY <4>1, <1>1, TellType DEF WindowType
      <4>3. tasks'[a] = <<"grant">>
        <5>1. Append(<<>>, "grant") = <<"grant">>  BY TaskFacts
        <5> QED BY <5>1, <4>2, <1>2
      <4>4. ASSUME NEW v \in Window \ {a} PROVE Placed(v)'
        <5>1. holder' # v /\ holder # v  BY <4>1, <3>1, WindowAssumption
        <5> QED BY <5>1, <4>1, <4>2, <2>1, <2>2, <1>1, PlacedLeft
      <4>5. Told(a)'  BY <4>1, <4>3, <2>1, <2>2, <1>4 DEF Told
      <4>6. Works(a)'  BY <4>1, <2>1, <2>2, <1>2, <1>4 DEF Works
      <4>7. Lined(a)'  BY <4>1, <1>2 DEF Lined
      <4>8. line' = <<>>  BY <4>1, <3>1, <1>1, NoneHolds
      <4> QED BY <4>1, <4>2, <4>4, <4>5, <4>6, <4>7, <4>8 DEF OneInLine
    <3>2. CASE holder # NoWindow
      <4>1. line' = Append(line, a) /\ holder' = holder /\ tasks' = tasks  BY <2>1, <3>2
      <4>2. line = <<>>
        <5> SUFFICES ASSUME line # <<>> PROVE FALSE
            OBVIOUS
        <5>1. line \in Seq(Window) /\ Len(line) = 1
          <6>1. line \in Seq(Window) /\ Len(line) \in Nat /\ Len(line) <= 1  BY <1>1, LenProperties DEF WindowType, OneInLine
          <6>2. Len(line) # 0  BY <6>1, EmptySeq
          <6>3. \A n \in Nat : n <= 1 /\ n # 0 => n = 1  OBVIOUS
          <6> QED BY <6>1, <6>2, <6>3
        <5>2. line[1] \in Window /\ InLine(line, line[1])  BY <5>1, LenProperties DEF InLine
        <5>3. line[1] # a /\ holder # line[1] /\ holder # a /\ holder \in Window
          BY <5>2, <1>1, <1>2, <1>4, <3>2 DEF Placed, Lined, WindowType
        <5> QED BY <5>2, <5>3, Others
      <4>3. Append(<<>>, a) = <<a>> /\ DOMAIN <<a>> = 1..1 /\ <<a>>[1] = a /\ Len(<<a>>) = 1 /\ <<a>> \in Seq(Window)
        BY TaskFacts
      <4>4. line' = <<a>>  BY <4>1, <4>2, <4>3
      <4>5. \A v \in Window \ {a} : ~InLine(line', v)  BY <4>3, <4>4 DEF InLine
      <4>6. ASSUME NEW v \in Window \ {a} PROVE Placed(v)'
        BY <4>1, <4>5, <2>1, <2>2, <1>1, PlacedLeft
      <4>7. Told(a)'  BY <4>1, <2>1, <2>2, <1>2 DEF Told
      <4>8. Works(a)'  BY <4>1, <2>1, <2>2, <1>2, <1>4 DEF Works
      <4>9. Lined(a)'  BY <4>1, <2>1, <2>2, <1>2, <1>4 DEF Lined
      <4>10. OneInLine'  BY <4>1, <4>3, <4>4, <3>2 DEF OneInLine
      <4> QED BY <4>1, <4>3, <4>4, <4>6, <4>7, <4>8, <4>9, <4>10, <1>1 DEF WindowType
    <3> QED BY <3>1, <3>2
  <2>6. WindowType'  BY <1>1, <2>1, <2>2, <2>3, <2>4, <2>5 DEF WindowType
  <2>7. ASSUME NEW w \in Window PROVE Answered(w)'
    <3>1. Answered(w)  BY DEF WindowInv
    <3>2. /\ Numbered(mail, locking, w) => Numbered(mail, locking, w)'
          /\ (w = a \/ Ordered(mail, locking, w)) => Ordered(mail, locking, w)'
          /\ w # a /\ Quiet(mail, locking, w) => Quiet(mail, locking, w)'
      BY <1>1, <1>2, <2>1, <2>6, RequestPosted
    <3>3. CASE w = a  BY <3>1, <3>2, <3>3, <2>2 DEF Answered, AnswerFirst, LostUnanswered, Lost
    <3>4. CASE w # a
      <4>1. Asks(w)' => Asks(w)  BY <2>2, <3>4 DEF Asks
      <4>2. Lost(w)' => Lost(w)  BY <2>1, <2>2, <2>5, <3>4 DEF Lost
      <4> QED BY <4>1, <4>2, <3>1, <3>2, <3>4 DEF Answered, AnswerFirst, LostUnanswered
    <3> QED BY <3>3, <3>4
  <2>8. Placed(a)'  BY <2>5 DEF Placed
  <2> QED BY <2>5, <2>6, <2>7, <2>8 DEF WindowInv
<1> QED BY <1>3, <1>4

LEMMA RefusedStep ==
    ASSUME Prompted, WindowInv, NEW a \in Window, Refused(a)
    PROVE  WindowInv'
<1>1. WindowType /\ OneInLine /\ \A v \in Window : Placed(v)  BY DEF WindowInv
<1>2. /\ line' \in Seq(Window) /\ Len(line') <= 1 /\ (line = <<>> => line' = <<>>)
      /\ \A v \in Window : InLine(line', v) => v # a /\ InLine(line, v)
  BY <1>1, GivenUp DEF Refused, WindowType, OneInLine
<1>3. at[a] = "refused" /\ tasks[a] = <<>> /\ ~frozen[a]  BY DEF Refused, Runs
<1>4. at' \in [Window -> Places] /\ at'[a] = "elsewhere" /\ \A v \in Window \ {a} : at'[v] = at[v]
  BY <1>1 DEF Refused, Become, WindowType, Places
<1>5. WindowType'  BY <1>1, <1>2, <1>4 DEF WindowType, Refused, pageVars
<1>6. OneInLine'  BY <1>1, <1>2 DEF OneInLine, Refused
<1>7. ASSUME NEW w \in Window PROVE Placed(w)'
  <2>1. CASE w # a  BY <2>1, <1>1, <1>2, <1>4, PlacedLeft DEF Refused, pageVars
  <2>2. CASE w = a
    <3>1. Told(a)'  BY <1>1, <1>3, <1>4 DEF Told, Placed, Refused
    <3>2. Works(a)'  BY <1>1, <1>3, <1>4 DEF Works, Placed, Refused, pageVars
    <3>3. Lined(a)'  BY <1>2 DEF Lined
    <3> QED BY <2>2, <3>1, <3>2, <3>3 DEF Placed
  <2> QED BY <2>1, <2>2
<1>8. ASSUME NEW w \in Window PROVE Answered(w)'
  <2>1. Answered(w)  BY DEF WindowInv
  <2>2. Asks(w)' => Asks(w)  BY <1>4 DEF Asks
  <2>3. Lost(w)' => Lost(w)  BY <1>4 DEF Lost, Refused
  <2> QED BY <2>1, <2>2, <2>3, <1>1, <1>5, NothingSent DEF Refused, pageVars
<1> QED BY <1>5, <1>6, <1>7, <1>8 DEF WindowInv

\* Nobody who runs has anything still to read or to hear; whoever is frozen works.
LEMMA Still ==
    ASSUME Prompted, WindowInv, NEW a \in Window, Runs(a), Asks(a), Settled(a), NEW o \in Window, o # a, holder = o
    PROVE  /\ tasks[o] = <<>> /\ release[o]
           /\ at[o] \in {"elsewhere", "starting", "here", "held", "refused", "leaving"}
           /\ at[o] = "held" => Quiet(mail, locking, o)
<1>1. Told(o) /\ Works(o) /\ Works(a)  BY DEF WindowInv, Placed
<1>2. tasks[o] = <<>>
  <2>1. CASE Runs(o)  BY <2>1 DEF Settled, Prompted
  <2>2. CASE frozen[o]
    <3>1. at[o] = "here"  BY <2>2, <1>1 DEF Works
    <3> QED BY <3>1, <1>1 DEF Told
  <2> QED BY <2>1, <2>2, <1>1 DEF Runs, Works
<1>3. release[o] /\ at[o] \notin {"acquiring", "stealing"}
  <2>1. <<"null">> # <<>> /\ <<"grant">> # <<>> /\ <<"reject">> # <<>> /\ <<"reject", "grant">> # <<>>  BY TaskFacts
  <2> QED BY <1>1, <1>2, <2>1 DEF Told
<1>4. ASSUME at[o] = "held" PROVE Quiet(mail, locking, o)
  <2>1. Runs(o)  BY <1>4, <1>1 DEF Works, Runs
  <2>2. mail[o] = <<>> /\ mail[a] = <<>>  BY <2>1 DEF Settled, Prompted
  <2>3. locking[o] = {} /\ locking[a] = {}  BY <1>1, <1>4 DEF Works, Asks
  <2>4. \A v \in Window : v = o \/ v = a  BY Others
  <2>5. DOMAIN mail[o] = {} /\ DOMAIN mail[a] = {}  BY <2>2
  <2> QED BY <2>3, <2>4, <2>5 DEF Quiet, Alive
<1> QED BY <1>1, <1>2, <1>3, <1>4 DEF Works

LEMMA SilenceStep ==
    ASSUME Prompted, WindowInv, NEW a \in Window, Silence(a)
    PROVE  WindowInv'
<1>1. WindowType /\ OneInLine /\ \A v \in Window : Placed(v)  BY DEF WindowInv
<1>2. Runs(a) /\ at[a] \in {"waiting", "held"} /\ tasks[a] = <<>> /\ Settled(a) /\ Asks(a) /\ ~frozen[a]
      /\ (holder = a <=> release[a]) /\ locking[a] = {}
  <2>1. Runs(a) /\ at[a] \in {"waiting", "held"} /\ tasks[a] = <<>> /\ Settled(a)  BY DEF Silence
  <2>2. <<"null">> # <<>> /\ <<"grant">> # <<>> /\ <<"reject">> # <<>> /\ <<"reject", "grant">> # <<>>  BY TaskFacts
  <2>3. Told(a) /\ Works(a)  BY <1>1 DEF Placed
  <2> QED BY <2>1, <2>2, <2>3 DEF Told, Works, Asks, Runs
<1>3. /\ line' \in Seq(Window) /\ Len(line') <= 1
      /\ \A v \in Window : InLine(line', v) => v # a /\ InLine(line, v)
  BY <1>1, GivenUp DEF Silence, Steal, WindowType, OneInLine
<1>4. at' \in [Window -> Places] /\ at'[a] = "stealing" /\ \A v \in Window \ {a} : at'[v] = at[v]
  BY <1>1 DEF Silence, Become, WindowType, Places
<1>5. holder' = a /\ release' = release /\ locking' = locking /\ frozen' = frozen /\ mail' = mail /\ asks' = asks
      /\ busy' = busy /\ loads' = loads
  BY DEF Silence, Steal, pageVars
<1>6. /\ tasks' \in [Window -> Seq({"grant", "null", "reject"})]
      /\ tasks'[a] = IF holder = a THEN <<"reject", "grant">> ELSE <<"grant">>
      /\ \A v \in Window \ {a, holder} : tasks'[v] = tasks[v]
      /\ holder # a /\ holder \in Window => tasks'[holder] = <<"reject">>
  <2>1. CASE holder = NoWindow
    <3>1. tasks' = Tell(tasks, a, "grant")  BY <2>1 DEF Silence, Steal
    <3>2. /\ tasks' \in [Window -> Seq({"grant", "null", "reject"})] /\ tasks'[a] = Append(tasks[a], "grant")
          /\ \A v \in Window \ {a} : tasks'[v] = tasks[v]
      BY <3>1, <1>1, TellType DEF WindowType
    <3>3. Append(<<>>, "grant") = <<"grant">>  BY TaskFacts
    <3> QED BY <2>1, <3>2, <3>3, <1>2, WindowAssumption
  <2>2. CASE holder \in Window
    <3> DEFINE mid == Tell(tasks, holder, "reject")
    <3>1. tasks' = Tell(mid, a, "grant")  BY <2>2, WindowAssumption DEF Silence, Steal
    <3>2. /\ mid \in [Window -> Seq({"grant", "null", "reject"})] /\ mid[holder] = Append(tasks[holder], "reject")
          /\ \A v \in Window \ {holder} : mid[v] = tasks[v]
      BY <1>1, <2>2, TellType DEF WindowType
    <3> HIDE DEF mid
    <3>3. /\ tasks' \in [Window -> Seq({"grant", "null", "reject"})] /\ tasks'[a] = Append(mid[a], "grant")
          /\ \A v \in Window \ {a} : tasks'[v] = mid[v]
      BY <3>1, <3>2, TellType
    <3>4. tasks[holder] = <<>>  BY <1>2, <2>2, Still
    <3>5. mid[holder] = <<"reject">>
      <4>1. Append(<<>>, "reject") = <<"reject">>  BY TaskFacts
      <4> QED BY <4>1, <3>2, <3>4
    <3>6. holder # a => tasks'[a] = <<"grant">>
      <4>1. Append(<<>>, "grant") = <<"grant">>  BY TaskFacts
      <4> QED BY <4>1, <3>2, <3>3, <1>2
    <3>7. holder = a => tasks'[a] = <<"reject", "grant">>
      <4>1. Append(<<"reject">>, "grant") = <<"reject", "grant">>  BY TaskFacts
      <4> QED BY <4>1, <3>3, <3>5
    <3> QED BY <2>2, <3>2, <3>3, <3>5, <3>6, <3>7
  <2> QED BY <2>1, <2>2, <1>1 DEF WindowType
<1>7. WindowType'  BY <1>1, <1>3, <1>4, <1>5, <1>6 DEF WindowType
<1>8. OneInLine'  BY <1>3, <1>5, WindowAssumption DEF OneInLine
<1>9. ASSUME NEW w \in Window PROVE Placed(w)' /\ (Lost(w)' => Lost(w) \/ Quiet(mail, locking, w))
  <2>1. Told(w) /\ Works(w) /\ Lined(w)  BY <1>1 DEF Placed
  <2>2. CASE w = a
    <3>1. Told(a)'  BY <1>2, <1>4, <1>5, <1>6 DEF Told
    <3>2. Works(a)'  BY <1>2, <1>4, <1>5 DEF Works
    <3>3. Lined(a)'  BY <1>3 DEF Lined
    <3>4. ~Lost(a)'  BY <1>4 DEF Lost
    <3> QED BY <2>2, <3>1, <3>2, <3>3, <3>4 DEF Placed
  <2>3. CASE w # a /\ holder = w
    <3>1. /\ tasks[w] = <<>> /\ release[w]
          /\ at[w] \in {"elsewhere", "starting", "here", "held", "refused", "leaving"}
          /\ at[w] = "held" => Quiet(mail, locking, w)
      BY <1>2, <2>3, Still
    <3>2. Told(w)'  BY <3>1, <2>3, <1>4, <1>5, <1>6 DEF Told
    <3>3. Works(w)'  BY <2>1, <2>3, <1>4, <1>5 DEF Works
    <3>4. Lined(w)'  BY <2>1, <3>1, <1>3 DEF Lined
    <3>5. Lost(w)' => Quiet(mail, locking, w)  BY <3>1, <2>3, <1>4 DEF Lost
    <3> QED BY <3>2, <3>3, <3>4, <3>5 DEF Placed
  <2>4. CASE w # a /\ holder # w
    <3>1. tasks'[w] = tasks[w] /\ at'[w] = at[w]  BY <2>4, <1>4, <1>6
    <3>2. holder' = w <=> holder = w  BY <2>4, <1>5
    <3>3. Placed(w)'  BY <1>1, <1>3, <1>5, <3>1, <3>2, PlacedLeft
    <3>4. Lost(w)' => Lost(w)  BY <3>1, <1>5 DEF Lost
    <3> QED BY <3>3, <3>4
  <2> QED BY <2>2, <2>3, <2>4
<1>10. ASSUME NEW w \in Window PROVE Answered(w)'
  <2>1. Answered(w)  BY DEF WindowInv
  <2>2. Asks(w)' => Asks(w)  BY <1>4 DEF Asks
  <2> QED BY <2>1, <2>2, <1>1, <1>5, <1>7, <1>9, NothingSent
<1> QED BY <1>7, <1>8, <1>9, <1>10 DEF WindowInv

\* The first message, received.
LEMMA FirstMessage ==
    ASSUME WindowType, NEW a \in Window, mail[a] # <<>>
    PROVE  /\ Head(mail[a]) \in Message /\ Head(mail[a]) = mail[a][1] /\ 1 \in DOMAIN mail[a]
           /\ Received(a) \in Mails /\ \A v \in Window : Fewer(mail[v], Received(a)[v])
<1>1. mail[a] \in Seq(Message)  BY DEF WindowType
<1>2. Len(mail[a]) \in Nat /\ DOMAIN mail[a] = 1..Len(mail[a]) /\ mail[a] \in [1..Len(mail[a]) -> Message]
  BY <1>1, LenProperties
<1>3. Len(mail[a]) # 0  BY <1>1, EmptySeq
<1>4. Head(mail[a]) = mail[a][1]  BY <1>1
<1>5. Tail(mail[a]) \in Seq(Message)  BY <1>1, HeadTailProperties
<1>6. Received(a) \in Mails  BY <1>5 DEF Received, Mails, WindowType
<1>7. \A v \in Window : Fewer(mail[v], Received(a)[v])  BY DEF Received, Fewer, WindowType
<1> QED BY <1>2, <1>3, <1>4, <1>6, <1>7

LEMMA AnswerStep ==
    ASSUME Prompted, WindowInv, NEW a \in Window, Answer(a)
    PROVE  WindowInv'
<1> DEFINE m == Head(mail[a])
<1>1. WindowType /\ OneInLine /\ \A v \in Window : Placed(v)  BY DEF WindowInv
<1>2. /\ m \in Message /\ m = mail[a][1] /\ 1 \in DOMAIN mail[a] /\ m.type \in {"granted", "refused"}
      /\ Received(a) \in Mails /\ mail' = Received(a) /\ ~frozen[a] /\ \A v \in Window : Fewer(mail[v], Received(a)[v])
  <2>1. mail[a] # <<>> /\ m.type # "request" /\ mail' = Received(a) /\ ~frozen[a]  BY DEF Answer, Runs
  <2>2. m \in Message /\ m = mail[a][1] /\ 1 \in DOMAIN mail[a] /\ Received(a) \in Mails
        /\ \A v \in Window : Fewer(mail[v], Received(a)[v])
    BY <1>1, <2>1, FirstMessage
  <2> HIDE DEF m
  <2>3. m.type \in {"request", "granted", "refused"}  BY <2>2, MessageFields
  <2> QED BY <2>1, <2>2, <2>3
<1>3. /\ UNCHANGED <<holder, line, tasks, release, busy, locking, pageVars>>
      /\ \/ at' = at
         \/ m.id = Current(a) /\ at[a] = "waiting" /\ at' = [at EXCEPT ![a] = m.type]
         \/ m.id = Current(a) /\ at[a] = "held" /\ m.type = "granted" /\ at' = GotIt(a)
         \/ m.id = Current(a) /\ at[a] = "held" /\ at' = [at EXCEPT ![a] = "elsewhere"]
  BY DEF Answer, Current
<1>4. m.id = Current(a) => ~Quiet(mail, locking, a)
  BY <1>2 DEF Quiet, Alive
<1> HIDE DEF m
<1>5. m.id = Current(a) => ~Lost(a)
  BY <1>4 DEF WindowInv, Answered, LostUnanswered
<1>6. at' \in [Window -> Places] /\ \A v \in Window \ {a} : at'[v] = at[v]
  BY <1>1, <1>2, <1>3 DEF WindowType, GotIt, Places
<1>7. WindowType'  BY <1>1, <1>2, <1>3, <1>6 DEF WindowType, pageVars, Mails
<1>8. Placed(a)' /\ (Asks(a)' => Asks(a)) /\ (Lost(a)' => Lost(a))
  <2>1. Told(a) /\ Works(a) /\ Lined(a)  BY <1>1 DEF Placed
  <2>2. CASE at' = at
    <3>1. Told(a)' /\ Works(a)' /\ Lined(a)'  BY <2>1, <2>2, <1>3 DEF Told, Works, Lined, pageVars
    <3> QED BY <2>2, <3>1, <1>3 DEF Placed, Asks, Lost
  <2>3. CASE at[a] = "waiting" /\ at' = [at EXCEPT ![a] = m.type]
    <3>1. at'[a] \in {"granted", "refused"}  BY <2>3, <1>1, <1>2 DEF WindowType
    <3>2. Told(a)'  BY <2>1, <2>3, <3>1, <1>3 DEF Told
    <3>3. Works(a)'  BY <2>1, <2>3, <3>1, <1>2, <1>3 DEF Works, pageVars
    <3>4. Lined(a)'  BY <2>1, <2>3, <3>1, <1>3 DEF Lined
    <3> QED BY <3>1, <3>2, <3>3, <3>4 DEF Placed, Asks, Lost
  <2>4. CASE m.id = Current(a) /\ at[a] = "held" /\ at' = GotIt(a)
    <3>1. at'[a] = "starting"  BY <2>4, <1>1 DEF WindowType, GotIt
    <3>2. release[a] /\ tasks[a] = <<>>  BY <2>4, <1>5 DEF Lost
    <3>3. Told(a)'
      <4>1. <<"null">> # <<>> /\ <<"grant">> # <<>> /\ <<"reject">> # <<>> /\ <<"reject", "grant">> # <<>>  BY TaskFacts
      <4> QED BY <4>1, <2>1, <3>1, <3>2, <1>3 DEF Told
    <3>4. Works(a)'  BY <2>1, <2>4, <3>1, <3>2, <1>2, <1>3 DEF Works, pageVars
    <3>5. Lined(a)'  BY <2>1, <3>2, <1>3 DEF Lined
    <3> QED BY <3>1, <3>3, <3>4, <3>5 DEF Placed, Asks, Lost
  <2>5. CASE at[a] = "held" /\ at' = [at EXCEPT ![a] = "elsewhere"]
    <3>1. at'[a] = "elsewhere"  BY <2>5, <1>1 DEF WindowType
    <3>2. Told(a)'  BY <2>1, <2>5, <3>1, <1>3 DEF Told
    <3>3. Works(a)'  BY <2>1, <2>5, <3>1, <1>2, <1>3 DEF Works, pageVars
    <3>4. Lined(a)'  BY <2>1, <2>5, <1>3 DEF Lined
    <3> QED BY <3>1, <3>2, <3>3, <3>4 DEF Placed, Asks, Lost
  <2> QED BY <2>2, <2>3, <2>4, <2>5, <1>3
<1>9. \A v \in Window \ {a} : Placed(v)'  BY <1>1, <1>3, <1>6, PlacedLeft DEF pageVars
<1>10. Absorbs(mail, locking, mail', locking')  BY <1>2, <1>3 DEF Absorbs
<1>11. ASSUME NEW w \in Window PROVE Answered(w)'
  <2>1. Answered(w)  BY DEF WindowInv
  <2>2. Asks(w)' => Asks(w)  BY <1>6, <1>8 DEF Asks
  <2>3. Lost(w)' => Lost(w)  BY <1>3, <1>6, <1>8 DEF Lost
  <2> QED BY <2>1, <2>2, <2>3, <1>1, <1>3, <1>7, <1>10, AnsweredLeft DEF pageVars
<1>12. OneInLine'  BY <1>1, <1>3 DEF OneInLine
<1> QED BY <1>7, <1>8, <1>9, <1>11, <1>12 DEF WindowInv

\* A step that answers one request, still alive, and begins no wait.
LEMMA AnsweredBy ==
    ASSUME Prompted, WindowType, WindowType', asks' = asks, NEW a \in Window, NEW type \in {"granted", "refused"},
           NEW id \in Id, Alive(mail, locking, a, id), id[1] # a, id[2] <= asks[id[1]],
           NEW ms1 \in Mails, Absorbs(mail, locking, ms1, locking'), mail' = Post(ms1, a, type, id),
           NEW w \in Window, Answered(w), Asks(w)' => Asks(w), Lost(w)' => Lost(w) \/ Quiet(mail, locking, w)
    PROVE  Answered(w)'
<1>1. mail \in Mails /\ locking \in Locks /\ mail' \in Mails /\ locking' \in Locks
  BY DEF WindowType, Mails, Locks
<1>2. /\ Numbered(mail, locking, w) => Numbered(mail', locking', w)
      /\ Ordered(mail, locking, w) => Ordered(mail', locking', w)
      /\ Quiet(mail, locking, w) => Quiet(mail', locking', w)
  BY <1>1, AnswerPosted
<1>3. /\ Numbered(mail', locking', w) => Numbered(mail, locking, w)'
      /\ Ordered(mail', locking', w) => Ordered(mail, locking, w)'
      /\ Quiet(mail', locking', w) => Quiet(mail, locking, w)'
  BY DEF Numbered, Ordered, Quiet, Alive, Current
<1> QED BY <1>2, <1>3 DEF Answered, AnswerFirst, LostUnanswered

\* The wallet is handed over, by a window that had it or has just lost it.
LEMMA HandedOver ==
    ASSUME Prompted, WindowInv, NEW a \in Window, NEW id \in Id, NEW ms1 \in Mails, HandOver(a, ms1, id),
           UNCHANGED <<busy, pageVars>>, Runs(a), at[a] # "starting", release[a] \/ at[a] \in {"here", "leaving"},
           \A v \in Window : Fewer(mail[v], ms1[v]),
           Alive(mail, locking, a, id), id[1] # a, id[2] <= asks[id[1]],
           at[a] = "held" => Quiet(mail, locking, a)
    PROVE  WindowInv'
<1>1. WindowType /\ OneInLine /\ \A v \in Window : Placed(v)  BY DEF WindowInv
<1>2. Told(a) /\ Works(a) /\ Lined(a)  BY <1>1 DEF Placed
<1>3. /\ release' \in [Window -> BOOLEAN] /\ ~release'[a] /\ \A v \in Window \ {a} : release'[v] = release[v]
      /\ at' \in [Window -> Places] /\ at'[a] = (IF at[a] = "here" THEN "leaving" ELSE at[a])
      /\ \A v \in Window \ {a} : at'[v] = at[v]
      /\ locking' \in [Window -> SUBSET Id] /\ locking'[a] \subseteq locking[a]
      /\ \A v \in Window \ {a} : locking'[v] = locking[v]
  <2>1. /\ release' = [release EXCEPT ![a] = FALSE]
        /\ locking' = [locking EXCEPT ![a] = @ \ {id}]
        /\ IF at[a] = "here" THEN at' = [at EXCEPT ![a] = "leaving"] ELSE at' = at
    BY DEF HandOver, Become
  <2>2. "leaving" \in Places  BY DEF Places
  <2> QED BY <1>1, <2>1, <2>2 DEF WindowType
<1>4. frozen' = frozen /\ loads' = loads /\ asks' = asks /\ busy' = busy /\ ~frozen[a] /\ at[a] # "closed"
  BY DEF pageVars, Runs
<1>5. release[a] /\ holder = a /\ ~Robbed(a) => tasks[a] = <<>>
  <2>1. DOMAIN <<"reject", "grant">> = 1..2 /\ <<"reject", "grant">>[1] = "reject"  BY TaskFacts
  <2>2. tasks[a] = <<"reject", "grant">> => Robbed(a)  BY <2>1 DEF Robbed
  <2> QED BY <1>2, <2>2 DEF Told
<1>6. /\ holder' \in Window \cup {NoWindow} /\ line' \in Seq(Window) /\ OneInLine'
      /\ tasks' \in [Window -> Seq({"grant", "null", "reject"})] /\ tasks'[a] = tasks[a]
      /\ \A v \in Window \ {a} : Placed(v)' /\ (Lost(v)' => Lost(v))
      /\ Told(a)' /\ Lined(a)' /\ ((release[a] /\ holder = a /\ ~Robbed(a)) \/ holder' = holder)
  <2>1. CASE release[a] /\ holder = a /\ ~Robbed(a)
    <3>1. PassOn(line, tasks)  BY <2>1 DEF HandOver
    <3>2. ~InLine(line, a)  BY <2>1, <1>2 DEF Lined
    <3>3. /\ line \in Seq(Window) /\ Len(line) <= 1 /\ \A v \in Window : InLine(line, v) => v # a /\ InLine(line, v)
          /\ tasks \in [Window -> Seq({"grant", "null", "reject"})]
      BY <1>1, <3>2 DEF WindowType, OneInLine
    <3>4. \A v \in Window \ {a} : at'[v] = at[v] /\ release'[v] = release[v] /\ locking'[v] = locking[v] /\ frozen'[v] = frozen[v]
      BY <1>3, <1>4
    <3>5. /\ holder' \in Window \cup {NoWindow} /\ holder' # a /\ line' = <<>>
          /\ tasks' \in [Window -> Seq({"grant", "null", "reject"})] /\ tasks'[a] = tasks[a]
          /\ \A v \in Window \ {a} : Placed(v)'
          /\ \A v \in Window \ {a} : Lost(v)' => Lost(v)
      <4>1. \A v \in Window \ {a} : tasks[v] = tasks[v]  OBVIOUS
      <4>2. Len(line) <= 1 /\ (\A v \in Window : InLine(line, v) => v # a /\ InLine(line, v)) /\ holder = a
        BY <2>1, <3>3
      <4>3. line \in Seq(Window) /\ tasks \in [Window -> Seq({"grant", "null", "reject"})]  BY <3>3
      <4> QED BY <3>1, <3>4, <4>1, <4>2, <4>3, HandedOn
    <3>6. at'[a] \notin {"acquiring", "stealing"}
      <4>1. <<"null">> # <<>> /\ <<"grant">> # <<>> /\ <<"reject">> # <<>> /\ <<"reject", "grant">> # <<>>  BY TaskFacts
      <4> QED BY <4>1, <2>1, <1>2, <1>3, <1>5 DEF Told
    <3>7. Told(a)'  BY <2>1, <3>5, <3>6, <1>3, <1>5 DEF Told
    <3>8. Lined(a)' /\ OneInLine'  BY <3>5 DEF Lined, InLine, OneInLine
    <3> QED BY <2>1, <3>5, <3>7, <3>8
  <2>2. CASE ~(release[a] /\ holder = a /\ ~Robbed(a))
    <3>1. holder' = holder /\ line' = line /\ tasks' = tasks  BY <2>2 DEF HandOver
    <3>2. \A v \in Window \ {a} : Placed(v)'  BY <1>1, <1>3, <1>4, <3>1, PlacedLeft
    <3>3. \A v \in Window \ {a} : Lost(v)' => Lost(v)  BY <1>3, <3>1 DEF Lost
    <3>4. Lined(a)'  BY <1>2, <1>3, <3>1 DEF Lined
    <3>5. OneInLine'  BY <1>1, <3>1 DEF OneInLine
    <3>6. tasks[a] = <<>> => holder # a
      <4>1. tasks[a] = <<>> => (holder = a <=> release[a]) /\ ~Robbed(a)
        <5>1. <<"null">> # <<>> /\ <<"grant">> # <<>> /\ <<"reject">> # <<>> /\ <<"reject", "grant">> # <<>>  BY TaskFacts
        <5>2. tasks[a] = <<>> => ~Robbed(a)  BY DEF Robbed
        <5> QED BY <5>1, <5>2, <1>2 DEF Told
      <4> QED BY <4>1, <2>2
    <3>7. Told(a)'  BY <1>2, <1>3, <3>1, <3>6 DEF Told, Works
    <3> QED BY <3>1, <3>2, <3>3, <3>4, <3>5, <3>7, <1>1 DEF WindowType
  <2> QED BY <2>1, <2>2
<1>7. Works(a)'
  BY <1>2, <1>3, <1>4, <1>6 DEF Works
<1>8. Placed(a)'  BY <1>6, <1>7 DEF Placed
<1>9. mail' = Post(ms1, a, "granted", id) /\ mail' \in [Window -> Seq(Message)]
  <2>1. Delivered(ms1, Post(ms1, a, "granted", id), a, "granted", id)  BY Posted
  <2> QED BY <2>1 DEF HandOver, Delivered, Mails
<1>10. WindowType'  BY <1>1, <1>3, <1>4, <1>6, <1>9 DEF WindowType
<1>11. Absorbs(mail, locking, ms1, locking')
  <2>1. \A v \in Window : locking'[v] \subseteq locking[v]  BY <1>3
  <2> QED BY <2>1 DEF Absorbs
<1>12. ASSUME NEW w \in Window PROVE Answered(w)'
  <2>1. Answered(w)  BY DEF WindowInv
  <2>2. Asks(w)' => Asks(w)  BY <1>3 DEF Asks
  <2>3. Lost(w)' => Lost(w) \/ Quiet(mail, locking, w)
    <3>1. CASE w = a  BY <3>1, <1>3 DEF Lost
    <3>2. CASE w # a  BY <3>2, <1>6
    <3> QED BY <3>1, <3>2
  <2>4. "granted" \in {"granted", "refused"}  OBVIOUS
  <2> QED BY <2>1, <2>2, <2>3, <2>4, <1>1, <1>4, <1>9, <1>10, <1>11, AnsweredBy
<1> QED BY <1>6, <1>8, <1>10, <1>12 DEF WindowInv

LEMMA LetGoStep ==
    ASSUME Prompted, WindowInv, NEW a \in Window, LetGo(a)
    PROVE  WindowInv'
<1>1. WindowType /\ Works(a) /\ Answered(a)  BY DEF WindowInv, Placed
<1>2. PICK id \in locking[a] : HandOver(a, mail, id)  BY DEF LetGo
<1>3. id \in Id /\ at[a] \in {"here", "leaving"}  BY <1>1, <1>2 DEF WindowType, Works
<1>4. id[1] # a /\ id[2] <= asks[id[1]]  BY <1>1, <1>2 DEF Answered, Numbered
<1>5. Alive(mail, locking, a, id)  BY <1>2 DEF Alive
<1>6. mail \in Mails /\ \A v \in Window : Fewer(mail[v], mail[v])  BY <1>1 DEF WindowType, Mails, Fewer
<1> QED BY <1>2, <1>3, <1>4, <1>5, <1>6, HandedOver DEF LetGo

LEMMA ReceiveStep ==
    ASSUME Prompted, WindowInv, NEW a \in Window, Receive(a)
    PROVE  WindowInv'
<1> DEFINE m == Head(mail[a])
<1>1. WindowType /\ OneInLine /\ (\A v \in Window : Placed(v)) /\ Works(a) /\ Answered(a)  BY DEF WindowInv, Placed
<1>2. /\ Runs(a) /\ at[a] # "starting" /\ at[a] # "leaving" /\ UNCHANGED <<busy, pageVars>>
      /\ m \in Message /\ m = mail[a][1] /\ 1 \in DOMAIN mail[a] /\ m.type = "request" /\ m.id \in Id
      /\ Received(a) \in Mails /\ \A v \in Window : Fewer(mail[v], Received(a)[v])
  <2>1. Runs(a) /\ at[a] # "starting" /\ at[a] # "leaving" /\ mail[a] # <<>> /\ m.type = "request" /\ UNCHANGED <<busy, pageVars>>
    BY DEF Receive, Listens, Prompted
  <2>2. m \in Message /\ m = mail[a][1] /\ 1 \in DOMAIN mail[a] /\ Received(a) \in Mails
        /\ \A v \in Window : Fewer(mail[v], Received(a)[v])
    BY <1>1, <2>1, FirstMessage
  <2> HIDE DEF m
  <2>3. m.id \in Id  BY <2>2, MessageFields
  <2> QED BY <2>1, <2>2, <2>3
<1>3. \/ /\ mail' = Received(a) /\ locking' = locking
         /\ UNCHANGED <<holder, line, tasks, release, at>>
      \/ /\ mail' = Post(Received(a), a, "refused", m.id) /\ locking' = locking
         /\ UNCHANGED <<holder, line, tasks, release, at>>
      \/ /\ at[a] = "here" /\ mail' = Received(a) /\ locking' = [locking EXCEPT ![a] = @ \cup {m.id}]
         /\ UNCHANGED <<holder, line, tasks, release, at>>
      \/ release[a] /\ at[a] # "here" /\ HandOver(a, Received(a), m.id)
  BY DEF Receive
<1> HIDE DEF m
<1>4. m.id[1] # a /\ m.id[2] <= asks[m.id[1]]
  BY <1>1, <1>2 DEF Answered, Numbered
<1>5. Alive(mail, locking, a, m.id)  BY <1>2 DEF Alive
<1>6. ASSUME UNCHANGED <<holder, line, tasks, release, at, busy, pageVars>>,
             locking' \in Locks, mail' \in Mails, \A v \in Window \ {a} : locking'[v] = locking[v],
             locking'[a] = locking[a] \/ at[a] = "here"
      PROVE  WindowType' /\ OneInLine' /\ \A v \in Window : Placed(v)'
  <2>1. WindowType'  BY <1>1, <1>6 DEF WindowType, Locks, Mails, pageVars
  <2>2. ASSUME NEW v \in Window PROVE Placed(v)'
    <3>1. Told(v)' /\ Lined(v)'  BY <1>1, <1>6 DEF Placed, Told, Lined
    <3>2. Works(v)'  BY <1>1, <1>6 DEF Placed, Works, pageVars
    <3> QED BY <3>1, <3>2 DEF Placed
  <2> QED BY <1>1, <1>6, <2>1, <2>2 DEF OneInLine
<1>7. locking \in Locks  BY <1>1 DEF WindowType, Locks
<1>8. CASE mail' = Received(a) /\ locking' = locking /\ UNCHANGED <<holder, line, tasks, release, at>>
  <2>1. WindowType' /\ OneInLine' /\ \A v \in Window : Placed(v)'  BY <1>2, <1>6, <1>7, <1>8
  <2>2. Absorbs(mail, locking, mail', locking')  BY <1>2, <1>8 DEF Absorbs
  <2>3. \A w \in Window : Answered(w)'
    BY <1>1, <1>2, <1>8, <2>1, <2>2, AnsweredLeft DEF WindowInv, Asks, Lost, pageVars
  <2> QED BY <2>1, <2>3 DEF WindowInv
<1>9. CASE /\ mail' = Post(Received(a), a, "refused", m.id) /\ locking' = locking
           /\ UNCHANGED <<holder, line, tasks, release, at>>
  <2>1. mail' \in Mails
    <3>1. Delivered(Received(a), Post(Received(a), a, "refused", m.id), a, "refused", m.id)  BY <1>2, Posted
    <3> QED BY <3>1, <1>9 DEF Delivered
  <2>2. WindowType' /\ OneInLine' /\ \A v \in Window : Placed(v)'  BY <1>2, <1>6, <1>7, <1>9, <2>1
  <2>3. Absorbs(mail, locking, Received(a), locking')  BY <1>2, <1>9 DEF Absorbs
  <2>4. ASSUME NEW w \in Window PROVE Answered(w)'
    <3>1. Answered(w)  BY DEF WindowInv
    <3>2. (Asks(w)' => Asks(w)) /\ (Lost(w)' => Lost(w)) /\ asks' = asks  BY <1>2, <1>9 DEF Asks, Lost, pageVars
    <3>3. "refused" \in {"granted", "refused"}  OBVIOUS
    <3> QED BY <3>1, <3>2, <3>3, <1>1, <1>2, <1>4, <1>5, <1>9, <2>2, <2>3, AnsweredBy
  <2> QED BY <2>2, <2>4 DEF WindowInv
<1>10. CASE /\ at[a] = "here" /\ mail' = Received(a) /\ locking' = [locking EXCEPT ![a] = @ \cup {m.id}]
            /\ UNCHANGED <<holder, line, tasks, release, at>>
  <2>1. locking' \in Locks /\ locking'[a] = locking[a] \cup {m.id} /\ \A v \in Window \ {a} : locking'[v] = locking[v]
    BY <1>2, <1>7, <1>10 DEF Locks
  <2>2. WindowType' /\ OneInLine' /\ \A v \in Window : Placed(v)'  BY <1>2, <1>6, <1>10, <2>1
  <2>3. m.id \in Asked(mail, a)  BY <1>2 DEF Asked
  <2>4. Absorbs(mail, locking, mail', locking')  BY <1>2, <1>10, <2>1, <2>3 DEF Absorbs
  <2>5. \A w \in Window : Answered(w)'
    BY <1>1, <1>2, <1>10, <2>2, <2>4, AnsweredLeft DEF WindowInv, Asks, Lost, pageVars
  <2> QED BY <2>2, <2>5 DEF WindowInv
<1>11. CASE release[a] /\ at[a] # "here" /\ HandOver(a, Received(a), m.id)
  <2>1. ASSUME at[a] = "held" PROVE Quiet(mail, locking, a)
    <3>1. Ordered(mail, locking, a)  BY <1>1, <2>1 DEF Answered, AnswerFirst, Asks
    <3>2. /\ \A v \in Window \ {a} : ~Alive(mail, locking, v, Current(a))
          /\ \A j \in DOMAIN mail[a] : mail[a][j].id = Current(a) => j < 1
      BY <3>1, <1>2 DEF Ordered
    <3>3. \A j \in DOMAIN mail[a] : j >= 1  BY <1>1, LenProperties DEF WindowType
    <3>4. Current(a) \notin locking[a]  BY <1>1 DEF Answered, Numbered, Current
    <3>5. ~Alive(mail, locking, a, Current(a))
      <4>1. \A j \in DOMAIN mail[a] : j \in Nat  BY <1>1, LenProperties DEF WindowType
      <4> QED BY <3>2, <3>3, <3>4, <4>1 DEF Alive
    <3> QED BY <3>2, <3>5 DEF Quiet
  <2> QED BY <1>2, <1>4, <1>5, <1>11, <2>1, HandedOver
<1> QED BY <1>3, <1>8, <1>9, <1>10, <1>11

-----------------------------------------------------------------------------
(* Theorems *)

LEMMA WindowInit == Init => WindowInv
<1> SUFFICES ASSUME Init PROVE WindowInv
    OBVIOUS
<1>1. WindowType
  <2>1. <<>> \in Seq(Window) /\ <<>> \in Seq({"grant", "null", "reject"}) /\ <<>> \in Seq(Message)  OBVIOUS
  <2>2. 0 \in 0..MaxLoads /\ 0 \in 0..MaxAsks  BY WindowAssumption
  <2> QED BY <2>1, <2>2 DEF Init, WindowType, Places
<1>2. OneInLine  BY DEF Init, OneInLine
<1>3. ASSUME NEW w \in Window PROVE Placed(w) /\ Answered(w)
  <2>1. Told(w)  BY WindowAssumption DEF Init, Told
  <2>2. Works(w)  BY WindowAssumption DEF Init, Works
  <2>3. Lined(w)  BY DEF Init, Lined, InLine
  <2>4. Numbered(mail, locking, w)  BY DEF Init, Numbered
  <2>5. AnswerFirst(w) /\ LostUnanswered(w)  BY DEF Init, AnswerFirst, LostUnanswered, Asks, Lost
  <2> QED BY <2>1, <2>2, <2>3, <2>4, <2>5 DEF Placed, Answered
<1> QED BY <1>1, <1>2, <1>3 DEF WindowInv

LEMMA WindowStep == Prompted /\ WindowInv /\ [Next]_vars => WindowInv'
<1> SUFFICES ASSUME Prompted, WindowInv, [Next]_vars PROVE WindowInv'
    OBVIOUS
<1>1. CASE UNCHANGED vars
  <2>1. /\ holder' = holder /\ line' = line /\ tasks' = tasks /\ release' = release /\ at' = at /\ busy' = busy
        /\ locking' = locking /\ mail' = mail /\ frozen' = frozen /\ loads' = loads /\ asks' = asks
    BY <1>1 DEF vars
  <2>2. WindowType' /\ OneInLine'  BY <2>1 DEF WindowInv, WindowType, OneInLine
  <2>3. \A w \in Window : Placed(w)'  BY <2>1, PlacedLeft DEF WindowInv
  <2>4. \A w \in Window : Answered(w)'  BY <2>1, <2>2, NothingSent DEF WindowInv, Asks, Lost
  <2> QED BY <2>2, <2>3, <2>4 DEF WindowInv
<1>2. CASE Next
  <2>1. PICK a \in Window :
          Load(a) \/ Close(a) \/ Freeze(a) \/ Thaw(a) \/ UseHere(a) \/ BeginSend(a) \/ EndSend(a) \/ Own(a)
    BY <1>2 DEF Next
  <2>2. CASE Own(a)
    BY <2>2, OpenStep, HearStep, CloseStep, ReceiveStep, LetGoStep, AnswerStep, RefusedStep, SilenceStep DEF Own
  <2> QED BY <2>1, <2>2, LoadStep, CloseStep, FreezeStep, UseHereStep
<1> QED BY <1>1, <1>2

\* Of two windows one works with the wallet, however often they are loaded,
\* closed, frozen and asked, and whatever the lock does between them
\* (windowOwner.ts: hold, takeOver, receive).
THEOREM OneWindowWorks ==
    ASSUME Prompted
    PROVE  Spec => []WhoWorksHolds
<1>1. WindowInv => WhoWorksHolds
  <2> SUFFICES ASSUME WindowInv, NEW w \in Window
               PROVE  /\ at[w] = "here" => holder = w \/ Robbed(w)
                      /\ holder = w /\ tasks[w] = <<>> => release[w]
      BY DEF WhoWorksHolds
  <2>1. Told(w) /\ Works(w)  BY DEF WindowInv, Placed
  <2>2. <<"null">> # <<>> /\ <<"grant">> # <<>> /\ <<"reject">> # <<>> /\ <<"reject", "grant">> # <<>>  BY TaskFacts
  <2>3. tasks[w] = <<"reject">> => Robbed(w)
    <3>1. DOMAIN <<"reject">> = 1..1 /\ <<"reject">>[1] = "reject"  BY TaskFacts
    <3> QED BY <3>1 DEF Robbed
  <2>4. at[w] = "here" => holder = w \/ Robbed(w)  BY <2>1, <2>3 DEF Told, Works
  <2>5. holder = w /\ tasks[w] = <<>> => release[w]  BY <2>1, <2>2 DEF Told
  <2> QED BY <2>4, <2>5
<1>2. Spec => []WindowInv
  <2>1. WindowInv /\ [Next]_vars => WindowInv'  BY WindowStep
  <2> QED BY <2>1, WindowInit, PTL DEF Spec
<1> QED BY <1>1, <1>2, PTL

-----------------------------------------------------------------------------
(***************************************************************************)
(* Restore.  What a restore noted of a height is what a scan of it would   *)
(* tell: every spend in it of a coin known then is in the wallet, and every*)
(* payment.  A round ends only when a look at what the index names for all *)
(* that is known now finds nothing new.                                    *)
(***************************************************************************)

Early(c) == coins[c].key \in 0..(FreshNext + Lookahead)
Wallets == [found : SUBSET Coins, gone : SUBSET Coins, next : Nat, restore : {"none", "fast", "rebuild"},
            begun : BOOLEAN, synced : Nat, birthday : Nat]
Steps == {"idle", "ask", "scan", "noted", "settled", "finished"}

\* Records of blocks looked at: by height, the coins known then
Notes == UNION {[H -> SUBSET Coins] : H \in SUBSET (1..MaxHeight)}
Jobs == [at : Steps, tip : Nat, scanned : Notes, todo : SUBSET (1..MaxHeight), round : Nat, unsaved : Nat, lowest : Nat]

RestoreType ==
    /\ coins \in Histories /\ stray \subseteq 1..MaxHeight
    /\ tip \in 0..MaxHeight /\ index \in BOOLEAN
    /\ wallet \in Wallets /\ wallet.next >= FreshNext
    /\ note \in Notes /\ job \in Jobs /\ job.tip <= tip /\ job.todo \subseteq 1..job.tip
    /\ (job.at = "idle" => job = Idle) /\ (job.at = "scan" => job.todo # {})

\* A wallet either restores or holds every block up to its position.
Whole ==
    /\ (job.at \notin {"idle", "finished"} => wallet.restore # "none")
    /\ (wallet.restore # "none" => ~wallet.begun)
    /\ (wallet.restore = "rebuild" \/ (wallet.restore = "none" /\ ~wallet.begun) => wallet.birthday = 1)
    /\ (wallet.begun => wallet.synced <= tip)
    /\ (said = "done" => wallet.begun /\ wallet.synced = tip)

\* Of the blocks in n, the wallet has the spends of the coins known at the time.
SpendsSeen(n) == \A h \in DOMAIN n : \A c \in n[h] : coins[c].spent = h => c \in wallet.gone
KeptSpends == wallet.restore # "none" => SpendsSeen(note)
JobSpends == job.at \notin {"idle", "finished"} => SpendsSeen(job.scanned)
SettledSpends == job.at = "settled" => \A c \in Unspent(wallet) : coins[c].spent \notin 1..job.tip
GoneUpTo == wallet.begun => \A c \in wallet.found : coins[c].spent \in 1..wallet.synced => c \in wallet.gone
SpendInv == RestoreType /\ Whole /\ KeptSpends /\ JobSpends /\ SettledSpends /\ GoneUpTo

\* Of the blocks in n, the wallet has every payment; and those still to be looked at
\* pay keys that are watched.
PaymentsSeen(n) == \A h \in DOMAIN n : \A c \in Coins : coins[c].paid = h => c \in wallet.found
KeptPayments == wallet.restore # "none" => PaymentsSeen(note)
JobPayments == job.at \notin {"idle", "finished"} => PaymentsSeen(job.scanned)
TodoWatched == job.at \in {"scan", "noted"} => \A c \in Coins : coins[c].paid \in job.todo => coins[c].key \in Watched(wallet)
SettledPayments == job.at = "settled" =>
    \A c \in Coins : coins[c].key \in Watched(wallet) /\ coins[c].paid <= job.tip => c \in wallet.found
NextPast == \A c \in wallet.found : wallet.next >= coins[c].key + 1

\* The wallet has what a scan of all blocks up to its position would have found.
IsFullScan(F) == F[0] = Reset(0, "none") /\ \A h \in 1..MaxHeight : F[h] = Scan(F[h - 1], h)
Covers(F) == wallet.begun => F[wallet.synced].found \subseteq wallet.found /\ F[wallet.synced].next <= wallet.next
CoversFull == Covers(FullScan)
PaymentInv == SpendInv /\ KeptPayments /\ JobPayments /\ TodoWatched /\ SettledPayments /\ NextPast /\ CoversFull

(* The largest of a few numbers *)

\* Induction over numbers, for a set of those a fact holds of.
LEMMA UpFromZero ==
    ASSUME NEW top \in Nat, NEW S, 0 \in S, \A n \in 0..top : n < top /\ n \in S => n + 1 \in S
    PROVE  0..top \subseteq S
<1> DEFINE T == {n \in 0..top : n \notin S}
<1> SUFFICES ASSUME T # {} PROVE FALSE
  OBVIOUS
<1>1. T \subseteq Nat
  OBVIOUS
<1>2. PICK x \in T : \A y \in T : ~(<<y, x>> \in OpToRel(<, Nat))
  <2> HIDE DEF T
  <2> QED BY <1>1, NatLessThanWellFounded, WFMin
<1>3. x \in 0..top /\ x \notin S /\ x # 0
  OBVIOUS
<1>4. x - 1 \in 0..top /\ x - 1 < top /\ (x - 1) + 1 = x /\ x - 1 < x
  BY <1>3
<1>5. x - 1 \notin S
  BY <1>3, <1>4
<1>6. x - 1 \in T
  BY <1>4, <1>5
<1>7. <<x - 1, x>> \in OpToRel(<, Nat)
  BY <1>1, <1>4, <1>6 DEF OpToRel
<1> QED BY <1>2, <1>6, <1>7

LEMMA Numbers ==
    /\ NumCoins \in Nat \ {0} /\ Rounds \in Nat \ {0} /\ SaveEvery \in Nat \ {0} /\ MaxHeight \in Nat \ {0}
    /\ Lookahead \in Nat /\ Handover \in Nat /\ Indices \subseteq Nat
  BY RestoreAssumption

LEMMA KeysBounded ==
    ASSUME coins \in Histories
    PROVE  \E b \in Nat : \A c \in Coins : coins[c].key + 1 <= b
<1> DEFINE S == {n \in 0..NumCoins : \E b \in Nat : \A c \in 1..n : coins[c].key + 1 <= b}
<1>1. \A c \in Coins : coins[c].key \in Nat
  BY Numbers DEF Histories
<1>2. 0 \in S
  BY Numbers
<1>3. ASSUME NEW n \in 0..NumCoins, n < NumCoins, n \in S PROVE n + 1 \in S
  <2>1. PICK b \in Nat : \A c \in 1..n : coins[c].key + 1 <= b
    BY <1>3
  <2>2. n + 1 \in Coins /\ n + 1 \in 0..NumCoins
    BY <1>3, Numbers DEF Coins
  <2> DEFINE k == coins[n + 1].key + 1
  <2>3. k \in Nat
    BY <1>1, <2>2
  <2>4. \A c \in 1..(n + 1) : c \in 1..n \/ c = n + 1
    BY <1>3
  <2>5. \A c \in 1..n : coins[c].key \in Nat
    BY <1>1, <1>3, Numbers DEF Coins
  <2>6. CASE b >= k
    BY <2>1, <2>2, <2>3, <2>4, <2>5, <2>6
  <2>7. CASE k >= b
    <3>1. \A c \in 1..(n + 1) : coins[c].key + 1 <= k
      BY <2>1, <2>3, <2>4, <2>5, <2>7
    <3> QED BY <2>2, <2>3, <3>1
  <2> QED BY <2>3, <2>6, <2>7
<1>4. 0..NumCoins \subseteq S
  <2> HIDE DEF S
  <2> QED BY <1>2, <1>3, Numbers, UpFromZero
<1> QED BY <1>4, Numbers DEF Coins

LEMMA LargestExists ==
    ASSUME NEW b \in Nat, NEW S, S \subseteq 0..b, S # {}
    PROVE  Max(S) \in S /\ \A n \in S : n <= Max(S)
<1> DEFINE T == {b - n : n \in S}
<1>1. T \subseteq Nat /\ T # {}
  <2>1. \A n \in S : n \in Nat /\ b - n \in Nat
    OBVIOUS
  <2>2. PICK n \in S : TRUE
    OBVIOUS
  <2>3. b - n \in T
    BY <2>2
  <2> QED BY <2>1, <2>3
<1>2. PICK x \in T : \A y \in T : ~(<<y, x>> \in OpToRel(<, Nat))
  <2> HIDE DEF T
  <2> QED BY <1>1, NatLessThanWellFounded, WFMin
<1>3. \A y \in T : ~(y < x)
  BY <1>1, <1>2 DEF OpToRel
<1>4. PICK n \in S : x = b - n
  OBVIOUS
<1>5. \A m \in S : ~(b - m < b - n)
  BY <1>3, <1>4
<1>6. \A m \in S : n >= m
  <2>1. \A m \in S : m \in Nat /\ b - m \in Nat
    OBVIOUS
  <2> QED BY <1>5, <2>1
<1>7. Max(S) \in S /\ \A m \in S : Max(S) >= m
  BY <1>6 DEF Max
<1> QED BY <1>7

LEMMA SmallestExists ==
    ASSUME NEW S, S \subseteq Nat, S # {}
    PROVE  Min(S) \in S /\ \A n \in S : Min(S) <= n
<1>1. PICK x \in S : \A y \in S : ~(<<y, x>> \in OpToRel(<, Nat))
  BY NatLessThanWellFounded, WFMin
<1>2. \A y \in S : y \in Nat /\ x \in Nat /\ ~(y < x)
  BY <1>1 DEF OpToRel
<1>3. \A y \in S : x <= y
  BY <1>2
<1> QED BY <1>3 DEF Min

(* What scanning a block answers *)

LEMMA ScanAnswers ==
    ASSUME coins \in Histories, NEW w \in Wallets, NEW h \in Nat
    PROVE  LET s == Scan(w, h) IN
           /\ s \in Wallets
           /\ s.found = w.found \cup {c \in Coins : coins[c].paid = h /\ coins[c].key \in Watched(w)}
           /\ s.gone = w.gone \cup {c \in w.found \ w.gone : coins[c].spent = h}
           /\ s.next >= w.next
           /\ \A c \in Coins : coins[c].paid = h /\ coins[c].key \in Watched(w) => s.next >= coins[c].key + 1
           /\ \A n \in Nat : n >= w.next /\ (\A c \in Coins : coins[c].paid = h /\ coins[c].key \in Watched(w)
                                                 => n >= coins[c].key + 1) => n >= s.next
           /\ s.restore = w.restore /\ s.begun = w.begun /\ s.synced = w.synced /\ s.birthday = w.birthday
<1> DEFINE in == {c \in Coins : coins[c].paid = h /\ coins[c].key \in Watched(w)}
           out == {c \in Unspent(w) : coins[c].spent = h}
           N == {w.next} \cup {coins[c].key + 1 : c \in in}
<1>1. PICK b \in Nat : \A c \in Coins : coins[c].key + 1 <= b
  BY KeysBounded
<1>2. \A c \in Coins : coins[c].key \in Nat
  BY Numbers DEF Histories
<1>3. w.next \in Nat
  BY DEF Wallets
<1>4. PICK m \in Nat : b <= m /\ w.next <= m
  BY <1>3
<1>5. N \subseteq 0..m /\ N # {}
  BY <1>1, <1>2, <1>3, <1>4
<1>6. Max(N) \in N /\ \A n \in N : n <= Max(N)
  <2> HIDE DEF N
  <2> QED BY <1>5, LargestExists
<1>7. /\ Max(N) \in Nat /\ Max(N) >= w.next /\ \A c \in in : Max(N) >= coins[c].key + 1
      /\ Max(N) = w.next \/ \E c \in in : Max(N) = coins[c].key + 1
  <2>1. \A n \in N : n = w.next \/ \E c \in in : n = coins[c].key + 1
    OBVIOUS
  <2>2. w.next \in N /\ \A c \in in : coins[c].key + 1 \in N
    OBVIOUS
  <2>4. \A n \in N : n \in Nat
    BY <1>5
  <2> HIDE DEF N
  <2>3. Max(N) \in Nat
    BY <2>4, <1>6
  <2> QED BY <1>6, <2>1, <2>2, <2>3, <2>4
<1> HIDE DEF N
<1>8. Scan(w, h) = [w EXCEPT !.found = @ \cup in, !.gone = @ \cup out, !.next = Max(N)]
  BY DEF Scan, N
<1>9. out \subseteq Coins /\ in \subseteq Coins
  BY DEF Unspent, Wallets
<1>10. in = {c \in Coins : coins[c].paid = h /\ coins[c].key \in Watched(w)}
      /\ out = {c \in w.found \ w.gone : coins[c].spent = h}
  BY DEF Unspent
<1> HIDE DEF in, out
<1>11. /\ Scan(w, h) \in Wallets /\ Scan(w, h).found = w.found \cup in /\ Scan(w, h).gone = w.gone \cup out
       /\ Scan(w, h).next = Max(N) /\ Scan(w, h).restore = w.restore /\ Scan(w, h).begun = w.begun
       /\ Scan(w, h).synced = w.synced /\ Scan(w, h).birthday = w.birthday
  BY <1>7, <1>8, <1>9 DEF Wallets
<1>12. \A c \in Coins : coins[c].paid = h /\ coins[c].key \in Watched(w) => c \in in
  BY <1>10
<1>13. \A c \in in : c \in Coins /\ coins[c].paid = h /\ coins[c].key \in Watched(w)
  BY <1>10
<1>14. \A n \in Nat : n >= w.next /\ (\A c \in in : n >= coins[c].key + 1) => n >= Max(N)
  BY <1>7
<1> QED BY <1>7, <1>10, <1>11, <1>12, <1>13, <1>14

LEMMA NoteAdds ==
    ASSUME NEW n \in Notes, NEW h \in 1..MaxHeight, NEW X \in SUBSET Coins
    PROVE  /\ Noting(n, h, X) \in Notes /\ DOMAIN Noting(n, h, X) = DOMAIN n \cup {h}
           /\ Noting(n, h, X)[h] = X /\ \A k \in DOMAIN n : k # h => Noting(n, h, X)[k] = n[k]
<1> DEFINE m == Noting(n, h, X)
           H == DOMAIN n \cup {h}
<1>1. PICK G \in SUBSET (1..MaxHeight) : n \in [G -> SUBSET Coins]
  BY DEF Notes
<1>2. m = [k \in H |-> IF k = h THEN X ELSE n[k]]
  BY DEF Noting
<1>3. m \in [H -> SUBSET Coins] /\ H \in SUBSET (1..MaxHeight)
  BY <1>1, <1>2
<1> QED BY <1>1, <1>2, <1>3 DEF Notes

\* The same, under a name.
Adds(m, n, h, X) == DOMAIN m = DOMAIN n \cup {h} /\ m[h] = X /\ \A k \in DOMAIN n : k # h => m[k] = n[k]
LEMMA NoteIsAdded ==
    ASSUME NEW n, n \in Notes, NEW h, h \in 1..MaxHeight, NEW X, X \in SUBSET Coins
    PROVE  Adds(Noting(n, h, X), n, h, X)
BY NoteAdds DEF Adds

LEMMA NothingIsNote == Nothing \in Notes /\ DOMAIN Nothing = {} /\ Idle \in Jobs /\ Idle.at = "idle" /\ Idle.tip = 0 /\ Idle.todo = {}
<1>1. Nothing \in [{} -> SUBSET Coins] /\ DOMAIN Nothing = {}
  BY DEF Nothing
<1>2. Nothing \in Notes
  BY <1>1 DEF Notes
<1> HIDE DEF Nothing
<1> QED BY <1>1, <1>2 DEF Idle, Jobs, Steps

LEMMA NoteTyped == \A n \in Notes : DOMAIN n \subseteq 1..MaxHeight /\ \A h \in DOMAIN n : n[h] \subseteq Coins
  BY DEF Notes

LEMMA TodoTyped == RestoreType => Todo(wallet) \subseteq 1..job.tip
  BY DEF Todo

LEMMA SpendInit == RestoreInit => SpendInv
<1> SUFFICES ASSUME RestoreInit PROVE SpendInv
  OBVIOUS
<1>1. wallet \in Wallets /\ wallet.next = FreshNext /\ wallet.begun = FALSE /\ wallet.restore # "none"
      /\ (wallet.restore = "rebuild" => wallet.birthday = 1)
  <2>1. CASE wallet = Reset(0, "fast")
    BY <2>1 DEF Reset, Wallets, FreshNext
  <2>2. CASE wallet = Reset(1, "rebuild")
    BY <2>2 DEF Reset, Wallets, FreshNext
  <2> QED BY <2>1, <2>2 DEF RestoreInit
<1>2. tip \in 0..MaxHeight /\ stray \subseteq 1..MaxHeight
  <2>1. tip = MaxHeight - 1 /\ stray \in Strays
    BY DEF RestoreInit
  <2>2. Strays \subseteq SUBSET (1..MaxHeight)
    BY RestoreAssumption
  <2>3. stray \in SUBSET (1..MaxHeight)
    BY <2>1, <2>2
  <2> QED BY <2>1, <2>3, Numbers
<1>3. RestoreType
  BY <1>1, <1>2, NothingIsNote DEF RestoreInit, RestoreType, FreshNext
<1> QED BY <1>1, <1>3, NothingIsNote DEF RestoreInit, SpendInv, Whole, KeptSpends, JobSpends, SettledSpends, GoneUpTo, SpendsSeen

(* What each step keeps *)

LEMMA TypeStep == RestoreType /\ [RestoreNext]_restoreVars => RestoreType'
<1> SUFFICES ASSUME RestoreType, [RestoreNext]_restoreVars PROVE RestoreType'
  OBVIOUS
<1> USE Numbers
<1>0. /\ wallet \in Wallets /\ wallet.next \in Nat /\ wallet.synced \in Nat /\ tip \in Nat /\ job \in Jobs /\ note \in Notes
      /\ job.tip \in Nat /\ job.lowest \in Nat /\ job.round \in Nat /\ job.unsaved \in Nat /\ job.scanned \in Notes
  BY DEF RestoreType, Wallets, Jobs
<1>1. CASE UNCHANGED restoreVars
  BY <1>1 DEF restoreVars, RestoreType, Histories, Wallets, Jobs, Notes, Coins, Alone
<1>2. ASSUME UNCHANGED chain, tip' \in 0..MaxHeight, index' \in BOOLEAN, wallet' \in Wallets, wallet'.next >= FreshNext,
             note' \in Notes, job' \in Jobs, job'.tip <= tip', job'.todo \subseteq 1..job'.tip,
             job'.at = "idle" => job' = Idle, job'.at = "scan" => job'.todo # {}
      PROVE  RestoreType'
  <2>1. coins' \in Histories' /\ stray' \subseteq 1..MaxHeight
    BY <1>2 DEF chain, RestoreType, Histories, Alone, Coins
  <2> QED BY <1>2, <2>1 DEF RestoreType, Wallets, Jobs, Notes, Idle, Nothing, Coins
<1>3. ASSUME Begin PROVE RestoreType'
  <2>1. job' = [Idle EXCEPT !.at = "ask", !.tip = tip, !.scanned = note, !.lowest = tip]
    BY <1>3 DEF Begin
  <2>2. job' \in Jobs /\ job'.tip = tip /\ job'.todo = {} /\ job'.at = "ask"
    BY <2>1, <1>0, NothingIsNote DEF Idle, Jobs, Steps
  <2> QED BY <1>0, <1>2, <1>3, <2>2 DEF Begin, RestoreType
<1>4. ASSUME NoIndex \/ GiveUp \/ Forget \/ Break PROVE RestoreType'
  <2>1. job' = Idle /\ UNCHANGED chain /\ tip' = tip /\ index' = index
    BY <1>4 DEF NoIndex, GiveUp, Forget, Break, Ends
  <2>2. wallet' \in Wallets /\ wallet'.next = wallet.next
    BY <1>0, <1>4 DEF NoIndex, GiveUp, Forget, Break, Wallets
  <2>3. note' \in Notes
    BY <1>0, <1>4, NothingIsNote DEF NoIndex, GiveUp, Forget, Break
  <2> QED BY <1>0, <1>2, <2>1, <2>2, <2>3, NothingIsNote DEF RestoreType
<1>5. ASSUME Ask PROVE RestoreType'
  <2>1. job' \in Jobs /\ job'.tip = job.tip /\ job'.todo \subseteq 1..job'.tip /\ job'.at # "idle"
        /\ (job'.at = "scan" => job'.todo # {})
    <3>1. Todo(wallet) \subseteq 1..job.tip /\ 1..job.tip \subseteq 1..MaxHeight
      BY <1>0, TodoTyped DEF RestoreType
    <3> QED BY <1>0, <1>5, <3>1 DEF Ask, Jobs, Steps, RestoreType, At
  <2> QED BY <1>0, <1>2, <1>5, <2>1 DEF Ask, RestoreType
<1>6. ASSUME ScanBlock PROVE RestoreType'
  <2> DEFINE h == Min(job.todo)
  <2>1. h \in job.todo
    BY <1>6, SmallestExists DEF ScanBlock, At, RestoreType
  <2>2. h \in 1..MaxHeight /\ Unspent(wallet) \in SUBSET Coins /\ h \in Nat
    BY <2>1, <1>0 DEF RestoreType, Wallets, Unspent, Jobs
  <2>3. wallet' = Scan(wallet, h) /\ wallet' \in Wallets /\ wallet'.next >= wallet.next
    <3>1. coins \in Histories
      BY DEF RestoreType
    <3> QED BY <1>0, <1>6, <2>2, <3>1, ScanAnswers DEF ScanBlock
  <2>4. Noting(job.scanned, h, Unspent(wallet)) \in Notes
    BY <1>0, <2>2, NoteAdds
  <2>5. Min({job.lowest, h}) \in Nat
    BY <1>0, <2>2, SmallestExists
  <2>6. job' \in Jobs /\ job'.tip = job.tip /\ job'.todo = job.todo \ {h} /\ job'.at = "noted"
    <3>1. job' = [job EXCEPT !.at = "noted", !.todo = @ \ {h}, !.lowest = Min({job.lowest, h}),
                             !.scanned = Noting(job.scanned, h, Unspent(wallet)), !.unsaved = @ + 1]
      BY <1>6 DEF ScanBlock
    <3> DEFINE low == Min({job.lowest, h})
               seen == Noting(job.scanned, h, Unspent(wallet))
    <3>2. low \in Nat /\ seen \in Notes
      BY <2>4, <2>5
    <3>3. job' = [job EXCEPT !.at = "noted", !.todo = @ \ {h}, !.lowest = low, !.scanned = seen, !.unsaved = @ + 1]
      BY <3>1
    <3> HIDE DEF h, low, seen
    <3>4. job.unsaved + 1 \in Nat /\ job.todo \ {h} \in SUBSET (1..MaxHeight)
      BY <1>0 DEF Jobs
    <3> QED BY <1>0, <3>2, <3>3, <3>4 DEF Jobs, Steps
  <2>7. wallet'.next >= FreshNext
    BY <1>0, <2>3 DEF RestoreType, Wallets, FreshNext
  <2> QED BY <1>0, <1>2, <1>6, <2>3, <2>6, <2>7 DEF ScanBlock, RestoreType
<1>7. ASSUME Noted PROVE RestoreType'
  <2>1. job' \in Jobs /\ job'.tip = job.tip /\ job'.todo = job.todo /\ job'.at # "idle" /\ (job'.at = "scan" => job'.todo # {})
    <3>1. CASE job.todo = {}
      <4>1. job' = [job EXCEPT !.at = "ask", !.round = @ + 1, !.unsaved = 0]
        BY <1>7, <3>1 DEF Noted
      <4>2. job.round + 1 \in Nat
        BY <1>0
      <4> QED BY <1>0, <4>1, <4>2 DEF Jobs, Steps
    <3>2. CASE job.todo # {}
      <4> DEFINE n == IF job.unsaved >= SaveEvery THEN 0 ELSE job.unsaved
      <4>1. job' = [job EXCEPT !.at = "scan", !.unsaved = n] /\ n \in Nat
        BY <1>0, <1>7, <3>2 DEF Noted
      <4> HIDE DEF n
      <4> QED BY <1>0, <3>2, <4>1 DEF Jobs, Steps
    <3> QED BY <3>1, <3>2
  <2>2. note' \in Notes
    BY <1>0, <1>7 DEF Noted, Keeps
  <2> QED BY <1>0, <1>2, <1>7, <2>1, <2>2 DEF Noted, RestoreType
<1>8. ASSUME Finish PROVE RestoreType'
  <2>1. Below(job.tip) \in Nat
    BY <1>0 DEF Below
  <2>2. Max({1, Min({job.lowest, Below(job.tip) + 1})}) \in Nat
    <3>1. Min({job.lowest, Below(job.tip) + 1}) \in Nat
      <4>1. {job.lowest, Below(job.tip) + 1} \subseteq Nat /\ {job.lowest, Below(job.tip) + 1} # {}
        BY <1>0, <2>1
      <4> QED BY <4>1, SmallestExists
    <3> DEFINE m == Min({job.lowest, Below(job.tip) + 1})
    <3>2. m \in Nat
      BY <3>1
    <3> HIDE DEF m
    <3>3. Max({1, m}) \in Nat
      <4>1. {1, m} \subseteq 0..(m + 1) /\ {1, m} # {} /\ m + 1 \in Nat
        BY <3>2
      <4> QED BY <3>2, <4>1, LargestExists
    <3> QED BY <3>3 DEF m
  <2>3. wallet' \in Wallets /\ wallet'.next = wallet.next
    BY <1>0, <1>8, <2>1, <2>2 DEF Finish, Wallets
  <2>4. job' \in Jobs /\ job'.tip = job.tip /\ job'.todo = job.todo /\ job'.at = "finished"
    BY <1>0, <1>8 DEF Finish, Jobs, Steps
  <2> QED BY <1>0, <1>2, <1>8, <2>3, <2>4 DEF Finish, RestoreType
<1>9. ASSUME Ordinary PROVE RestoreType'
  <2> DEFINE h == IF wallet.begun THEN wallet.synced + 1 ELSE wallet.birthday
  <2>1. h \in Nat
    BY <1>0 DEF Wallets
  <2>2. Scan(wallet, h) \in Wallets /\ Scan(wallet, h).next >= wallet.next
    <3>1. coins \in Histories
      BY DEF RestoreType
    <3> HIDE DEF h
    <3> QED BY <1>0, <2>1, <3>1, ScanAnswers
  <2>3. wallet' = [Scan(wallet, h) EXCEPT !.begun = TRUE, !.synced = h]
    BY <1>9 DEF Ordinary
  <2> HIDE DEF h
  <2>4. wallet' \in Wallets /\ wallet'.next >= FreshNext
    <3>1. wallet' \in Wallets /\ wallet'.next = Scan(wallet, h).next
      BY <2>1, <2>2, <2>3 DEF Wallets
    <3> QED BY <1>0, <2>2, <3>1 DEF RestoreType, Wallets, FreshNext
  <2> QED BY <1>0, <1>2, <1>9, <2>4 DEF Ordinary, RestoreType
<1>10. ASSUME Rescan PROVE RestoreType'
  <2>1. wallet' \in Wallets /\ wallet'.next = FreshNext
    BY <1>10 DEF Rescan, Reset, Wallets, FreshNext
  <2>2. wallet'.next >= FreshNext
    BY <2>1 DEF FreshNext
  <2>3. UNCHANGED <<chain, tip, index, note, job>>
    BY <1>10 DEF Rescan
  <2> QED BY <1>0, <1>2, <2>1, <2>2, <2>3 DEF RestoreType
<1>11. ASSUME Grow PROVE RestoreType'
  BY <1>0, <1>2, <1>11 DEF Grow, RestoreType
<1>12. ASSUME ChooseNode PROVE RestoreType'
  BY <1>0, <1>2, <1>12 DEF ChooseNode, RestoreType
<1> QED BY <1>1, <1>3, <1>4, <1>5, <1>6, <1>7, <1>8, <1>9, <1>10, <1>11, <1>12 DEF RestoreNext, OfPass

NoLeftovers == "rescan over progress" \notin Rare

LEMMA WholeStep == SpendInv /\ [RestoreNext]_restoreVars => Whole'
<1> SUFFICES ASSUME SpendInv, [RestoreNext]_restoreVars PROVE Whole'
  OBVIOUS
<1> USE Numbers
<1>0. /\ RestoreType /\ Whole /\ wallet \in Wallets /\ wallet.synced \in Nat /\ tip \in Nat /\ job \in Jobs
      /\ job.tip \in 0..tip /\ coins \in Histories
  BY DEF SpendInv, RestoreType, Wallets, Jobs
<1>1. CASE UNCHANGED restoreVars
  BY <1>0, <1>1 DEF restoreVars, Whole
<1>3. ASSUME Begin PROVE Whole'
  BY <1>0, <1>3 DEF Begin, Whole, Idle
<1>4. ASSUME NoIndex \/ GiveUp \/ Forget \/ Break PROVE Whole'
  <2>1. job' = Idle /\ tip' = tip /\ said' # "done"
    BY <1>4 DEF NoIndex, GiveUp, Forget, Break, Ends
  <2>2. wallet' = wallet \/ (wallet.restore = "rebuild" /\ wallet' = [wallet EXCEPT !.restore = "none"])
    BY <1>4 DEF NoIndex, GiveUp, Forget, Break
  <2>3. wallet'.begun = wallet.begun /\ wallet'.synced = wallet.synced /\ wallet'.birthday = wallet.birthday
        /\ (wallet'.restore = wallet.restore \/ (wallet.restore = "rebuild" /\ wallet'.restore = "none"))
    BY <1>0, <2>2 DEF Wallets
  <2> QED BY <1>0, <2>1, <2>3, NothingIsNote DEF Whole
<1>5. ASSUME Ask \/ Noted PROVE Whole'
  <2>1. (job.at \in {"ask", "noted"}) /\ job'.at \in {"ask", "scan", "settled"}
    <3>1. CASE Ask
      BY <1>0, <3>1 DEF Ask, At, Jobs
    <3>2. CASE Noted
      BY <1>0, <3>2 DEF Noted, At, Jobs
    <3> QED BY <1>5, <3>1, <3>2
  <2> QED BY <1>0, <1>5, <2>1 DEF Ask, Noted, Whole
<1>6. ASSUME ScanBlock PROVE Whole'
  <2>1. Min(job.todo) \in Nat /\ job.at = "scan" /\ job'.at = "noted"
    <3>1. job.todo \subseteq Nat /\ job.todo # {} /\ job.at = "scan"
      BY <1>0, <1>6 DEF ScanBlock, At, RestoreType
    <3> QED BY <1>0, <1>6, <3>1, SmallestExists DEF ScanBlock, Jobs
  <2>2. wallet' = Scan(wallet, Min(job.todo)) /\ UNCHANGED <<tip, said>>
    BY <1>6 DEF ScanBlock
  <2>3. /\ wallet'.restore = wallet.restore /\ wallet'.begun = wallet.begun /\ wallet'.synced = wallet.synced
        /\ wallet'.birthday = wallet.birthday
    BY <1>0, <2>1, <2>2, ScanAnswers
  <2> QED BY <1>0, <2>1, <2>2, <2>3 DEF Whole
<1>8. ASSUME Finish PROVE Whole'
  <2>1. Below(job.tip) \in Nat /\ Below(job.tip) <= job.tip
    BY <1>0 DEF Below
  <2>2. wallet'.restore = "none" /\ wallet'.begun = TRUE /\ wallet'.synced = Below(job.tip) /\ job'.at = "finished"
        /\ UNCHANGED <<tip, said>> /\ wallet.restore # "none"
    BY <1>0, <1>8 DEF Finish, Wallets, Jobs, At, Whole
  <2> QED BY <1>0, <2>1, <2>2 DEF Whole
<1>9. ASSUME Ordinary PROVE Whole'
  <2> DEFINE h == IF wallet.begun THEN wallet.synced + 1 ELSE wallet.birthday
  <2>1. h \in Nat /\ h <= tip /\ wallet.restore = "none"
    BY <1>0, <1>9 DEF Wallets, Ordinary
  <2>2. wallet' = [Scan(wallet, h) EXCEPT !.begun = TRUE, !.synced = h] /\ said' = (IF h = tip THEN "done" ELSE "none")
        /\ UNCHANGED <<tip, job>> /\ job.at = "idle"
    BY <1>9 DEF Ordinary, At
  <2> HIDE DEF h
  <2>3. Scan(wallet, h) \in Wallets /\ Scan(wallet, h).restore = "none"
    BY <1>0, <2>1, ScanAnswers
  <2>4. wallet'.restore = "none" /\ wallet'.begun = TRUE /\ wallet'.synced = h
    BY <2>2, <2>3 DEF Wallets
  <2> QED BY <1>0, <2>1, <2>2, <2>4 DEF Whole
<1>10. ASSUME Rescan PROVE Whole'
  BY <1>0, <1>10 DEF Rescan, Reset, Whole, At
<1>11. ASSUME Grow PROVE Whole'
  BY <1>0, <1>11 DEF Grow, Whole
<1>12. ASSUME ChooseNode PROVE Whole'
  BY <1>0, <1>12 DEF ChooseNode, Whole, At
<1> QED BY <1>1, <1>3, <1>4, <1>5, <1>6, <1>8, <1>9, <1>10, <1>11, <1>12 DEF RestoreNext, OfPass

LEMMA SpendStep == NoLeftovers /\ SpendInv /\ [RestoreNext]_restoreVars => SpendInv'
<1> SUFFICES ASSUME NoLeftovers, SpendInv, [RestoreNext]_restoreVars PROVE (KeptSpends /\ JobSpends /\ SettledSpends /\ GoneUpTo)'
  BY TypeStep, WholeStep DEF SpendInv
<1> USE Numbers
<1>0. /\ RestoreType /\ Whole /\ wallet \in Wallets /\ wallet.synced \in Nat /\ tip \in Nat /\ job \in Jobs /\ note \in Notes
      /\ job.tip \in 0..tip /\ coins \in Histories /\ KeptSpends /\ JobSpends /\ SettledSpends /\ GoneUpTo
      /\ job.scanned \in Notes
  BY DEF SpendInv, RestoreType, Wallets, Jobs
<1>1. CASE UNCHANGED restoreVars
  BY <1>0, <1>1 DEF restoreVars, SpendsSeen, KeptSpends, JobSpends, SettledSpends, GoneUpTo, Unspent
<1>3. ASSUME Begin PROVE (KeptSpends /\ JobSpends /\ SettledSpends /\ GoneUpTo)'
  <2>1. job'.at = "ask" /\ job'.scanned = note /\ UNCHANGED <<coins, wallet, note>> /\ wallet.restore # "none"
    BY <1>3 DEF Begin, Idle, chain
  <2> QED BY <1>0, <2>1 DEF SpendsSeen, KeptSpends, JobSpends, SettledSpends, GoneUpTo
<1>4. ASSUME NoIndex \/ GiveUp \/ Forget \/ Break PROVE (KeptSpends /\ JobSpends /\ SettledSpends /\ GoneUpTo)'
  <2>1. job' = Idle /\ UNCHANGED coins /\ (note' = note \/ note' = Nothing)
    BY <1>4 DEF NoIndex, GiveUp, Forget, Break, Ends, chain
  <2>2. wallet'.found = wallet.found /\ wallet'.gone = wallet.gone /\ wallet'.begun = wallet.begun
        /\ wallet'.synced = wallet.synced /\ (wallet'.restore # "none" => wallet.restore # "none")
    BY <1>0, <1>4 DEF NoIndex, GiveUp, Forget, Break, Wallets
  <2> QED BY <1>0, <2>1, <2>2, NothingIsNote DEF SpendsSeen, KeptSpends, JobSpends, SettledSpends, GoneUpTo
<1>5. ASSUME Ask PROVE (KeptSpends /\ JobSpends /\ SettledSpends /\ GoneUpTo)'
  <2>1. UNCHANGED <<coins, wallet, note>> /\ job'.scanned = job.scanned /\ job'.tip = job.tip /\ job.at = "ask"
        /\ (job'.at = "settled" => Todo(wallet) = {})
    BY <1>0, <1>5 DEF Ask, Jobs, At, chain
  <2>2. ASSUME Todo(wallet) = {}, NEW c \in Unspent(wallet), coins[c].spent \in 1..job.tip PROVE FALSE
    <3> DEFINE h == coins[c].spent
    <3>1. h \in 1..tip /\ h \in 1..job.tip
      BY <1>0, <2>2
    <3>2. h \in Spends(wallet)
      BY <2>2, <3>1 DEF Spends
    <3>3. h \in DOMAIN job.scanned /\ ~(job.scanned[h] # Unspent(wallet))
      BY <2>2, <3>1, <3>2 DEF Todo
    <3>4. c \in job.scanned[h]
      BY <2>2, <3>3
    <3>5. c \in wallet.gone
      BY <1>0, <2>1, <3>3, <3>4 DEF SpendsSeen, JobSpends
    <3> QED BY <2>2, <3>5 DEF Unspent
  <2> QED BY <1>0, <2>1, <2>2 DEF SpendsSeen, KeptSpends, JobSpends, SettledSpends, GoneUpTo, Unspent
<1>6. ASSUME ScanBlock PROVE (KeptSpends /\ JobSpends /\ SettledSpends /\ GoneUpTo)'
  <2>1. job.todo \subseteq 1..MaxHeight /\ job.todo \subseteq Nat /\ job.todo # {} /\ job.at = "scan"
    BY <1>0, <1>6 DEF ScanBlock, At, RestoreType, Jobs
  <2>2. Min(job.todo) \in job.todo
    BY <2>1, SmallestExists
  <2>3. PICK h \in 1..MaxHeight : h = Min(job.todo)
    BY <2>1, <2>2
  <2>4. wallet' = Scan(wallet, h) /\ UNCHANGED <<coins, note>> /\ job'.at = "noted"
        /\ job'.scanned = Noting(job.scanned, h, Unspent(wallet))
    BY <1>0, <1>6, <2>3 DEF ScanBlock, chain, Jobs
  <2>5. Unspent(wallet) \in SUBSET Coins /\ h \in Nat
    BY <1>0 DEF Unspent, Wallets
  <2> DEFINE seen == Noting(job.scanned, h, Unspent(wallet))
  <2>6. DOMAIN seen = DOMAIN job.scanned \cup {h} /\ seen[h] = Unspent(wallet)
        /\ \A k \in DOMAIN job.scanned : k # h => seen[k] = job.scanned[k]
    <3>1. job.scanned \in Notes /\ h \in 1..MaxHeight /\ Unspent(wallet) \in SUBSET Coins
      BY <1>0, <2>5
    <3>2. Adds(Noting(job.scanned, h, Unspent(wallet)), job.scanned, h, Unspent(wallet))
      BY <3>1, NoteIsAdded
    <3> QED BY <3>2 DEF Adds
  <2> HIDE DEF seen
  <2>7. /\ Scan(wallet, h).gone = wallet.gone \cup {c \in wallet.found \ wallet.gone : coins[c].spent = h}
        /\ Scan(wallet, h).restore = wallet.restore /\ Scan(wallet, h).begun = wallet.begun
    <3>1. coins \in Histories /\ wallet \in Wallets /\ h \in Nat
      BY <1>0, <2>5
    <3>2. Scan(wallet, h).restore = wallet.restore /\ Scan(wallet, h).begun = wallet.begun
      BY <3>1, ScanAnswers
    <3>3. Scan(wallet, h).gone = wallet.gone \cup {c \in wallet.found \ wallet.gone : coins[c].spent = h}
      BY <3>1, ScanAnswers
    <3> QED BY <3>2, <3>3
  <2>8. wallet.restore # "none" /\ ~wallet.begun
    BY <1>0, <2>1 DEF Whole
  <2> QED BY <1>0, <2>1, <2>4, <2>6, <2>7, <2>8 DEF seen, SpendsSeen, KeptSpends, JobSpends, SettledSpends, GoneUpTo, Unspent
<1>7. ASSUME Noted PROVE (KeptSpends /\ JobSpends /\ SettledSpends /\ GoneUpTo)'
  <2>1. UNCHANGED <<coins, wallet>> /\ job.at = "noted" /\ job'.scanned = job.scanned /\ job'.at \in {"ask", "scan"}
        /\ (note' = note \/ note' = job.scanned)
    BY <1>0, <1>7 DEF Noted, Keeps, At, chain, Jobs
  <2> QED BY <1>0, <2>1 DEF SpendsSeen, KeptSpends, JobSpends, SettledSpends, GoneUpTo
<1>8. ASSUME Finish PROVE (KeptSpends /\ JobSpends /\ SettledSpends /\ GoneUpTo)'
  <2>1. /\ wallet'.restore = "none" /\ wallet'.begun = TRUE /\ wallet'.synced = Below(job.tip) /\ job'.at = "finished"
        /\ wallet'.found = wallet.found /\ wallet'.gone = wallet.gone /\ UNCHANGED coins /\ job.at = "settled"
    BY <1>0, <1>8 DEF Finish, Wallets, Jobs, At, chain
  <2>2. Below(job.tip) \in Nat /\ Below(job.tip) <= job.tip /\ job.tip \in Nat
    BY <1>0 DEF Below
  <2>3. \A c \in wallet.found : coins[c].spent \in 1..Below(job.tip) => c \in wallet.gone
    <3>1. \A x \in 1..Below(job.tip) : x \in 1..job.tip
      BY <2>2
    <3> QED BY <1>0, <2>1, <3>1 DEF SettledSpends, Unspent
  <2> QED BY <2>1, <2>3 DEF SpendsSeen, KeptSpends, JobSpends, SettledSpends, GoneUpTo
<1>9. ASSUME Ordinary PROVE (KeptSpends /\ JobSpends /\ SettledSpends /\ GoneUpTo)'
  <2> DEFINE h == IF wallet.begun THEN wallet.synced + 1 ELSE wallet.birthday
  <2>1. h \in Nat /\ h <= tip /\ wallet.restore = "none"
    BY <1>0, <1>9 DEF Wallets, Ordinary
  <2>2. wallet' = [Scan(wallet, h) EXCEPT !.begun = TRUE, !.synced = h] /\ UNCHANGED <<coins, job, note>> /\ job.at = "idle"
    BY <1>9 DEF Ordinary, At, chain
  <2>3. h = IF wallet.begun THEN wallet.synced + 1 ELSE 1
    BY <1>0, <2>1 DEF Whole
  <2> HIDE DEF h
  <2>4. /\ Scan(wallet, h) \in Wallets /\ Scan(wallet, h).restore = "none"
        /\ Scan(wallet, h).found = wallet.found \cup {c \in Coins : coins[c].paid = h /\ coins[c].key \in Watched(wallet)}
        /\ Scan(wallet, h).gone = wallet.gone \cup {c \in wallet.found \ wallet.gone : coins[c].spent = h}
    <3>1. wallet \in Wallets /\ coins \in Histories
      BY <1>0
    <3>2. Scan(wallet, h) \in Wallets /\ Scan(wallet, h).restore = wallet.restore
      BY <2>1, <3>1, ScanAnswers
    <3>3. Scan(wallet, h).found = wallet.found \cup {c \in Coins : coins[c].paid = h /\ coins[c].key \in Watched(wallet)}
      BY <2>1, <3>1, ScanAnswers
    <3>4. Scan(wallet, h).gone = wallet.gone \cup {c \in wallet.found \ wallet.gone : coins[c].spent = h}
      BY <2>1, <3>1, ScanAnswers
    <3> QED BY <2>1, <3>2, <3>3, <3>4
  <2>5. /\ wallet'.restore = "none" /\ wallet'.synced = h
        /\ wallet'.found = Scan(wallet, h).found /\ wallet'.gone = Scan(wallet, h).gone
    BY <2>2, <2>4 DEF Wallets
  <2>6. ASSUME NEW c \in wallet'.found, coins[c].spent \in 1..h PROVE c \in wallet'.gone
    <3>1. c \in Coins
      BY <1>0, <2>4, <2>5 DEF Wallets
    <3>2. coins[c].spent = 0 \/ coins[c].spent > coins[c].paid
      BY <1>0, <3>1 DEF Histories
    <3>3. coins[c].spent \in Nat /\ coins[c].paid \in Nat
      <4>1. coins[c] \in [key : Indices, paid : 1..MaxHeight, spent : 0..MaxHeight]
        BY <1>0, <3>1 DEF Histories
      <4> QED BY <4>1
    <3>4. c \in wallet.found
      BY <2>4, <2>5, <2>6, <3>2, <3>3
    <3>5. coins[c].spent = h \/ (wallet.begun /\ coins[c].spent \in 1..wallet.synced)
      BY <1>0, <2>3, <2>6, <3>3
    <3> QED BY <1>0, <2>4, <2>5, <3>4, <3>5 DEF GoneUpTo
  <2> QED BY <2>2, <2>5, <2>6 DEF SpendsSeen, KeptSpends, JobSpends, SettledSpends, GoneUpTo
<1>10. ASSUME Rescan PROVE (KeptSpends /\ JobSpends /\ SettledSpends /\ GoneUpTo)'
  <2>1. note' = Nothing /\ job'.at = "idle" /\ wallet'.begun = FALSE
    BY <1>10 DEF Rescan, Reset, At, NoLeftovers
  <2> QED BY <2>1, NothingIsNote DEF SpendsSeen, KeptSpends, JobSpends, SettledSpends, GoneUpTo
<1>11. ASSUME Grow \/ ChooseNode PROVE (KeptSpends /\ JobSpends /\ SettledSpends /\ GoneUpTo)'
  <2>1. UNCHANGED <<coins, wallet, note, job>>
    BY <1>11 DEF Grow, ChooseNode, chain
  <2> QED BY <1>0, <2>1 DEF SpendsSeen, KeptSpends, JobSpends, SettledSpends, GoneUpTo, Unspent
<1> QED BY <1>1, <1>3, <1>4, <1>5, <1>6, <1>7, <1>8, <1>9, <1>10, <1>11 DEF RestoreNext, OfPass

\* A coin the chain has spent up to the wallet's position is never shown as
\* unspent, wherever a fast restore was cut short and taken up again: a block
\* looked at before the coin was known gets a second look (sync.ts,
\* restoreFast; ledger.rs, finish_fast_restore).
THEOREM SpendsAreSeen == NoLeftovers /\ RestoreSpec => []NoSpendMissed
<1>1. SpendInv => NoSpendMissed
  BY DEF SpendInv, Whole, GoneUpTo, NoSpendMissed
<1> SUFFICES ASSUME NoLeftovers PROVE RestoreSpec => []NoSpendMissed
  OBVIOUS
<1>2. SpendInv /\ [RestoreNext]_restoreVars => SpendInv'
  BY SpendStep
<1> QED BY <1>1, <1>2, SpendInit, PTL DEF RestoreSpec

(* What a scan of every block finds *)

\* Written out up to a height, and 0 above it
Upto(f, n) == f = [h \in 0..MaxHeight |-> IF h > n THEN 0 ELSE IF h = 0 THEN Reset(0, "none") ELSE Scan(f[h - 1], h)]

LEMMA UptoExists == \A n \in 0..MaxHeight : \E f : Upto(f, n)
<1> USE Numbers
<1> DEFINE S == {n \in 0..MaxHeight : \E f : Upto(f, n)}
<1>1. 0 \in S
  <2> DEFINE f == [h \in 0..MaxHeight |-> IF h > 0 THEN 0 ELSE Reset(0, "none")]
  <2>1. f = [h \in 0..MaxHeight |-> IF h > 0 THEN 0 ELSE IF h = 0 THEN Reset(0, "none") ELSE Scan(f[h - 1], h)]
    OBVIOUS
  <2> HIDE DEF f
  <2> QED BY <2>1 DEF Upto
<1>2. ASSUME NEW n \in 0..MaxHeight, n < MaxHeight, n \in S PROVE n + 1 \in S
  <2>1. PICK f : Upto(f, n)
    BY <1>2
  <2> DEFINE g == [h \in 0..MaxHeight |-> IF h = n + 1 THEN Scan(f[n], n + 1) ELSE f[h]]
             top == [h \in 0..MaxHeight |-> IF h > n + 1 THEN 0 ELSE IF h = 0 THEN Reset(0, "none") ELSE Scan(g[h - 1], h)]
  <2>2. \A h \in 0..MaxHeight : f[h] = IF h > n THEN 0 ELSE IF h = 0 THEN Reset(0, "none") ELSE Scan(f[h - 1], h)
    BY <2>1 DEF Upto
  <2>3. ASSUME NEW h \in 0..MaxHeight PROVE g[h] = top[h]
    <3>1. CASE h > n + 1
      BY <1>2, <2>2, <3>1
    <3>2. CASE h = n + 1
      <4>1. g[n] = f[n]
        BY <1>2
      <4> QED BY <1>2, <3>2, <4>1
    <3>3. CASE h = 0
      BY <1>2, <2>2, <3>3
    <3>4. CASE h \in 1..n
      <4>1. h - 1 \in 0..MaxHeight /\ h - 1 # n + 1 /\ h # n + 1 /\ ~(h > n) /\ ~(h > n + 1) /\ h # 0
        BY <1>2, <3>4
      <4>2. g[h - 1] = f[h - 1] /\ g[h] = f[h]
        BY <4>1
      <4>3. f[h] = Scan(f[h - 1], h)
        BY <2>2, <4>1
      <4>4. top[h] = Scan(g[h - 1], h)
        BY <4>1
      <4> HIDE DEF g, top
      <4> QED BY <4>2, <4>3, <4>4
    <3> QED BY <1>2, <3>1, <3>2, <3>3, <3>4
  <2>4. g = top
    <3>1. DOMAIN g = 0..MaxHeight /\ DOMAIN top = 0..MaxHeight
      OBVIOUS
    <3>2. g = [h \in 0..MaxHeight |-> g[h]] /\ top = [h \in 0..MaxHeight |-> top[h]]
      OBVIOUS
    <3> HIDE DEF g, top
    <3> QED BY <2>3, <3>2
  <2>5. Upto(g, n + 1)
    <3>1. g = [h \in 0..MaxHeight |-> IF h > n + 1 THEN 0 ELSE IF h = 0 THEN Reset(0, "none") ELSE Scan(g[h - 1], h)]
      BY <2>4
    <3> HIDE DEF g
    <3> QED BY <3>1 DEF Upto
  <2> QED BY <1>2, <2>5
<1>3. 0..MaxHeight \subseteq S
  <2> HIDE DEF S
  <2> QED BY <1>1, <1>2, UpFromZero
<1> QED BY <1>3

LEMMA FullScanIs ==
    /\ FullScan[0] = Reset(0, "none")
    /\ \A h \in 1..MaxHeight : FullScan[h] = Scan(FullScan[h - 1], h)
<1> USE Numbers
<1> DEFINE Body(f) == [h \in 0..MaxHeight |-> IF h = 0 THEN Reset(0, "none") ELSE Scan(f[h - 1], h)]
<1>1. PICK f : Upto(f, MaxHeight)
  BY UptoExists
<1>2. f = Body(f)
  <2>1. \A h \in 0..MaxHeight : ~(h > MaxHeight)
    OBVIOUS
  <2> QED BY <1>1, <2>1 DEF Upto
<1>3. FullScan = CHOOSE g : g = Body(g)
  BY DEF FullScan
<1>4. FullScan = Body(FullScan)
  <2> HIDE DEF Body
  <2> QED BY <1>2, <1>3
<1>5. \A h \in 0..MaxHeight : FullScan[h] = IF h = 0 THEN Reset(0, "none") ELSE Scan(FullScan[h - 1], h)
  <2> HIDE DEF FullScan
  <2> QED BY <1>4
<1> QED BY <1>5

LEMMA FullScanTyped ==
    ASSUME coins \in Histories
    PROVE  \A h \in 0..MaxHeight : FullScan[h] \in Wallets /\ FullScan[h].next >= FreshNext
<1> USE Numbers
<1> DEFINE S == {h \in 0..MaxHeight : FullScan[h] \in Wallets /\ FullScan[h].next >= FreshNext}
<1>1. 0 \in S
  <2>1. Reset(0, "none") \in Wallets /\ Reset(0, "none").next >= FreshNext
    BY DEF Reset, Wallets, FreshNext
  <2> QED BY <2>1, FullScanIs
<1>2. ASSUME NEW h \in 0..MaxHeight, h < MaxHeight, h \in S PROVE h + 1 \in S
  <2>1. FullScan[h + 1] = Scan(FullScan[h], h + 1)
    BY <1>2, FullScanIs
  <2>2. FullScan[h] \in Wallets /\ FullScan[h].next >= FreshNext /\ h + 1 \in Nat /\ h + 1 \in 0..MaxHeight
    BY <1>2
  <2>3. Scan(FullScan[h], h + 1) \in Wallets /\ Scan(FullScan[h], h + 1).next >= FullScan[h].next
    BY <2>2, ScanAnswers
  <2>4. Scan(FullScan[h], h + 1).next >= FreshNext
    BY <2>2, <2>3 DEF Wallets, FreshNext
  <2> QED BY <2>1, <2>2, <2>3, <2>4
<1>3. 0..MaxHeight \subseteq S
  <2> HIDE DEF S
  <2> QED BY <1>1, <1>2, UpFromZero
<1> QED BY <1>3

\* A wallet that has what the blocks below pay the keys it watches has what scanning them finds.
HasAll(w, h) ==
    \A c \in Coins : coins[c].paid <= h /\ coins[c].key \in Watched(w) => c \in w.found
PastFound(w) == \A c \in w.found : w.next >= coins[c].key + 1

LEMMA WatchMore ==
    ASSUME NEW v \in Wallets, NEW w \in Wallets, v.next <= w.next
    PROVE  Watched(v) \subseteq Watched(w)
  BY Numbers DEF Wallets, Watched

\* A block scanned from a wallet that has more finds more.
LEMMA ScanMonotone ==
    ASSUME coins \in Histories, NEW v \in Wallets, NEW w \in Wallets, NEW h \in Nat,
           v.found \subseteq w.found, v.next <= w.next,
           \A c \in Coins : coins[c].paid = h /\ coins[c].key \in Watched(v) =>
               c \in w.found /\ w.next >= coins[c].key + 1
    PROVE  Scan(v, h).found \subseteq w.found /\ Scan(v, h).next <= w.next
<1>1. Scan(v, h).found = v.found \cup {c \in Coins : coins[c].paid = h /\ coins[c].key \in Watched(v)}
  BY ScanAnswers
<1>2. w.next \in Nat /\ v.next \in Nat
  BY DEF Wallets
<1>3. w.next >= Scan(v, h).next
  BY <1>2, ScanAnswers
<1>4. Scan(v, h).next \in Nat
  BY ScanAnswers DEF Wallets
<1> QED BY <1>1, <1>2, <1>3, <1>4

LEMMA RestoredCovers ==
    ASSUME coins \in Histories, NEW w \in Wallets, w.next >= FreshNext, PastFound(w),
           NEW to \in 0..MaxHeight, HasAll(w, to)
    PROVE  FullScan[to].found \subseteq w.found /\ FullScan[to].next <= w.next
<1> USE Numbers
<1> DEFINE S == {h \in 0..to : FullScan[h].found \subseteq w.found /\ FullScan[h].next <= w.next}
<1>1. 0 \in S
  BY FullScanIs DEF Reset, FreshNext, Wallets
<1>2. ASSUME NEW h \in 0..to, h < to, h \in S PROVE h + 1 \in S
  <2>1. FullScan[h + 1] = Scan(FullScan[h], h + 1) /\ FullScan[h] \in Wallets
    BY <1>2, FullScanIs, FullScanTyped
  <2>2. FullScan[h].found \subseteq w.found /\ FullScan[h].next <= w.next /\ h + 1 \in Nat /\ h + 1 \in 0..to /\ h + 1 <= to
    BY <1>2
  <2>3. ASSUME NEW c \in Coins, coins[c].paid = h + 1, coins[c].key \in Watched(FullScan[h])
        PROVE  c \in w.found /\ w.next >= coins[c].key + 1
    <3>1. coins[c].key \in Watched(w)
      BY <2>1, <2>2, <2>3, WatchMore
    <3> QED BY <2>2, <2>3, <3>1 DEF HasAll, PastFound
  <2>4. Scan(FullScan[h], h + 1).found \subseteq w.found /\ Scan(FullScan[h], h + 1).next <= w.next
    BY <2>1, <2>2, <2>3, ScanMonotone
  <2> QED BY <2>1, <2>2, <2>4
<1>3. 0..to \subseteq S
  <2> HIDE DEF S
  <2> QED BY <1>1, <1>2, UpFromZero
<1> QED BY <1>3

LEMMA PaymentInit == RestoreInit => PaymentInv
<1> SUFFICES ASSUME RestoreInit PROVE PaymentInv
  OBVIOUS
<1>1. wallet.found = {} /\ wallet.begun = FALSE
  BY DEF RestoreInit, Reset
<1>2. job.at = "idle" /\ note = Nothing
  BY NothingIsNote DEF RestoreInit
<1> QED BY <1>1, <1>2, SpendInit, NothingIsNote DEF PaymentInv, KeptPayments, PaymentsSeen, JobPayments, TodoWatched,
          SettledPayments, NextPast, CoversFull, Covers

LEMMA WiderRange == \A l, n \in Nat : \A k \in 0..(1 + l) : n >= 1 => k \in 0..(n + l)
  OBVIOUS

LEMMA CoinTyped ==
    ASSUME coins \in Histories, NEW c \in Coins
    PROVE  /\ coins[c].key \in Nat /\ coins[c].paid \in Nat \ {0} /\ coins[c].paid <= MaxHeight /\ coins[c].spent \in Nat
           /\ coins[c].spent = 0 \/ coins[c].spent > coins[c].paid
           /\ coins[c].spent # coins[c].paid
<1>1. coins[c] \in [key : Indices, paid : 1..MaxHeight, spent : 0..MaxHeight]
  BY DEF Histories
<1>2. coins[c].spent = 0 \/ coins[c].spent > coins[c].paid
  BY DEF Histories
<1>3. coins[c].key \in Indices /\ coins[c].paid \in 1..MaxHeight /\ coins[c].spent \in 0..MaxHeight
  BY <1>1
<1>4. coins[c].key \in Nat
  BY <1>3, Numbers
<1>5. coins[c].paid \in Nat \ {0} /\ coins[c].paid <= MaxHeight /\ coins[c].spent \in Nat
  BY <1>3, Numbers
<1> QED BY <1>2, <1>4, <1>5

\* A block a restore asks for pays no key that is not watched yet.
LEMMA TodoPaysWatched ==
    ASSUME RestoreType, "busy block" \notin Rare, NEW c \in Coins, coins[c].paid \in Todo(wallet)
    PROVE  coins[c].key \in Watched(wallet)
<1>1. coins \in Histories /\ wallet \in Wallets /\ wallet.next >= FreshNext
  BY DEF RestoreType
<1>3. \A d \in Coins : coins[d].key \in Nat /\ coins[d].spent \in Nat /\ coins[d].paid \in Nat \ {0}
      /\ (coins[d].spent = 0 \/ coins[d].spent > coins[d].paid)
  BY <1>1, CoinTyped
<1>5. CASE coins[c].key \in 0..(FreshNext + Lookahead)
  <2>1. wallet.next \in Nat
    BY <1>1 DEF Wallets
  <2>2. Lookahead \in Nat /\ wallet.next >= 1 /\ coins[c].key \in 0..(1 + Lookahead)
    BY <1>1, <1>5, Numbers DEF FreshNext
  <2>3. coins[c].key \in 0..(wallet.next + Lookahead)
    BY <2>1, <2>2, WiderRange
  <2> QED BY <2>3 DEF Watched
<1>6. CASE coins[c].key \notin 0..(FreshNext + Lookahead)
  <2>1. Alone(coins, c)
    BY <1>1, <1>6 DEF Histories
  <2>2. coins[c].paid \in Pays(wallet) \cup Spends(wallet)
    BY DEF Todo
  <2>3. coins[c].paid \notin stray /\ \A d \in Coins \ {c} : coins[d].paid # coins[c].paid /\ coins[d].spent # coins[c].paid
    BY <2>1 DEF Alone
  <2>4. CASE coins[c].paid \in Pays(wallet)
    BY <2>3, <2>4 DEF Pays
  <2>5. CASE coins[c].paid \in Spends(wallet)
    <3>1. PICK d \in Unspent(wallet) : coins[d].spent = coins[c].paid
      BY <2>3, <2>5 DEF Spends
    <3>2. d \in Coins
      BY <1>1 DEF Unspent, Wallets
    <3>3. d = c
      BY <2>3, <3>1, <3>2
    <3>4. coins[c].spent = coins[c].paid
      BY <3>1, <3>3
    <3> QED BY <1>1, <3>4, CoinTyped
  <2> QED BY <2>2, <2>4, <2>5
<1> QED BY <1>5, <1>6

LEMMA PaymentStep == Rare = {} /\ PaymentInv /\ [RestoreNext]_restoreVars => PaymentInv'
<1> DEFINE Goal == KeptPayments /\ JobPayments /\ TodoWatched /\ SettledPayments /\ NextPast /\ CoversFull
<1> SUFFICES ASSUME Rare = {}, PaymentInv, [RestoreNext]_restoreVars PROVE Goal'
  BY SpendStep DEF PaymentInv, NoLeftovers
<1> USE Numbers
<1>0. /\ RestoreType /\ Whole /\ wallet \in Wallets /\ wallet.synced \in Nat /\ tip \in 0..MaxHeight /\ job \in Jobs /\ note \in Notes
      /\ job.tip \in 0..tip /\ coins \in Histories /\ job.scanned \in Notes
  BY DEF PaymentInv, SpendInv, RestoreType, Wallets, Jobs
<1>a. KeptPayments /\ JobPayments /\ TodoWatched /\ SettledPayments /\ NextPast /\ CoversFull
  BY DEF PaymentInv
<1>d. UNCHANGED chain
  BY DEF RestoreNext, OfPass, Begin, NoIndex, Ask, GiveUp, ScanBlock, Noted, Finish, Forget, Ordinary, Break, Rescan, Grow,
         ChooseNode, restoreVars, chain
<1>e. FullScan' = FullScan
  BY <1>d DEF chain, FullScan, Scan, Watched, Unspent, Reset, Coins
<1> USE DEF PaymentsSeen
<1>1. CASE UNCHANGED restoreVars
  <2>1. UNCHANGED <<coins, wallet, note, job>>
    BY <1>1 DEF restoreVars, chain
  <2> QED BY <1>a, <1>e, <2>1 DEF KeptPayments, JobPayments, TodoWatched, SettledPayments, NextPast, CoversFull, Covers, Watched
<1>3. ASSUME Begin PROVE Goal'
  <2>1. job'.at = "ask" /\ job'.scanned = note /\ UNCHANGED <<coins, wallet, note>> /\ wallet.restore # "none"
    BY <1>3 DEF Begin, Idle, chain
  <2> QED BY <1>a, <1>e, <2>1 DEF KeptPayments, JobPayments, TodoWatched, SettledPayments, NextPast, CoversFull, Covers
<1>4. ASSUME NoIndex \/ GiveUp \/ Forget \/ Break PROVE Goal'
  <2>1. job' = Idle /\ UNCHANGED coins /\ (note' = note \/ note' = Nothing)
    BY <1>4 DEF NoIndex, GiveUp, Forget, Break, Ends, chain
  <2>2. wallet'.found = wallet.found /\ wallet'.next = wallet.next /\ wallet'.begun = wallet.begun
        /\ wallet'.synced = wallet.synced /\ (wallet'.restore # "none" => wallet.restore # "none")
    BY <1>0, <1>4 DEF NoIndex, GiveUp, Forget, Break, Wallets
  <2> QED BY <1>a, <1>e, <2>1, <2>2, NothingIsNote
        DEF KeptPayments, JobPayments, TodoWatched, SettledPayments, NextPast, CoversFull, Covers
<1>5. ASSUME Ask PROVE Goal'
  <2>1. UNCHANGED <<coins, wallet, note>> /\ job'.scanned = job.scanned /\ job'.tip = job.tip /\ job.at = "ask"
        /\ (job'.at = "settled" => Todo(wallet) = {}) /\ (job'.at = "scan" => job'.todo = Todo(wallet))
        /\ job'.at \in {"settled", "scan"}
    BY <1>0, <1>5 DEF Ask, Jobs, At, chain
  <2>2. ASSUME Todo(wallet) = {}, NEW c \in Coins, coins[c].key \in Watched(wallet), coins[c].paid <= job.tip
        PROVE  c \in wallet.found
    <3>1. coins[c].paid \in 1..job.tip /\ coins[c].paid <= tip
      BY <1>0, <2>2, CoinTyped
    <3>2. coins[c].paid \in Pays(wallet)
      BY <2>2, <3>1 DEF Pays
    <3>3. coins[c].paid \in DOMAIN job.scanned
      BY <2>2, <3>1, <3>2 DEF Todo
    <3> QED BY <1>a, <2>1, <3>3 DEF JobPayments
  <2>3. \A c \in Coins : coins[c].paid \in Todo(wallet) => coins[c].key \in Watched(wallet)
    BY <1>0, TodoPaysWatched
  <2>4. TodoWatched'
    BY <2>1, <2>3 DEF TodoWatched, Coins, Watched
  <2>5. SettledPayments'
    BY <2>1, <2>2 DEF SettledPayments, Coins, Watched
  <2> QED BY <1>a, <1>e, <2>1, <2>4, <2>5 DEF KeptPayments, JobPayments, NextPast, CoversFull, Covers
<1>6. ASSUME ScanBlock PROVE Goal'
  <2>1. job.todo \subseteq 1..MaxHeight /\ job.todo \subseteq Nat /\ job.todo # {} /\ job.at = "scan"
    BY <1>0, <1>6 DEF ScanBlock, At, RestoreType, Jobs
  <2>2. Min(job.todo) \in job.todo
    BY <2>1, SmallestExists
  <2>3. PICK h \in 1..MaxHeight : h = Min(job.todo) /\ h \in job.todo
    BY <2>1, <2>2
  <2>4. wallet' = Scan(wallet, h) /\ UNCHANGED <<coins, note>> /\ job'.at = "noted"
        /\ job'.scanned = Noting(job.scanned, h, Unspent(wallet)) /\ job'.todo = job.todo \ {h}
    BY <1>0, <1>6, <2>3 DEF ScanBlock, chain, Jobs
  <2>5. wallet \in Wallets /\ h \in Nat /\ coins \in Histories
    BY <1>0
  <2>6. DOMAIN job'.scanned = DOMAIN job.scanned \cup {h}
    BY <2>4 DEF Noting
  <2>7. /\ wallet'.found = wallet.found \cup {c \in Coins : coins[c].paid = h /\ coins[c].key \in Watched(wallet)}
        /\ wallet' \in Wallets
    BY <2>4, <2>5, ScanAnswers
  <2>8. wallet'.restore = wallet.restore /\ wallet'.begun = wallet.begun /\ wallet'.next >= wallet.next
    BY <2>4, <2>5, ScanAnswers
  <2>9. \A c \in Coins : coins[c].paid = h /\ coins[c].key \in Watched(wallet) => wallet'.next >= coins[c].key + 1
    BY <2>4, <2>5, ScanAnswers
  <2>10. wallet.restore # "none" /\ ~wallet.begun
    BY <1>0, <2>1 DEF Whole
  <2>11. \A c \in Coins : coins[c].paid = h => c \in wallet'.found
    BY <1>a, <2>1, <2>3, <2>7 DEF TodoWatched
  <2>12. Watched(wallet) \subseteq Watched(wallet')
    BY <2>5, <2>7, <2>8, WatchMore DEF Wallets
  <2>13. NextPast'
    <3>1. wallet.next \in Nat /\ wallet'.next \in Nat
      BY <2>5, <2>7 DEF Wallets
    <3>2. \A c \in wallet'.found : c \in Coins /\ coins[c].key \in Nat
      BY <2>5, <2>7, CoinTyped DEF Wallets
    <3> QED BY <1>a, <2>4, <2>7, <2>8, <2>9, <3>1, <3>2 DEF NextPast
  <2>14. KeptPayments' /\ JobPayments'
    BY <1>a, <2>1, <2>4, <2>6, <2>7, <2>10, <2>11 DEF KeptPayments, JobPayments, Coins
  <2>15. TodoWatched'
    BY <1>a, <2>1, <2>4, <2>12 DEF TodoWatched, Coins, Watched
  <2> QED BY <2>4, <2>8, <2>10, <2>13, <2>14, <2>15 DEF SettledPayments, CoversFull, Covers
<1>7. ASSUME Noted PROVE Goal'
  <2>1. UNCHANGED <<coins, wallet>> /\ job.at = "noted" /\ job'.scanned = job.scanned /\ job'.at \in {"ask", "scan"}
        /\ (note' = note \/ note' = job.scanned) /\ job'.todo = job.todo
    BY <1>0, <1>7 DEF Noted, Keeps, At, chain, Jobs
  <2> QED BY <1>a, <1>e, <2>1 DEF KeptPayments, JobPayments, TodoWatched, SettledPayments, NextPast, CoversFull, Covers, Coins, Watched
<1>8. ASSUME Finish PROVE Goal'
  <2>1. /\ wallet'.restore = "none" /\ wallet'.begun = TRUE /\ wallet'.synced = Below(job.tip) /\ job'.at = "finished"
        /\ wallet'.found = wallet.found /\ wallet'.next = wallet.next /\ UNCHANGED coins /\ job.at = "settled"
    BY <1>0, <1>8 DEF Finish, Wallets, Jobs, At, chain
  <2>2. Below(job.tip) \in Nat /\ Below(job.tip) <= job.tip /\ job.tip \in Nat /\ Below(job.tip) \in 0..MaxHeight
    BY <1>0 DEF Below
  <2>3. HasAll(wallet, Below(job.tip))
    <3>1. \A c \in Coins : coins[c].paid \in Nat
      BY <1>0, CoinTyped
    <3> QED BY <1>a, <2>1, <2>2, <3>1 DEF SettledPayments, HasAll
  <2>4. PastFound(wallet) /\ wallet.next >= FreshNext
    BY <1>0, <1>a DEF NextPast, PastFound, RestoreType
  <2>5. FullScan[Below(job.tip)].found \subseteq wallet.found /\ FullScan[Below(job.tip)].next <= wallet.next
    BY <1>0, <2>2, <2>3, <2>4, RestoredCovers
  <2>6. CoversFull'
    BY <1>e, <2>1, <2>5 DEF CoversFull, Covers
  <2> QED BY <1>a, <2>1, <2>6 DEF KeptPayments, JobPayments, TodoWatched, SettledPayments, NextPast
<1>9. ASSUME Ordinary PROVE Goal'
  <2> DEFINE h == IF wallet.begun THEN wallet.synced + 1 ELSE wallet.birthday
  <2>1. h \in Nat /\ h <= tip /\ wallet.restore = "none"
    BY <1>0, <1>9 DEF Wallets, Ordinary
  <2>2. wallet' = [Scan(wallet, h) EXCEPT !.begun = TRUE, !.synced = h] /\ UNCHANGED <<coins, job, note>> /\ job.at = "idle"
    BY <1>9 DEF Ordinary, At, chain
  <2>3. h = IF wallet.begun THEN wallet.synced + 1 ELSE 1
    BY <1>0, <2>1 DEF Whole
  <2> HIDE DEF h
  <2>4. wallet \in Wallets /\ coins \in Histories /\ h \in Nat
    BY <1>0, <2>1
  <2>5. Scan(wallet, h) \in Wallets /\ Scan(wallet, h).next >= wallet.next
    BY <2>4, ScanAnswers
  <2>6. Scan(wallet, h).found = wallet.found \cup {c \in Coins : coins[c].paid = h /\ coins[c].key \in Watched(wallet)}
    BY <2>4, ScanAnswers
  <2>7. \A c \in Coins : coins[c].paid = h /\ coins[c].key \in Watched(wallet) => Scan(wallet, h).next >= coins[c].key + 1
    BY <2>4, ScanAnswers
  <2>8. /\ wallet'.restore = Scan(wallet, h).restore /\ wallet'.synced = h /\ wallet'.begun = TRUE
        /\ wallet'.found = Scan(wallet, h).found /\ wallet'.next = Scan(wallet, h).next
    BY <2>2, <2>5 DEF Wallets
  <2>9. wallet'.restore = "none"
    BY <2>1, <2>4, <2>8, ScanAnswers
  <2>10. NextPast'
    <3>1. wallet.next \in Nat /\ wallet'.next \in Nat
      BY <2>4, <2>5, <2>8 DEF Wallets
    <3>2. \A c \in wallet'.found : c \in Coins /\ coins[c].key \in Nat
      BY <2>4, <2>5, <2>8, CoinTyped DEF Wallets
    <3> QED BY <1>a, <2>2, <2>5, <2>6, <2>7, <2>8, <3>1, <3>2 DEF NextPast
  <2>11. FullScan[h].found \subseteq wallet'.found /\ FullScan[h].next <= wallet'.next
    <3> DEFINE v == FullScan[h - 1]
    <3>1. h \in 1..MaxHeight /\ h - 1 \in 0..MaxHeight
      BY <1>0, <2>1, <2>3 DEF Wallets
    <3>2. FullScan[h] = Scan(v, h) /\ v \in Wallets
      BY <2>4, <3>1, FullScanIs, FullScanTyped
    <3>3. v.found \subseteq wallet.found /\ v.next <= wallet.next
      <4>1. CASE wallet.begun
        <5>1. h - 1 = wallet.synced
          BY <1>0, <2>3, <4>1
        <5> QED BY <1>a, <4>1, <5>1 DEF CoversFull, Covers
      <4>2. CASE ~wallet.begun
        <5>1. h - 1 = 0
          BY <2>3, <4>2
        <5>2. v = Reset(0, "none")
          BY <5>1, FullScanIs
        <5> HIDE DEF v
        <5> QED BY <1>0, <5>2 DEF Reset, RestoreType, FreshNext, Wallets
      <4> QED BY <4>1, <4>2
    <3> DEFINE w == Scan(wallet, h)
    <3> HIDE DEF v
    <3>4. Watched(v) \subseteq Watched(wallet)
      BY <2>4, <3>2, <3>3, WatchMore
    <3>5. v.found \subseteq w.found /\ v.next <= w.next
      BY <2>4, <2>5, <2>6, <3>2, <3>3 DEF Wallets
    <3>6. \A c \in Coins : coins[c].paid = h /\ coins[c].key \in Watched(v) => c \in w.found /\ w.next >= coins[c].key + 1
      BY <2>6, <2>7, <3>4
    <3>7. w \in Wallets
      BY <2>5
    <3> HIDE DEF w
    <3>8. Scan(v, h).found \subseteq w.found /\ Scan(v, h).next <= w.next
      BY <2>4, <3>2, <3>5, <3>6, <3>7, ScanMonotone
    <3> QED BY <2>8, <3>2, <3>8 DEF w
  <2>12. CoversFull'
    BY <1>e, <2>8, <2>11 DEF CoversFull, Covers
  <2> QED BY <2>2, <2>9, <2>10, <2>12 DEF KeptPayments, JobPayments, TodoWatched, SettledPayments
<1>10. ASSUME Rescan PROVE Goal'
  <2>1. note' = Nothing /\ job'.at = "idle" /\ wallet'.begun = FALSE /\ wallet'.found = {}
    BY <1>10 DEF Rescan, Reset, At
  <2> QED BY <2>1, NothingIsNote DEF KeptPayments, JobPayments, TodoWatched, SettledPayments, NextPast, CoversFull, Covers
<1>11. ASSUME Grow \/ ChooseNode PROVE Goal'
  <2>1. UNCHANGED <<coins, wallet, note, job>>
    BY <1>11 DEF Grow, ChooseNode, chain
  <2> QED BY <1>a, <1>e, <2>1 DEF KeptPayments, JobPayments, TodoWatched, SettledPayments, NextPast, CoversFull, Covers, Coins, Watched
<1> QED BY <1>1, <1>3, <1>4, <1>5, <1>6, <1>7, <1>8, <1>9, <1>10, <1>11 DEF RestoreNext, OfPass

\* A wallet that says it is up to date has every payment a scan of the whole
\* chain finds, wherever a fast restore was cut short, however many of its
\* rounds it took, and whatever the index names besides (sync.ts, restoreFast;
\* rpc.ts, blockHeightsByFlags).
THEOREM PaymentsAreFound == Rare = {} /\ RestoreSpec => []NoPaymentMissed
<1>1. PaymentInv => NoPaymentMissed
  BY CoinTyped DEF PaymentInv, SpendInv, Whole, KeptPayments, PaymentsSeen, CoversFull, Covers, NoPaymentMissed
<1> SUFFICES ASSUME Rare = {} PROVE RestoreSpec => []NoPaymentMissed
  OBVIOUS
<1>2. PaymentInv /\ [RestoreNext]_restoreVars => PaymentInv'
  BY PaymentStep
<1> QED BY <1>1, <1>2, PaymentInit, PTL DEF RestoreSpec
=============================================================================

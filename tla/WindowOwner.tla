----------------------------- MODULE WindowOwner ------------------------------
(***************************************************************************)
(* One window owns the wallet: app/windowOwner.ts, the page around it      *)
(* (main.tsx, OpenElsewhere.tsx), and the browser's Web Locks as far as    *)
(* they are used: one lock, requests in line, requests that take the lock  *)
(* from whoever holds it.                                                  *)
(*                                                                         *)
(* What the browser tells a window (a request granted, found unavailable,  *)
(* or rejected because the lock was taken away) reaches it as a task, in   *)
(* the order things happened, and before messages sent later.  A window    *)
(* that is frozen (a tab in the background, a blocked page) runs nothing   *)
(* until it thaws.                                                         *)
(***************************************************************************)
EXTENDS Naturals, Sequences, SequencesExt

CONSTANTS
    Window,
    NoWindow,   \* the lock is free
    Prompt,     \* whether waits are long against what they wait for (Listens, Freeze, UseHere, Settled)
    MaxLoads,   \* bound: times each window is loaded
    MaxAsks     \* bound: times each window asks for the wallet

ASSUME WindowAssumption == NoWindow \notin Window /\ Prompt \in BOOLEAN /\ MaxLoads \in Nat /\ MaxAsks \in Nat

VARIABLES
    holder,   \* the window that holds the lock
    line,     \* the windows in line for it
    tasks,    \* per window: what the browser has still to tell it
    release,  \* per window: whether it has a `release`, that is, isOwner
    at,       \* per window: what it shows, or where its takeOver has come to
    busy,     \* per window: a send runs
    locking,  \* per window: the requests it is locking its wallet for
    mail,     \* per window: messages on the channel it has still to receive
    frozen,   \* per window: nothing of it runs
    loads,    \* per window: times loaded
    asks      \* per window: times it has asked; with the window, a request's id

vars == <<holder, line, tasks, release, at, busy, locking, mail, frozen, loads, asks>>
pageVars == <<frozen, loads, asks>>

Id == Window \X (1..MaxAsks)
Message == [type : {"request", "granted", "refused"}, id : Id]

Init ==
    /\ holder = NoWindow /\ line = <<>>
    /\ tasks = [w \in Window |-> <<>>]
    /\ release = [w \in Window |-> FALSE]
    /\ at = [w \in Window |-> "closed"]
    /\ busy = [w \in Window |-> FALSE]
    /\ locking = [w \in Window |-> {}]
    /\ mail = [w \in Window |-> <<>>]
    /\ frozen = [w \in Window |-> FALSE]
    /\ loads = [w \in Window |-> 0] /\ asks = [w \in Window |-> 0]

Runs(w) == at[w] # "closed" /\ ~frozen[w]
Tell(ts, w, task) == [ts EXCEPT ![w] = Append(@, task)]
\* A message reaches every window that is open, but for its sender.
Post(ms, from, type, id) ==
    [w \in Window |-> IF w = from \/ at[w] = "closed" THEN ms[w] ELSE Append(ms[w], [type |-> type, id |-> id])]
Received(w) == [mail EXCEPT ![w] = Tail(@)]
Become(w, where) == at' = [at EXCEPT ![w] = where]

(* The lock *)

Robbed(w) == \E i \in DOMAIN tasks[w] : tasks[w][i] = "reject"

\* Let go: the next in line has it.
PassOn(ln, ts) ==
    IF ln = <<>> THEN holder' = NoWindow /\ line' = ln /\ tasks' = ts
    ELSE holder' = Head(ln) /\ line' = Tail(ln) /\ tasks' = Tell(ts, Head(ln), "grant")

\* Taken from whoever holds it, who is told first.
Steal(w, ln) ==
    /\ line' = ln /\ holder' = w
    /\ tasks' = IF holder = NoWindow THEN Tell(tasks, w, "grant")
                ELSE Tell(Tell(tasks, holder, "reject"), w, "grant")

(* A page comes and goes *)

\* Root: nothing is opened until it is known that this is the one window.
Load(w) ==
    /\ at[w] = "closed" /\ loads[w] < MaxLoads
    /\ loads' = [loads EXCEPT ![w] = @ + 1]
    /\ Become(w, "acquiring")
    /\ IF holder = NoWindow THEN holder' = w /\ tasks' = Tell(tasks, w, "grant")
                            ELSE tasks' = Tell(tasks, w, "null") /\ UNCHANGED holder
    /\ UNCHANGED <<line, release, busy, locking, mail, frozen, asks>>

\* A page that is closed or reloaded leaves the lock, the line and the channel.
Unload(w) ==
    /\ Become(w, "closed")
    /\ busy' = [busy EXCEPT ![w] = FALSE]
    /\ locking' = [locking EXCEPT ![w] = {}]
    /\ release' = [release EXCEPT ![w] = FALSE]
    /\ LET left == [tasks EXCEPT ![w] = <<>>]
       IN  IF holder = w THEN PassOn(RemoveFirst(line, w), left)
                         ELSE line' = RemoveFirst(line, w) /\ tasks' = left /\ UNCHANGED holder

Close(w) ==
    /\ at[w] # "closed"
    /\ Unload(w)
    /\ mail' = [mail EXCEPT ![w] = <<>>]
    /\ frozen' = [frozen EXCEPT ![w] = FALSE]
    /\ UNCHANGED <<loads, asks>>

\* Prompt: a window that asks for the wallet is on screen.
Freeze(w) ==
    /\ Runs(w) /\ (Prompt => at[w] = "here")
    /\ frozen' = [frozen EXCEPT ![w] = TRUE]
    /\ UNCHANGED <<holder, line, tasks, release, at, busy, locking, mail, loads, asks>>
Thaw(w) ==
    /\ frozen[w] /\ frozen' = [frozen EXCEPT ![w] = FALSE]
    /\ UNCHANGED <<holder, line, tasks, release, at, busy, locking, mail, loads, asks>>

\* The lock has come where it was asked for: the services are opened.
GotIt(w) == [at EXCEPT ![w] = "starting"]

\* Prompt: a window opens its services before it hears anything else.
Listens(w) == Runs(w) /\ ~(Prompt /\ at[w] = "starting")

\* createServices has resolved.  Only from here on do beforeRelease and
\* afterRelease lock the wallet and reload the page.
Open(w) ==
    /\ Runs(w) /\ at[w] = "starting"
    /\ Become(w, "here")
    /\ UNCHANGED <<holder, line, tasks, release, busy, locking, mail, pageVars>>

(* What the browser says *)

\* hold: its callback, or its catch.  Where the wallet was open the window
\* locks it and reloads; elsewhere beforeRelease and afterRelease do nothing.
Hear(w) ==
    /\ Listens(w) /\ tasks[w] # <<>>
    /\ tasks' = [tasks EXCEPT ![w] = Tail(@)]
    /\ CASE Head(tasks[w]) = "grant" ->
              /\ release' = [release EXCEPT ![w] = TRUE]
              /\ at' = IF at[w] \in {"acquiring", "granted", "stealing"} THEN GotIt(w)
                       ELSE IF at[w] = "waiting" THEN [at EXCEPT ![w] = "held"] ELSE at
         [] Head(tasks[w]) = "null" -> Become(w, "elsewhere") /\ UNCHANGED release
         [] OTHER ->
              /\ release' = [release EXCEPT ![w] = FALSE]
              /\ at' = IF release[w] /\ at[w] = "here" THEN [at EXCEPT ![w] = "leaving"] ELSE at
    /\ UNCHANGED <<holder, line, busy, locking, mail, pageVars>>

\* The wallet of a window that was robbed is locked; the page reloads.
Leave(w) ==
    /\ Runs(w) /\ at[w] = "leaving"
    /\ Unload(w)
    /\ mail' = [mail EXCEPT ![w] = <<>>]
    /\ UNCHANGED pageVars

(* Asking for the wallet *)

\* takeOver: in line first, asking second.  Prompt: what is on its way to a
\* window is there before a person presses.
UseHere(w) ==
    /\ Runs(w) /\ at[w] = "elsewhere" /\ tasks[w] = <<>>
    /\ Prompt => mail[w] = <<>>
    /\ IF release[w]
       THEN at' = GotIt(w) /\ UNCHANGED <<holder, line, tasks, mail, asks>>
       ELSE /\ asks[w] < MaxAsks
            /\ asks' = [asks EXCEPT ![w] = @ + 1]
            /\ Become(w, "waiting")
            /\ mail' = Post(mail, w, "request", <<w, asks'[w]>>)
            /\ IF holder = NoWindow
               THEN holder' = w /\ tasks' = Tell(tasks, w, "grant") /\ UNCHANGED line
               ELSE line' = Append(line, w) /\ UNCHANGED <<holder, tasks>>
    /\ UNCHANGED <<release, busy, locking, frozen, loads>>

\* A window in the middle of a send keeps the wallet.
Refuses(w) == busy[w]

\* Mutant: the window that let go is not reloaded.
HandOverStays(w, ms, id) ==
    /\ mail' = Post(ms, w, "granted", id)
    /\ UNCHANGED at
    /\ locking' = [locking EXCEPT ![w] = @ \ {id}]
    /\ release' = [release EXCEPT ![w] = FALSE]
    /\ IF release[w] /\ holder = w /\ ~Robbed(w) THEN PassOn(line, tasks) ELSE UNCHANGED <<holder, line, tasks>>

\* The wallet is locked: let go, say so, and reload where it was open.
HandOver(w, ms, id) ==
    /\ mail' = Post(ms, w, "granted", id)
    /\ IF at[w] = "here" THEN Become(w, "leaving") ELSE UNCHANGED at
    /\ locking' = [locking EXCEPT ![w] = @ \ {id}]
    /\ release' = [release EXCEPT ![w] = FALSE]
    /\ IF release[w] /\ holder = w /\ ~Robbed(w) THEN PassOn(line, tasks) ELSE UNCHANGED <<holder, line, tasks>>

\* A request: the owner refuses while it sends, or locks its wallet first, if
\* there is one to lock, and then hands over.
Receive(w) ==
    /\ Listens(w) /\ at[w] # "leaving" /\ tasks[w] = <<>>
    /\ mail[w] # <<>> /\ Head(mail[w]).type = "request"
    /\ LET id == Head(mail[w]).id IN
        CASE ~release[w] -> mail' = Received(w) /\ UNCHANGED <<holder, line, tasks, release, at, locking>>
          [] release[w] /\ Refuses(w) ->
                mail' = Post(Received(w), w, "refused", id)
                /\ UNCHANGED <<holder, line, tasks, release, at, locking>>
          [] release[w] /\ ~Refuses(w) /\ at[w] = "here" ->
                mail' = Received(w) /\ locking' = [locking EXCEPT ![w] = @ \cup {id}]
                /\ UNCHANGED <<holder, line, tasks, release, at>>
          [] OTHER -> HandOver(w, Received(w), id)
    /\ UNCHANGED <<busy, pageVars>>

LetGo(w) ==
    /\ Runs(w)
    /\ \E id \in locking[w] : HandOver(w, mail, id)
    /\ UNCHANGED <<busy, pageVars>>

\* The answer, if it comes in time; to anyone else it means nothing.
Answer(w) ==
    /\ Runs(w)
    /\ mail[w] # <<>> /\ Head(mail[w]).type # "request"
    /\ mail' = Received(w)
    /\ LET m == Head(mail[w]) IN
        at' = CASE m.id # <<w, asks[w]>> \/ at[w] \notin {"waiting", "held"} -> at
                [] m.id = <<w, asks[w]>> /\ at[w] = "waiting" -> [at EXCEPT ![w] = m.type]
                [] m.id = <<w, asks[w]>> /\ at[w] = "held" ->
                        IF m.type = "granted" THEN GotIt(w) ELSE [at EXCEPT ![w] = "elsewhere"]
    /\ UNCHANGED <<holder, line, tasks, release, busy, locking, pageVars>>

\* Mutant: the place in line is not given up, and waited for.
RefusedWaits(w) ==
    /\ Runs(w) /\ at[w] = "refused" /\ tasks[w] = <<>> /\ release[w]
    /\ Become(w, "elsewhere")
    /\ UNCHANGED <<holder, line, tasks, release, busy, locking, mail, pageVars>>

\* Refused: the place in line is given up, unless the lock has come already.
Refused(w) ==
    /\ Runs(w) /\ at[w] = "refused" /\ tasks[w] = <<>>
    /\ Become(w, "elsewhere")
    /\ line' = RemoveFirst(line, w)
    /\ UNCHANGED <<holder, tasks, release, busy, locking, mail, pageVars>>

\* Whoever runs has heard what was said within answerWithinMs; Prompt: and
\* nothing else is on its way just when they end.
Settled(w) ==
    /\ \A v \in Window : Runs(v) => \A i \in DOMAIN mail[v] : mail[v][i].id # <<w, asks[w]>>
    /\ Prompt => \A v \in Window : Runs(v) => mail[v] = <<>> /\ tasks[v] = <<>>

\* No answer: the lock is taken, from this very window if it has come to it
\* without one.  A window that runs answers in time, but the locking it does
\* first may take longer.
Silence(w) ==
    /\ Runs(w) /\ at[w] \in {"waiting", "held"} /\ tasks[w] = <<>> /\ Settled(w)
    /\ Become(w, "stealing")
    /\ Steal(w, RemoveFirst(line, w))
    /\ UNCHANGED <<release, busy, locking, mail, pageVars>>

(* A send: startSend and its end *)

\* None starts on a wallet being locked, or as soon as answerWithinMs after
\* its window came to hold the lock: the wallet has to be opened first.
BeginSend(w) ==
    /\ Runs(w) /\ at[w] = "here" /\ ~busy[w] /\ locking[w] = {}
    /\ \A v \in Window : at[v] \in {"waiting", "held"} =>
        \E i \in DOMAIN mail[w] : mail[w][i] = [type |-> "request", id |-> <<v, asks[v]>>]
    /\ busy' = [busy EXCEPT ![w] = TRUE]
    /\ UNCHANGED <<holder, line, tasks, release, at, locking, mail, pageVars>>
EndSend(w) ==
    /\ Runs(w) /\ busy[w]
    /\ busy' = [busy EXCEPT ![w] = FALSE]
    /\ UNCHANGED <<holder, line, tasks, release, at, locking, mail, pageVars>>

Own(w) ==
    Open(w) \/ Hear(w) \/ Leave(w) \/ Receive(w) \/ LetGo(w) \/ Answer(w) \/ Refused(w) \/ Silence(w)
Next ==
    \E w \in Window :
        Load(w) \/ Close(w) \/ Freeze(w) \/ Thaw(w) \/ UseHere(w) \/ BeginSend(w) \/ EndSend(w) \/ Own(w)

\* Whatever a running window has to do, it does, also if it is frozen again
\* and again: the browser keeps its tasks.  Nobody has to thaw, close, ask or send.
Spec == Init /\ [][Next]_vars /\ \A w \in Window : SF_vars(Own(w))

(***************************************************************************)
(* Properties                                                              *)
(***************************************************************************)

TypeOK ==
    /\ holder \in Window \cup {NoWindow}
    /\ \A i \in DOMAIN line : line[i] \in Window
    /\ \A w \in Window : /\ \A i \in DOMAIN tasks[w] : tasks[w][i] \in {"grant", "null", "reject"}
                         /\ at[w] \in {"closed", "acquiring", "elsewhere", "starting", "here", "waiting", "held",
                                       "granted", "refused", "stealing", "leaving"}
                         /\ locking[w] \subseteq Id
    /\ release \in [Window -> BOOLEAN] /\ busy \in [Window -> BOOLEAN] /\ frozen \in [Window -> BOOLEAN]
    /\ \A w \in Window : \A i \in DOMAIN mail[w] : mail[w][i] \in Message
    /\ loads \in [Window -> 0..MaxLoads] /\ asks \in [Window -> 0..MaxAsks]

\* One window works with the wallet: whoever has it open holds the lock, or has
\* been robbed and is about to hear so.  And whoever holds the lock knows, once
\* it has heard everything, so that it answers a request; also when it took the
\* lock from itself (hold's catch).
WhoWorksHolds ==
    \A w \in Window :
        /\ at[w] = "here" => holder = w \/ Robbed(w)
        /\ holder = w /\ tasks[w] = <<>> => release[w]

\* Use here comes to an end, with the wallet here or not (takeOver).
AskingEnds ==
    \A w \in Window : at[w] \in {"waiting", "held"} ~> at[w] \in {"here", "starting", "elsewhere", "leaving", "closed"} \/ frozen[w]

===============================================================================

------------------------------- MODULE Scanner --------------------------------
(***************************************************************************)
(* The QR scanner: components/QrScanner.tsx with the reader behind it      *)
(* (backend/browser/qrClient.ts and qrWorker.ts, backend/native/           *)
(* qrClient.ts).                                                           *)
(*                                                                         *)
(* Each run of the effect that opens the camera is an attempt, numbered as *)
(* they start.  Opening, Try again and switching the camera start one, and *)
(* whatever ends one only says so: the attempt finds out the next time it  *)
(* is past an await.  A step takes an attempt from one await to the next.  *)
(***************************************************************************)
EXTENDS Naturals, FiniteSets

CONSTANTS
    Camera, NoCamera,
    Focusing, Torches, Zooms,   \* the cameras that offer continuous focus, a torch, a zoom
    Rare,         \* which uncommon things happen; see RareThings
    MaxAttempts   \* bound: runs of the effect

\* "slow options": what a camera let go of answers comes after the next one's.
\* "zoom refused": a camera refuses the zoom it offers.  "overlapping presses":
\* Torch or Zoom is pressed while the last change of the camera's options is on
\* its way, the first ones the scanner itself asks for included.
RareThings == {"slow options", "zoom refused", "overlapping presses"}

ASSUME ScannerAssumption ==
    /\ IsFiniteSet(Camera) /\ NoCamera \notin Camera /\ Focusing \cup Torches \cup Zooms \subseteq Camera
    /\ Rare \subseteq RareThings /\ MaxAttempts \in Nat

Attempt == 1..MaxAttempts

VARIABLES
    shell,       \* the app runs in a shell, which reads the codes itself
    available,   \* the page may use cameras
    opened,      \* the sheet is open
    run,         \* the newest attempt; 0 before the first
    problem,     \* error: the attempt whose failure is shown in place of the preview, or 0
    drawn,       \* the video element is there
    video,       \* the attempt whose camera the video element was given, or 0
    remembered, picked,   \* the camera kept for next time; the one picked by hand
    used,        \* cameraId: the camera last settled on, once the cameras are listed
    at,          \* per attempt, the await it is in
    want,        \* per attempt, the camera it asks for; NoCamera: any
    left,        \* per attempt, the cameras it has still to try
    first,       \* per attempt, the camera the browser chose
    stream,      \* per attempt, the camera it has running
    options,     \* what the camera was last asked for
    lens,        \* what the camera does: its torch and its zoom
    offered,     \* the buttons there are
    torchOn, zoomed,      \* what they say
    pressed,     \* the presses on their way: the button, the options asked for, the attempt
    reader,      \* per attempt, its reader
    reading,     \* per attempt, where a picture it handed to the reader is
    workersFail, \* a worker here has failed to read
    handed       \* the attempts whose text the form was given

host == <<shell, available>>
sheet == <<opened, run, problem, drawn, video>>
chosen == <<remembered, picked, used>>
course == <<at, want, left, first, stream>>
buttons == <<options, lens, offered, torchOn, zoomed, pressed>>
readers == <<reader, reading, workersFail>>
scannerVars == <<host, sheet, chosen, course, buttons, readers, handed>>

Plain == [torch |-> FALSE, zoom |-> FALSE]
Usually(thing) == thing \notin Rare

ScannerInit ==
    /\ shell \in BOOLEAN /\ available \in BOOLEAN /\ opened = FALSE /\ run = 0 /\ problem = 0 /\ drawn = FALSE /\ video = 0
    /\ remembered \in Camera \cup {NoCamera} /\ picked = NoCamera /\ used = NoCamera
    /\ at = [n \in Attempt |-> "none"] /\ want = [n \in Attempt |-> NoCamera]
    /\ left = [n \in Attempt |-> {}] /\ first = [n \in Attempt |-> NoCamera]
    /\ stream = [n \in Attempt |-> NoCamera]
    /\ options = Plain /\ lens = Plain /\ offered = {} /\ torchOn = FALSE /\ zoomed = TRUE
    /\ pressed = {}
    /\ reader = [n \in Attempt |-> "none"] /\ reading = [n \in Attempt |-> "no"]
    /\ workersFail = FALSE /\ handed = {}

\* The effect's `stopped`.
Stopped(n) == n # run \/ ~opened

\* The worker ended with its reads settled; a read in the shell or on the page goes on.
Close(n) == IF n = 0 THEN UNCHANGED <<reader, reading>>
            ELSE /\ reader' = [reader EXCEPT ![n] = IF @ \in {"none", "opening"} THEN @ ELSE "closed"]
                 /\ reading' = [reading EXCEPT ![n] = IF @ = "worker" THEN "no" ELSE @]

\* The effect's cleanup, for the attempt that runs.
CleanUp == /\ stream' = [n \in Attempt |-> IF n = run THEN NoCamera ELSE stream[n]]
           /\ Close(run)

\* The effect runs again: the last attempt is cleaned up and the next begins.
Begin(camera) ==
    /\ run < MaxAttempts /\ run' = run + 1
    /\ stream' = [n \in Attempt |-> IF n = run THEN NoCamera ELSE stream[n]]
    /\ reader' = [n \in Attempt |->
           IF n = run + 1 THEN "opening"
           ELSE IF n = run /\ reader[n] \notin {"none", "opening"} THEN "closed" ELSE reader[n]]
    /\ reading' = [n \in Attempt |-> IF n = run /\ reading[n] = "worker" THEN "no" ELSE reading[n]]
    /\ at' = [at EXCEPT ![run + 1] = "ask"] /\ want' = [want EXCEPT ![run + 1] = camera]
    /\ UNCHANGED <<left, first, workersFail>>

\* The camera asked for: the one picked by hand, or the one kept.
Wanted(pick) == IF pick # NoCamera THEN pick ELSE remembered

(* The person *)

Open ==
    /\ ~opened /\ opened' = TRUE /\ Begin(Wanted(picked))
    /\ UNCHANGED <<host, problem, drawn, video, chosen, buttons, handed>>

\* onClose: Cancel, Back, or the form closing the sheet on the text of an image.
Shut == opened' = FALSE /\ drawn' = FALSE /\ CleanUp /\ UNCHANGED <<run, video, at, want, left, first, workersFail>>

Cancel == opened /\ Shut /\ UNCHANGED <<host, problem, chosen, buttons, handed>>

\* Asking again can help, unless the page may not use cameras at all.
Retry == available
TryAgain ==
    /\ Retry /\ opened /\ problem # 0 /\ problem' = 0 /\ Begin(Wanted(picked))
    /\ UNCHANGED <<host, opened, drawn, video, chosen, buttons, handed>>

\* nextCamera: kept as well, and nothing runs again when it is the one picked already.
NextCamera ==
    /\ opened /\ problem = 0 /\ used # NoCamera
    /\ \E c \in Camera \ {used} :
        /\ remembered' = c /\ picked' = c
        /\ IF picked = c THEN UNCHANGED <<run, course, readers>> ELSE Begin(c)
    /\ UNCHANGED <<host, opened, problem, drawn, video, used, buttons, handed>>

\* The dialog draws its contents a moment after it opens.
Draw == opened /\ problem = 0 /\ ~drawn /\ drawn' = TRUE
        /\ UNCHANGED <<host, opened, run, problem, video, chosen, course, buttons, readers, handed>>

(* An attempt *)

Goes(n, to) == at' = [at EXCEPT ![n] = to]
Ends(n) == Goes(n, "over") /\ stream' = [stream EXCEPT ![n] = NoCamera]

\* The attempt threw.  Shown, whoever's attempt it was; a camera it has stays on.
Fails(n) == Goes(n, "over") /\ problem' = n /\ drawn' = FALSE

StillThere == UNCHANGED <<host, opened, run, video, picked, buttons, readers, handed>>
Unsettled == UNCHANGED <<remembered, used>>

\* A camera is chosen, kept, and waits for the video element.
Settles(n, c) ==
    /\ stream' = [stream EXCEPT ![n] = c] /\ Goes(n, "draw") /\ remembered' = c /\ used' = c
    /\ UNCHANGED <<problem, drawn, want, left, first>>

\* A camera granted after the scanner closed is not let go of.
GrantedAnyway(n) ==
    /\ at[n] = "ask" /\ available
    /\ \E c \in Camera :
        want[n] \in {NoCamera, c} /\ Goes(n, "list") /\ stream' = [stream EXCEPT ![n] = c]
    /\ UNCHANGED <<problem, drawn, want, left, first>> /\ Unsettled /\ StillThere

\* openHeld answers the first ask.
Granted(n) ==
    /\ at[n] = "ask" /\ available
    /\ \E c \in Camera :
        /\ want[n] \in {NoCamera, c}
        /\ IF Stopped(n) THEN Ends(n) ELSE Goes(n, "list") /\ stream' = [stream EXCEPT ![n] = c]
    /\ UNCHANGED <<problem, drawn, want, left, first>> /\ Unsettled /\ StillThere

\* It is refused: a kept camera that has gone is let go of, and any is asked for.
Refused(n) ==
    /\ at[n] = "ask"
    /\ IF want[n] # NoCamera
       THEN want' = [want EXCEPT ![n] = NoCamera] /\ remembered' = NoCamera /\ UNCHANGED <<problem, drawn, at>>
       ELSE Fails(n) /\ UNCHANGED <<remembered, want>>
    /\ UNCHANGED <<used, left, first, stream>> /\ StillThere

\* The cameras are not listed; or an empty list is asked for again once the camera is kept, and is not.
ListFails(n) ==
    /\ Fails(n) /\ (UNCHANGED remembered \/ (~Stopped(n) /\ remembered' = stream[n]))
    /\ UNCHANGED <<used, want, left, first, stream>>

\* The cameras are listed.  Where the browser speaks of focus, one that cannot
\* keep focusing is let go of before the others are tried.
Listed(n) ==
    /\ at[n] = "list"
    /\ \/ Stopped(n) /\ Ends(n) /\ UNCHANGED <<problem, drawn, want, left, first>> /\ Unsettled
       \/ /\ ~Stopped(n) /\ want[n] = NoCamera /\ stream[n] \notin Focusing /\ Camera # {stream[n]}
          /\ first' = [first EXCEPT ![n] = stream[n]] /\ left' = [left EXCEPT ![n] = Camera \ {stream[n]}]
          /\ stream' = [stream EXCEPT ![n] = NoCamera] /\ Goes(n, "try")
          /\ UNCHANGED <<problem, drawn, want>> /\ Unsettled
       \/ ~Stopped(n) /\ Settles(n, stream[n])
       \/ ListFails(n)
    /\ StillThere

\* Each of the others is opened in turn: kept when it can focus.
Tried(n) ==
    /\ at[n] = "try"
    /\ \E c \in left[n], opens \in BOOLEAN :
        IF opens /\ c \in Focusing /\ ~Stopped(n) THEN Settles(n, c)
        ELSE /\ left' = [left EXCEPT ![n] = @ \ {c}]
             /\ Goes(n, IF Stopped(n) THEN "over" ELSE IF left[n] = {c} THEN "back" ELSE "try")
             /\ UNCHANGED <<problem, drawn, want, first, stream>> /\ Unsettled
    /\ StillThere

\* None can: back to the one the browser chose.
Back(n) ==
    /\ at[n] = "back"
    /\ \/ Stopped(n) /\ Ends(n) /\ UNCHANGED <<problem, drawn, want, left, first>> /\ Unsettled
       \/ ~Stopped(n) /\ Settles(n, first[n])
       \/ Fails(n) /\ UNCHANGED <<want, left, first, stream>> /\ Unsettled
    /\ StillThere

\* What the camera is set to from the start: focus, and twice the size where it zooms.
Zoomed == [torch |-> FALSE, zoom |-> "zoom" \in offered]

\* The wait for the video element ends.
Ready(n) ==
    /\ at[n] = "draw"
    /\ \/ /\ Stopped(n) \/ (~drawn /\ problem # 0)
          /\ Ends(n) /\ UNCHANGED <<options, lens, offered, torchOn, zoomed>>
       \/ /\ ~Stopped(n) /\ drawn
          /\ Usually("slow options") => pressed = {} /\ \A k \in Attempt : at[k] # "options"
          /\ Goes(n, "options") /\ UNCHANGED stream
          /\ offered' = {kind \in {"torch", "zoom"} :
                            stream[n] \in IF kind = "torch" THEN Torches ELSE Zooms}
          /\ torchOn' = FALSE /\ zoomed' = TRUE /\ options' = Plain /\ lens' = Plain
    /\ UNCHANGED <<host, sheet, chosen, want, left, first, pressed, readers, handed>>

\* The camera took its options, or refused them.
Optioned(n) ==
    /\ at[n] = "options"
    /\ \/ options' = Zoomed /\ lens' = (IF Stopped(n) THEN lens ELSE Zoomed)
       \/ "zoom refused" \in Rare /\ UNCHANGED <<options, lens>>
    /\ video' = (IF stream[n] = NoCamera THEN 0 ELSE n) /\ Goes(n, "play")
    /\ UNCHANGED <<host, opened, run, problem, drawn, chosen, want, left, first, stream>>
    /\ UNCHANGED <<offered, torchOn, zoomed, pressed, readers, handed>>

\* The preview plays; or it does not: the sheet went, or the video element with another attempt's
\* failure, or the browser will not play.
Played(n) ==
    /\ at[n] = "play"
    /\ (Goes(n, "look") /\ UNCHANGED <<problem, drawn>>) \/ Fails(n)
    /\ UNCHANGED <<want, left, first, stream>> /\ Unsettled /\ StillThere

(* Torch and zoom *)

\* A change that repeats nothing.
ChangedAlone(kind) == IF kind = "torch" THEN [Plain EXCEPT !.torch = ~torchOn] ELSE [Plain EXCEPT !.zoom = ~zoomed]

\* The camera's options are set as a whole, so each change repeats the rest.
Changed(kind) == IF kind = "torch" THEN [options EXCEPT !.torch = ~torchOn] ELSE [options EXCEPT !.zoom = ~zoomed]

Press ==
    /\ opened /\ problem = 0 /\ at[run] \in {"options", "play", "look", "detect"}
    /\ (pressed = {} /\ at[run] # "options") \/ "overlapping presses" \in Rare
    /\ \E kind \in offered : pressed' = pressed \cup {[kind |-> kind, next |-> Changed(kind), by |-> run]}
    /\ UNCHANGED <<host, sheet, chosen, course, options, lens, offered, torchOn, zoomed, readers, handed>>

\* The buttons of the last camera are there while the next is asked for: the press asks nothing, and
\* the button goes over.
PressInVain ==
    /\ opened /\ problem = 0 /\ at[run] \in {"ask", "list", "try", "back", "draw"}
    /\ \E kind \in offered : /\ torchOn' = (IF kind = "torch" THEN ~torchOn ELSE torchOn)
                             /\ zoomed' = (IF kind = "zoom" THEN ~zoomed ELSE zoomed)
    /\ UNCHANGED <<host, sheet, chosen, course, options, lens, offered, pressed, readers, handed>>

Applied ==
    \E p \in pressed :
        /\ pressed' = pressed \ {p}
        /\ options' = p.next /\ lens' = (IF p.by = run THEN p.next ELSE lens)
        /\ torchOn' = (IF p.kind = "torch" THEN ~torchOn ELSE torchOn)
        /\ zoomed' = (IF p.kind = "zoom" THEN ~zoomed ELSE zoomed)
        /\ UNCHANGED <<host, sheet, chosen, course, offered, readers, handed>>

\* The camera will not: the button goes.
NotApplied ==
    \E p \in pressed :
        /\ pressed' = pressed \ {p} /\ offered' = offered \ {p.kind}
        /\ UNCHANGED <<host, sheet, chosen, course, options, lens, torchOn, zoomed, readers, handed>>

(* Looking *)

Unread == UNCHANGED <<host, problem, chosen, buttons>>

\* finish without its `stopped`.
FinishAnyway(n) == handed' = handed \cup {n} /\ opened' = FALSE /\ drawn' = FALSE
                   /\ stream' = [stream EXCEPT ![n] = NoCamera]

\* finish: the text is the form's, once, and the form closes the sheet.
FinishScan(n) == IF Stopped(n) THEN UNCHANGED <<opened, drawn, stream, handed>>
             ELSE /\ handed' = handed \cup {n} /\ opened' = FALSE /\ drawn' = FALSE
                  /\ stream' = [stream EXCEPT ![n] = NoCamera]

\* The reader, from openQrReader: closed at once when the attempt is over.
ReaderOpens(n) ==
    /\ reader[n] = "opening"
    /\ reader' = [reader EXCEPT ![n] = IF Stopped(n) THEN "closed" ELSE IF shell THEN "shell"
                                       ELSE IF workersFail THEN "page" ELSE "worker"]
    /\ UNCHANGED <<sheet, course, reading, workersFail, handed>> /\ Unread

\* tick: a picture is cut out and the browser's own detector looks.
Tick(n) ==
    /\ at[n] = "look" /\ ~Stopped(n) /\ drawn /\ Goes(n, "detect")
    /\ UNCHANGED <<sheet, want, left, first, stream, readers, handed>> /\ Unread

\* The detector found one; or the picture goes to the reader, if it is free,
\* also when it was closed meanwhile: then the page reads.
Detected(n) ==
    /\ at[n] = "detect" /\ Goes(n, IF Stopped(n) THEN "over" ELSE "look")
    /\ \/ FinishScan(n) /\ IF Stopped(n) THEN UNCHANGED <<reader, reading>> ELSE Close(n)
       \/ /\ reading' = [reading EXCEPT ![n] =
                 IF @ # "no" \/ reader[n] \in {"none", "opening"} THEN @
                 ELSE IF reader[n] = "closed" THEN (IF shell THEN "shell" ELSE "page") ELSE reader[n]]
          /\ UNCHANGED <<opened, drawn, stream, handed, reader>>
    /\ UNCHANGED <<run, video, want, left, first, workersFail>> /\ Unread

\* A reader answers: a text; or none, or it throws, and the next picture is looked at.
Answers(n, who) ==
    /\ reading[n] = who
    /\ \/ reading' = [reading EXCEPT ![n] = "no"] /\ UNCHANGED <<opened, drawn, stream, handed, reader>>
       \/ /\ FinishScan(n) /\ reading' = [reading EXCEPT ![n] = "no"]
          /\ reader' = IF Stopped(n) THEN reader ELSE [reader EXCEPT ![n] = "closed"]
    /\ UNCHANGED <<run, video, at, want, left, first, workersFail>> /\ Unread

\* The worker, which lives no longer than its attempt; the page and the shell answer after it too.
FromWorker(n) == reader[n] = "worker" /\ Answers(n, "worker")
FromPage(n) == ~shell /\ Answers(n, "page")
FromShell(n) == shell /\ Answers(n, "shell")

\* setWorkerAside: the worker failed, and the page reads from the next picture on.
SetWorkerAside(n) ==
    /\ reader[n] = "worker" /\ workersFail' = TRUE
    /\ reader' = [reader EXCEPT ![n] = "page"]
    /\ reading' = [reading EXCEPT ![n] = "no"]
    /\ UNCHANGED <<sheet, course, handed>> /\ Unread

AttemptStep(n) ==
    \/ Granted(n) \/ Refused(n) \/ Listed(n) \/ Tried(n) \/ Back(n) \/ Ready(n) \/ Optioned(n) \/ Played(n)
    \/ ReaderOpens(n) \/ Tick(n) \/ Detected(n)
    \/ FromWorker(n) \/ FromPage(n) \/ FromShell(n) \/ SetWorkerAside(n)

ScannerNext ==
    \/ Open \/ Cancel \/ TryAgain \/ NextCamera \/ Draw
    \/ Press \/ PressInVain \/ Applied \/ NotApplied
    \/ \E n \in Attempt : AttemptStep(n)

ScannerSpec == ScannerInit /\ [][ScannerNext]_scannerVars

(* Properties *)

TypeOK ==
    /\ {shell, available, opened, drawn, torchOn, zoomed, workersFail} \subseteq BOOLEAN
    /\ {run, problem, video} \subseteq 0..MaxAttempts /\ handed \subseteq Attempt
    /\ at \in [Attempt -> {"none", "ask", "list", "try", "back", "draw", "options", "play", "look", "detect", "over"}]
    /\ {remembered, picked, used} \subseteq Camera \cup {NoCamera}
    /\ {want, first, stream} \subseteq [Attempt -> Camera \cup {NoCamera}]
    /\ left \in [Attempt -> SUBSET Camera]
    /\ reader \in [Attempt -> {"none", "opening", "worker", "page", "shell", "closed"}]
    /\ reading \in [Attempt -> {"no", "worker", "page", "shell"}]

\* A camera runs only for the newest attempt of an open scanner, which has
\* let go of it whenever it asks for another one, and when it is over, unless
\* it failed and says so; and no worker outlives its attempt, nor a picture the
\* worker it was given to, so that no reader is busy for good.  However late
\* the camera was granted and whatever failed (QrScanner.tsx: "without this the
\* camera stays on, light and all, with no scanner on screen"; "One camera at a
\* time").  Under the notice of a failure the camera does stay on, until the
\* sheet is closed or the camera tried again.
NothingLeftRunning ==
    \A n \in Attempt :
        /\ stream[n] # NoCamera => /\ ~Stopped(n) /\ at[n] \notin {"ask", "try", "back"}
                                  /\ (at[n] = "over" => problem # 0)
        /\ reader[n] = "worker" => ~Stopped(n)
        /\ reading[n] = "worker" => reader[n] = "worker"

\* Once no press is on its way, Torch and Zoom say what the camera does,
\* through any refusals, presses in vain and changes of camera, when each is
\* pressed after the last change of the options was answered.
ButtonsTellTheCamera ==
    run > 0 /\ ~Stopped(run) /\ at[run] \in {"play", "look", "detect"} /\ pressed = {} =>
        /\ "torch" \in offered => torchOn = lens.torch
        /\ "zoom" \in offered => zoomed = lens.zoom

\* A camera's text is handed to the form once in an opening and never after
\* the scanner closed or went on to another camera, though readers answer late.
OnlyTheCurrentHands ==
    [][handed' # handed => opened /\ run \notin handed /\ handed' = handed \cup {run}]_scannerVars

\* Contradicted: what is shown in place of the preview is why the camera did not
\* start (QrScanner.tsx:95), never shown while the camera of this scanner runs.
NoProblemOverTheCamera == opened /\ problem # 0 => stream[run] = NoCamera \/ at[run] \notin {"look", "detect"}

===============================================================================

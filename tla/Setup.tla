-------------------------------- MODULE Setup --------------------------------
(***************************************************************************)
(* Making a wallet and restoring one (screens/Onboarding.tsx), the month a *)
(* scan starts from (StartBlockPicker.tsx, util/blockdate.ts) and          *)
(* createAccount (accounts.ts).  The screens are steps; what they ask of   *)
(* the worker and of the node is answered later, when the person may be on *)
(* another step, and the app may be loaded again at any moment.            *)
(***************************************************************************)
EXTENDS Naturals, FiniteSets, TLC

CONSTANTS
    Tip,       \* the chain's height
    PerMonth,  \* blocks in a month
    Months, Blocks, \* a person may choose or type
    Typed,     \* phrases a person may type
    Uncommon,  \* see UncommonThings
    MaxNew,    \* bound: phrases generated
    MaxFields, \* bound: times the month field opens
    MaxLooks,  \* bound: months one field asks about
    MaxMade,   \* bound: wallets made
    MaxLoads   \* bound: times the app is loaded again

\* "edits while checking": the person goes on before a phrase is checked.  "opens twice": the
\* month field opens again before an earlier one was answered.  "clears while looking": the month is
\* taken back before it is answered.  "folded": the person comes back
\* to the import step and goes on without opening its options.  "fails after put": a new
\* wallet's log does not open, or the app ends, once its record is written.
UncommonThings == {"edits while checking", "opens twice", "clears while looking", "folded", "fails after put"}
ASSUME SetupAssumption ==
    /\ Months \subseteq Nat \ {0} /\ PerMonth \in Nat \ {0} /\ Blocks \subseteq 1..Tip
    /\ Uncommon \subseteq UncommonThings
    /\ {Tip, MaxNew, MaxFields, MaxLooks, MaxMade, MaxLoads} \subseteq Nat

VARIABLES
    step, phrase, imported, revealed,
    slots,     \* the words put back in place: by place, the place each really has
    generating, checking,  \* answers of the worker on their way
    when, fast, month, birthday,
    form,      \* the import step as it stands: options open, lookup, the month fields before it
    field, latest, \* the month field open last; by field, the number of its last question
    asked,     \* lookups on their way
    finishing, \* finish: where it is, and what it holds
    wallets,   \* records in the database
    mark,      \* UNFINISHED_KEY, and the notice it leaves
    news, loads, said  \* bounds; what the screen said as the person went on

words == <<phrase, imported, revealed, slots>>
start == <<when, fast, month, birthday, form, field, latest, asked>>
late == <<generating, checking, said>>
kept == <<finishing, wallets, mark, news, loads>>
setupVars == <<step, words, late, start, kept>>

NoPhrase == <<"none", 0>>
NewPhrase(n) == <<"new", n>>
NoMonth == 0
Unknown == 0    \* a start the first sync looks up
Everything == 1 \* the first block
Places == 1..2  \* CHECKS
Empty == [p \in Places |-> 0]
Heights == 1..Tip
MonthOf(h) == h \div PerMonth
Folded == [open |-> FALSE, lookup |-> "idle", before |-> 0]
NoCheck == [phrase |-> NoPhrase]
NotFinishing == [at |-> "no"]

SetupInit ==
    /\ step = "welcome" /\ phrase = NoPhrase /\ imported = FALSE /\ revealed = FALSE /\ slots = Empty
    /\ generating = FALSE /\ checking = NoCheck /\ said = <<"block", Unknown>>
    /\ when = "unknown" /\ fast = TRUE /\ month = NoMonth /\ birthday = Everything
    /\ form = Folded /\ field = 0 /\ latest = [f \in 1..MaxFields |-> 0] /\ asked = {}
    /\ finishing = NotFinishing
    /\ wallets = {} /\ mark = [set |-> FALSE, notice |-> FALSE, of |-> NoPhrase]
    /\ news = 0 /\ loads = 0

Busy == generating \/ finishing # NotFinishing

(* The steps *)

Goes(from, to) == step = from /\ step' = to

Welcome == Goes("welcome", "existing") /\ UNCHANGED words
BackToWelcome == Goes("existing", "welcome") /\ UNCHANGED words
Reveal == step = "show" /\ ~revealed /\ revealed' = TRUE /\ UNCHANGED <<step, phrase, imported, slots>>
StartConfirm == Goes("show", "confirm") /\ revealed /\ slots' = Empty /\ UNCHANGED <<phrase, imported, revealed>>
BackToShow == Goes("confirm", "show") /\ slots' = Empty /\ UNCHANGED <<phrase, imported, revealed>>
Confirmed == \A p \in Places : slots[p] = p
ToPassword == Goes("confirm", "password") /\ Confirmed /\ UNCHANGED words
BackToConfirm == Goes("password", "confirm") /\ ~imported /\ ~Busy /\ UNCHANGED words
\* A word of the bank goes into the first empty place; one in place can be taken out.
Pick ==
    /\ step = "confirm" /\ \E p \in Places : slots[p] = 0
    /\ LET next == CHOOSE p \in Places : slots[p] = 0 /\ \A q \in Places : slots[q] = 0 => p <= q IN
        \E chip \in Places \ {slots[p] : p \in Places} : slots' = [slots EXCEPT ![next] = chip]
    /\ UNCHANGED <<step, phrase, imported, revealed>>
Unpick ==
    /\ step = "confirm"
    /\ \E p \in Places : slots[p] # 0 /\ slots' = [slots EXCEPT ![p] = 0]
    /\ UNCHANGED <<step, phrase, imported, revealed>>

Walks ==
    /\ \/ Welcome \/ BackToWelcome \/ Reveal \/ StartConfirm \/ BackToShow
       \/ ToPassword \/ BackToConfirm \/ Pick \/ Unpick
    /\ UNCHANGED <<late, start, kept>>

Editable == step = "import" /\ (checking # NoCheck => "edits while checking" \in Uncommon)

BackFromImport == Editable /\ step' = "existing"
\* The import step opens folded, and keeps the wizard's choices.
ToImport ==
    /\ Goes("existing", "import") \/ (Goes("password", "import") /\ imported /\ ~Busy)
    /\ form' = [Folded EXCEPT !.before = field] /\ said' = <<"block", Unknown>>
LeavesOrEnters ==
    /\ \/ BackFromImport /\ form' = Folded /\ UNCHANGED said
       \/ ToImport
    /\ UNCHANGED <<words, generating, checking, when, fast, month, birthday, field, latest, asked, kept>>

\* "Create a new wallet"
StartCreate ==
    /\ step = "welcome" /\ ~Busy /\ news < MaxNew
    /\ generating' = TRUE
    /\ UNCHANGED <<step, words, checking, said, start, kept>>

Generated ==
    /\ generating /\ generating' = FALSE
    /\ news' = news + 1
    /\ phrase' = NewPhrase(news + 1) /\ imported' = FALSE /\ revealed' = FALSE /\ slots' = Empty
    /\ mark' = [set |-> TRUE, notice |-> FALSE, of |-> phrase']
    /\ step' = "show"
    /\ UNCHANGED <<checking, said, start, finishing, wallets, loads>>

\* Back from the words: they are not kept.
DropWords ==
    /\ Goes("show", "welcome")
    /\ phrase' = NoPhrase /\ revealed' = FALSE /\ UNCHANGED <<imported, slots>>
    /\ mark' = [mark EXCEPT !.set = FALSE]
    /\ UNCHANGED <<late, start, finishing, wallets, news, loads>>

DismissNotice ==
    /\ mark.notice /\ step = "welcome"
    /\ mark' = [mark EXCEPT !.set = FALSE, !.notice = FALSE]
    /\ UNCHANGED <<step, words, late, start, finishing, wallets, news, loads>>

(* Where the scan starts *)

\* findHeightForDate: the first block of a month or later, by halves.
Search[q \in [month : Months, low : Heights, high : Heights]] ==
    IF q.low >= q.high THEN q.low
    ELSE LET mid == (q.low + q.high) \div 2 IN
        IF MonthOf(mid) < q.month THEN Search[[q EXCEPT !.low = mid + 1]] ELSE Search[[q EXCEPT !.high = mid]]
HeightFor(m) ==
    CASE Tip < 1 -> 1
      [] Tip >= 1 /\ MonthOf(Tip) < m -> Tip
      [] OTHER -> Search[[month |-> m, low |-> 1, high |-> Tip]]

\* The field's effect on its month: it asks, and what it asked before no longer counts.
Looks(f, m) ==
    IF m = NoMonth
    THEN UNCHANGED <<latest, asked>>
    ELSE /\ latest[f] < MaxLooks
         /\ latest' = [latest EXCEPT ![f] = @ + 1]
         /\ asked' = asked \cup {[field |-> f, token |-> latest[f] + 1, month |-> m]}
LookupOf(m) == IF m = NoMonth THEN "idle" ELSE "looking"

Shown(open, f, w) == open /\ ~f /\ w = "month"
Picking == Shown(form.open, fast, when)
\* "Change" opens the options; then how to restore and, privately, since when.
ChooseHow ==
    /\ Editable
    /\ \/ ~form.open /\ UNCHANGED <<fast, when>>
       \/ form.open /\ fast' = ~fast /\ UNCHANGED when
       \/ form.open /\ ~fast /\ when' \in {"unknown", "month", "never"} \ {when} /\ UNCHANGED fast
    /\ IF Shown(TRUE, fast', when') /\ ~Picking
       THEN /\ field < MaxFields /\ (asked # {} => "opens twice" \in Uncommon)
            /\ field' = field + 1
            /\ Looks(field', month)
            /\ form' = [form EXCEPT !.open = TRUE, !.lookup = LookupOf(month)]
       ELSE form' = [form EXCEPT !.open = TRUE] /\ UNCHANGED <<field, latest, asked>>
    /\ UNCHANGED <<step, words, late, month, birthday, kept>>

\* A month half chosen is none, and asks nothing.
ChooseMonth ==
    /\ Editable /\ Picking
    /\ month' \in (Months \cup {NoMonth}) \ {month}
    /\ month' = NoMonth /\ form.lookup = "looking" => "clears while looking" \in Uncommon
    /\ Looks(field, month')
    /\ form' = [form EXCEPT !.lookup = LookupOf(month')]
    /\ UNCHANGED <<step, words, late, when, fast, birthday, field, kept>>

OfThisField(q) == q.field = field

\* A field that is gone still holds its last question to be the last, and sets the birthday.
Current(q) == q.token = latest[q.field]
Tells(q, lookup) == form' = IF q.field > form.before THEN [form EXCEPT !.lookup = lookup] ELSE form

Answered ==
    /\ \E q \in asked :
        /\ asked' = asked \ {q}
        /\ \/ Current(q) /\ birthday' = HeightFor(q.month) /\ Tells(q, "found")
           \/ Current(q) /\ Tells(q, "failed") /\ UNCHANGED birthday
           \/ ~Current(q) /\ UNCHANGED <<birthday, form>>
    /\ UNCHANGED <<step, words, late, when, fast, month, field, latest, kept>>

\* The block number behind its disclosure
TypeBlock ==
    /\ Editable /\ Picking
    /\ birthday' \in Blocks \ {birthday}
    /\ form' = [form EXCEPT !.lookup = IF @ = "found" THEN "idle" ELSE @]
    /\ UNCHANGED <<step, words, late, when, fast, month, field, latest, asked, kept>>

\* The start the screen names: a month's first block, or a block.
Says ==
    CASE fast \/ when = "never" -> <<"block", Unknown>>
      [] ~fast /\ when = "unknown" -> <<"block", Everything>>
      [] Picking -> IF form.lookup = "found" THEN <<"month", month>> ELSE <<"block", birthday>>
      [] OTHER -> IF month # NoMonth THEN <<"month", month>> ELSE <<"block", birthday>>

StartKnown == fast \/ when # "month" \/ (form.lookup # "looking" /\ (form.lookup = "found" \/ birthday > 1))

\* "Continue with this seed phrase": the words are checked, and the start held against the tip.
Continue ==
    /\ step = "import" /\ StartKnown /\ checking = NoCheck
    /\ ~form.open /\ ~fast /\ when = "month" => "folded" \in Uncommon
    /\ checking' \in {[phrase |-> <<"typed", t>>, said |-> Says] : t \in Typed}
    /\ UNCHANGED <<step, words, generating, said, start, kept>>

OnPhraseAsNew ==
    /\ checking # NoCheck /\ checking' = NoCheck
    /\ \/ UNCHANGED <<step, words, said>>
       \/ phrase' = checking.phrase /\ said' = checking.said /\ step' = "password" /\ slots' = Empty /\ UNCHANGED <<revealed, imported>>
    /\ UNCHANGED <<generating, start, kept>>

OnPhrase ==
    /\ checking # NoCheck /\ checking' = NoCheck
    /\ \/ UNCHANGED <<step, words, said>>
       \/ phrase' = checking.phrase /\ said' = checking.said /\ imported' = TRUE /\ step' = "password" /\ slots' = Empty /\ UNCHANGED revealed
    /\ UNCHANGED <<generating, start, kept>>

(* finish, and createAccount *)

StartBlock ==
    IF ~imported THEN Unknown
    ELSE IF fast \/ when = "never" THEN Unknown
    ELSE IF when = "unknown" THEN Everything ELSE birthday

Finish ==
    /\ step = "password" /\ ~Busy /\ Cardinality(wallets) < MaxMade
    /\ finishing' = [at |-> "sealing",
                     record |-> [phrase |-> phrase, imported |-> imported, start |-> StartBlock,
                                 said |-> said, slots |-> slots, shown |-> revealed]]
    /\ UNCHANGED <<step, words, late, start, wallets, mark, news, loads>>

RecordPut ==
    /\ finishing.at = "sealing"
    /\ finishing' = [finishing EXCEPT !.at = "opening"]
    /\ wallets' = wallets \cup {finishing.record}
    /\ UNCHANGED <<step, words, late, start, mark, news, loads>>

\* The mark goes, and the app opens the wallet: this screen is gone.
Made ==
    /\ finishing.at = "opening" /\ finishing' = NotFinishing
    /\ mark' = [mark EXCEPT !.set = FALSE]
    /\ step' = "home"
    /\ UNCHANGED <<words, late, start, wallets, news, loads>>

MakingFails ==
    /\ finishing.at = "sealing" \/ (finishing.at = "opening" /\ "fails after put" \in Uncommon)
    /\ finishing' = NotFinishing
    /\ UNCHANGED <<step, words, late, start, wallets, mark, news, loads>>

\* The app is loaded again, or "Add a wallet" opens the screen anew: what it held is gone.
Reload ==
    /\ loads < MaxLoads /\ loads' = loads + 1
    /\ finishing.at = "opening" => "fails after put" \in Uncommon
    /\ step' = "welcome" /\ phrase' = NoPhrase /\ imported' = FALSE /\ revealed' = FALSE /\ slots' = Empty
    /\ generating' = FALSE /\ checking' = NoCheck /\ said' = <<"block", Unknown>>
    /\ when' = "unknown" /\ fast' = TRUE /\ month' = NoMonth /\ birthday' = Everything
    /\ form' = Folded /\ field' = 0 /\ latest' = [f \in 1..MaxFields |-> 0] /\ asked' = {}
    /\ finishing' = NotFinishing
    /\ mark' = [mark EXCEPT !.notice = mark.set]
    /\ UNCHANGED <<wallets, news>>

SetupNext ==
    \/ Walks \/ LeavesOrEnters
    \/ StartCreate \/ Generated \/ DropWords \/ DismissNotice
    \/ ChooseHow \/ ChooseMonth \/ Answered \/ TypeBlock
    \/ Continue \/ OnPhrase
    \/ Finish \/ RecordPut \/ Made \/ MakingFails \/ Reload

SetupSpec == SetupInit /\ [][SetupNext]_setupVars

(* Properties *)

(* A wallet made new is made of words that were shown here and put back in  *)
(* order, never of words typed, dropped or not confirmed, whatever was      *)
(* asked before and answered late (startCreate, startConfirm, finish).  And  *)
(* "it belongs to no wallet", which has the person cross the words out, is  *)
(* said of a phrase only when it is so (markUnfinished, finish).            *)
MadeOfItsWords ==
    /\ \A w \in wallets : ~w.imported => w.shown /\ (\A p \in Places : w.slots[p] = p) /\ w.phrase[1] = "new"
    /\ mark.notice => \A w \in wallets : w.phrase # mark.of

(* A wallet restored privately is scanned from where the screen said as the *)
(* person went on: from the block typed, or from a month's first block, so  *)
(* that no block of that month or later is left out and no month before is  *)
(* downloaded (StartBlockPicker, findHeightForDate, continueWithPhrase).    *)
FirstOf(h, m) ==
    /\ \A k \in Heights : MonthOf(k) >= m => k >= h
    /\ MonthOf(h) < m => h >= Tip
ScansFromThere ==
    \A w \in wallets : w.imported =>
        \/ w.said = <<"block", w.start>>
        \/ \E m \in Months : w.said = <<"month", m>> /\ w.start \in Heights \cup {1} /\ FirstOf(w.start, m)
==============================================================================

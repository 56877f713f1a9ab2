------------------------------ MODULE ChainView ------------------------------
(***************************************************************************)
(* What a wallet may believe of the chain, whatever its sync engine does   *)
(* to get there.  A chain is the sequence of its blocks and a block stands *)
(* for everything below it, so a view is the sequence that ends in the     *)
(* last block scanned, or NoView before the first one.                     *)
(***************************************************************************)
EXTENDS Naturals, Sequences, SequencesExt

CONSTANTS OnWord  \* blocks a wallet drops because a node says so

VARIABLES
    view,
    first,   \* the height the scan started from
    served,  \* the chains the node has had since the pass began
    wanted   \* the person has asked for a rescan

NoView == <<>>
Known(v) == \E chain \in served : IsPrefix(v, chain)

\* A view grows along a chain it was shown, and from its own last block.
Grow == IsStrictPrefix(view, view') /\ Known(view')

\* It drops few blocks because a node says so, and many only for a longer chain that was
\* shown to lack them.  A rescan drops all, when the person asks.
Few == Len(view) <= OnWord + (IF view' = NoView THEN first - 1 ELSE Len(view'))
Outgrown == view' # NoView /\ \E chain \in served : IsPrefix(view', chain) /\ Len(chain) > Len(view)
Drop == IsStrictPrefix(view', view) /\ (Few \/ Outgrown \/ (view' = NoView /\ wanted))

Serve == UNCHANGED view

Init == view = NoView
Next == Grow \/ Drop \/ Serve
Spec == Init /\ [][Next]_<<view, first, served, wanted>>
==============================================================================

---------------------------- MODULE SidebarFilter ----------------------------
(***************************************************************************)
(* The filter above the sidebar, in public/assets/js/quicker-faster.js:    *)
(* typing is applied after a pause, the keys move a highlight over what is *)
(* shown, and Livewire may replace the items at any time.                  *)
(***************************************************************************)
EXTENDS Naturals, Sequences, FiniteSets

CONSTANTS
    Items,      \* how many items the sidebar has, numbered from the top
    Text,       \* what may be typed
    Empty,      \* nothing typed
    Found       \* Found[q]: the items whose text has every word of q

Item == 1..Items

ASSUME SidebarAssumption ==
    /\ Items \in Nat
    /\ Empty \in Text
    /\ Found \in [Text -> SUBSET Item]
    /\ Found[Empty] = Item

VARIABLES
    typed,       \* the value of the input
    shown,       \* items that are not hidden
    highlight,   \* the item with the class sidebar-filter-active, 0 for none
    timer        \* the debounced filter is about to be applied

sidebarVars == <<typed, shown, highlight, timer>>

SidebarInit ==
    /\ typed = Empty
    /\ shown = Item
    /\ highlight = 0
    /\ timer = FALSE

\* Mutant: the highlight is left where it was.
ApplyAndKeep(q) == shown' = Found[q] /\ UNCHANGED highlight

ApplySidebarFilter(q) == shown' = Found[q] /\ highlight' = 0

TypeFilter ==
    /\ typed' \in Text
    /\ timer' = TRUE
    /\ UNCHANGED <<shown, highlight>>

FilterTimer ==
    /\ timer
    /\ timer' = FALSE
    /\ ApplySidebarFilter(typed)
    /\ UNCHANGED typed

\* The clear button, or Escape
ClearFilter ==
    /\ typed' = Empty
    /\ ApplySidebarFilter(Empty)
    /\ UNCHANGED timer

\* A morph puts every item back without style or class; the hook that follows
\* it applies the filter again.
SidebarMorphed == ApplySidebarFilter(typed) /\ UNCHANGED <<typed, timer>>

\* The shown item after i, or before it, and round again
Following(i) ==
    LET below == {j \in shown : j > i}
        least(S) == CHOOSE j \in S : \A k \in S : j <= k
    IN  IF below # {} THEN least(below) ELSE least(shown)

Preceding(i) ==
    LET above == {j \in shown : j < i}
        greatest(S) == CHOOSE j \in S : \A k \in S : j >= k
    IN  IF above # {} THEN greatest(above) ELSE greatest(shown)

MoveSidebarSelection ==
    /\ shown # {}
    /\ highlight' \in {Following(highlight), Preceding(highlight)}
    /\ UNCHANGED <<typed, shown, timer>>

\* Enter follows the link of the highlighted item, if it is shown.
ActivateSidebarSelection(i) ==
    /\ i = highlight
    /\ i \in shown
    /\ UNCHANGED sidebarVars

\* A click on an item that is shown
ClickSidebarItem(i) == i \in shown /\ UNCHANGED sidebarVars

\* Another page brings another sidebar; a timer of the old one does it nothing.
SidebarReplaced ==
    /\ typed' = Empty
    /\ shown' = Item
    /\ highlight' = 0
    /\ timer' = FALSE

SidebarStep ==
    \/ TypeFilter
    \/ FilterTimer
    \/ ClearFilter
    \/ SidebarMorphed
    \/ MoveSidebarSelection

SidebarNext ==
    \/ SidebarStep
    \/ \E i \in Item : ActivateSidebarSelection(i) \/ ClickSidebarItem(i)
    \/ SidebarReplaced

SidebarSpec == SidebarInit /\ [][SidebarNext]_sidebarVars
-----------------------------------------------------------------------------
(***************************************************************************)
(* Whatever is typed, cleared, moved to and rendered in whatever order: as *)
(* long as no filter is about to be applied, the items shown are those     *)
(* that match the input; and the item Enter would open is always shown.    *)
(***************************************************************************)
SidebarAgrees ==
    /\ ~timer => shown = Found[typed]
    /\ highlight \in shown \cup {0}
=============================================================================

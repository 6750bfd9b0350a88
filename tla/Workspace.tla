------------------------------ MODULE Workspace ------------------------------
(***************************************************************************)
(* What surrounds every page: the tabs, the sidebar, whose items open tabs *)
(* (ui-library.navigation.open_in_tabs), and the command palette.  The     *)
(* sidebar and the palette of one window are modelled.  The palette has    *)
(* nothing to do with the other two, and the filter only hides items: an   *)
(* initial state is one where the tabs, the filter or the palette is used, *)
(* and one click in the filtered sidebar stands for them all.              *)
(***************************************************************************)
EXTENDS SidebarFilter, WorkspaceTabs, CommandPalette

CONSTANTS
    Main,      \* the window with the sidebar
    UrlOf      \* UrlOf[i]: the address of sidebar item i

ASSUME WorkspaceAssumption == Main \in Window /\ UrlOf \in [Item -> Url]

VARIABLE
    used       \* what is used: "tabs", "filter" or "palette"

vars == <<sidebarVars, tabVars, paletteVars, used>>

Init ==
    /\ SidebarInit
    /\ TabsInit
    /\ PaletteInit
    /\ used \in {"tabs", "filter", "palette"}
    /\ dispatched = CASE used = "tabs" -> 0
                       [] used = "filter" -> MaxEvents - 1
                       [] used = "palette" -> MaxEvents

\* An item of the sidebar is clicked, or chosen with Enter, and opens its tab.
OpenFromSidebar(i) ==
    /\ ActivateSidebarSelection(i) \/ ClickSidebarItem(i)
    /\ OpenWorkspaceTab(Main, UrlOf[i])

\* Loading a page of the main window brings a new sidebar as well.
LeavePage(p) ==
    /\ LoadPage(p)
    /\ IF p = Main THEN SidebarReplaced ELSE UNCHANGED sidebarVars

Next ==
    \/ used = "filter" /\ SidebarStep /\ UNCHANGED <<tabVars, paletteVars, used>>
    \/ used # "palette" /\ TabStep /\ UNCHANGED <<sidebarVars, paletteVars, used>>
    \/ used # "palette" /\ (\E i \in Item : OpenFromSidebar(i)) /\ UNCHANGED <<paletteVars, used>>
    \/ used # "palette" /\ (\E p \in Window : LeavePage(p)) /\ UNCHANGED <<paletteVars, used>>
    \/ used = "palette" /\ PaletteNext /\ UNCHANGED <<sidebarVars, tabVars, used>>

Spec == Init /\ [][Next]_vars
=============================================================================

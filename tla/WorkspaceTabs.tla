---------------------------- MODULE WorkspaceTabs ----------------------------
(***************************************************************************)
(* The workspace tabs: Http/Livewire/Layouts/Navs/WorkspaceTabs.php and    *)
(* its client side in public/assets/js/quicker-faster.js.                  *)
(*                                                                         *)
(* Every window has a copy of the tabs, loaded from the session when its   *)
(* page is; each handler changes the window's copy and writes the whole of *)
(* it back.  A window's calls are answered one after the other; one that   *)
(* is on its way when the page is left still reaches the server.           *)
(***************************************************************************)
EXTENDS Naturals, Sequences, SequencesExt

CONSTANTS
    Window, Url,
    NoUrl,         \* the address of an event that has none
    MaxTabs,       \* $maxTabs
    MaxClosed,     \* how many closed tabs are remembered
    MaxEvents      \* bound: events dispatched

ASSUME TabsAssumption ==
    /\ NoUrl \notin Url
    /\ MaxTabs \in Nat \ {0}
    /\ MaxClosed \in Nat
    /\ MaxEvents \in Nat \ {0}

VARIABLES
    tabs,       \* tabs[p]: the copy of window p
    events,     \* events[p]: what waits to be answered
    adrift,     \* adrift[p]: a call whose page was left, with its copy
    session,    \* workspace_tabs, workspace_active_tab, workspace_recently_closed
    current,    \* the windows that loaded or wrote the session last
    strayed,    \* a tab was switched to that was closed before
    dispatched

tabVars == <<tabs, events, adrift, session, current, strayed, dispatched>>

None == 0
Id == 1..MaxEvents
Tab == [id : Id, url : Url]
NoTabs == [open |-> <<>>, active |-> None, closed |-> <<>>]
NoCall == [name |-> "none"]

IndexOf(open, id) ==
    IF \E i \in DOMAIN open : open[i].id = id
    THEN CHOOSE i \in DOMAIN open : open[i].id = id ELSE 0

Ids(list) == {list[i].id : i \in DOMAIN list}
Urls(list) == {list[i].url : i \in DOMAIN list}
ById(open, url) == open[CHOOSE i \in DOMAIN open : open[i].url = url].id

TabsInit ==
    /\ tabs = [p \in Window |-> NoTabs]
    /\ events = [p \in Window |-> <<>>]
    /\ adrift = [p \in Window |-> NoCall]
    /\ session = NoTabs
    /\ current = Window
    /\ strayed = FALSE
    /\ dispatched \in 0..MaxEvents
-----------------------------------------------------------------------------
(* The handlers, on one copy *)

FirstOf(list, n) == SubSeq(list, 1, IF Len(list) < n THEN Len(list) ELSE n)

\* Makes room for one more: the first tab that is not active goes, for good.
Room(c) ==
    LET others == {i \in DOMAIN c.open : c.open[i].id # c.active}
        first == IF others = {} THEN 1 ELSE CHOOSE i \in others : \A j \in others : i <= j
    IN  IF Len(c.open) < MaxTabs THEN c.open ELSE RemoveAt(c.open, first)

SwitchTab(c, id) == [c EXCEPT !.active = id]

CloseTab(c, id) ==
    LET i == IndexOf(c.open, id)
        left == RemoveAt(c.open, i)
        adjacent == IF left = <<>> THEN None
                    ELSE IF i <= Len(left) THEN left[i].id ELSE Last(left).id
    IN  IF i = 0 THEN c
        ELSE [open |-> left,
              active |-> IF c.active = id THEN adjacent ELSE c.active,
              closed |-> FirstOf(<<c.open[i]>> \o c.closed, MaxClosed)]

ReopenLastClosed(c) ==
    LET tab == Head(c.closed)
        d == [c EXCEPT !.closed = Tail(@)]
    IN  IF c.closed = <<>> THEN c
        ELSE IF tab.url \in Urls(c.open) THEN [d EXCEPT !.active = ById(c.open, tab.url)]
        ELSE [d EXCEPT !.open = Append(Room(c), tab), !.active = tab.id]

\* Mutant: the address is not looked for among the open tabs.
OpenAnother(c, url, id) ==
    [c EXCEPT !.open = Append(Room(c), [id |-> id, url |-> url]), !.active = id]

OpenTab(c, url, id) ==
    IF url \in Urls(c.open) THEN [c EXCEPT !.active = ById(c.open, url)]
    ELSE [c EXCEPT !.open = Append(Room(c), [id |-> id, url |-> url]), !.active = id]

\* Mutant: the active tab is not looked at.
CutToRight(c, id) ==
    LET i == IndexOf(c.open, id)
    IN  IF i = 0 THEN c ELSE [c EXCEPT !.open = SubSeq(@, 1, i)]

CloseAllToRight(c, id) ==
    LET i == IndexOf(c.open, id)
        left == SubSeq(c.open, 1, i)
    IN  IF i = 0 THEN c
        ELSE [c EXCEPT !.open = left,
                       !.active = IF @ \in Ids(left) THEN @ ELSE id]

\* close-others is sent with tabId to a handler that wants keepTabId: it throws.
Handle(c, e) ==
    CASE e.name = "switch-tab" -> SwitchTab(c, e.id)
      [] e.name = "close-tab" -> CloseTab(c, e.id)
      [] e.name = "close-active-tab" -> CloseTab(c, c.active)
      [] e.name = "reopen-last-closed-tab" -> ReopenLastClosed(c)
      [] e.name = "openWorkspaceTab" -> OpenTab(c, e.url, e.id)
      [] e.name = "close-all-to-right" -> CloseAllToRight(c, e.id)
      [] e.name = "close-all" -> [c EXCEPT !.open = <<>>, !.active = None]
      [] e.name = "close-others" -> c

\* Mutant: a tab that is open already is made active and forgotten.
PersistsNewTabs(c, e) ==
    CASE e.name \in {"close-tab", "close-all-to-right"} -> e.id \in Ids(c.open)
      [] e.name = "close-active-tab" -> c.active \in Ids(c.open)
      [] e.name = "reopen-last-closed-tab" ->
             c.closed # <<>> /\ Head(c.closed).url \notin Urls(c.open)
      [] e.name = "close-others" -> FALSE
      [] OTHER -> TRUE

\* The early returns come before persist().
Persists(c, e) ==
    CASE e.name \in {"close-tab", "close-all-to-right"} -> e.id \in Ids(c.open)
      [] e.name = "close-active-tab" -> c.active \in Ids(c.open)
      [] e.name = "reopen-last-closed-tab" -> c.closed # <<>>
      [] e.name = "close-others" -> FALSE
      [] OTHER -> TRUE
-----------------------------------------------------------------------------
(* The page *)

\* A tab and its menu name a tab the window shows; the address is the sidebar's.
\* An opened tab gets an id of its own.
Dispatch(p, name, id, url) ==
    /\ dispatched < MaxEvents
    /\ dispatched' = dispatched + 1
    /\ events' = [events EXCEPT ![p] = Append(@,
          [name |-> name, id |-> IF name = "openWorkspaceTab" THEN dispatched + 1 ELSE id,
           url |-> url])]
    /\ UNCHANGED <<tabs, adrift, session, current, strayed>>

ClickTab(p) ==
    \E id \in Ids(tabs[p].open) :
        \E name \in {"switch-tab", "close-tab", "close-others", "close-all-to-right", "close-all"} :
            Dispatch(p, name, id, NoUrl)

PressTabKey(p) ==
    \E name \in {"close-active-tab", "reopen-last-closed-tab"} : Dispatch(p, name, None, NoUrl)

OpenWorkspaceTab(p, url) == Dispatch(p, "openWorkspaceTab", None, url)

Straying(c, e) == e.name = "switch-tab" /\ e.id \notin Ids(c.open)

AnswerTabs(p) ==
    LET e == Head(events[p])
        c == Handle(tabs[p], e)
    IN  /\ events[p] # <<>>
        /\ events' = [events EXCEPT ![p] = Tail(@)]
        /\ tabs' = [tabs EXCEPT ![p] = c]
        /\ IF Persists(tabs[p], e) THEN session' = c /\ current' = {p}
                                   ELSE UNCHANGED <<session, current>>
        /\ strayed' = (strayed \/ Straying(tabs[p], e))
        /\ UNCHANGED <<adrift, dispatched>>

AnswerAdrift(p) ==
    LET e == adrift[p].call
        c == adrift[p].tabs
    IN  /\ adrift[p] # NoCall
        /\ IF Persists(c, e) THEN session' = Handle(c, e) /\ current' = {}
                             ELSE UNCHANGED <<session, current>>
        /\ adrift' = [adrift EXCEPT ![p] = NoCall]
        /\ strayed' = (strayed \/ Straying(c, e))
        /\ UNCHANGED <<tabs, events, dispatched>>

\* A refresh, or a link: the first call that waits is on its way or lost, the
\* others are lost.
LoadPage(p) ==
    /\ adrift[p] = NoCall
    /\ tabs' = [tabs EXCEPT ![p] = session]
    /\ events' = [events EXCEPT ![p] = <<>>]
    /\ current' = current \cup {p}
    /\ \/ UNCHANGED adrift
       \/ /\ events[p] # <<>>
          /\ adrift' = [adrift EXCEPT ![p] =
                [name |-> "adrift", call |-> Head(events[p]), tabs |-> tabs[p]]]
    /\ UNCHANGED <<session, strayed, dispatched>>

TabStep ==
    \E p \in Window : ClickTab(p) \/ PressTabKey(p) \/ AnswerTabs(p) \/ AnswerAdrift(p)

TabsNext ==
    \/ TabStep
    \/ \E p \in Window : LoadPage(p) \/ \E url \in Url : OpenWorkspaceTab(p, url)

TabsSpec == TabsInit /\ [][TabsNext]_tabVars
-----------------------------------------------------------------------------
Copies == {tabs[p] : p \in Window} \cup {session}

(***************************************************************************)
(* In no copy is a tab or an address there twice, is a tab both open and   *)
(* closed, or are there more tabs, or more closed ones, than the limit.    *)
(***************************************************************************)
TabsWellFormed ==
    \A c \in Copies :
        /\ Len(c.open) <= MaxTabs
        /\ Len(c.closed) <= MaxClosed
        /\ \A i, j \in DOMAIN c.open : c.open[i].url = c.open[j].url => i = j
        /\ \A i, j \in DOMAIN (c.open \o c.closed) :
              (c.open \o c.closed)[i].id = (c.open \o c.closed)[j].id => i = j

(***************************************************************************)
(* The active tab is one of the open ones, and there is one as long as any *)
(* is open, whichever of them are closed, evicted or reopened; unless a    *)
(* click reached a tab that another call had closed by then.               *)
(***************************************************************************)
ActiveIsOpen ==
    ~strayed => \A c \in Copies :
        IF c.open = <<>> THEN c.active = None ELSE c.active \in Ids(c.open)

(***************************************************************************)
(* Reloading the window that wrote last shows what it shows now: a handler *)
(* leaves by no way out with a change it has not written to the session.   *)
(***************************************************************************)
RefreshKeepsTabs == \A p \in current : tabs[p] = session
=============================================================================

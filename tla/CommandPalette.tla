---------------------------- MODULE CommandPalette ----------------------------
(***************************************************************************)
(* The command palette: Http/Livewire/.../QuickActionsPanel.php, its blade *)
(* and public/assets/js/quick-actions.js.                                  *)
(*                                                                         *)
(* The script opens, closes and filters at once and tells the component;   *)
(* the component answers with a rendering of its own.  Which action a      *)
(* click means is an index into the list the server filters, with the      *)
(* query that is bound when the call is sent: what was typed is bound      *)
(* after a pause.                                                          *)
(***************************************************************************)
EXTENDS Naturals, Sequences, SequencesExt

CONSTANTS
    Action,
    NoAction,
    Rankings,      \* the orders RankingEngine and the pinned actions may give
    Query,         \* what may be typed
    NoQuery,       \* nothing typed
    Blank,         \* queries PHP takes for empty once trimmed: "0" is one
    Matching,      \* Matching[q]: the actions q finds
    MaxResults,    \* command_palette.max_action_results
    MaxWaiting     \* bound: calls not sent yet

ASSUME PaletteAssumption ==
    /\ NoAction \notin Action
    /\ Rankings \subseteq Seq(Action)
    /\ NoQuery \in Blank /\ Blank \subseteq Query
    /\ Matching \in [Query -> SUBSET Action]
    /\ MaxResults \in Nat \ {0}
    /\ MaxWaiting \in Nat

VARIABLES
    panel,      \* the component as the browser has it: isOpen, query, actions
    bound,      \* the query as wire:model holds it
    input,      \* the value in the search field
    visible,    \* the overlay has the class show
    hidden,     \* actions the script has hidden
    selected,   \* selectedIndex, from 1, 0 for none
    debounce,   \* what is typed is about to be bound and sent
    flight,     \* the call that is being answered, with the query sent along
    waiting,    \* calls that wait for it
    chosen      \* actions clicked while no call was under way, with what was executed

paletteVars == <<panel, bound, input, visible, hidden, selected, debounce, flight, waiting, chosen>>

Quiet == [name |-> "none"]
Call(name) == [name |-> name, index |-> 0, meant |-> NoAction, settled |-> FALSE]

\* getFilteredActions
FilteredActions(s) ==
    LET found == SelectSeq(s.actions, LAMBDA a : a \in Matching[s.query])
    IN  IF s.query \in Blank THEN s.actions
        ELSE SubSeq(found, 1, IF Len(found) < MaxResults THEN Len(found) ELSE MaxResults)

Fresh(order) == [isOpen |-> FALSE, query |-> NoQuery, actions |-> order]

PaletteInit ==
    /\ panel \in {Fresh(order) : order \in Rankings}
    /\ bound = NoQuery
    /\ input = NoQuery
    /\ visible = FALSE
    /\ hidden = {}
    /\ selected = 0
    /\ debounce = FALSE
    /\ flight = Quiet
    /\ waiting = <<>>
    /\ chosen = {}
-----------------------------------------------------------------------------
(* Calls *)

\* A call is sent at once when none is being answered, with the query as bound.
Send(call, query) ==
    IF flight = Quiet
    THEN flight' = [call |-> call, query |-> query, name |-> call.name] /\ UNCHANGED waiting
    ELSE Len(waiting) < MaxWaiting /\ waiting' = Append(waiting, call) /\ UNCHANGED flight

Settled == flight = Quiet

\* Mutant: the query is kept for the next time.
ClosedWithQuery(s) == [s EXCEPT !.isOpen = FALSE]

Closed(s) == [s EXCEPT !.isOpen = FALSE, !.query = NoQuery]

\* Mutant: the index is looked up among all the actions.
Unfiltered(s, call) == IF call.index \in DOMAIN s.actions THEN s.actions[call.index] ELSE NoAction

Executed(s, call) ==
    LET list == FilteredActions(s)
    IN  IF call.index \in DOMAIN list THEN list[call.index] ELSE NoAction

\* The component after the call; order is the ranking as it now is.  A key the
\* registry does not know (index 0) leaves it open.
After(s, call, order) ==
    CASE call.name = "open" -> [isOpen |-> TRUE, query |-> NoQuery, actions |-> order]
      [] call.name = "close" -> Closed(s)
      [] call.name = "toggleFavorite" -> [s EXCEPT !.actions = order]
      [] call.name = "executeActionById" -> IF call.index = 0 THEN s ELSE Closed(s)
      [] call.name = "selectResult" -> IF Executed(s, call) = NoAction THEN s ELSE Closed(s)
      [] call.name = "updateQuery" -> s

\* The answer replaces what the browser shows, and what is typed only if that
\* changes what is bound.
AnswerPanel ==
    /\ flight # Quiet
    /\ \E order \in Rankings :
          LET s == [panel EXCEPT !.query = flight.query]
              t == After(s, flight.call, order)
              query == IF t.query # flight.query THEN t.query ELSE bound
          IN  /\ panel' = t
              /\ bound' = query
              /\ input' = IF query # bound THEN query ELSE input
              /\ visible' = t.isOpen
              /\ chosen' = IF flight.call.settled
                           THEN chosen \cup {<<flight.call.meant, Executed(s, flight.call)>>}
                           ELSE chosen
              /\ IF waiting = <<>>
                 THEN flight' = Quiet /\ UNCHANGED waiting
                 ELSE /\ flight' = [call |-> Head(waiting), query |-> query, name |-> Head(waiting).name]
                      /\ waiting' = Tail(waiting)
    /\ hidden' = {}
    /\ UNCHANGED <<selected, debounce>>
-----------------------------------------------------------------------------
(* The script and the page *)

Shown == FilteredActions(panel)

FilterActions(q) == hidden' = ToSet(Shown) \ Matching[q]

\* Mod+K, and the event that filters again
OpenPanel ==
    /\ ~visible
    /\ visible' = TRUE
    /\ FilterActions(input)
    /\ Send(Call("open"), bound)
    /\ UNCHANGED <<panel, bound, input, selected, debounce, chosen>>

\* Mod+K or Escape, or a click on the backdrop, which is there until the answer
ClosePanel ==
    /\ visible \/ panel.isOpen
    /\ visible' = FALSE
    /\ selected' = 0
    /\ input' = NoQuery
    /\ hidden' = {}
    /\ Send(Call("close"), bound)
    /\ UNCHANGED <<panel, bound, debounce, chosen>>

\* The script filters with each letter.
TypeQuery ==
    /\ panel.isOpen
    /\ \E q \in Query : input' = q /\ FilterActions(q)
    /\ selected' = 0
    /\ debounce' = TRUE
    /\ UNCHANGED <<panel, bound, visible, flight, waiting, chosen>>

\* After the pause wire:model.live binds what the field then holds, and sends it.
UpdateQuery ==
    /\ debounce
    /\ debounce' = FALSE
    /\ bound' = input
    /\ Send(Call("updateQuery"), input)
    /\ UNCHANGED <<panel, input, visible, hidden, selected, chosen>>

\* Hidden items count: the index is into all that are rendered.
MoveSelection ==
    /\ visible
    /\ selected' \in {IF selected < Len(Shown) THEN selected + 1 ELSE Len(Shown),
                      IF selected > 1 THEN selected - 1 ELSE 1}
    /\ UNCHANGED <<panel, bound, input, visible, hidden, debounce, flight, waiting, chosen>>

ClickAction(i) ==
    /\ i \in DOMAIN Shown
    /\ Send([name |-> "selectResult", index |-> i, meant |-> Shown[i], settled |-> Settled], bound)
    /\ UNCHANGED <<panel, bound, input, visible, hidden, selected, debounce, chosen>>

\* The item itself, if it can be seen, or Enter
SelectAction ==
    \/ \E i \in DOMAIN Shown : panel.isOpen /\ Shown[i] \notin hidden /\ ClickAction(i)
    \/ visible /\ ClickAction(selected)

\* Mod+Shift+1..9 needs no panel and names the action; the star names it too.
PressShortcut ==
    /\ \/ \E known \in {0, 1} : Send([Call("executeActionById") EXCEPT !.index = known], bound)
       \/ panel.isOpen /\ Shown # <<>> /\ Send(Call("toggleFavorite"), bound)
    /\ UNCHANGED <<panel, bound, input, visible, hidden, selected, debounce, chosen>>

\* An action may lead to another page, where everything starts again.
PaletteReplaced ==
    /\ \E order \in Rankings : panel' = Fresh(order)
    /\ bound' = NoQuery
    /\ input' = NoQuery
    /\ visible' = FALSE
    /\ hidden' = {}
    /\ selected' = 0
    /\ debounce' = FALSE
    /\ flight' = Quiet
    /\ waiting' = <<>>
    /\ UNCHANGED chosen

PaletteStep ==
    \/ AnswerPanel
    \/ OpenPanel
    \/ ClosePanel
    \/ TypeQuery
    \/ UpdateQuery
    \/ MoveSelection
    \/ SelectAction
    \/ PressShortcut

PaletteNext == PaletteStep \/ PaletteReplaced

PaletteSpec == PaletteInit /\ [][PaletteNext]_paletteVars
-----------------------------------------------------------------------------
(***************************************************************************)
(* A click on, or Enter at, an action while no call is under way executes  *)
(* that action, whatever was typed within the pause before it, and         *)
(* whatever is typed, moved or closed before the answer.                   *)
(***************************************************************************)
ChosenIsExecuted == \A c \in chosen : c[1] = c[2]

(***************************************************************************)
(* However opening, typing and closing overlap with their answers: once    *)
(* nothing is under way, the overlay is there exactly when the component   *)
(* is open, and the field shows the query whose results are listed.        *)
(***************************************************************************)
PaletteAgrees ==
    (flight = Quiet /\ ~debounce) =>
        /\ visible = panel.isOpen
        /\ input = panel.query
        /\ bound = panel.query
        /\ hidden = {}
=============================================================================

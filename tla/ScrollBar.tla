------------------------------- MODULE ScrollBar -------------------------------
(* Scroll bars that hide themselves, jump to the end on quick clicks and have a *)
(* context menu with options: utilgui/ScrollBarController.cpp with the menu of   *)
(* utilgui/CheckableMenu.cpp.                                                     *)
EXTENDS Integers, Sequences, FiniteSets

CONSTANTS
  MaxValue,        \* the scroll bar goes from 0 to MaxValue
  Menu             \* the standard context menu: names of actions, "" for separators

Bars == {"V", "H"}

\* Where the mouse can be: inside the viewport, or outside of it; the last two of
\* each within the strip along one of the bars.
Inside  == {"middle", "nearV", "nearH"}
Outside == {"away", "besideV", "besideH"}
Strip(bar) == IF bar = "V" THEN {"nearV", "besideV"} ELSE {"nearH", "besideH"}

VARIABLES
  hiding,          \* the timers exist: scroll bars are to be hidden
  cursor,          \* where the mouse is
  timer,           \* m_timerV and m_timerH are running
  policy,          \* of each bar: "asNeeded" or "alwaysOff"
  entered,         \* history: the mouse has been inside
  value, recent,   \* of a bar; less than 400 ms since m_clickTime
  enabled,         \* settings: ui/ScrollBarContextMenu/Items/<row>, rows from 0
  menu,            \* the context menu that is open: visibility of its actions
  options,         \* the rows of its options: name and check mark
  wanted           \* history: the actions by name, as the user chose them

bars   == <<hiding, cursor, timer, policy, entered>>
slider == <<value, recent>>
menus  == <<enabled, menu, options, wanted>>
vars   == <<bars, slider, menus>>

ActionAt   == {i \in DOMAIN Menu : Menu[i] # ""}
Names      == {Menu[i] : i \in ActionAt}
Rows       == 0 .. Cardinality(ActionAt) - 1

Init ==
  /\ hiding \in BOOLEAN /\ cursor = "away"
  /\ timer = [b \in Bars |-> FALSE] /\ policy = [b \in Bars |-> "asNeeded"]
  /\ entered = FALSE
  /\ value \in {0, MaxValue} /\ recent = TRUE
  /\ enabled = [r \in Rows |-> TRUE] /\ menu = <<>> /\ options = <<>>
  /\ wanted = [n \in Names |-> TRUE]

-------------------------------------------------------------------------------
(* Hiding *)

\* OnTimeoutV() and OnTimeoutH(): next to the bar the timer keeps running.
PolicyAt(bar, at) == IF at \in Strip(bar) THEN "asNeeded" ELSE "alwaysOff"
TimerAt(bar, at)  == timer[bar] /\ at \in Strip(bar)

StartTimers == hiding => timer' = [b \in Bars |-> TRUE]
StopTimers  == hiding => timer' = [b \in Bars |-> FALSE]
Untouched   == ~hiding => timer' = timer /\ policy' = policy

Enter(at) ==
  /\ cursor \in Outside /\ cursor' = at /\ entered' = TRUE
  /\ StopTimers /\ Untouched /\ UNCHANGED <<hiding, policy>>

Leave(at) ==
  /\ cursor \in Inside /\ cursor' = at
  /\ StartTimers /\ Untouched /\ UNCHANGED <<hiding, policy, entered>>

MouseMove(at) ==
  /\ cursor \in Inside /\ cursor' = at
  /\ hiding => /\ policy' = [b \in Bars |-> PolicyAt(b, at)]
               /\ timer'  = [b \in Bars |-> TimerAt(b, at)]
  /\ Untouched /\ UNCHANGED <<hiding, entered>>

\* Outside of the viewport no events come.
MoveOutside(at) ==
  /\ cursor \in Outside /\ cursor' = at
  /\ UNCHANGED <<hiding, timer, policy, entered>>

Timeout(bar) ==
  /\ timer[bar]
  /\ policy' = [policy EXCEPT ![bar] = PolicyAt(bar, cursor)]
  /\ timer'  = [timer EXCEPT ![bar] = TimerAt(bar, cursor)]
  /\ UNCHANGED <<hiding, cursor, entered>>

-------------------------------------------------------------------------------
(* Arrow buttons *)

\* OnArrowButtonClicked(), after QScrollBar's own step: with Ctrl, or soon after
\* a click that was not a jump, to the end.
ArrowClick(up, control) ==
  /\ IF control \/ recent
     THEN value' = (IF up THEN 0 ELSE MaxValue) /\ UNCHANGED recent
     ELSE /\ value' = (IF up THEN (IF value = 0 THEN 0 ELSE value - 1)
                             ELSE (IF value = MaxValue THEN value ELSE value + 1))
          /\ recent' = TRUE

Wait400 == recent /\ recent' = FALSE /\ UNCHANGED value

-------------------------------------------------------------------------------
(* The context menu and its options *)

\* A bug to try: rows are counted with the separators.
PositionOf(i) == i - 1

\* The row of an action: separators have no text and do not count.
RowOf(i) == Cardinality({k \in ActionAt : k < i})

\* A setting that does not exist is true.
EnabledAt(i) == IF RowOf(i) \in DOMAIN enabled THEN enabled[RowOf(i)] ELSE TRUE

Strings == [r \in 1 .. Cardinality(ActionAt) |->
              LET i == CHOOSE i \in ActionAt : Cardinality({k \in ActionAt : k < i}) = r - 1
              IN [name |-> Menu[i], checked |-> EnabledAt(i)]]

ContextMenu ==
  /\ menu = <<>> /\ options = <<>>
  /\ menu'    = [i \in DOMAIN Menu |-> IF Menu[i] = "" THEN TRUE ELSE EnabledAt(i)]
  /\ options' = Strings
  /\ UNCHANGED <<enabled, wanted>>

\* The callback of CreateCheckableMenu() stores the row that changed.
Toggle(row) ==
  /\ row \in DOMAIN options
  /\ LET checked == ~options[row].checked
     IN /\ options' = [options EXCEPT ![row].checked = checked]
        /\ enabled' = [enabled EXCEPT ![row - 1] = checked]
        /\ wanted'  = [wanted EXCEPT ![options[row].name] = checked]
  /\ UNCHANGED menu

CloseMenus ==
  /\ menu # <<>> /\ menu' = <<>> /\ options' = <<>>
  /\ UNCHANGED <<enabled, wanted>>

-------------------------------------------------------------------------------

NextBars ==
  \/ \E at \in Inside : Enter(at) \/ MouseMove(at)
  \/ \E at \in Outside : Leave(at) \/ MoveOutside(at)
  \/ \E bar \in Bars : Timeout(bar)

NextSlider == Wait400 \/ \E up, control \in BOOLEAN : ArrowClick(up, control)

NextMenus == ContextMenu \/ CloseMenus \/ \E row \in 1 .. Len(Menu) : Toggle(row)

Next ==
  \/ NextBars /\ UNCHANGED <<slider, menus>>
  \/ NextSlider /\ UNCHANGED <<bars, menus>>
  \/ NextMenus /\ UNCHANGED <<bars, slider>>

Spec == Init /\ [][Next]_vars

-------------------------------------------------------------------------------
(* Properties *)

\* Timers run only where bars are to be hidden.
TypeOK ==
  /\ hiding \in BOOLEAN /\ entered \in BOOLEAN /\ cursor \in Inside \cup Outside
  /\ timer \in [Bars -> BOOLEAN] /\ policy \in [Bars -> {"asNeeded", "alwaysOff"}]
  /\ ~hiding => \A b \in Bars : ~timer[b] /\ policy[b] = "asNeeded"
  /\ value \in 0 .. MaxValue /\ recent \in BOOLEAN
  /\ enabled \in [Rows -> BOOLEAN] /\ wanted \in [Names -> BOOLEAN]
  /\ Len(menu) \in {0, Len(Menu)} /\ Len(options) \in {0, Cardinality(ActionAt)}

\* A bar that may show, after the mouse has been there and left, has a timer that
\* will hide it: no bar is forgotten, whichever way the mouse went.
NoForgottenBar ==
  \A b \in Bars :
    hiding /\ entered /\ cursor \in Outside /\ policy[b] = "asNeeded" => timer[b]

\* The context menu shows exactly the actions that the user has left checked by
\* name in the options.
ShowsWanted == ContextMenu => \A i \in ActionAt : menu'[i] = wanted[Menu[i]]

=============================================================================

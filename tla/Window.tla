--------------------------------- MODULE Window ---------------------------------
(* A window that comes back where it was: utilgui/GeometryRestorable.cpp with   *)
(* settings/Font.cpp. The window saves itself whenever it is hidden and          *)
(* restores itself whenever it is shown; its fonts follow the settings.          *)
EXTENDS Integers, FiniteSets

CONSTANTS
  Places,          \* where a window can be: the centers of rectangles
  Center,          \* the center of the primary screen
  Partings,        \* positions of a splitter that a user can choose
  Widgets, Root,   \* the widgets of the window, itself among them
  OwnSize(_),      \* the font size a widget is designed with, FONT_SIZE_DEFAULT being 1
  FontSizes,       \* font sizes that settings can hold
  Unset,           \* no value in the settings
  MaxEvents        \* bounds what happens to the window

Large  == {"maximized", "fullscreen"}
States == {"normal"} \cup Large

VARIABLES
  store,           \* settings: ui/<name>/Geometry, State, the splitter's, ui/Font/pointSizeF
  life,            \* of the object: "none", "created", "loaded" after LoadGeometry()
  initialized,     \* m_initialized
  visible, minimized, state, place, parting,  \* of the widget: Qt
  fontSize,        \* of each widget
  base,            \* m_widgets: the sizes that were collected, Unset before
  fontTimer,       \* m_fontTimer is running
  stretching,      \* an event of InitSplitter() is pending, of this object or an earlier one
  screens,         \* the places that lie on a screen
  last,            \* history: the window when it was saved last
  events           \* bounded by MaxEvents

vars == <<store, life, initialized, visible, minimized, state, place, parting,
          fontSize, base, fontTimer, stretching, screens, last, events>>

Something == events < MaxEvents /\ events' = events + 1

Init ==
  /\ store = [geometry |-> Unset, state |-> "normal", splitter |-> Unset, font |-> Unset]
  /\ life = "none" /\ initialized = FALSE
  /\ visible = FALSE /\ minimized = FALSE /\ state = "normal"
  /\ place = Center /\ parting = "initial"
  /\ fontSize = [w \in Widgets |-> OwnSize(w)] /\ base = Unset
  /\ fontTimer = FALSE /\ stretching = FALSE
  /\ screens = Places /\ last = Unset /\ events = 0

-------------------------------------------------------------------------------
(* Saving, showing and fonts *)

\* CollectWidgets(): once, and kept.
CollectWidgets == IF base = Unset THEN fontSize ELSE base

\* OnFontChanged() scales the sizes it collected. Without a stored size, the size
\* of the window itself, which it scaled before, takes its place.
OnFontChanged ==
  LET size == IF store.font = Unset THEN fontSize[Root] ELSE store.font
  IN /\ base' = CollectWidgets
     /\ fontSize' = [w \in Widgets |-> CollectWidgets[w] * size]

\* Where a pending event will put the splitter.
Due == IF stretching THEN {"stretched"} ELSE {}

\* OnHide(): of a large window only its state is saved.
OnHide ==
  /\ initialized' = FALSE
  /\ IF initialized
     THEN /\ store' = [store EXCEPT !.state    = state,
                                    !.geometry = IF state \in Large THEN @ ELSE place,
                                    !.splitter = parting]
          /\ last' = [state |-> state, place |-> place, parting |-> parting,
                      due |-> Due]
     ELSE UNCHANGED <<store, last>>

\* A bug to try: the geometry is used wherever it lies.
Anywhere(to) == to

\* SetGeometry(): to the center of the primary screen if no screen has it.
OntoScreen(to) == IF to \in screens THEN to ELSE Center

\* OnShow(): a window that is large already keeps its geometry.
OnShow ==
  /\ initialized' = TRUE
  /\ IF initialized THEN UNCHANGED <<base, fontSize, place, state>>
     ELSE /\ OnFontChanged
          /\ place' = IF state \notin Large /\ store.geometry # Unset
                      THEN OntoScreen(store.geometry) ELSE place
          /\ state' = IF state \notin Large /\ store.state \in Large
                      THEN store.state ELSE state

-------------------------------------------------------------------------------
(* Operations *)

\* The program opens the window: a new widget, registered with the settings.
Create ==
  /\ life = "none" /\ Something
  /\ life' = "created" /\ initialized' = FALSE
  /\ visible' = FALSE /\ minimized' = FALSE /\ state' = "normal"
  /\ place' = Center /\ parting' = "initial"
  /\ fontSize' = [w \in Widgets |-> OwnSize(w)] /\ base' = Unset
  /\ UNCHANGED <<store, fontTimer, stretching, screens, last>>

LoadGeometry ==
  /\ life = "created"
  /\ life' = "loaded"
  /\ IF store.splitter = Unset THEN stretching' = TRUE /\ UNCHANGED parting
                               ELSE parting' = store.splitter /\ UNCHANGED stretching
  /\ UNCHANGED <<store, initialized, visible, minimized, state, place, fontSize, base,
                 fontTimer, screens, last, events>>

\* InitSplitter(): the widgets share the space by their stretch factors, if they
\* have any.  The event may come at any time, also when the window has been moved,
\* hidden or closed before.  Nothing takes it away with the splitter: then it may
\* find nothing, or the splitter of the next window where the old one has been.
Stretch ==
  /\ stretching
  /\ stretching' = FALSE /\ parting' \in {parting, "stretched"}
  /\ UNCHANGED <<store, life, initialized, visible, minimized, state, place, fontSize,
                 base, fontTimer, screens, last, events>>

\* Show and hide events also come when the user minimizes and restores a window.
Show ==
  /\ life = "loaded" /\ Something
  /\ ~visible
  /\ visible' = TRUE /\ minimized' = FALSE
  /\ OnShow
  /\ UNCHANGED <<store, life, parting, fontTimer, stretching, screens, last>>

Hide ==
  /\ visible
  /\ visible' = FALSE /\ minimized' \in BOOLEAN
  /\ OnHide
  /\ UNCHANGED <<life, state, place, parting, fontSize, base, fontTimer, stretching,
                 screens, events>>

\* The destructor of the window's class calls SaveGeometry(), which is OnHide(),
\* and destroys the object with its timer.
Close ==
  /\ life = "loaded"
  /\ life' = "none" /\ visible' = FALSE /\ minimized' = FALSE /\ fontTimer' = FALSE
  /\ OnHide
  /\ UNCHANGED <<state, place, parting, fontSize, base, stretching, screens, events>>

\* The program is killed: nothing is saved.
Kill ==
  /\ life # "none"
  /\ life' = "none" /\ initialized' = FALSE /\ visible' = FALSE /\ minimized' = FALSE
  /\ fontTimer' = FALSE /\ stretching' = FALSE
  /\ UNCHANGED <<store, state, place, parting, fontSize, base, screens, last, events>>

\* The user moves a normal window or its splitter, makes it large or normal.
Move(to, at) ==
  /\ visible /\ state = "normal" /\ to \in screens /\ Something
  /\ place' = to /\ parting' = at
  /\ UNCHANGED <<store, life, initialized, visible, minimized, state, fontSize, base,
                 fontTimer, stretching, screens, last>>

ChangeState(to) ==
  /\ visible /\ state # to /\ Something
  /\ state' = to
  /\ UNCHANGED <<store, life, initialized, visible, minimized, place, parting, fontSize,
                 base, fontTimer, stretching, screens, last>>

\* A font is chosen: HandleValueChanged() starts the timer of a window that is
\* there, which calls OnFontChanged().
SetFont(size) ==
  /\ store.font # size /\ Something
  /\ store' = [store EXCEPT !.font = size]
  /\ fontTimer' = (life # "none")
  /\ UNCHANGED <<life, initialized, visible, minimized, state, place, parting, fontSize,
                 base, stretching, screens, last>>

FontTimeout ==
  /\ fontTimer
  /\ fontTimer' = FALSE
  /\ OnFontChanged
  /\ UNCHANGED <<store, life, initialized, visible, minimized, state, place, parting,
                 stretching, screens, last, events>>

\* Screens come and go, the primary one stays; Qt moves no hidden window.
ChangeScreens(to) ==
  /\ ~visible /\ screens # to /\ Something
  /\ screens' = to
  /\ UNCHANGED <<store, life, initialized, visible, minimized, state, place, parting,
                 fontSize, base, fontTimer, stretching, last>>

Next ==
  \/ Create \/ LoadGeometry \/ Stretch \/ Show \/ Hide \/ Close \/ Kill \/ FontTimeout
  \/ \E to \in Places, at \in Partings : Move(to, at)
  \/ \E to \in States : ChangeState(to)
  \/ \E size \in FontSizes : SetFont(size)
  \/ \E to \in {s \in SUBSET Places : Center \in s} : ChangeScreens(to)

Spec == Init /\ [][Next]_vars

-------------------------------------------------------------------------------
(* Properties *)

\* Only an object that is there is initialized, and only after LoadGeometry().
TypeOK ==
  /\ store \in [geometry : Places \cup {Unset}, state : States,
                splitter : Partings \cup {"initial", "stretched", Unset},
                font : FontSizes \cup {Unset}]
  /\ life \in {"none", "created", "loaded"}
  /\ initialized \in BOOLEAN /\ initialized => life = "loaded"
  /\ visible => initialized /\ ~minimized
  /\ state \in States /\ place \in Places /\ screens \in SUBSET Places
  /\ parting \in Partings \cup {"initial", "stretched"}
  /\ fontSize \in [Widgets -> Nat \ {0}]
  /\ base = Unset \/ base \in [Widgets -> Nat \ {0}]
  /\ fontTimer => life # "none"
  /\ stretching \in BOOLEAN

\* A window that is shown looks as it looked when it was hidden or closed last,
\* in another run of the program too: it is as large, or it is normal and at the
\* same place, if that still lies on a screen, and its splitter is where it was
\* left, unless the stretch of its first time was still to come when it was saved
\* and has come since. A window is never shown outside of all screens.
ShowsSaved ==
  Show =>
    /\ state' = "normal" => place' \in screens
    /\ last # Unset =>
         /\ state' = last.state
         /\ parting' \in {last.parting} \cup last.due
         /\ state' = "normal" /\ last.place \in screens => place' = last.place

\* However often the font changes and the window is shown, every widget has its
\* own size scaled once by the size that is stored, as soon as there is one and
\* the timer has run out.
FontsScaledOnce ==
  base # Unset /\ store.font # Unset /\ ~fontTimer /\ life # "none"
    => fontSize = [w \in Widgets |-> OwnSize(w) * store.font]
=============================================================================

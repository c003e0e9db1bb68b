------------------------------ MODULE MCProgram ------------------------------
(* The settings, the widgets and the helpers of the program share no state and *)
(* are checked side by side: the initial state picks one of them, and the      *)
(* variables of the others stay as they are. Components of which only one is   *)
(* picked share the variables that have the same name.                         *)
EXTENDS Settings

CONSTANTS a, b, inner, outer,            \* threads and groups
          HeaderRows, HeaderColumns, RowSpans, ColumnSpans, SizeHints, DefaultSize, LevelSize,
          MaxSpans, MaxResizes,                  \* of MultiHeaderView
          leftPlace, rightPlace, parted, Unset,  \* of Window
          Observables, Watchers, MaxLoops,       \* of Observers
          Objects, IDs, Signals, Slots, Owner(_), MaxOffers,  \* of ObjectsConnector
          Rectangles, Center, Partings, Widgets, Root, OwnSize(_), FontSizes, MaxEvents,  \* of Window
          LastPosition, Menu,                    \* of ScrollBar
          Size, BufferSize, MaxBlock, MaxWrites, \* of StreamWrapper
          MaxValue, MaxLength, MaxSide,          \* of Algorithms
          Collation, MaxWeight,                  \* of SortString
          MaxTasks, MaxNested,                   \* of SyncExecutor
          Workers, Steps, Total, MaxCount,       \* of Progress
          Users,                                 \* of XmlPlatform
          FileKeys, FileGroups, FileValues, Replaced, FileDepth, FileCalls  \* of SettingsFiles

ASSUME LoopsAssumption == MaxLoops \in Nat

ASSUME HeaderAssumption ==
  /\ {HeaderRows, HeaderColumns, MaxSpans, MaxResizes} \subseteq Nat
  /\ RowSpans \cup ColumnSpans \subseteq Nat
  /\ SizeHints \cup {DefaultSize, LevelSize} \subseteq Nat \ {0}

ASSUME WindowAssumption ==
  /\ Center \in Rectangles /\ Root \in Widgets /\ FontSizes \subseteq Nat \ {0}
  /\ \A w \in Widgets : OwnSize(w) \in Nat \ {0}
  /\ Unset \notin Rectangles /\ Unset \notin Partings \cup {"initial", "stretched"}
  /\ Unset \notin FontSizes /\ Unset \notin [Widgets -> Nat \ {0}]
  /\ Unset \notin [state : {"normal", "maximized", "fullscreen"}, place : Rectangles,
                   parting : Partings \cup {"initial", "stretched"}, due : SUBSET {"stretched"}]

\* No two actions of a context menu have one name; "" stands for separators.
ASSUME MenuAssumption ==
  /\ Menu \in Seq(STRING) /\ LastPosition \in Nat
  /\ \A i, j \in DOMAIN Menu : Menu[i] = Menu[j] /\ Menu[i] # "" => i = j

ASSUME StreamAssumption == {Size, MaxBlock, MaxWrites} \subseteq Nat /\ BufferSize \in Nat \ {0}

ASSUME FilesAssumption == FileCalls \in Nat

ASSUME AlgorithmsAssumption == {MaxValue, MaxLength, MaxSide} \subseteq Nat

\* Empty strings can be sorted after all others.
ASSUME OrderAssumption == Collation \subseteq Int /\ MaxWeight \in Nat /\ MaxWeight > 8

ASSUME StepsAssumption == Steps \subseteq Nat \ {0}

ASSUME UsersAssumption == IsFiniteSet(Users) /\ "none" \notin Users

VARIABLES part,                                                  \* the component picked
          orientation, rowSpan, columnSpan, height, width,
          sectionSize, spans, resizes,                           \* MultiHeaderView
          life, initialized, visible, minimized, state, place, parting, fontSize,
          base, fontTimer, stretching, screens, last, events,    \* Window
          hiding, cursor, timer, policy, entered, value, recent,
          enabled, menu, options, wanted,                        \* ScrollBar
          here, watching, observers, observables, loops, undefined,   \* Observers
          living, g_signals, g_slots, wired, severed,            \* ObjectsConnector
          content, pos, unread, file, at, got, careless, writes, \* StreamWrapper
          one, other, begin, result, first1, first2, answer, size, max,  \* Algorithms
          replacement, filePath, frames, copying, source, target, home, calls,  \* SettingsFiles
          locale, lhs, rhs, third,                               \* SortString
          busy, escaped, tasks,                                  \* SyncExecutor
          m_count, m_currentPct, pct, logged,                    \* Progress
          g_counter, guard, platform, user,                      \* XmlPlatform
          installed, queue, given, document, page, waiting, leftError, covers  \* DjVu

\* store is also Window's, pc is also Progress's and DjVu's, calls is also
\* SyncExecutor's, answer is also DjVu's; path, base and file are also SettingsFiles'.
settingsOnly == <<mine, holds, pending, told, silent, stray, windowed, used>>
headerVars   == <<orientation, rowSpan, columnSpan, height, width, sectionSize, spans, resizes>>
windowOnly   == <<life, initialized, visible, minimized, state, place, parting,
                  fontSize, fontTimer, stretching, screens, last, events>>
barVars      == <<hiding, cursor, timer, policy, entered, value, recent,
                  enabled, menu, options, wanted>>
observerVars == <<here, watching, observers, observables, loops, undefined>>
objectVars   == <<living, g_signals, g_slots, wired, severed>>
streamOnly   == <<content, pos, unread, at, got, careless, writes>>
sequenceOnly == <<one, other, begin, result, first1, first2, size, max>>
filesOnly    == <<replacement, filePath, frames, copying, source, target, home>>
orderVars    == <<locale, lhs, rhs, third>>
syncOnly     == <<busy, escaped, tasks>>
progressOnly == <<m_count, m_currentPct, pct, logged>>
platformVars == <<g_counter, guard, platform, user>>
djvuOnly     == <<installed, queue, given, document, page, waiting, leftError, covers>>
sharedVars   == <<path, store, base, file, pc, calls, answer>>
partVars     == <<part, settingsOnly, headerVars, windowOnly, barVars, observerVars, objectVars,
                  streamOnly, sequenceOnly, filesOnly, orderVars, syncOnly, progressOnly,
                  platformVars, djvuOnly, sharedVars>>

TwoThreads == {a, b}
TwoGroups  == {inner, outer}

Header == INSTANCE MultiHeaderView WITH Rows <- HeaderRows, Columns <- HeaderColumns

\* A window and a child designed with a larger font.
MCOwnSize(w) == IF w = "window" THEN 1 ELSE 2

MCRectangles == {leftPlace, rightPlace}
MCPartings   == {parted}

Restorable == INSTANCE Window WITH Places <- Rectangles

MCMenu == <<"here", "", "top", "bottom">>

Bar == INSTANCE ScrollBar WITH MaxValue <- LastPosition

Registry == INSTANCE Observers

\* One object offers two signals, one a slot, and one both.
MCSignals == {<<"x", "s">>, <<"x", "t">>, <<"y", "s">>}
MCSlots   == {<<"y", "slot">>, <<"z", "slot">>}
MCOwner(offer) == offer[1]

Connector == INSTANCE ObjectsConnector

Stream == INSTANCE StreamWrapper

Sequence == INSTANCE Algorithms

Files == INSTANCE SettingsFiles WITH
  Keys <- FileKeys, Groups <- FileGroups, Values <- FileValues,
  MaxDepth <- FileDepth, MaxCalls <- FileCalls

Order == INSTANCE SortString WITH Keys <- Collation

Sync == INSTANCE SyncExecutor

\* With a total of 213, seventy and seventy-one items have different percentages,
\* 141 and 142 have the same.
Counter == INSTANCE Progress WITH Threads <- Workers, total <- Total

Platform == INSTANCE XmlPlatform

Djvu == INSTANCE DjVu WITH MaxCovers <- 4, MaxQueue <- 4

-----------------------------------------------------------------------------

\* The variables of a component that is not picked.
IdleSettings ==
  /\ mine = <<>> /\ holds = <<>> /\ pending = <<>> /\ told = <<>> /\ silent = <<>>
  /\ stray = <<>> /\ windowed = <<>> /\ used = <<>>

IdleHeader ==
  /\ orientation = <<>> /\ rowSpan = <<>> /\ columnSpan = <<>> /\ height = <<>> /\ width = <<>>
  /\ sectionSize = <<>> /\ spans = <<>> /\ resizes = <<>>

IdleRestorable ==
  /\ life = <<>> /\ initialized = <<>> /\ visible = <<>> /\ minimized = <<>> /\ state = <<>>
  /\ place = <<>> /\ parting = <<>> /\ fontSize = <<>> /\ fontTimer = <<>> /\ stretching = <<>>
  /\ screens = <<>> /\ last = <<>> /\ events = <<>>

IdleBar ==
  /\ hiding = <<>> /\ cursor = <<>> /\ timer = <<>> /\ policy = <<>> /\ entered = <<>>
  /\ value = <<>> /\ recent = <<>> /\ enabled = <<>> /\ menu = <<>> /\ options = <<>>
  /\ wanted = <<>>

IdleRegistry ==
  /\ here = <<>> /\ watching = <<>> /\ observers = <<>> /\ observables = <<>> /\ loops = <<>>
  /\ undefined = <<>>

IdleConnector ==
  /\ living = <<>> /\ g_signals = <<>> /\ g_slots = <<>> /\ wired = <<>> /\ severed = <<>>

IdleStream ==
  /\ content = <<>> /\ pos = <<>> /\ unread = <<>> /\ at = <<>> /\ got = <<>> /\ careless = <<>>
  /\ writes = <<>>

IdleSequence ==
  /\ one = <<>> /\ other = <<>> /\ begin = <<>> /\ result = <<>> /\ first1 = <<>>
  /\ first2 = <<>> /\ size = <<>> /\ max = <<>>

IdleFiles ==
  /\ replacement = <<>> /\ filePath = <<>> /\ frames = <<>> /\ copying = <<>> /\ source = <<>>
  /\ target = <<>> /\ home = <<>>

IdleOrder ==
  /\ locale = <<>> /\ lhs = <<>> /\ rhs = <<>> /\ third = <<>>

IdleSync ==
  /\ busy = <<>> /\ escaped = <<>> /\ tasks = <<>>

IdleCounter ==
  /\ m_count = <<>> /\ m_currentPct = <<>> /\ pct = <<>> /\ logged = <<>>

IdlePlatform ==
  /\ g_counter = <<>> /\ guard = <<>> /\ platform = <<>> /\ user = <<>>

IdleDjvu ==
  /\ installed = <<>> /\ queue = <<>> /\ given = <<>> /\ document = <<>> /\ page = <<>>
  /\ waiting = <<>> /\ leftError = <<>> /\ covers = <<>>

\* The components other than the one picked have their variables empty.
OthersIdle ==
  /\ IF part = "settings" THEN TRUE ELSE IdleSettings
  /\ IF part = "header" THEN TRUE ELSE IdleHeader
  /\ IF part = "window" THEN TRUE ELSE IdleRestorable
  /\ IF part = "bar" THEN TRUE ELSE IdleBar
  /\ IF part = "observers" THEN TRUE ELSE IdleRegistry
  /\ IF part = "objects" THEN TRUE ELSE IdleConnector
  /\ IF part = "stream" THEN TRUE ELSE IdleStream
  /\ IF part = "sequences" THEN TRUE ELSE IdleSequence
  /\ IF part = "files" THEN TRUE ELSE IdleFiles
  /\ IF part = "order" THEN TRUE ELSE IdleOrder
  /\ IF part = "sync" THEN TRUE ELSE IdleSync
  /\ IF part = "progress" THEN TRUE ELSE IdleCounter
  /\ IF part = "platform" THEN TRUE ELSE IdlePlatform
  /\ IF part = "djvu" THEN TRUE ELSE IdleDjvu
  /\ IF part \in {"settings", "files"} THEN TRUE ELSE path = <<>>
  /\ IF part \in {"settings", "window"} THEN TRUE ELSE store = <<>>
  /\ IF part \in {"window", "files"} THEN TRUE ELSE base = <<>>
  /\ IF part \in {"stream", "files"} THEN TRUE ELSE file = <<>>
  /\ IF part \in {"settings", "progress", "djvu"} THEN TRUE ELSE pc = <<>>
  /\ IF part \in {"files", "sync"} THEN TRUE ELSE calls = <<>>
  /\ IF part \in {"sequences", "djvu"} THEN TRUE ELSE answer = <<>>

PartInit ==
  \/ part = "settings" /\ Init /\ OthersIdle
  \/ part = "header" /\ Header!Init /\ OthersIdle
  \/ part = "window" /\ Restorable!Init /\ OthersIdle
  \/ part = "bar" /\ Bar!Init /\ OthersIdle
  \/ part = "observers" /\ Registry!Init /\ OthersIdle
  \/ part = "objects" /\ Connector!Init /\ OthersIdle
  \/ part = "stream" /\ Stream!Init /\ OthersIdle
  \/ part = "sequences" /\ Sequence!Init /\ OthersIdle
  \/ part = "files" /\ Files!Init /\ OthersIdle
  \/ part = "order" /\ Order!Init /\ OthersIdle
  \/ part = "sync" /\ Sync!Init /\ OthersIdle
  \/ part = "progress" /\ Counter!Init /\ OthersIdle
  \/ part = "platform" /\ Platform!Init /\ OthersIdle
  \/ part = "djvu" /\ Djvu!Init /\ OthersIdle

\* What a step of the component picked leaves alone.
OthersSettings == <<part, headerVars, windowOnly, barVars, observerVars, objectVars, streamOnly,
                    sequenceOnly, filesOnly, orderVars, syncOnly, progressOnly, platformVars,
                    djvuOnly, base, file, calls, answer>>
OthersHeader == <<part, settingsOnly, windowOnly, barVars, observerVars, objectVars, streamOnly,
                  sequenceOnly, filesOnly, orderVars, syncOnly, progressOnly, platformVars,
                  djvuOnly, path, store, base, file, pc, calls, answer>>
OthersRestorable == <<part, settingsOnly, headerVars, barVars, observerVars, objectVars,
                      streamOnly, sequenceOnly, filesOnly, orderVars, syncOnly, progressOnly,
                      platformVars, djvuOnly, path, file, pc, calls, answer>>
OthersBar == <<part, settingsOnly, headerVars, windowOnly, observerVars, objectVars, streamOnly,
               sequenceOnly, filesOnly, orderVars, syncOnly, progressOnly, platformVars,
               djvuOnly, path, store, base, file, pc, calls, answer>>
OthersRegistry == <<part, settingsOnly, headerVars, windowOnly, barVars, objectVars, streamOnly,
                    sequenceOnly, filesOnly, orderVars, syncOnly, progressOnly, platformVars,
                    djvuOnly, path, store, base, file, pc, calls, answer>>
OthersConnector == <<part, settingsOnly, headerVars, windowOnly, barVars, observerVars,
                     streamOnly, sequenceOnly, filesOnly, orderVars, syncOnly, progressOnly,
                     platformVars, djvuOnly, path, store, base, file, pc, calls, answer>>
OthersStream == <<part, settingsOnly, headerVars, windowOnly, barVars, observerVars, objectVars,
                  sequenceOnly, filesOnly, orderVars, syncOnly, progressOnly, platformVars,
                  djvuOnly, path, store, base, pc, calls, answer>>
OthersSequence == <<part, settingsOnly, headerVars, windowOnly, barVars, observerVars,
                    objectVars, streamOnly, filesOnly, orderVars, syncOnly, progressOnly,
                    platformVars, djvuOnly, path, store, base, file, pc, calls>>
OthersFiles == <<part, settingsOnly, headerVars, windowOnly, barVars, observerVars, objectVars,
                 streamOnly, sequenceOnly, orderVars, syncOnly, progressOnly, platformVars,
                 djvuOnly, store, pc, answer>>
OthersOrder == <<part, settingsOnly, headerVars, windowOnly, barVars, observerVars, objectVars,
                 streamOnly, sequenceOnly, filesOnly, syncOnly, progressOnly, platformVars,
                 djvuOnly, path, store, base, file, pc, calls, answer>>
OthersSync == <<part, settingsOnly, headerVars, windowOnly, barVars, observerVars, objectVars,
                streamOnly, sequenceOnly, filesOnly, orderVars, progressOnly, platformVars,
                djvuOnly, path, store, base, file, pc, answer>>
OthersCounter == <<part, settingsOnly, headerVars, windowOnly, barVars, observerVars, objectVars,
                   streamOnly, sequenceOnly, filesOnly, orderVars, syncOnly, platformVars,
                   djvuOnly, path, store, base, file, calls, answer>>
OthersPlatform == <<part, settingsOnly, headerVars, windowOnly, barVars, observerVars,
                    objectVars, streamOnly, sequenceOnly, filesOnly, orderVars, syncOnly,
                    progressOnly, djvuOnly, path, store, base, file, pc, calls, answer>>
OthersDjvu == <<part, settingsOnly, headerVars, windowOnly, barVars, observerVars, objectVars,
                streamOnly, sequenceOnly, filesOnly, orderVars, syncOnly, progressOnly,
                platformVars, path, store, base, file, calls>>

PartNext ==
  \/ part = "settings" /\ Next /\ UNCHANGED OthersSettings
  \/ part = "header" /\ Header!Next /\ UNCHANGED OthersHeader
  \/ part = "window" /\ Restorable!Next /\ UNCHANGED OthersRestorable
  \/ part = "bar" /\ Bar!Next /\ UNCHANGED OthersBar
  \/ part = "observers" /\ Registry!Next /\ UNCHANGED OthersRegistry
  \/ part = "objects" /\ Connector!Next /\ UNCHANGED OthersConnector
  \/ part = "stream" /\ Stream!Next /\ UNCHANGED OthersStream
  \/ part = "sequences" /\ Sequence!Next /\ UNCHANGED OthersSequence
  \/ part = "files" /\ Files!Next /\ UNCHANGED OthersFiles
  \/ part = "order" /\ Order!Next /\ UNCHANGED OthersOrder
  \/ part = "sync" /\ Sync!Next /\ UNCHANGED OthersSync
  \/ part = "progress" /\ Counter!Next /\ UNCHANGED OthersCounter
  \/ part = "platform" /\ Platform!Next /\ UNCHANGED OthersPlatform
  \/ part = "djvu" /\ Djvu!Next /\ UNCHANGED OthersDjvu
  \/ part # "settings" /\ UNCHANGED partVars

\* Threads go on with the calls they are in and close the groups they opened; the
\* bounded number of calls makes the mutex of the settings fair enough.
PartStep(t) == part = "settings" /\ Step(t) /\ UNCHANGED OthersSettings

\* getCover() and the threads of the library go on.
CoverStep    == part = "djvu" /\ Djvu!Parser /\ UNCHANGED OthersDjvu
DocumentStep == part = "djvu" /\ Djvu!DecodeDocument /\ UNCHANGED OthersDjvu
PageStep     == part = "djvu" /\ Djvu!DecodePage /\ UNCHANGED OthersDjvu

PartSpec ==
  /\ PartInit /\ [][PartNext]_partVars
  /\ \A t \in Threads : WF_partVars(PartStep(t))
  /\ WF_partVars(CoverStep) /\ WF_partVars(DocumentStep) /\ WF_partVars(PageStep)

-----------------------------------------------------------------------------

\* The variables of each component have their types: the mutex of the settings has
\* at most one owner, every cell of a header has a size, a window is initialized
\* only after LoadGeometry(), the timers of scroll bars run only where bars are to
\* be hidden, and the device of a stream stands where its buffer ends.
PartTypeOK ==
  /\ part = "settings"  => TypeOK
  /\ part = "header"    => Header!TypeOK
  /\ part = "window"    => Restorable!TypeOK
  /\ part = "bar"       => Bar!TypeOK
  /\ part = "observers" => Registry!TypeOK
  /\ part = "objects"   => Connector!TypeOK
  /\ part = "stream"    => Stream!TypeOK
  /\ part = "files"     => Files!TypeOK

\* Every SettingsGroup gets its lock, see Settings.
Opening(t) == part = "settings" /\ pc[t] = "between"

GroupsOpen == \A t \in Threads : Opening(t) ~> ~Opening(t)

\* A header paints each merged rectangle whole, reports all of its sections, and
\* its sizes agree with those of its sections, see MultiHeaderView.
HeaderWhole ==
  part = "header" => Header!PaintedWhole /\ Header!PressReportsMerged /\ Header!SizesAgree

\* A window comes back as it was saved, its fonts scaled once; no bar is left
\* without a timer, and the context menu shows what is checked in its options, see
\* Window and ScrollBar.
GuiRestored ==
  /\ [](part = "window" => Restorable!FontsScaledOnce)
  /\ [][part = "window" => Restorable!ShowsSaved]_partVars
  /\ [](part = "bar" => Bar!NoForgottenBar)
  /\ [][part = "bar" => Bar!ShowsWanted]_partVars

\* Every cover asked for is answered, unless an earlier document has left an error
\* in the queue all documents share, which is the only way to get stuck, see DjVu.
Asked == part = "djvu" /\ pc # "idle" /\ ~leftError

CoversCome ==
  /\ [](part = "djvu" => Djvu!StuckByLeftError)
  /\ Asked ~> ~Asked

\* What two sides keep of one thing agrees: values of the settings go astray only
\* through the window of SettingsGroup, and observers have heard what is stored;
\* both sides know the same registrations and connections, whatever has been
\* destroyed; see Settings, Observers and ObjectsConnector.
BothSidesAgree ==
  /\ part = "settings"  => WindowIsTheOnlyCause /\ ObserversCurrent
  /\ part = "observers" => Registry!RegistriesAgree
  /\ part = "objects"   => Connector!WiredAllToAll

\* Save() and Load() copy all groups and return to the group they began in, see
\* SettingsFiles.
CopiedWhole == part = "files" => Files!CopiedWhole

\* The helpers give what they promise: the stream adapter reads and writes where
\* its client is, strings have an order, the busy indicator of the synchronous
\* executor stays up for tasks that threw only, a progress tells its end, and Xerces
\* is initialized while there are parsers; see the modules of each.
HelpersRight ==
  /\ part = "stream"    => Stream!ReadsInPlace
  /\ part = "sequences" => Sequence!AlgorithmsRight
  /\ part = "order"     => Order!OrderIsWeak
  /\ part = "sync"      => Sync!BusyExplained
  /\ part = "progress"  => Counter!EndIsTold
  /\ part = "platform"  => Platform!PlatformInUse
=============================================================================

# A verification of books-fnd

`books-fnd` is the foundation library of a desktop book collection: a thread
pool and an executor that brings results back to the GUI thread, a database on
one SQLite connection, a GitHub client, settings kept in groups, the export of
FB2 books, archives, the comparison of books, and many smaller helpers, in C++
with Qt. These TLA+ modules model the parts whose correctness depends on the
order in which things happen. TLC checks them on small instances; for the
executors, the database, the network, the settings and their files, the
registries, the widgets, archives, the comparison and the export of books, TLAPS
proves their safety for every value of the constants. `PROJECT.json` lists, for
every definition, the lines of the source it stands for.

    tlc -config pool_many.cfg MCThreadPool.tla     # one of the runs below
    tlapm ThreadPool_proofs.tla                    # the proofs

## 1. Inventory

Paths are relative to `src/`.

| Component | State | Operations | Interacts with | What is hard | What makes it correct |
|---|---|---|---|---|---|
| Thread pool `util/executor/ThreadPool.h` | deque of tasks, mutex, one condition variable, workers with stop tokens | `enqueue`, `wait`, destructor, `work` | its clients | one condition variable for three kinds of sleeper; notifications sent after the unlock; join while a worker goes to sleep | no wakeup is lost; every accepted task runs once; `wait` leaves nothing running |
| Executors `util/executor/impl/async.cpp`, `sync.cpp`, `util/IExecutor.h`, `FunctorExecutionForwarder` | queue of tasks per priority, workers, functors queued for the GUI thread | `operator()`, `Stop`, destructor, `Process`, delivery | the Qt event loop of the GUI thread, the tasks' owners | displacement of queued tasks, exceptions of tasks, calls within calls, destruction with results under way | one result per task that ran, before/after paired, results of equal priority in order |
| Database `database/impl/sqlite/*` | connection, mutex, open transaction, observers, table counter | transactions, queries, commands, temporary tables | SQLite, all threads of the program | locks held by objects, failing commits, drops in a transaction that is rolled back | a transaction happens wholly or not at all; a cursor sees no foreign write; nobody blocks for ever |
| REST client `network/rest/*` | current client and type, collected values, pending replies | the requests of `IRequester`, `Get`, `HandleReceivedData` | the GitHub server, Qt event loops nested in each call | requests started while another one waits; state shared by all of them | each request is answered with its own result, once, and only while its client lives |
| Downloader `network/network/downloader.cpp` | callbacks and errors by the address of the reply | `Download`, signals of the replies, destructor | QNetworkAccessManager | errors, stops and destruction race for the one callback; addresses are used again | one callback per download, none after destruction |
| Settings `settings/*` | values, group path, recursive mutex, observers, decorator, copy | `Set`, `Get`, `BeginGroup`, `SettingsGroup`, `Save`, `Load`, `Remove` | QSettings, observers | a mutex unlocked and taken again; check and write under two locks; a copy inside the current group of everybody | a value goes to the group its writer is in; observers end with what is stored; a copy is complete |
| Book export `util/ImageRestore.cpp` | covers, special node, flags, writer; the image index of an EPUB | the handlers of `SaxPrinter`; the new archive | XML reader and writer, archives | leaving out and putting in subtrees while copying; finding pictures by number | a complete, well-formed copy with each picture once, or the original |
| XML reader `util/xml/SaxParser.cpp`, `Initializer.cpp` | element stack, pending characters, stop flag; the count of users of Xerces | one per event of Xerces | Xerces, the handler | stopping from inside a handler; text gathered over events; parsers in several threads | no event after a stop; the path is that of the element; the library is up while it is used |
| XML writer `util/xml/XmlWriter.cpp` | element stack, open tag, text depth, counter of unbreakable elements | `WriteStartElement`, `WriteEndElement`, ... | its users | flags that have to follow the stack | what is written is well-formed; indentation stays away from text |
| Archives `zip/*`, `util/BookUtil.cpp` | file list, positions | read, write, update, remove; removing books and their pictures | 7-Zip | positions against indices, updates that renumber, archives changed one after the other | the file that is named is the one that is read or removed |
| Book parsers `util/EpubParser.cpp`, `Fb2InpxParser.cpp` | what the package document has named so far; authors and their modes | handlers, `Parse` | XML reader, archives | four ways to a cover; handlers shared by two kinds of author | every picture and text once, one cover that is there; a line about the right author |
| Book hashes `util/bookhash/hashfb2.cpp`, `hashepub.cpp`, `hashbook.cpp`, `hashparser.cpp` | sections with histograms, pending picture, flags | handlers of `Fb2Parser`, `HashParser`, digests | XML reader, archives | nested sections, pictures without data, containers without order, members kept from book to book | every word counts once in each section around it; digests do not depend on an order; a book is reported whole |
| Book comparison `util/bookhash/flihash.cpp` | the books, unmatched pictures, bits of the result | `Compare`, storing and reading hashes | the hashes | greedy pairing in the order of a hash table; bit tests | the verdict says what the books have in common |
| Widgets `utilgui/MultiHeaderView.cpp`, `GeometryRestorable.cpp`, `ScrollBarController.cpp` | spans and sizes, geometry and fonts, timers of bars | painting, resizing, clicking, showing, hiding, mouse events, menus | Qt, settings | merged rectangles found from any cell; windows hidden, closed or killed at any time, also before an event that is due; five events and two timers | painted once and whole; restored as it was; no bar left behind |
| Observer registry `fnd/observable.h`, objects connector `util/ObjectsConnector.cpp` | the sets of both sides | `Register`, `Unregister`, `Perform`, destructors; offers of signals and slots | database, settings, connection; QObject | destruction in any order, registration during a notification, one object under several IDs | both sides agree, nothing dangles |
| DjVu covers `djvu/djvu.cpp` | one context, its queue of messages, one document and page at a time | `GetCover`, the initializer | the threads of djvulibre | a queue shared by all documents, waits for one kind of message | every cover asked for is answered |
| Helpers `util/progress.cpp`, `util/SortString.cpp`, `fnd/algorithm.h`, `fnd/QIODeviceStreamWrapper.cpp` | counters, a locale, two positions | `Increment`, `Compare`, ranges, reading and seeking | their users | increments that overlap; the boundaries of integers; two positions of one stream | the last percentage is told; a strict weak order; reads where the client is |
| Others | | | | | see section 6 |

## 2. Modules

| Module | Models | Composition |
|---|---|---|
| `TaskLifecycle` | what any executor of tasks promises: new, queued, running, finished or dropped | abstract |
| `ThreadPool` | `ThreadPool.h` | implements `TaskLifecycle` |
| `AsyncExecutor` | `async.cpp` with the event queue of the GUI thread | implements `TaskLifecycle` |
| `SyncExecutor` | `sync.cpp`: calls within calls, tasks that throw | in `MCProgram` |
| `Database` | `Database.cpp`, `Transaction.cpp`, `Query.cpp`, `Command.cpp`, `TemporaryTable.cpp` | |
| `RestRequester` | `Requester.cpp`, `BaseConnection.cpp`, `qt/Connection.cpp` | in `MCNetwork` |
| `Downloader` | `downloader.cpp` with the signals and the deferred deletion of replies | in `MCNetwork` |
| `Settings` | `Settings.cpp`, `ISettings.h`: threads, groups, observers | base of `MCProgram` |
| `SettingsFiles` | the decorator, `Remove()`, `Save()` and `Load()` | in `MCProgram` |
| `XmlWriter` | `XmlWriter.cpp` as operators on a writer, with a reader of its output | in `BookExport` |
| `SaxParser` | `SaxParser.cpp` as actions over a handler given by constant operators | in `BookExport`, `BookHash`, `StoredHash`, `InpxParser` |
| `XmlPlatform` | `Initializer.cpp`: who initializes Xerces | in `MCProgram` |
| `BookExport` | `PrepareToExport()` for FB2 books | composes `SaxParser` (by `INSTANCE`, its `SaxPrinter` as the handler) and `XmlWriter` |
| `EpubExport` | the pictures of an EPUB book and its new archive | in `MCBookExport` |
| `Archive` | `zip/impl/archive.cpp`, `reader.cpp`, `zip.cpp`: one `Zip` object after the other on one file | in `MCBooks` |
| `BookRemoval` | `BookUtil.cpp` over several archives | in `MCBooks` |
| `BookHash` | `Fb2Parser` of `hashfb2.cpp` | composes `SaxParser` |
| `StoredHash` | `hashparser.cpp` with an observer that waits for one book | composes `SaxParser` |
| `InpxParser` | `Fb2InpxParser.cpp` | composes `SaxParser` |
| `EpubParser` | the package document, its covers, the files | in `MCBooks` |
| `BookDigest` | `hashepub.cpp`, `hashbook.cpp`, JSON of `flihash.cpp` | in `MCBooks` |
| `BookCompare` | `Compare()` of `flihash.cpp` | base of `MCBooks` |
| `MultiHeaderView`, `Window`, `ScrollBar` | `MultiHeaderView.cpp`, `GeometryRestorable.cpp`, `ScrollBarController.cpp` with the options of its menu | in `MCProgram` |
| `Observers`, `ObjectsConnector` | `fnd/observable.h` and `observer.h`; `ObjectsConnector.cpp` | in `MCProgram` |
| `DjVu` | `djvu.cpp` with the jobs and messages of djvulibre | in `MCProgram` |
| `Progress`, `SortString`, `Algorithms`, `StreamWrapper` | `progress.cpp`, `SortString.cpp`, `fnd/algorithm.h`, `QIODeviceStreamWrapper.cpp` | in `MCProgram` |
| `ThreadPool_proofs`, `AsyncExecutor_proofs`, `Database_proofs`, `BookExport_proofs` | theorems about the module each is named after | see section 4 |
| `Network_proofs` | theorems about `RestRequester` and `Downloader`, and about both side by side | extends `MCNetwork` |
| `Helpers_proofs` | theorems about the settings files, the stream adapter, algorithms, progress, the order of strings, the synchronous executor and the XML platform, for `MCProgram` | extends `MCProgram` |
| `Program_proofs` | theorems about settings, windows, scroll bars, the observer registry, the objects connector and the sizes of headers, and the types of `MCProgram` | extends `Helpers_proofs` |
| `Books_proofs` | theorems about removing books, comparing them, the words of FB2 books, package documents and archives, for `MCBooks` | extends `MCBooks` |
| `MCThreadPool`, `MCDatabase` | values of the constants for TLC | |
| `MCNetwork`, `MCBookExport`, `MCBooks`, `MCProgram` | instances of several components that share no state: the initial state picks one, which runs while the variables of the others stay empty | |

How state and steps correspond to the code:

* **One action is one critical section, or one step outside of any lock.** In
  `ThreadPool` and `AsyncExecutor` a thread has a program counter; a predicate
  and what follows from it under the mutex is one action, and so is each
  notification, because the code sends it after the unlock. Going to sleep on
  the condition variable releases the mutex, so it is the end of an action.
* **Condition variables** are external: a sleeper is woken by a notification, by
  the stop callback of its token, or for no reason at all. `notify_one()` picks
  any sleeper of any kind.
* **The GUI thread** runs one functor of its event queue at a time
  (`AsyncExecutor!Deliver`). Calls made by the GUI thread are actions of their
  own, with guards for what may not be called after a destructor has begun.
* **SQLite** is external: one connection holds at most one transaction. A
  statement or a commit may fail; a failed commit leaves the transaction open,
  as SQLite does. The rows of an operation stand for its statements.
* **Nested event loops** (`RestRequester`) make a stack of calls: only the
  newest one runs, replies arrive in any order, and a call returns when it is
  on top and its reply is there.
* **Xerces** is external: `BookExport` generates the events of any document of a
  small FB2 schema, one by one, up to an error anywhere or the end. Names are
  strings, a path is a sequence of names, characters are blank or not, a picture
  is good, broken or empty.
* **7-Zip** is external: it keeps entries in order, appends or overwrites,
  deletes a directory with its content. Each entry has a body of its own, so
  that entries of one name can be told apart; an object gets one `Write()`.
* **Digests and words** are numbers: `BookHash` counts one word per text,
  `BookCompare` gives each digest a perceptual hash whose lowest bits are set, so
  that a Hamming distance is a difference. Equal distances are paired in any
  order, as the iteration of `unordered_multimap` does; the distance-first order
  is the code's.
* **The output of the writer** is read back token by token
  (`XmlWriter!Reads`): the reader gives up at the first token that has no place
  there, and records whether indentation and text ever touch, tags of inline
  elements between them or not. This is the only history in
  `XmlWriter`; `SaxPrinter` records besides which binaries it has written.
* **Containers without order** (`QHash`, `unordered_map`) are iterated in any
  order, chosen anew each time: `BookDigest` compares the digests of two orders.
* **Addresses** in `Downloader` are numbers that a later reply may get again
  after the first has been deleted, which is when the code's map would mistake
  one for the other.
* **Windows** end hidden, closed with and without destruction, or with the
  process; only what is in `store` survives. The stretch that `InitSplitter()`
  leaves to the event loop is an event of its own, which may come after the
  window has been moved, hidden or closed, or not at all. The mouse of
  `ScrollBar` goes anywhere at any time.
* **djvulibre** is external: creating a document asks for its stream at once, a
  job ends with any of its messages in the queue, errors before or after. What
  a released document left in the queue stays there.
* **Lists** of `ObjectsConnector` are bags: an object can be in one several times,
  and `list::remove()` takes all of them, but their order decides nothing.
* **Iterators** in `Observers` are observers: erasing the one an iteration of
  `Perform()` stands on, or destroying the observable itself, is undefined and
  sets `undefined`.
* **Pure functions** (`Algorithms`, `SortString`, the verdicts of `BookCompare`)
  are operators; the initial states are their inputs.

Modules with definitions named *Mutant* or *A bug to try* in the comment keep,
in front of an operation, the form it would have with a plausible bug. Nothing
in the specification uses them: putting one in place of the operation that
follows it must violate the property it is listed with in `PROJECT.json`.

## 3. Runs

| Run | Instance | Asks | Properties |
|---|---|---|---|
| `pool_many` | one or two clients, 3 tasks, 2 workers, room for 1, fairness | sleepers are woken, `wait` drains, implements `TaskLifecycle`; while one client makes all the calls no wakeup is lost, every call returns, every accepted task runs | `TypeOK`, `NoLostWakeup`, `SleepersWoken`, `WaitDrains`, `ImplementsLifecycle`, `WorkEnds` |
| `exec_pair` | 3 tasks of one priority, 2 workers, exceptions, displacement, `Stop`, destruction, fairness | no idle worker beside a queued task, nothing lost or executed twice and a balanced busy indicator, implements `TaskLifecycle`, results arrive and `Stop` returns | `TypeOK`, `NoIdleWhileWork`, `NothingLost`, `ImplementsLifecycle`, `WorkEnds` |
| `db_shared` | 2 threads, 3 operations of 2 rows, failures, fairness | isolation, what a failed commit leaves behind, tables that stay, calls return | `TypeOK`, `Isolation`, `Wedging`, `DroppedTablesStay`, `EveryCallReturns` |
| `db_tables` | 2 threads, 2 operations | finding: two temporary tables of one name | `CreateTableSucceeds` |
| `network` | REST: 2 clients, 3 requests, 2 pages; 3 downloads at 2 addresses; fairness | how far a result can go astray, one callback per download, calls return | `PartTypeOK`, `NewestTakesAll`, `CalledBackOnce`, `EveryCallAnswered` |
| `rest_stale` | the same | finding: the second request is answered with the first one's object | `ClientReceivesItsResult` |
| `rest_receiver` | the same | finding: a client is told the result of another client's request | `ResultGoesToAsker` |
| `export_fb2` | FB2: 2 binaries, 2 kinds of metadata, 5 settings of the pictures; EPUB: 2 pictures and 2 other files in nested directories, any index, any offer of four archives; pictures whole or broken, names that are no numbers | the writer stays in step, output is sound, pictures are back at their places | `PartTypeOK`, `PrinterInStep`, `DocumentSound`, `PicturesRestored` |
| `export_program` | the same | finding: the assertion after `Parse()` | `ProgramUsedAtEnd` |
| `books_parts` | `Archive`, `BookHash`, `StoredHash`, `InpxParser`, `BookCompare`, `EpubParser`, `BookDigest`, `BookRemoval` | the list is the archive and removal is exact; words count once per section; books and authors are reported whole; what the verdicts mean; the cover and every file once; digests without an order; books and pictures removed, no others | `PartTypeOK`, `TextsCounted`, `ReportedWhole`, `VerdictsMeanIt`, `EpubReadWhole`, `DigestsRight`, `RemovedExactly`, `ArchiveKept` |
| `compare_right` | two books | finding: the wrong book is said to include the other | `IncluderHasMore` |
| `program_parts` | `Settings`, `SettingsFiles`, `MultiHeaderView`, `Window`, `ScrollBar`, `Observers`, `ObjectsConnector`, `StreamWrapper`, `Algorithms`, `SortString`, `SyncExecutor`, `Progress`, `XmlPlatform`, `DjVu`; fairness | values go astray only through the unlocked window, groups open; copies are complete; merged cells whole; windows and bars restored; both sides agree; covers come; the helpers are right | `PartTypeOK`, `HeaderWhole`, `BothSidesAgree`, `CopiedWhole`, `HelpersRight`, `GroupsOpen`, `GuiRestored`, `CoversCome` |

A property of a composed run (`PartTypeOK`, `HeaderWhole`, `GuiRestored` and the
like) is the conjunction, over the components it names, of "if this component is
picked, then its own properties of that kind hold"; they are stated and explained
in the component's module, which the comment in front of the conjunction names.

### What holds, and under which condition

* **Thread pool.** While one thread makes all the calls (`OwnerCallsAlone`: the
  other clients are absent) no wakeup is lost. With a second, the
  `notify_one()` of an `enqueue()` may be spent on another client asleep on the
  same variable, and a task can lie in the queue with every worker asleep; then
  some client is inside the pool. `SleepersWoken` joins the two:
  `StrandedOnlyBehindAClient` is the strongest statement that holds for any
  number of clients, and `NoForgottenClient` is why clients are safe: every pop
  is followed by a `notify_all()`.
* **Executors.** A task displaced by a later one of its priority never runs, one
  that throws has no result but is still paired with its `afterExecute`; results
  that are in the event queue survive the destruction of the executor as long
  as the forwarder lives. The synchronous executor does not pair them: each task
  that throws leaves the busy indicator up by one, and nothing else does
  (`BusyExplained`).
* **Database.** A transaction whose statements all succeeded is applied wholly
  or not at all, and a query reads no foreign write (`Isolation`). After a
  failed commit the connection stays inside a transaction that no object owns:
  whoever begins the next one gets an exception, single statements go into the
  open transaction, and nothing is durable any more (`Wedging`). The additional
  statements of a temporary table may fail unseen like any other, and take its
  table with them; what they write belongs to the table. The `drop table` of a
  temporary table is rolled back, always (`DroppedTablesStay`).
* **REST client.** A result can go to another client than the one that asked, and
  can hold the object of another request: these are findings, below.
  `NewestTakesAll` bounds the first: only a client with a newer request can get
  it, however the calls are nested. A reply that failed adds nothing, and
  the client is not told. Of all types of request one has a handler
  (`Requester.cpp:103`).
* **Downloader.** Each download has its callback once, though errors, the end
  and a stop may all want it, unless the downloader goes first.
* **Settings.** `SettingsGroup` locks, calls `BeginGroup()`, which unlocks on
  return, and locks again. A write of another thread that falls into that window
  goes to the wrong group, and so does a removal; `WindowIsTheOnlyCause` says
  that nothing else can bring it there. Observers have heard what is stored
  (`ObserversCurrent`) but where it was last changed by a `Set()` without sync,
  or by `Remove()`, which tells nobody that the value is gone. `Save()` and
  `Load()` copy every group and come back to where they began; through a
  decorator they copy what is stored below it, not the values that it replaces.
  `Load()` keeps keys that the file does not have. A decorator does not pass on
  `BeginGroup()`, and its `Remove()` removes from both.
* **FB2 export.** The copy is in step with the original through everything that
  is left out and put in. It is a well-formed document, unless the original has
  a processing instruction inside the book, which may land in a start tag.
  Indentation may touch text in two cases (`OutputSound`): in a book with such
  an instruction, and where an inline element comes before all text around it.
  In `<p><strong>a</strong><strong>b</strong></p>` `BreakLine()` knows of no
  text yet, neither before the first `<strong>` nor between the two
  (`XmlWriter.cpp:161`), and "ab" becomes two words. A picture of an archive
  that cannot be decoded is left out, and displaces a whole one of its name in
  the book. Pictures that were to be removed stay in the copy if all known
  pictures have been written by then, in particular when there was none: "remove
  pictures" alone does not remove them.
* **EPUB export.** A picture that an archive has and that can be decoded is put
  back at the place the index gives for its number, and the other files are
  copied (`EpubRestored`). Where two archives have a name, the first counts, be
  its picture broken. All names that are no numbers read as 0 and share that
  place. Paths of the index are not cut although `EpubParser` cuts every
  directory that all files share: of texts and pictures the paths are exact if
  the index names other places than theirs, each once.
* **Archives.** Whatever is appended, overwritten or removed, the file list names
  each name once and leads to its first entry; `Remove` takes nothing it was not
  asked for. Of a duplicated name it removes the first entry only, and the name
  comes back with the content of the next.
* **Book removal.** Exactly the files and pictures of the books asked for go,
  from the archives that can be opened. Two books of one base name share their
  pictures, which go with the first; books inside directories of an archive are
  not found.
* **Book parsers.** Every picture and text of an EPUB book is read once, and the
  cover is one of its pictures, first by metadata, then by the manifest, the
  guide and a page. Under `Mode::All` a page never leads to a cover
  (`EpubParser.cpp:251`). Authors of the document replace those of the title
  only where the title has none.
* **Book hashes.** Every text counts once in each section around it; a picture
  without data can cost one text that follows it (`TextsCounted`). A stored book
  is reported with its own values only (`ReportedWhole`). Texts and pictures in
  any order give the same digests, and digests survive their JSON
  (`DigestsRight`); the identifier of an EPUB book and the order of its sections
  do depend on the order of a hash table. One picture inside a book hides all
  the archived ones (`hashbook.cpp:259`).
* **Book comparison.** "The same" is said of exactly the books that are, whatever
  the order of equal distances. Between "probably the same" and "different" that
  order does decide. The merge of the picture lists needs them sorted by digest,
  while `ParseBookHash` sorts by name; pairs it misses are found by distance 0,
  and the verdict stays.
* **Headers.** While the spans fit into the header and do not overlap, every
  merged rectangle is painted once, whole, from its first cell, and a press
  reports all of its sections; the two records of sizes always agree. A row span
  is cut to the number of columns (`MultiHeaderView.cpp:184`), not of rows: it
  may reach a row too far, and in a header with more rows than columns become 0
  or less, after which painting may not end. Of painting such headers nothing is
  claimed.
* **Windows and bars.** A window is shown as it was saved, on a screen that
  exists, but for its splitter: if the stretch of the first time is still due
  when the window is hidden or closed, the unstretched splitter is saved, and
  the stretch may come later (`ShowsSaved`). Fonts are scaled once per stored
  size. Before one is stored they grow each time the window is shown
  (`GeometryRestorable.cpp:169`). Every bar that shows while bars are to be
  hidden has a timer that will hide it.
* **Observers and connections.** Both sides of a registration agree through any
  order of destruction, except from inside a notification that destroys what it
  stands on. A signal is wired to a slot only while both are offered under one
  ID, and then always, unless one of them was withdrawn from an ID it was not
  offered under: `unregisterEmitter()` does not ask, and cuts the connections
  with all slots of that ID (`ObjectsConnector.cpp:79`), those too that another
  ID stands for.
* **DjVu covers.** All documents share the queue of one context. An error that
  an earlier document left there ends the wait for the next document's stream
  request, which is then thrown away unread by the wait for `DDJVU_DOCINFO`: the
  document gets no data, and `getCover()` waits for ever. `CoversCome` says that
  this is the only way to get stuck; other messages left behind do no harm,
  provided that the library asks for a stream before `ddjvu_document_create()`
  returns.
* **Helpers.** `OrderIsWeak`: strings of any kind, the empty one wherever it is
  put, are in a strict weak order under each locale, words first, then numbers.
  `EndIsTold`: however increments overlap, also past the total, the last
  percentage is logged, possibly before an earlier one. Totals and increments
  of zero divide by zero. `AlgorithmsRight` has the ranges, intersections and
  sides of pictures; equal elements give ranges that overlap, and a flat picture
  a side of 0. `ReadsInPlace`: the stream is where its client is while blocks
  and characters are not mixed without a seek, also where a seek behind the end
  makes the device grow; seeking from the end has its sign the other way
  (`QIODeviceStreamWrapper.cpp:53`).

### Findings

| Finding | Where | What |
|---|---|---|
| `db_tables` | `database/impl/sqlite/TemporaryTable.cpp:72` | the number of a table comes from an unprotected counter; two threads can take the same, and the assertion on `create table` fails |
| `rest_stale` | `network/rest/connection/BaseConnection.cpp:65` | received values are never cleared, so a later request is answered with the first object |
| `rest_receiver` | `network/rest/api/github/Requester.cpp:95` | the one `m_client` is overwritten by a request that starts while another waits, so the result of the outer request goes to the client of the inner one |
| `compare_right` | `util/bookhash/flihash.cpp:429` | the bits are tested with a bitwise or instead of an and, so that "right includes left" (line 430) is never reported and "left includes right" is reported in its place |
| `export_program` | `util/ImageRestore.cpp:180` | the assertion on `m_hasProgramUsed` fails for a broken document, which `HasError()` is there to handle, and for one without a description |

### Bounds, and why they are enough

* *Threads.* Two workers are the least for a wakeup to reach the wrong one, two
  clients the least for a client to take another's; two database or settings
  threads make every pair of critical sections meet. What more threads could
  add to the pool is excluded by the proofs. Three threads of a progress let
  one overtake two; three users of Xerces let one end while one begins and one
  goes on.
* *Tasks and operations.* Three tasks with room for one keep a client asleep
  while one task is queued and another runs. Three database operations let one
  fail, one meet what it left, and one come after. Four settings calls are a
  group and a write of each of two threads, or two nested groups of one and the
  writes of the other.
* *Requests.* Three requests nest in every way, two pages exercise the paging;
  three downloads at two addresses use one again while another is under way.
  `MaxRequests`, `MaxPages`, `MaxOperations`, `MaxCalls`, `MaxDepth`, `MaxEvents`,
  `MaxCovers` and their like bound the number of calls through guards, so a run
  ends by having nothing left to call; liveness properties speak about calls
  that were made.
* *Documents.* The schema of the export bounds the depth of a document at five;
  its length is not bounded. Two binaries are enough for one that is known and
  one that is not, in both orders.
* *Archives, hashes, comparisons.* Two entries are a duplicate or a directory
  with content, and the third appears by appending; a second object meets what
  the first one has left. Eight pieces are a body with two nested sections, a
  picture and texts between them. Two pictures on each side let a pair of equal
  distance compete for a third.
* *Headers.* Three rows and two columns in both orientations with any two spans:
  one that the other touches, covers or repeats, and row spans cut to two, one
  and nothing.
* *Windows, bars, registries.* Seven events are a show, a move, a change of
  screens, a hide and the same again in part; two observables and two observers
  destroy each other from inside two nested notifications; three objects under
  two IDs cover an object that offers both sides, and one of several signals.
* *DjVu.* Four covers: two that leave something behind, and one after each.
* *Executor.* One priority: its order among several is in the module
  (`TakeTask`), but no property depends on it; 2 stands for the priority 1024.

`CHECK_DEADLOCK FALSE` stands in `export_*.cfg` and `network.cfg`: exports and
downloads end. In `MCBooks` and `MCProgram` the components that may end have a
stuttering step instead, the threads of `Settings` do not.

### Fairness

Every liveness property uses weak fairness of each thread's own steps: the
operating system runs every thread that can run, a mutex that is released is
eventually acquired, a task returns, and the Qt event loop delivers what is
queued. Nothing obliges a client to make a call, a sleeper to wake without a
notification, or a document to end. In `RestRequester` the server answers
every request it was sent; failed replies are answers. In `Database` the mutex
is fair in the sense that a thread that waits for it repeatedly free gets it
eventually, as the operating system's does when each holder is done after
finitely many steps. In `DjVu` the library ends the jobs it has the data for.

## 4. Proofs

Each theorem holds for every value of the constants of its module, under the
assumptions that module names; none of them bounds threads, tasks, documents or
nesting. Every invariant below was first checked by TLC on the instance of the
run that has the property.

| Module | Theorem | Statement |
|---|---|---|
| `ThreadPool_proofs` | `TypeCorrect` | `Spec => []TypeOK` |
| | `ClientsNotForgotten` | `Spec => []NoForgottenClient` |
| | `WaitDrainsAlways` | `Spec => []WaitDrains` |
| | `StrandedAlways` | `ThreadCount # 0` implies `Spec => []StrandedOnlyBehindAClient` |
| | `SleepersWokenAlways` | `ThreadCount # 0` implies `Spec => []SleepersWoken` |
| | `WakeupAlways` | `ThreadCount # 0` implies `Spec => []NoLostWakeup` |
| | `LifecycleImplemented` | `Spec => ImplementsLifecycle` |
| `AsyncExecutor_proofs` | `TypeCorrect` | `Spec => []TypeOK` |
| | `NoIdleAlways` | `Spec => []NoIdleWhileWork` |
| | `NothingLostAlways` | `Spec => []NothingLost` |
| | `LifecycleImplemented` | `Spec => ImplementsLifecycle` |
| `Database_proofs` | `TypeCorrect` | `Spec => []TypeOK` |
| | `IsolationAlways` | `Spec => Isolation`, an action property |
| | `WedgingAlways` | `Spec => Wedging`, an invariant and an action property |
| | `DroppedTablesStayAlways` | `Spec => DroppedTablesStay`, an action property |
| `Network_proofs` | `TypeCorrect`, `NewestTakesAllAlways` | `Spec => []TypeOK`, `Spec => []NewestTakesAll` |
| | `PartTypeCorrect`, `PartCalledBackOnce`, `PartNewestTakesAll` | `PartSpec => []PartTypeOK`, ... |
| `BookExport_proofs` | `TypeCorrect`, `InStepAlways` | `Spec => []TypeOK`, `Spec => []InStep` |
| | `OutputSoundAlways` | `Spec => []OutputSound` |
| | `KnownImagesOnceAlways` | `Spec => []KnownImagesOnce` |
| | `PartTypeCorrect`, `PrinterInStepAlways`, `DocumentSoundAlways` | `PartSpec => []PartTypeOK`, ... |
| | `PicturesRestoredAlways` | `PartSpec => []PicturesRestored`, FB2 and EPUB |
| `Program_proofs` | `SettingsTypeCorrect` | `Settings!Spec => []TypeOK` |
| | `WindowIsTheOnlyCauseAlways`, `ObserversCurrentAlways` | `Settings!Spec => []WindowIsTheOnlyCause`, ... |
| | `BothSidesAgreeAlways` | `PartSpec => []BothSidesAgree` |
| | `GuiRestoredAlways` | `PartSpec => GuiRestored`, invariants and action properties |
| | `PartTypeCorrect` | `PartSpec => []PartTypeOK` |
| | `HeaderGridAlways` | `PartSpec => [](part = "header" => Header!Grid)`, part of `HeaderWhole` |
| `Helpers_proofs` | `HelpersRightAlways` | `PartSpec => []HelpersRight` |
| | `CopiedWholeAlways` | `PartSpec => []CopiedWhole` |
| `Books_proofs` | `TextsCountedAlways` | `PartSpec => []TextsCounted` |
| | `ArchiveKeptAlways` | `PartSpec => ArchiveKept`, an invariant and an action property |
| | `RemovedExactlyAlways` | `PartSpec => []RemovedExactly` |
| | `VerdictsMeanItAlways` | `PartSpec => []VerdictsMeanIt` |
| | `EpubReadWholeAlways` | `PartSpec => []EpubReadWhole` |
| | `PartTypeCorrect` | `PartSpec => []PartTypeOK` |

Assumptions on constants: `ThreadCount # 0` is a real one, because
`std::thread::hardware_concurrency()`, its default, may return 0. All others
stand in the module that declares the constants and say what the code's types
say, `DownloadsAssumption` for one that no reply lies at `nullptr`,
`ArchiveAssumption` that a name has at least one part, `HashAssumption` that an
empty name of a picture is taken for none, `PiecesAssumption` that the bounds of two
documents are numbers, and `RemovalAssumption` that pictures
lie in archives of their own, below the directory of the books. `CompareAssumption`
says that perceptual hashes are numbers.

**Thread pool.** *Types* are inductive as they stand, with the agreement between
program counters and the tasks that clients and workers hold. *Forgotten
clients*: the invariant is inductive together with the types, because the only
step that makes a sleeper's condition true is a pop, which leaves the worker
about to notify. *Draining* needs a strengthening: a worker whose index is at
most `joined` has exited, and a task promised by `wait` that has not run is held
by a worker or still queued with `wait` not yet returned. *Stranded tasks* need
that a worker leaves the loop only after a stop request, which only an owner
that is past `wait` makes. *One client* is inductive once it is known that no
step makes a client one that never calls (`AloneStep`): while the others are
absent, `notify_one()` finds workers only. The *refinement* needs that a task is
at one place only, with one client, once in the queue or with one worker
(`OnePlace`): every other step then maps to a stutter.

**Executor.** *No idle worker* is inductive with the types and with tasks being
queued once: each submission wakes a sleeper if there is one, and a worker that
takes a task lowers both sides. *Nothing lost* takes a chain of invariants.
`TaskInv`: an accepted task is queued once, displaced, held by one worker or
ended. `StopInv`: a thread is destroyed after its worker has left, the executor
after its threads, and the delete of the forwarder is posted last. `EventInv`:
every task posts each of its three functors once, `afterExecute` last.
`ResultInv`: a result is with its worker, in the event queue or executed. From
these `busy` is the number of tasks whose `beforeExecute` has been executed and
whose `afterExecute` has not (`OpenCounted`). Its upper bound is not inductive
without one more: tasks of one worker are in order in the event queue, so that
no two of them are open at a time (`WorkersApart` exhibits the owner of every
task). The *refinement* follows from `TaskInv`.

**Database.** The counter of temporary tables is read and written in two steps,
and stays in its range only because every thread about to read it has an
operation not counted yet (`IdsBounded`); `OperationsOwned` says that each
operation has one thread until it ends. `DataInv` relates the data to the
program counters: the rows of a transaction under way without an error are in
SQLite's transaction and not yet in the database (`UnderWay`), the connection
sees all of the database except between a drop and its rollback
(`NothingHidden`), and rows of an operation that failed or was rolled back are
at most in an open transaction that nobody can commit (`Ended`).

**REST client.** The invariant is that `m_client` is the client of the newest
request, that no frame of the stack is newer, and that only a reply before the
last page is linked to a next one. Nothing about the order of replies is needed.

**Downloader.** An entry says what its reply says (`EntriesMatch`), numbers of
replies differ (`NumbersApart`), and who was told has no reply left but the one
being deleted (`ToldIsOver`). Reusing an address breaks the last, if the entry
were not erased with the reply. The theorems are about the system that composes
both components: a step of one is a stutter of the other.

**FB2 export.** The proof goes over the composition, from the writer upwards.
Every operation of `XmlWriter` keeps the counters equal to what the stack
implies and leaves what a reader of the output has open equal to the elements of
the writer (the lemmas named `...Goes`). Elements that `SaxPrinter` writes whole
leave the stack as it was (`Balanced`). The handlers of `SaxPrinter` are lemmas
over these, and the actions of `SaxParser` lemmas over those. The inductive
invariant joins the document (`DocumentOK`: binaries stand directly inside the
book and have nothing inside them), the pictures (`PicturesOK`: those still to
be written are those given that have not been written, and a binary is copied
only when there are none left), the writer (`WriterInStep`) and `InStep`. That
indentation and text do not touch is inductive in the writer if every inline
element is inside one with text (`Joined`, `TextAround`); that they are is the
book not being loose, for which the writer must know of the text whenever the
document has some above (`TextKnown`: its characters may still be gathered, or
be in what is left out). That what is left out ends with the node it began with
rests on the names of a path (`LeadsOut`): the node that is left out is never an
ancestor of itself. Documents of any length are covered by induction over steps,
since the schema bounds the depth, not the length.

**EPUB export.** An entry of the new archive is one of three: a picture that an
archive gave, at the place its number has in the index (`Back`), a text or a
picture of the book at its own path, cut. Which archive gave a picture is the
least of those that have its name (`FirstIs`). All files share the directories
that are cut (`DepthIs`), so that different paths stay different
(`CutInjective`) and none becomes empty; the hypotheses of `EpubRestored` keep
the three kinds apart. Names, numbers, pictures and texts of a book are any sets
of them; `EpubAssumption` says that paths are not empty and that no picture is a
text.

**Settings.** A thread holds the mutex once for each group it has open, except that
it holds it once less in the window of `SettingsGroup` (`LocksCounted`); so a
thread that can lock is alone in having groups, unless another is in its window.
`RightPath` says that the current path is then that of the thread that is alone,
as long as nobody has used a window. Types need that the open groups of all
threads are a finite set, as large as the path is long: `EndGroup` then finds
something to pop whoever opened it.

**Observers.** Agreement of the sets of both sides is inductive with one addition:
every loop of `Perform()` under way is over an observable that is there, and
stands at an observer that is registered with it (`Agreed`). Callbacks that would
break this are those that make the iteration undefined. Loops nest to any depth.

**Connector.** That what is offered together is wired (`OfferedWired`) is not
inductive: a withdrawal from one ID would part what another ID still wires. The
assertions on `connect()` exclude it where the pair is still wired, and the
invariant says how: no pair is offered under two IDs (`OnlyOnce`), but for those
that a withdrawal from an ID they were not offered under has cut before
(`severed`).

**Stream adapter.** For a client that is not careless the buffer holds the bytes
before the position of the device, of whatever has been written meanwhile
(`Buffered`); what follows the last byte read is then what the stream gives next.

**Settings files.** `Copy()` calls itself for every group. What is still to be
copied (`Waits`) are the keys left in the newest call and what is inside the
groups left in each call around it; the invariant `CopiedSoFar` says that what
is written is what was there, and over it what no longer waits. `InCopy` says
that both objects are as deep in their groups as there are calls, and that a
group which was entered is not left to be entered again: without it, what has
been copied would wait once more. When the outermost call has nothing left,
nothing waits.

**Algorithms.** These are modelled as loops, so that induction over data is
induction over steps. `RangesInv`: the elements before `begin` are exactly
those in the ranges. `CommonInv`: no pair of which one member has been passed is
common, for which the order of both sequences is needed. That a fitted picture
fits is arithmetic of quotients (`FixedFits`).

**Other helpers.** *Progress*: whoever is about to leave `Increment()` has told
its percentage, and the percentage of the last item is told or will be by the
thread about to compare it (`CounterInv`); the exchange of `m_currentPct` is
what makes it so. *Order*: weights of characters are any numbers; letters,
digits, signs and the empty string are told apart by a category before any
weight (`CategoryTyped`). *Synchronous executor*: inductive as it stands. *XML
platform*: the counter is the number of parsers counted, one user at a time
counts, and the library is up unless the first or the last is between its count
and its call (`PlatformInv`).

**Windows.** What is stored is what the window saved last (`SavedLast`), and a
hidden window is as it was saved unless it was never shown (`HiddenAsSaved`).
Fonts are set from sizes collected before any was changed (`SizesCollected`),
which is why choosing a font twice gives what choosing it once does. Widgets,
fonts and screens are any.

**Scroll bars.** That the menu shows what was left checked rests on rows numbering
the actions one-to-one, separators left out (`RowsNumberActions`): two actions that
share a row would be checked for each other. That no bar is forgotten is inductive
as it stands.

**Headers.** The sizes of the cells are a grid because each operation sets a
whole row or column and, where the sections are, the section with it. A column
span is cut to what is there; a row span is an integer, and its type claims no
more.

**Types of `MCProgram`.** `PartTypeOK` joins the types of eight components.
Those of the stream adapter need that the buffer is shorter than `BufferSize`
after every call, those of the settings files that only groups of the file are
entered, which comes from the invariant of `Helpers_proofs`, and those of the
scroll bars that a row of the menu is never taken for one outside it.

**Archives.** That the list shows the archive rests on one operator: `Sublist`
takes what stands at some places of a sequence, each once and in order. Instead
of an induction over the list, the place of an element is found by counting the
places below it (`NthInOrder`). `Lists` says that the list has the first entry
of every name; bodies of entries grow along the archive (`DiskInv`), which
appending and removing keep, so that the first entry is also the oldest. What
`Remove()` deletes is reached by an index of the list, whose name has the key
that was asked for.

**Words of a book.** A picture without data leaves its name behind, and the next
text is lost to it: `Pending` tells that state, and `Lost` counts the pictures
that have already cost a text, so that a section has counted every text but at
most `Lost`. A path to a picture is recognised by its last name, and a picture
has nothing inside it, so that the element which holds the lost text is never a
picture itself.

**Removing books.** What is still to be done is wanted (`ToDoIsWanted`), and
what is wanted and still there is still to be done (`RestToDo`), as long as
nothing has been thrown; what is gone was wanted, thrown or not
(`OnlyWantedGone`). That the archives of pictures are not those of books keeps
the two passes apart.

**Comparison.** The pictures found are pairs that share no picture, each as
similar as the flags that were set say. If two books look alike, a book that has
found all pairs so far has found pairs of distance 0 only: what is left on both
sides still looks alike, so that the closest pair left does, too. The proof
attempt found a flaw of an earlier model, whose choice of a verdict for covers
had overlapping guards; the code's `if` and `else if` have an order.

**Package documents.** An element is in the manifest or in the spine, section by
section, and the manifest read so far has exactly the items read so far; the
cover known is the one declared so far. At the end every picture is listed once,
the cover before all others. First and last elements are found by a least
number, so that no induction over the document is needed but that over the
steps.

**Types of `MCBooks`.** Those of the parsers say where in the document a handler
is, and follow from two facts about paths: one more element begins what its path
began with or is itself the path sought (`PathLonger`), and one less undoes
exactly that (`PathShorter`). `HashFits` says that a histogram is open for each
section of the path, `StoredHandler` that each ancestor of the current section
is in the tree, without which ending a section could leave a current one that
was never added, and `InpxFits` that an author is filled in only after one was
begun; with a document's author skipped, because the title has one, nothing is
filled in at all. `BookHash`, `StoredHash` and `InpxParser` define `Front`,
`Last` and `IsPrefix` as `SequencesExt` does: every instance of that module
would bring all of it into the context of each proof obligation.

**Only model-checked.** Everything with fairness (`WorkEnds`,
`EveryCallReturns`, `EveryCallAnswered`, `GroupsOpen`, `CoversCome`): liveness
and `ENABLED` are out of the prover's reach. Of `MCBooks` stored hashes and
digests (`ReportedWhole`, `DigestsRight`), which sum, sort and number the data
they are about, and of `MCProgram` what a header paints and reports
(`HeaderWhole` but for its grid), where positions are sums over sets and
painting is a recursive function. A theorem about them needs what a recursive
definition computes for every input, and the induction theorems that would say
so take an operator as a parameter, which none of the provers can instantiate.
Induction over numbers alone is within reach, by the least counterexample, and
is used for package documents. The findings are counterexamples, and need no
proof.

## 5. Plan

Each component of section 1 but the last row has a module; what is left out of one
is said in `PROJECT.json` and below. What is left is to prove more of what
the runs check: `HeaderWhole` for any number of rows and columns, beyond its grid.

## 6. Not modelled, and why

* Wrappers of the platform, Qt and libraries (`platform/`, `logging/`,
  `util/app.cpp`, `util/files.cpp`, `ProcessWrapper`, `pdf/`, `jxl/`, `icu/`,
  `xml/Validator.cpp`, `database/factory/`): single calls without state.
* Pixel arithmetic (`canny.cpp`, `ImageUtil.cpp`, the perceptual hash of
  `hashbook.cpp`): computations over large data without concurrency.
* `MobiParser.cpp` and the JSON of releases (`Release.cpp`): one pass over what a
  library has parsed, field by field.
* Tables and translations (`GenresLocalization`, `translit`, `language`,
  `StrUtil`), and one-line wrappers (`fnd/`). `CaseInsensitiveHash` of
  `fnd/algorithm.h:196` hashes with the case, so that equal keys can have
  different hashes; nothing here depends on it.
* Within modelled components: tasks that call `enqueue()` themselves; a second
  database object of a thread that already has one (it deadlocks at once);
  observers that register from another thread while the database tells them (a
  data race); commands after the end of their transaction; node guards of
  `XmlWriter` that are moved (the code never does); recoverable warnings of
  Xerces, and whitespace between inline elements, which the reader drops; a
  downloader destroyed inside its own callback; the data and headers of
  downloads; the case of letters, which the cut of common directories ignores;
  the `stop` flag of `ParseCover`, which the code ignores; covers asked for by
  several threads at once; the value `underflow()` returns.

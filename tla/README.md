# NifSkope in TLA+

NifSkope is an editor for NIF files, the scene format of NetImmerse and
Gamebryo games. A NIF file is a list of *blocks*; a block refers to another one
by its number in the list. This directory holds a formal specification of parts
of the program, translated from the C++ source under `src/src/`, with TLC
configurations that check it on small instances and TLAPS proofs of its most
important properties for instances of any size.

Paths below are relative to the source directory (`src/src/` of the repository)
unless they start with `tla/`.

## 1. The system

### Parts, state and interaction

| Part | State | Operations | Talks to |
|---|---|---|---|
| **NifModel** (`model/nifmodel.cpp`) | tree of items (header, blocks, footer); link caches `childLinks`, `parentLinks`, `rootLinks`; lock `lockUpdates`/`needUpdates` | insert, remove, move, reorder, convert blocks; map links; set values; resize arrays; load, save, paste of one block | signals `linksChanged`, `dataChanged`, row signals, to proxies, views and the 3D scene; called by spells, delegates, undo commands |
| **BaseModel, NifItem, NifValue** (`model/basemodel.cpp`, `data/`) | item tree, model state stack (`Loading`, `Processing`, ...), per-item caches of link rows and conditions | Qt model interface, setting of values, files | base of NifModel and KfmModel |
| **NifProxyModel** (`model/nifproxymodel.cpp`) | tree of the block list, by block number | rebuilt on `linksChanged` and on row signals | NifModel, block list view |
| **Undo commands** (`model/undocommands.cpp`) | persistent indices, old and new values; `QUndoStack` | redo, undo, merge, save position | views push them; they set values in NifModel |
| **Views** (`ui/widgets/nifview.cpp`, `model/nifdelegate.cpp`) | selection, clipboards | edit, paste, paste array, sort links | NifModel, undo stack, spells |
| **Session** (`nifskope.cpp`, `nifskope_ui.cpp`) | current file, modified flag, enabled widgets | open, reload, save, save as, close, drop | models, undo stack, settings |
| **Spells** (`spellbook.cpp`, `spells/`) | none of their own; some hold the updates | nearly everything a user does to blocks | NifModel |
| **XML checker** (`ui/widgets/xmlcheck.cpp`) | file queue, worker threads, quit mutexes, progress and error count | run, stop, number of threads, reload of the XML, close | the static XML descriptions under a read-write lock (`xml/nifxml.cpp`), models of its own |
| **XML descriptions, expressions** (`xml/`) | static tables of types | parse, evaluate | every model |
| **KFM model** | item tree | load, save | session |
| **Scene, renderer, textures** (`gl/`, `glview.cpp`) | node tree made from NifModel, times, texture cache | update on signals, paint | NifModel |
| **Games and resources** (`gamemanager.cpp`, `bsamodel.cpp`) | archives shared by documents | open, close, find | textures, materials |
| **Messages** (`message.cpp`) | open boxes by text | append | all |
| **Import, export, editors, vendored libraries** | | conversions | NifModel |

The program is event driven: models, views, spells and the session live in the
GUI thread, and a handler runs to its end before the next one. Concurrency in
the proper sense comes from the XML checker only: from its workers at its own queue
(XmlChecker), and at the archives and materials (Resources), which are static, used
by every load and guarded by nothing. What makes the rest hard is
*state that is derived and may be stale* (caches behind a lock, header and
footer that are recomputed at a save, item rows cached by index), *sequences of
legal calls* (undo after a spell, a paste that fails half-way and then a save),
and *numbers that change their meaning* under every block operation.

### What makes each part correct

- *NifModel*: every link keeps the block it points at, whatever is done to the
  list; the caches are those of the document unless an update is due; the cached
  child links are acyclic and lead to every block; a saved file describes itself.
- *Undo*: going back restores the values; nothing unsaved is lost without a
  question; the save position is right.
- *XML checker*: a run checks every file once and ends; no slot waits for ever;
  no worker uses what is destroyed; no error goes unreported.
- *Session*: the document in memory belongs to the file name on screen; a save
  writes the document it was asked for; nothing is given up that a save failed
  to write.
- *Block list*: the tree, updated item by item, is the one a rebuild from the
  cached links would give, and every block is in it.
- *Conditions*: a field exists if `nif.xml` says so; a cached answer is the
  present one; a load reads the fields a save has written.
- *Spells*: those that remove blocks remove the right ones, those that rearrange
  them keep the links, and an order of the blocks is the one it is for.
- *Scene*: an object lives exactly as long as a list holds it; what is painted
  is the document.
- *Resources*: the material database never outlives the archives it points into,
  has the materials of the document, and nobody uses what it had before.
- *Items*: the rows cached as holding links are exactly those that do.

The hazards behind these properties are listed, each at its line, in
`tla/PROJECT.json`.

## 2. The modules

```
Numbering <--- Links <--- NifModel ---refines---> ObjectGraph
    |            |           |  \___ MCNifModel (TLC)
    |            |           +------ NifModelProofs (lists, caches, saves, refinement)
    |            |           |               \___ BlockListProofs (the tree)
    |            |           +------ BlockList   <--- MCBlockList (TLC)
    |            +------------------ BlockSpells <--- MCBlockSpells (TLC)

Expressions <--- Conditions <--- MCConditions (TLC)
                    +------- ConditionsProofs
Resources   <--- ResourcesProofs      (TLC on Resources itself)
XmlChecker  <--- MCXmlChecker (TLC)
    +------- XmlCheckerProofs
NifUndo     <--- MCNifUndo (TLC)
    +------- NifUndoProofs
Session     <--- MCSession (TLC)
    +------- SessionProofs (types, window at rest, clean is saved)
Scene       <--- SceneProofs          (TLC on Scene itself)
```

### Numbering: lists of blocks and rewriting of links

Pure operators, from `nifmodel.cpp`. A document is a sequence of block
identities; block number *n* is at position *n + 1*, as in the code it is row
*n + 1* of the root item, behind the header. `Inserted`, `Removed`, `Moved` and
`Reordered` are what the handlers do to the list. `AdjustLink` and `MapLink` are
the leaves of the recursions `adjustLinks` and `mapLinks`, which visit every
link item of the document. `Resolve` says what a link means: the block it points
at.

### Links: the link caches

What `updateLinks`, `checkLinks` and `getParent` compute from a list of blocks,
their types and their links: `LinkList` (first-seen order, without duplicates),
`CheckLinks` and `BreakCycles` (a depth-first search that drops the links back to
the current path from the cache), `LinkCaches` (children, parent links, roots,
and the rule for texture sets from `bsVersion` 151 on), `GetParent` (the first
block that has it among its children). NifModel keeps the result in variables,
BlockList follows those, BlockSpells computes them when a spell asks.

### ObjectGraph: what a document promises

The abstract specification. Link fields hold references to *blocks*, not
numbers. A block can be inserted, appended (then dangling links may catch it),
removed (links to it become empty), the list can be shuffled, one block's links
edited, blocks substituted for others. Nothing else ever changes what a link
points at.

### NifModel: the block level of the document

| Variable | Code |
|---|---|
| `order`, `type`, `link` | the rows of `root`, the block items' names, their link items |
| `childLinks`, `parentLinks`, `rootLinks` | the members of those names |
| `header` | `Num Blocks`, `Block Types`, `Block Type Index` of the header |
| `footer` | `Roots` of the footer |
| `lockUpdates`, `needUpdates` | the members of those names |
| `held` | how far a spell is that holds the updates (a bound, and where `FailHold` is possible) |
| `known` | history: the links when a link update was last asked for |
| `written` | the last handler was a save |

| Action | Code |
|---|---|
| `InsertNiBlock`, `RemoveNiBlock`, `MoveNiBlock`, `ReorderBlocks`, `MapAllLinks`, `ConvertNiBlock` | the functions of those names (`mapLinks` for the fifth) with their calls of `updateHeader`, `updateLinks`, `updateFooter` |
| `SetLink`, `SetFooterLink` | `setLink`/`setData` of a link in the `Default` state, through `onItemValueChange` |
| `SetLinksSilently` | links set in the `Processing` state, in which `setData` does not call `onItemValueChange` (`model/nifmodel.cpp:1642`): a pasted array (`ui/widgets/nifview.cpp:253`), undo and redo of a merged command (`model/undocommands.cpp:87-128`) |
| `LoadIndex`, `LoadAndMapLinks` | paste of a block's content, plain and with its links mapped |
| `DropFields` | `updateArraySizeImpl` on an array of links |
| `BeginHold`, `EndHold` | `holdUpdates(true)`, `holdUpdates(false)` |
| `FailHold` | the early returns of the paste spells (`spells/blocks.cpp`) between the two |
| `Save` | `save`, with its update of header and footer |
| `Refresh`, `Update` | `updateModel`, and the pattern "if locked, set a flag and return" at the head of the three update functions |
| `UpdateKnown` | `Update` at the end of a handler that has changed links: these are now `known` |

A spell that holds the updates calls several handlers between `BeginHold` and
`EndHold`; each is an action of its own, so that every stale state in between is
a state of the model.

Abstractions: a block's content is its link fields (numbered slots; those up to
`NumRefs` are child links, the others parent links); which slots a type has is a
constant. Names, strings, sizes and conditions are left out. `save` also resizes
arrays before it writes (`updateChildArraySizes`); what that does to links is
`DropFields`, a handler of its own. After `SetLinksSilently` the document has links
that neither the caches nor `needUpdates` know of; any later handler that updates the
links takes them up. `known` separates the two: `CachesCurrent` says of each state that
the caches are those of the links an update was last asked for, so that all they miss
was set silently. `Init` is a document after `load`: any links
up to `MaxBeyond` beyond the list, any footer, a header that may announce more
blocks than could be read.

### BlockList: the tree of the block list

EXTENDS NifModel by one variable: `tree`, the items of `NifProxyModel` as a set of
paths of block numbers. Every action is one of NifModel and what the block list
makes of the signals it emits: `linksChanged` leads to `updateRoot` and
`updateItem` with the caches as they are, `rowsAboutToBeRemoved` drops the items
of a block. The tree is never rebuilt but repaired, also while updates are held
and the caches are those of an earlier document: `UpdateRoot` takes the old tree
and keeps what the code keeps (`Kept`: what hangs below an item that is not
updated, because a parent link is not followed). Links set silently emit no
`linksChanged` and leave the tree alone. The order of siblings is left
out; persistent indices and row signals of the view are Qt's.

### BlockSpells: spells as functions of a document

A document is a value here and a spell a function of it, put together from the
handlers of NifModel as the code does: with block numbers or persistent indices
it has got before, while the handlers renumber blocks and change the caches it
asks. Remove branch, crop, remove by id, combine and split properties, remove
bogus nodes, flatten branch, attach node, property and parent node, duplicate
block and branch, reorder blocks (`spSanitizeBlockOrder`), and the sanitizers that
run before a save (`SpellBook::sanitize`: children sorted, empty entries removed,
blocks reordered; those that change texts are left out). One behaviour casts one spell, on any block of any
document of the configuration; `cast` keeps the document from before. Several
of these functions are recursive over trees that the spell changes
meanwhile, which is why they are `RECURSIVE` operators and stay with TLC.
`Faults` are the documents on which Reorder Blocks writes outside of its list or
does not come to an end; no property speaks about what it does to these.

### Expressions and Conditions: which fields exist

`Evaluate` is `NifExpr::partition` and `evaluateValue` on a sequence of tokens: an
expression is split at its *first* operator and what follows is taken as one
operand; "!" takes all the rest. `Meaning` is what an expression says by
the precedence of C, which the operators of `nif.xml` are taken from. `InOrder`
says, of the tokens alone, when the two agree.

Conditions is `evalCondition`, `invalidateDependentConditions`, `setData`,
`loadItem` and `saveItem` as to existence. What `nif.xml` says of a block is the
constant `Fields`: per item its parent, position, expression, the names in `cond`
and `arg` (which is what the code goes by when it looks for dependent
conditions), and for a structure in an array of fixed structures the same field
of the first one (`Reference`). Values are 0 or 1, enough for a condition
to hold or fail. `silent` is history: values that changed while no cache was
reset, by an undo of several values (`UndoMany`) or a load that broke off.
Version conditions count as true; conditions on header strings are left out.
`Plain` are the items that read only fields which exist wherever the item may.

### Scene: the objects of the 3D view

`scene` has the lists of nodes, properties and roots, for each node its children,
properties and parent, and for each object its reference count. `AllReleased`
takes objects out of a list and deletes those it was the last one for, with all that
hangs on them alone: `Deleted` is the least set with that property, which is what the
destructors come to within one another. The plain pointer to a deleted parent becomes
`Dangling`. `NodeUpdated`, `GetNode` and `MakeParent` are `Node::updateImpl`,
`getNode` and `makeParent`. `updateImpl` and `getNode` call each other for nodes that
are new; `Update` is the function that has as many of these levels as there are
blocks, and no scene needs more. `Through` is a loop over a list. `SceneUpdated` and
`Made` are `Scene::update` and `make`. A change of links sets `doCompile` and
waits for the next paint; a change of data updates its node at once. `known` are the
links the caches of NifModel have: the scene takes its roots and children from them,
parents and properties from the blocks themselves. `SetLinksSilently` is a pasted array, whose
`dataChanged` is for one block and updates its node with the old caches;
`SetManySilently` is an undo or redo of links of several blocks, whose `dataChanged`
has no common item and makes the view wait for a paint, which again uses the old caches.
`Reset` updates the caches, as a reset of the model does. `fault` says
that freed memory has been used: an old parent, or an iterator over a list
of nodes that has grown. Objects are named by their blocks; a block is inserted
again once its old object is gone.

### Resources: archives, temporary folder, material database

The static state of `gamemanager.cpp`: for each game the archives of the settings
(`main`) and the folder of the loaded document (`temp`), the Starfield material
database (`loaded`, `useTemp`, `contents`) with the archives it was read from
(`sources`), its id, and one material a shader property has kept (`kept`). What is
opened is named by the number of those opened before, so that an archive that was
closed and opened again is another one.

None of it is guarded, and it is used by several threads: the workers of the XML
checker call `loadFromFile` (`ui/widgets/xmlcheck.cpp:458`) under a read lock they
share, and so `setTempDataPath` (`model/nifmodel.cpp:1844`), `set_temp_folder` and
`close_materials`, while the main thread does this and everything else. Besides, the
main thread opens message boxes while it opens archives (`gamemanager.cpp:95`), and
paints run inside of them (`Nested`). A call is therefore a sequence of steps, and
`thread` says where each thread is: in which call, at which label, and where in the
`close_materials` it has called. A step tests shared variables and changes one of
them; an increment of the id is a read (`seen`) and a write; the archives of the
games without a database are closed in one step.

| Actions | Code |
|---|---|
| `TestLoaded`, `ChangeId`, `ResetLoaded`, `ResetUseTemp`, `Clear` | `close_materials`, line by line |
| `OpenFolders`, `DropArchives`, `NewArchives`, `FillArchives` | `open_folders`, out of `get_file` (`GetFile`) |
| `Materials`, `TestDatabase`, `TestArchives`, `BeginRead`, `NextId`, `ReadArchives`, `ReadFails`, `MarkLoaded` | `materials` |
| `GetSFMaterial`, `LoadMaterial`, `KeepId`, `SetSFMaterial` | the shader property (`gl/glproperty.h:706`, `gl/glproperty.cpp:913-943`) |
| `CloseArchives`, `CloseOthers`, `CloseSecond`, `DeleteSecond`, `CloseFirst`, `DeleteFirst` | `close_all` |
| `BeginLoad`, `SearchTemp` | `setTempDataPath`, which shortens the path until it is a folder |
| `SetTempFolder`, `DropTemp`, `NewTemp`, `ScanTemp`, `ScanFails`, `UseTemp` | `set_temp_folder` |

`raced` is history: two threads have been in such calls at the same time. What the
code relies on, that calls come one at a time, is the premise `~raced` of the
properties, which then hold at every step of every call. The model does have the
interleavings, and without the premise none of the three properties holds: section 3
says where. What holds of all interleavings is that no archive is used in two
places (`TypeOK`) and that a load ends (`LoadEnds`).

### XmlChecker: the worker threads of the XML checker

Worker *t* is at `pc[t]`: constructing its models, at the queue, waiting for the
read lock, checking a file, at the test of its quit mutex, done. The steps are
the points of `TestThread::run` between which another thread can act: the queue
and the quit mutex are each one atomic step, the read lock is held from `LockXml`
to `Check`. The window is `gui`: `"idle"` when the event loop is free, otherwise
inside a slot that waits: `run` for its threads, the destructor of a thread for
its last file, `xml` for the write lock and then the parser. Stopping is two
steps, counting the queue and emptying it, because workers dequeue in between.
Signals of workers are a queue of events, handled in order while the window is
idle; Qt delivers those of a deleted sender too. `QReadWriteLock` lets no new
reader in while a writer waits.

### NifUndo: undo commands, the views that push them, the modified flag

The document is one array of links and the item that gives its size; that is
enough for commands to lose their items. `stack`, `index`, `clean` are the
`QUndoStack`; a command keeps the items, old values and new values of the code.
Every transaction (`createTransaction`) has an ID of its own and nothing is
pushed between its commands, so that a merged command is one record.
`SetValues` is `redo`/`undo` of `ChangeValueCommand` with its two peculiarities:
invalid indices do not advance the counter of values, and commands of several
items set their values in the `Processing` state, in which links are not updated
and conditions not cached anew (see NifModel, Conditions). `CastSpell` is any spell
that does not use the stack; it marks the window as modified because
`SpellBook::cast` is followed by an update of the header. Rows an array grows by
are new items, which no command knows, and are not tracked. The automatic
sanitizing at a save is left out here (it belongs to the session). `snap`,
`tracked` and `pasted` are history variables for the properties.

### Session: a window and its document

| Variable | Code |
|---|---|
| `currentFile`, `enabled`, `usable` | the member; `isEnabled()` of the window; whether Save, Save As and Reload have been enabled |
| `doc` | what is in the model: the contents of a file, an edited version, nothing, a partly loaded document, or one that two handlers have worked on |
| `modified` | `isWindowModified() or not undoStack->isClean()`, which `saveConfirm` looks at |
| `disk` | what the files hold |
| `pending` | calls of `load()` posted by `QTimer::singleShot( 0, ... )` |
| `frames` | the call stack: handlers that process events and what they go on with |
| `attached` | whether the views show the model or the empty one (`swapModels`) |

One handler of this part can run inside of another: `sigProgress` is connected to
`qApp->processEvents()`, so that a load or a save processes events at every
block, and dialogs run event loops. A handler is therefore split where it can be
suspended: `BeginLoad`/`EndLoad`, `BeginSave`/`EndSave`, and one step for each
answer to a dialog. What may run on top of a suspended handler follows Qt: posted
calls always; input only if the window is enabled and no modal dialog is open
(the end of a nested load or save *does* enable the window while the outer one
goes on); closing unless a modal dialog is open. `Continue` is what comes after
`saveConfirm()` has returned true, at once or at the end of the dialogs and the
save it has led to. A file can be unreadable, and a save can fail before or after
it has truncated the file.

Abstractions: one window, one archive that stays open, NIF files only; the
save confirmation is not suppressed; what a load that has been run into reads is
the document `Torn` or a failure (in the code it goes on with items that have
been deleted); the model stops when the window is closed.

## 3. What TLC checks

| Run | Instance | Result |
|---|---|---|
| `document` | NifModel: 3 blocks, 3 types (node, lighting shader, texture set), 2 child links each, links -1..2, one of them set silently, maps of one link; the steps of `DocumentNext`: no holds, no conversions, no edits of the footer | `TypeOK`, `SavedConsistent`, `CachesAcyclic`, `RootsCover`, `OnlyCyclesDropped`; `LinksKeepTheirBlock`: NifModel implements ObjectGraph |
| `blocklist` | NifModel and BlockList: 2 blocks of related types, a child and a parent link, links beyond the list, 1 handler in a hold, holds that are never released, one link set silently | `CachesCurrent`, `TreeOK`, `TreeIsRebuilt`, `EveryBlockListed` |
| `spells` | BlockSpells: every document of nine typings of 3 or 4 blocks, up to 2 child links each (with three blocks also beyond the list and behind an empty entry) | `RemovalsExact`, `RearrangedKeeps`, `SanitizeOrders` |
| `conditions` | Conditions: a block of 11 items (fields, a compound, an array of two structures), 4 control values, undo of 2 values; all expressions of 3 or 4 operands over six operators with and without brackets and "!" | `TypeOK`, `ConditionsAsWritten`, `StaleOnlyThrough`, `LoadIsConsistent` |
| `undo` | NifUndo: an array of 2 links, 2 values for each, 2 sizes, 3 commands or spells, any undo, redo and save | `TypeOK`, `UndoRestores`, `NothingLostSilently` |
| `session` | Session: 2 files, readable or not, 1 file in an archive, 2 changes, 5 acts of the user besides answers, 3 handlers suspended at a time | `TypeOK`, `CleanIsSaved`, `IdleIsUsable`; `Reenabled` |
| `scene` | Scene: 3 nodes and 1 property of which 3 are in the document at a time, every acyclic link structure, links of one block at a time set silently | `TypeOK`, `RefsMatch`, `PaintedIsDocument`; `FaultsOnlyPending` |
| `resources` | Resources: main thread, nested calls and 1 worker, 2 games, 3 archives and databases opened before the last call | `TypeOK`, `SourcesOpen`, `TempMaterialsUsed`, `KeptIsCurrent`; `LoadEnds` |
| `xmlcheck` | XmlChecker: 3 files (one with an error), 1 or 2 workers, 4 acts of the user | `TypeOK`, `Exhaustive`, `NeverOverReports`, `NoErrorLost`, `DestroyedSafely`; `RunEnds`, `GuiResponds` |
| `paste` | NifModel, with pastes that fail | `SavedConsistent` violated |
| `processing` | NifModel, with one link set silently | `FooterListsRoots` violated |
| `resources_kinds` | Resources, with files that are no .nif | `LoadEnds` violated |

Why the bounds suffice. A link rewriting depends on whether a link is below, at or
above the positions of an operation, and whether it is inside the list: three
blocks have all of these, and the proofs cover every size. Three blocks make
cycles of every length, two ways to a block, a cycle nothing else refers to, and a
texture set before, behind and apart from a shader. Holds and edits of the footer
are in the `blocklist` and `paste` runs. A hold of one handler is one of several:
a hold that fails leaves the lock, and the handlers after it, saves included, go
on under it, so that one request can overwrite another; after a failed paste
further holds follow. In the block list two blocks with two kinds of links make an
item that is kept below a parent link, dropped by a removal and found again. A link set silently is one a later update takes up together with another one. In the
scene the silent links of a block are any others it may have, so that it loses
children, gets new ones, or takes one that another node has, too.
Four blocks are a branch with a block that is used outside of it, properties that
become equal only when others have been combined, two shapes that share a
property with a texture, and a constraint with its bodies in either order; the links beyond the list of a damaged file are there with
three. In the conditions, a field depends on one that depends on a third, one on
both, one inside a compound and one in the second structure of an array. Three
nodes are a parent, an old one and a child; two nodes share the property, and a
removal makes room for the block that was missing. Three archives and databases are
the archives of the settings, a database, and the folder that comes after it or
before; no call begins beyond the bound, but one that has begun may open more. Two workers are enough for one to hold the read lock while another is
deleted, and three files for a file to remain when both have one. Three changes
give an undone command that is cut off by a new one after a save, with an item
that has gone meanwhile. Five acts and three frames give a load inside of a save
inside of a dialog, and a save under the name of another file between an open
and its load.

Blocks of NifModel are symmetric where the configuration says so; nothing in the
module distinguishes them (the runs with symmetry check no liveness).

Deadlock is checked but in four runs: in XmlChecker and Session the window may be
closed and the user may do nothing more; in BlockSpells one spell is cast, and in
Scene a fault is the end.

Fairness. In Session, the event loop runs posted loads, and loads and saves come
to their end (`WF` of `Program`); the user need not answer. In XmlChecker each
worker thread is scheduled (`WF` of `Worker(t)`), and the GUI thread goes on with
what it is doing and with posted events (`WF` of `Window`): waits of Qt return
once their condition holds, and nothing in a slot depends on the user. In
Resources each thread goes on with the call it is in (`WF` of `Runs(t)`): nothing
in a call waits, but for the nested ones, which end themselves. The user is under
no obligation. Weak fairness suffices: the writer preference of the lock lets no
condition come and go for ever, and the loop has a thread of its own.

### Where the program does not do what it says

Three runs end in a counterexample; `tla/PROJECT.json` quotes the line in question.

- `paste`: pasting a branch whose second block cannot be read returns between
  `holdUpdates(true)` and `holdUpdates(false)`. From then on every update is only
  noted; the next save writes header and footer of the document before the paste.
- `resources_kinds`: a load of a file whose name does not end with `.nif` (`.btr`,
  `.bto`, `.kf`, which the program offers to open) never leaves the loop of
  `setTempDataPath` (`model/nifmodel.cpp:1792`). Everything else here that says
  a load or a check of a file ends (`Reenabled`, `RunEnds`) assumes a `.nif`.
- `processing`: links set in the `Processing` state (an array pasted over, undo or
  redo of a merged command) are followed by no link update, and none is put off
  (`model/nifmodel.cpp:1642`). The next save updates the footer, but from the root
  links of before (`nifmodel.cpp:2063`): a block that is a root now is missing in it.

The modules follow the code in these points as well; the properties name them as
exceptions, or none speaks about them.

- *Expressions out of order.* Three of `nif.xml` are not `InOrder` and read otherwise
  than they are written. "Pixel Data" of NiSourceTexture (`build/nif.xml:5139`,
  `Use External == 0 && Use Internal == 1`) is read as
  `Use External == (0 && (Use Internal == 1))`: it exists whenever Use External is
  0. The version condition of "Pre RPI" (`build/nif.xml:8050`) loses its second
  alternative. "Backlight Power" (`build/nif.xml:7005`) compares to a number
  written "3.402823466e+38", which is taken apart at the "+". `ConditionsAsWritten`
  is about expressions in order.
- *Conditions chained through a field that may not exist*, and values changed in
  the `Processing` state or by a load that breaks off, leave cached conditions
  wrong: the exceptions of `StaleOnlyThrough`.
- *Undo of a paste*: a paste sets the item before it constructs the command with the
  "old" value, so that undo sets the pasted value again. It does so for a count
  (`PasteSize`) and other values, but a link cannot be set as a number
  (`ui/widgets/nifview.cpp:191`), and its undo is right. `UndoRestores` excepts
  pasted counts.
- *Links set in the `Processing` state* stay unknown to caches, block list and scene
  until some later handler updates the links. What the properties of NifModel say of
  caches and footer, but `FooterListsRoots`, is therefore about the links an update
  was last asked for (`known`); `PaintedIsDocument` is about documents whose
  caches miss nothing; and `FaultsOnlyPending` names it as the other way in
  which an update may use a deleted node or append to the list it iterates over.
- *Archives and materials used by two threads*. `close_materials` in a worker of the XML
  checker changes the id of the material database before it clears it
  (`gamemanager.cpp:517`, `520`); a shader property that looks up a material in
  between keeps one of the old database with the new id, though `gamemanager.h:158`
  says that pointers become invalid when the id changes: `KeptUntilIdChanges`, which
  is `KeptIsCurrent` without its premise, is false. The database may be read from the
  folder a worker is about to delete (`gamemanager.cpp:130`), or loaded without the
  folder while a worker takes it into use (`140`); and a paint inside of a message of
  `open_folders` (`95`) may read it from archives that are given up. Resources has all
  of these steps; the premise `~raced` of three properties excepts what they lead to.
- *Parents*: `getParent` returns the first parent of a block with two, where
  `model/nifmodel.h:168` promises -1. Remove Branch therefore leaves blocks that
  an earlier parent outside of the branch refers to (`RemovalsExact` says which).
- *Attach Parent Node* below a parent that is no node makes the new node a root
  and leaves the old link (`Attached` excepts it).
- *Duplicate* inserts the copy at the number of blocks, not at -1, which moves links
  beyond the list by one in a damaged file (`Copied` has the position).
- *A copy of a block that is a child of itself* (a damaged file) becomes its own
  child: Duplicate asks for the parent when the copy is there (`Duplicated` excepts it).
- *Controllers*: `blockLink` (`spells/blocks.cpp:442`) takes a controller that is
  block 0 for none and overwrites the link to it.
- *Reorder Blocks* compares numbers of blocks only: odd links make it write out of
  bounds, and a constraint among its own entities does not end (`Faults`).
- *Old objects of the 3D view*: an update between a change of links and the next
  paint may use a node that has been deleted. `FaultsOnlyPending` says that nothing
  else does as long as the caches miss no links.
- *Workers of the XML checker* construct their models outside of the read lock
  `model/nifmodel.h:80` asks for (`Create`).
- *Nested loads*: `swapModels` toggles, so that a load inside of another one
  attaches the views to the model that is being loaded, which its comment
  (`nifskope.cpp:357`) excludes. `IdleIsUsable` is about the time when all are over.
- *Failed saves*: Save As changes the name first, and Auto Sanitize the document,
  without a flag. `CleanIsSaved` excepts them, and loads and saves that have run
  into each other.

## 4. What TLAPS proves

For every value of the constants the assumptions admit.

| Theorem | Statement |
|---|---|
| `NifModelProofs!TypeCorrect` | `Spec => []TypeOK` |
| `NifModelProofs!CachesStayCurrent` | `Spec => []CachesCurrent` |
| `NifModelProofs!LinksKeep` | `Spec => LinksKeepTheirBlock`, that is `Graph!Spec` |
| `NifModelProofs!CachesStayAcyclic` | `Spec => []CachesAcyclic` |
| `NifModelProofs!DroppedLinksCloseCycles` | `Spec => []OnlyCyclesDropped` |
| `NifModelProofs!RootsLeadEverywhere` | `Spec => []RootsCover` |
| `NifModelProofs!SavesAreConsistent` | `Spec => []SavedConsistent` if `PasteCanFail = FALSE` |
| `BlockListProofs!TreeIsTree` | `ListSpec => []TreeOK` |
| `BlockListProofs!TreeStaysRebuilt` | `ListSpec => []TreeIsRebuilt` |
| `BlockListProofs!BlocksStayListed` | `ListSpec => []EveryBlockListed` |
| `ConditionsProofs!ConditionTypes` | `Spec => []TypeOK` |
| `ConditionsProofs!LoadsTakeWhatExists` | `Spec => []LoadIsConsistent` |
| `ConditionsProofs!ConditionsStaleOnlyThrough` | `Spec => []StaleOnlyThrough` |
| `ResourcesProofs!ResourcesTypeCorrect` | `Spec => []TypeOK` |
| `ResourcesProofs!DatabaseSourcesOpen` | `Spec => []SourcesOpen` |
| `ResourcesProofs!FolderMaterialsUsed` | `Spec => []TempMaterialsUsed` |
| `ResourcesProofs!KeptMaterialsCurrent` | `Spec => []KeptIsCurrent` |
| `XmlCheckerProofs!XmlCheckerTypeCorrect` | `Spec => []TypeOK` |
| `XmlCheckerProofs!NoWorkerOutlivesWindow` | `Spec => []DestroyedSafely` |
| `XmlCheckerProofs!EveryFileOnce` | `Spec => []Exhaustive` |
| `XmlCheckerProofs!LabelCountsChecked` | `Spec => []NeverOverReports` |
| `XmlCheckerProofs!ErrorsCounted` | `Spec => []NoErrorLost` |
| `NifUndoProofs!UndoTypeCorrect` | `Spec => []TypeOK` |
| `NifUndoProofs!UndoRestoresValues` | `Spec => []UndoRestores` |
| `NifUndoProofs!AskedBeforeLoss` | `Spec => []NothingLostSilently` |
| `SessionProofs!SessionTypeCorrect` | `Spec => []TypeOK` |
| `SessionProofs!WindowAtRestUsable` | `Spec => []IdleIsUsable` |
| `SessionProofs!UnmodifiedIsSaved` | `Spec => []CleanIsSaved` |
| `SceneProofs!SceneTypeCorrect` | `Spec => []TypeOK` |
| `SceneProofs!RefsAlwaysMatch` | `Spec => []RefsMatch` |
| `SceneProofs!PaintShowsDocument` | `Spec => []PaintedIsDocument` |
| `SceneProofs!FaultsWhilePending` | `Spec => FaultsOnlyPending` |

Assumptions of NifModel: `NullAssumption` (the two pseudo-targets are no blocks),
`SlotAssumption`, `FieldAssumption`, `InputAssumption` (links are integers),
`TextureSetAssumption` (a BSShaderTextureSet has no child links:
`build/nif.xml:6325-6337` gives it two fields, a count and the names of textures),
`BoundAssumption`. Of Conditions, about `nif.xml`: `TreeAssumption` (finitely many
items, each behind its parent), `SchemaAssumption` (what a condition reads and
where a stream ends has no children; "not cached" is no truth value),
`ScopeAssumption` (every name in a `cond` is that of an earlier sibling, or through ARG
of an earlier sibling of an item above whose `arg` has the name: so it is in all
`cond` and `arg` attributes of `build/nif.xml`, and `BaseModelEval`, `basemodel.cpp:907-973`,
looks names up like that), `FirstAssumption` (a structure of an array has no
condition itself: `updateArraySizeImpl`, `nifmodel.cpp:621`). Of Resources: `GameAssumption` (Starfield is one of the games),
`ThreadAssumption` (the main thread, the nested calls and the workers are different),
`KindAssumption`, `BoundAssumption`. Of XmlChecker: `FileAssumption` (finitely
many files, one at least), `ErrorsAssumption`, `BoundAssumption`. Of NifUndo: `RowAssumption` (the rows are a
sequence without duplicates, the size is none of them), `ValueAssumption`,
`BoundAssumption`. Of Session: `NamesAssumption`,
`PathsAssumption` (a file with an absolute path is not one of an archive),
`PartialAssumption` (a partly loaded document is not the contents of a file),
`OptionAssumption`, `BoundAssumption`. Of Scene: `KindAssumption` (finitely many
blocks, each a node or a property; no parent and a deleted one are no blocks). TLC
evaluates all of them in the runs.

*Type correctness and caches.* The inductive invariant is
`IInv == DocumentOK /\ KnownOK /\ LockOK /\ CachesCurrent`. `CachesCurrent` alone is not
inductive: an `EndHold` recomputes what is in `needUpdates` only, and that the
caches are current otherwise needs that updates wait only while the lock is held
and that `held > 0` implies the lock (`LockOK`); `DocumentOK` is needed because
the functions on links are partial outside of it, and `KnownOK` says the same of the
links the caches were made from. `SetLinksSilently` leaves what the caches depend on
as it is, `known` included. Every handler changes the
document and then calls `Update`, so the proof has two layers: one lemma per
handler that the document stays well formed, and one (`UpdateLock`,
`UpdateCaches`) that `Update` preserves the rest, whatever the handler was;
`HandlerInvariant` joins them.

*Refinement.* The mapping resolves every link to the block at its number
(`Resolve`). `NifModelProofs` first shows for each list operation that it keeps the
list free of duplicates and puts each block at the number the link rewriting
gives it, hence that a rewritten link resolves to what it did before
(`ResolveInserted`, `ResolveAppended`, `ResolveRemoved`, `ResolveCarried`). Each
action then maps to one of ObjectGraph: `ReorderBlocks` and `MoveNiBlock` to
`ShuffleBlocks`, `MapAllLinks` to `SubstituteBlocks`, the edits to `EditLinks`,
hold, footer and save to a stutter. Links set silently are an edit of links like any
other: the refinement is about the document, not the caches.

*Link caches.* What `checkLinks` does is a depth-first search with a stack, proved by
induction on the length of the path that is left. The argument is about sets of
blocks: a set is *safe* for a path if it has no block of the path,
links of its blocks stay inside, and no part of it is a cycle. `Sound` says of a
visit that, when it returns, the block at the end of the path has links into a safe
set only, that links have at most been dropped, and that from the target of a
dropped link one comes back to the block that had it (`Explained`). A safe set stays
safe when links are dropped elsewhere (`SafeBelow`), so that what has been visited
needs no second look; a block whose links all lead into a safe set makes the set
larger by itself (`SafeParent`). After the visit from every block all blocks are
safe for the empty path: no cycle is left (`BreakCyclesSound`). `Derived` collects
what follows for `LinkCaches`, and the three properties come from it and
`CachesCurrent`. `RootsCover` uses that a set of blocks without a cycle has one
that no other one of the set refers to (`SourceExists`).

Induction is over numbers throughout: a property of numbers is the set of those
that have it, and the library's well-founded order of the numbers gives a least one
that has not (`LeastNumber`, `SetInduction`, `BoundedInduction`); that a function
defined by recursion exists is `RecursionExists`. For this reason `Sublist`,
`Distinct`, `Followed`, `CheckLinks` and `UpdatedItems` recurse over numbers.

*Saves.* `Saved` says that right after a save header and footer are those of the
blocks and of the caches. It holds if the lock is free when a save is asked for (`Released`), and that
is so as long as a paste never returns without releasing it: hence the hypothesis
`PasteCanFail = FALSE`. Without it the property is false; the run `paste` shows how.

*Block list.* `TreeInv` is `CachesFollowable /\ IsTree(tree) /\ TreeIsRebuilt`. While
updates are held the tree is updated from caches of an earlier document, so that
nothing may be assumed of the numbers in them but what they had when they were
made: `CachesFollowable`, no cycles above all. Then the recursion of `updateItem`
visits exactly the chains of child links from the roots (`UpdatedAreChains`); a
chain has no block twice (`ChainIsPath`), so that it is no longer than there are
linked blocks, and the check of `parents` in `updateItem` never stops it
(`ChainGrows`). What an update keeps from the tree before hangs below a parent link
(`UpdateRootProperties`). `EveryBlockListed` follows from `RootsCover`: the ends of the
chains are closed under child links.

*Conditions.* Whether an item exists is a recursion over items that come before it;
`ItemRecursion` shows that such a recursion has a solution and `ItemInduction` is the
induction that goes with it, both over positions. The invariant is
`TypeOK /\ Coherent(condition) /\ Right /\ SavedRight`, where the last two are the parts
of `StaleOnlyThrough`. `TypeOK` has the fact that makes `invalidateCondition` right to
stop at the first item that is not cached: above a cached item everything is cached,
hence it forgets all that is below an item (`InvalidatedForgets`). `Coherent`: below
an item cached as missing nothing is cached as existing; without it a save could write a
field whose parent it leaves out (`SaveFollowsCaches`). Two facts carry a change of a value:
what does not read it keeps its condition (`FreshSame`, for `Plain` items only: this is
where chained conditions fail), and what does read it is reached by
`invalidateDependentConditions` (`Reached`, from `ScopeAssumption`). A load leaves in each
cache it visits what the values it leaves make of it (`InputFresh`), also when it breaks
off, and a complete one visits all that is not below a missing item.

*Resources.* The inductive invariant is `TypeOK /\ Closers /\ (~raced => Alone)`.
`TypeOK` holds whatever threads do. `Closers` says from which labels
`close_materials` is called, so that its steps return to one of these. `Alone`: as
long as calls have come one at a time, there is a thread such that all others are at
rest and the variables are related as `Facts` says of where this one is. `Facts` has
four parts. `Sources`: what the database was read from is open, and where the call is
about to give up one of these, the database is empty. `Flags`: `have_materials_cdb`
agrees with the contents, but between the steps that change one and the other.
`Kept`: a kept material is of an older id once the database has been read or cleared. `Folder`:
`have_temp_materials` must be set whenever the folder has materials, also while no
database is loaded, and whenever the database was read from the folder, since closing
a folder closes the database only if the flag is set. The proof
has one lemma for each step, about one thread; when a call begins, the thread that
was spoken of is at rest, and the one that begins takes its place; when it cannot,
because another one is in a call, `raced` becomes true.

*XML checker.* The inductive invariant adds three facts to `TypeOK` and
`DestroyedSafely`. `QueueCounted`: the maximum of the progress bar counts what is
queued, except between the two steps of a stop; `stop` subtracts the queue from
the maximum, which stays a natural number for this reason only. `SurplusNew`:
workers that are no longer on the list have gone, but for the one that is being
deleted; a close looks at the listed workers only, and this is why that is
enough. `RemovalOK`: there is something left to be removed while workers are being
removed, and the worker being deleted is one behind the list. The proof has one
lemma for the steps of a worker, which leave the window alone, and one for each
step of the window.

The counts need a second invariant, `Accounts`. `FilesOnce`: as long as nobody has cut
the run short, a file that waits or is held by a worker has not been checked, and
no two workers hold the same. `Ledger`: the maximum of the progress bar is what has
been checked, what is held and what waits; after a stop it may be less, because a
worker can take a file between the two steps of the stop, which is why the label
may report too little then, but never too much. `LabelOK`: the label appears when no
worker is left that could check more.

*Undo.* The inductive invariant relates the commands to the history. `StackRecords`:
the two states on both sides of a command differ as the command says, for items
that nothing but commands has changed (`Records`). With it a step on the stack
restores the values of the state it goes to (`StepStep`), provided that the values
of the command reach the items they are for; `RankType` shows that they do if no
item before them is gone (`Misplaced`). `CommandSet` keeps the size of an array out
of merged commands, so that misplaced values never give a negative size.
`Unchanged` turns out stronger than `NothingLostSilently`: the flag of the window
alone suffices, whatever the position of the stack.

*Session.* `IdleIsUsable` speaks of the empty stack; the invariant has to say what
every stack of suspended handlers owes. It is `FilesOK /\ WindowOK /\ StackOK`, and
`StackOK` has three parts besides the types: the views show the model if and only
if an even number of loads is suspended (`Swapped`: each begins and ends with
`swapModels`), a disabled window has a load or a save under way (`Waiting`), and
the posted loads together with the handlers that are going to post one are no more
than what the user has done (`Posted`). All three are about the stack with its top
added or removed, so that `Pushed` and `Popped` carry the proof, and the code the
handlers share has a lemma each (`BeginLoadStep`, `BeginSaveStep`, `ContinueStep`).

`CleanIsSaved` needs a second invariant, `SInv`. A load or save that no other one
has come in between (`Alone`) is the only one on the stack and keeps the window
disabled, the document is as it has left it, and its file is the one whose name is
shown, or a load is waiting (`Unmixed`). A document that is being loaded has its
load on the stack (`PartialOK`), so that a save on its own never writes a part of
one. Dialogs do not matter to any of it (`QuietStep`).

*Scene.* The inductive invariant is `IInv == Documents(blocks, links, known) /\
Follows(blocks, links, known, doCompile, scene)` (and the type of `doCompile`).
`Documents`: the links and those of the caches are
both of one document without cycles. `Sound`: what a list holds is an
object, and each object counts its lists. It survives every update, of whatever
document, one with a fault as well. It says nothing of objects that own one another in
a circle and that no list of the scene leads to: `Scene::clear` would leave them. So
`Follows` adds that no node is below itself, as long as there is no fault; an update
gives all nodes of the scene children that are children in the document, and the other
objects no new ones, which is why two structures without cycles make one without
(`UpdatedAcyclic`). Hence a paint starts with nothing at all (`SceneClearedEmpty`), and
a scene that waits for no paint is `Painted`: it has the nodes, roots and children the
caches give, which is the document if they miss nothing.

The work is in the update. `Release` is a least set, described by `DeletedProperties`
alone. From there on a scene is known by its lists, and each step of `updateImpl` has a
lemma: `ClearedSound`, `PropertiesSound`, `NewNodeSound`, `MakeParentSound`. `Grows`
joins them: from one scene to the other no node is lost, nodes that were updated or are
new have children of the document only, other ones no more than they had, and if the
first scene was tidy (nodes are children of their parents only, and of nodes that may
have them), so is the last one, with the properties and, when the links in the cache
are those of the document, all the children it should have. `GrowsTwice` composes
updates. `UpdateGrown` is by induction on the blocks that have no node yet: all
updates but the first are of new nodes. `may`, the children a node may have, is a
parameter of `Tidy`, since an update that comes with a change of a link sees the new
links and the old cache (`BlockKeepsPainted`). A tidy scene has no dangling parent,
and if it has all nodes none is added while the code iterates over them: these are the
two ways to a fault, and this is `FaultsOnlyPending`. That every node is painted uses
that a set of blocks without cycles has one that no other one links
(`NodesBelowRoots`).

Only model-checked:
- `BlockSpells`: its operators are RECURSIVE, over trees of blocks.
- `ConditionsAsWritten`: that an expression means what it says is an induction over
  expressions, which are data.
- `RunEnds`, `GuiResponds`, `Reenabled`, `LoadEnds` are liveness and stay with TLC.

## 5. What is not modelled

- *In NifModel*: `moveAllNiBlocks` between two documents (attach .KF), header
  strings, block names typed in by hand, sizes of arrays, the byte format of load
  and save. `removeRows` is called by `convertNiBlock` only and is covered there.
- *In Conditions*: version conditions (they change with the version of the document
  only), conditions on header strings, values beyond 0 and 1.
- *In BlockSpells*: attaching blocks of other types, convert, sort by name, paste
  of strings, a block with both children and properties; mesh, texture, flag and animation spells compute on data.
- *In Scene*: controllers and their time, shapes, textures, OpenGL.
- *In Resources*: game detection, the settings dialog, what is in an archive, a file
  that is read out of an archive another thread deletes.
- *In XmlChecker*: search options, what a check reads, progress values, menus.
- *In NifUndo*: editors, other key bindings, the UV editor's own stack.
- *In Session*: opening and closing of archives, several windows, KFM files.
- *Floating point, textures, mesh algorithms, byte formats, import and export*: data
  that TLC cannot enumerate in a useful way.
- *KFM model, messages*: no state another part depends on.
- *Vendored libraries, generated tables, widgets that only paint*: most of the
  repository's lines.

## 6. Plan

Done: `Numbering`, `Links`, `ObjectGraph`, `NifModel` with their proofs,
`BlockList` with its proofs, `BlockSpells`, `Expressions`, and `Conditions`,
`Resources`, `XmlChecker`, `NifUndo`, `Session` and `Scene` with their proofs. Left, in
order:

1. `LinkRows` (`data/nifitem.cpp`, `model/basemodel.cpp`): the rows cached as
   holding links under insertion, removal and change of type; the stack of model
   states and the early returns that leave one behind. To be proved: the cached
   rows are exactly those that hold links.
2. Two documents: `moveAllNiBlocks` and Attach .KF, which holds the updates of one
   while it empties the other.
3. `Versions`: header and footer over a load after a save; `Strings`: header strings.
4. The other block spells; the time of controllers.

The three modules about one window (`NifModel`, `NifUndo`, `Session`) are kept apart
because they meet in one flag each: NifUndo says when `modified` is set and
cleared, Session what is made of it; NifModel says what an edit does to links and
caches, NifUndo which edits pass it by.

# Puma Browser in TLA+

Puma (`src/`) is a text browser for the terminal, written in Rust. This
directory models its state machines, model-checks them with TLC and proves the
most important properties with TLAPS. The source is the reference: every
definition translates code, and `PROJECT.json` (`map`) names the lines.

## 1. The system

Crates are layers: `browser-cli` wires everything, `browser-terminal` and
`browser-mcp` drive `browser-core`, and the core uses the document pipeline
(`browser-html`, `-css`, `-layout`), `browser-network`, `browser-privacy` and
`browser-storage`.

| Component | State it keeps | Operations | Hard behaviour |
| --- | --- | --- | --- |
| Terminal event loop (`browser-terminal/src/lib.rs`, `ui_state.rs`, `input.rs`, `selection.rs`) | load state, view state, cached cell buffer, scroll offset, anchor returns, pending fragment, selection, interaction mode, focus, field edit, submit confirmation | one handler per key action, mouse events, the join of the load task | the controller is away while a load runs; mouse events ignore modes; state that means one page outlives it |
| Navigation core: page and history stack (`browser-core/src/lib.rs`) | current page, back stack of at most 50 pages, form values | load, submit, go back, field setters | the page changes by a load, asynchronously, and by Back, at once |
| Navigation core: redirect chain and cookie engine (`lib.rs`, `cookie_jar.rs`; `browser-privacy`) | jar, records, default policies, exceptions | hops, Set-Cookie lines, policy changes | chains across sites and schemes; policies that prune; persistence that fails |
| Network hop (`browser-network/src/fetch.rs`) | none | one request, redirect resolution, limits | timeouts, downgrades |
| Visit history (`browser-storage/src/history_store.rs`, `browser-core/src/suggestion_index.rs`) | visits and pages on disk, suggestion index in memory | record, search, delete, clear, prune | two copies that must agree over failures and restarts |
| Settings panel (`settings_view.rs`, `ui_state.rs`, `lib.rs`) | rows, draft, debounce, live settings, rows on disk | toggle, cycle, edit, auto-save, revert | timer against keys, live value against stored one |
| Form fields (`form_field_values.rs`, `form_controls.rs`) | value per NodeId | seed, set, toggle, reset, submit | ids of another document, secrets, groups, two walks over one map |
| Start-up (`browser-cli/src/main.rs`, `config.rs`) | none | precedence of default, file, store and environment; opening databases | degraded modes |
| Storage (`database.rs`, `migrations.rs`) | SQLite file | open, migrate | crash or a second process between steps |
| MCP server (`browser-mcp`) | controller behind a mutex | open, read, list links | tools waiting on one lock |
| HTML (`browser-html/src/parser.rs`) | the arena while html5ever parses; the extractor while it walks | sink calls; blocks, runs, anchors, tables, forms | nodes that move, limits, text and names handed from one walk to another |
| Layout (`browser-layout`), cascade (`browser-css`) | none | rows, wrap, tables, spans | columns against characters, indents that eat the width |

How they interact: the loop calls the core directly while it is idle. To load,
it moves the controller into a task (`start_load`), leaves a default controller
behind and waits for the join handle, ticks and Ctrl+C. The core calls the
network once per hop, the privacy crate once per Set-Cookie line and the stores
after a load and on each policy change. There is no shared mutable state between
tasks; what can go stale is what the loop copied out of the core.

What makes each component correct is listed with its properties in section 3,
and as hazards, at the lines where they bite, in `PROJECT.json`.

## 2. Modules

| Module | What it is |
| --- | --- |
| `LoadTask` | abstract: the contract of a load between the terminal and the core. It ends, and only its success changes the page |
| `SessionHistory` | abstract: what Back promises |
| `EventLoop` | the event loop with the controller's page and back stack; implements `LoadTask` and `SessionHistory` |
| `CookieEngine` | one redirect chain at a time, the jar, the policies, the stores and restarts; implements `LoadTask` |
| `RememberedVisits` | abstract: when a visit on disk is forgotten |
| `VisitHistory` | the visits and pages tables, the suggestion index and the open list, over failures and restarts; implements `RememberedVisits` |
| `SettingsPanel` | the rows of the settings panel, the draft of the one in focus, its save timer, the settings in force and those stored |
| `FormFields` | the live values of a page's form controls: seeds, edits, reset, confirmation and submission |
| `AtomicTools` | abstract: tools of an agent that take effect one at a time |
| `McpServer` | the MCP tools over one locked controller; implements `AtomicTools` |
| `Characters` | what stands for a character and for whitespace |
| `DomBuilder` | the arena of nodes under the calls of html5ever |
| `InlineRuns` | how segments of text become the inline runs of a block, with the anchor names bound to them |
| `HtmlDocument` | what the extractor makes of a finished arena; extends `DomBuilder`, uses `InlineRuns` |
| `CellRows` | how lines of cells, whatever they show, become rows: wrap, clip, spans, the write into the buffer |
| `GridRows` | how a table of such lines becomes columns or records; extends `CellRows` |
| `PageLayout` | the rows, spans and cells of a document at a width; extends `HtmlDocument` and `GridRows` |
| `MCEventLoop`, `MCCookieEngine`, `MCVisitHistory`, `MCSettingsPanel`, `MCFormFields`, `MCPageLayout` | symmetry sets, pages and definitions for TLC |
| `EventLoopProofs`, `CookieEngineProofs`, `VisitHistoryProofs`, `SettingsPanelProofs`, `FormFieldsProofs`, `McpServerProofs`, `LayoutProofs` (what text goes through: `InlineRuns`, `CellRows`, `GridRows`, the walks of `PageLayout`), `PageProofs` (`DomBuilder`, `HtmlDocument` and `PageLayout` as specifications) | theorems, for every value of the constants |

`LoadTask` is where the two compose. `EventLoop` treats a load as an atomic
outcome with fairness on its end (`WF_vars(LoadEnds)`); `CookieEngine` models
the inside of that load and shows that it ends and touches the page in no other
way. So each is checked against the contract rather than against the other, and
that the steps of both keep it is proved, too. A load is atomic in `McpServer`,
too, but for its redirects and for the await in which the visit is recorded.
`DomBuilder`, `HtmlDocument` and `PageLayout`, with the three modules they use,
are one pipeline, and `EventLoop` assumes of it only that a NodeId means
something within one document. `FormFields` is about one page at a time; that an
edit may outlive its page is `EventLoop`'s subject.

### EventLoop and the code

One action is one iteration of `drive`, from the event to the next wait;
`TopOfLoop` is the part every iteration ends with (lay out, clamp, apply a
pending fragment). A page is named by the load that produced it, so two loads of
one address are two pages; an offset, a NodeId or a coordinate is abstracted to
the page whose buffer or document it was taken from. That abstraction is what
the properties are about: none of them needs more than "of which page".

| Variable | In the code |
| --- | --- |
| `load`, `loads` | `LoadState`; the count names pages |
| `page`, `back`, `url` | `current_page`, `history_stack`, each page's final address |
| `typed` | which drafts each page's `FormFieldValues` took in (observation) |
| `view`, `cache`, `scroll` | `ViewState`, `CachedPage`, `ScrollState` |
| `pending`, `anchors` | `pending_fragment`, `anchor_return_offsets` |
| `sel` | `TextSelection` |
| `mode`, `focus`, `edit`, `confirm` | `interaction_mode`, `focused_interactive_index`, `focused_field_edit`, `submit_confirmation` |

`DrawAsksFor` and `TickAsksFor` are what an iteration asks the controller for by
itself, load or no load: the draw its counts and the chosen options of an open
list, the settings panel its timed save.

Keys are routed as `map_key_event` does: while a load is active only Ctrl+C is
read; an open field edit takes the keys of reading and link modes. Mouse events
are routed by no mode at all, as in the code. `Pointer` is FALSE for terminals
that deliver no mouse events; it separates what keys alone can do.

Left out: the palette, suggestion and citation popups, hints, arming of Esc and
r (modelled as their second press), drawing, and a change of the window's width.

### CookieEngine and the code

A host is its registrable domain, `NoSite` if it has none. A chain is
`run_hops`: `HopAnswers` sends a request and reads the answer, `AcceptCookie`
and `RefuseCookie` are the Set-Cookie lines of that answer, one step per line,
and `FollowRedirect` or `FinishLoad` goes on. A stored cookie remembers which
site's response set it, whether it is Secure, whether it came over https and the
party its setter was in that chain; these are what the properties compare.
Policy changes happen between chains only, because the controller is inside the
load task meanwhile: `EventLoop!PlaceholderIsOnlyDrawn` establishes that nothing
but the draw reaches the placeholder it left.

`store` is the database a start wires: that on disk, one in memory when no path
for a file is found, which forgets at exit, or none. A start on disk takes a row
of a scope it cannot read as absent and keeps the store (`unread`); a row of an
exception it cannot read costs it the store. `saved` is what the database on
disk holds, `confirmed` what the user was last told is set with it, in this
session or an earlier one. `StoreFails` lets the database fail to open, to read
or to write; `AnyCase` lets users type sites with capitals. `Declared` is the
set of hosts that servers name in a Domain attribute: with `{NoSite}` no
response names another site.

### VisitHistory and the code

| Variable | In the code |
| --- | --- |
| `file`, `ram` | the database on disk and that of `open_in_memory`; `visits` maps a rowid to its visit, `pages` an address to `visit_count`, `typed_count` and `last_visit_at` |
| `mode`, `store` | `HistorySettings.mode`, and whether `open_history` returned a store |
| `index` | `SuggestionIndex`, a copy of the pages row per address |
| `list` | the ids in `UiState.history_entries` while the list is open |
| `clearing` | whether `clear_all` is between its two statements, the only operation that is not one transaction or one statement |
| `now`, `session` | the clock and the process starts |
| `stale`, `forgotten`, `missed` | addresses whose index row no longer follows the store in this session; what the user was told is cleared; the part of that which the store kept (observations) |

`Restart` is enabled in every state, between the two statements of `clear_all`
too, and opens the database as `open_history` does: prune, then load the index,
either of which may fail. An operation that fails and changes nothing is a
stuttering step and has no action. A rowid is given as SQLite gives it, one more
than the greatest in use. A host to clear may be typed in another case than in
its addresses (`Spellings`): the index ignores case, the store compares exactly.
`RecordCurrentVisit` closes the list because the load that it ends did so when
it started: `EventLoop` shows that no panel is open while a load runs.

Left out: titles, ranking, the words a search matches (any set of addresses may
match) and a clock that is set back.

### SettingsPanel and the code

| Variable | In the code |
| --- | --- |
| `live` | `App.settings` and the controller's `search_engine` |
| `saved`, `store` | the config table and whether a `config_store` is wired |
| `locked` | `env_overridden` of the checkbox |
| `open`, `focus`, `shown` | the interaction mode, `settings_focus_index`, `SettingsModel` |
| `draft` | `SettingsTextEdit` without its cursor: the row, the text, `dirty`, `autosave_suppressed` |
| `tries`, `confirmed`, `broken` | observations: saves by the timer since the last key, what was shown as set while it could be stored, whether the store failed |

One action is again one iteration of `drive`: an event, then
`reconcile_settings_text_field` (`Leave`, `Fresh`) and
`maybe_autosave_settings_text` (`Stay`), in this order. The key map reads the
focus and the editing functions change the draft, in one iteration, while the
draft follows the focus at its end only: that the two agree is
`DraftIsOfFocusedRow`. Time is whether the debounce has run out when an
iteration reaches its end (`late`). A keystroke stamps the draft, so the timer
cannot run out in its iteration; Esc does not, so in its iteration it can.

A save (`Save`, `Reject`, `SaveBreaks`) is `persist_settings_text` with
`set_search_engine`: validate, put in force, write two rows. A draft is one of
`Values`, of which `ValidBases` are web addresses; a keystroke may turn a draft
into any other. One checkbox stands for the four, which differ in nothing but
their keys. Left out: the cookie rows (`CookieEngine!SetGlobalPolicy`), sections
and labels, and keys that only move the cursor.

### FormFields and the code

`fields` is `FormFieldValues`, one entry per control, `Unset` where the map has
none; a NodeId is the place of its control on the page. `Overlay` is
`build_field_overlay`, `SubmissionPairs` is `build_submission_pairs`: the two
walks that must tell the same. `edit` is `FieldEditState`, `confirm`
`SubmitConfirmation`, `sent` a submission on its way; `edited` observes which
controls were edited since they were seeded. Texts are their lengths, which is
what a mask shows and all that the properties tell apart; an option is its
value. A page is any sequence of controls, with and without a form or a name.

### McpServer and the code

Each tool call is a task; `task[c].at` is the await it stands at. `lock` and
`queue` are the tokio `Mutex`, which is fair: it is handed over in the order in
which the calls asked. The calls of one connection run as tasks of their own, so
they may ask in another order than they came in. `browser_read` and
`browser_list_links` differ in what they take out of a document and nowhere
else; a document is its name. `Reply` is after the await of
`record_current_visit`, with the guard still held, which is what the mutant of
`ImplementsAtomicTools` takes away.

### The document pipeline and the code

`DomBuilder` has one action per call of the `TreeSink` that changes the arena.
html5ever is external: guards say what the sink relies on (an appended node is
loose, nothing becomes its own ancestor) and a *grammar* says which elements may
stand in which, and for large shapes which nodes come first (`first`), so that
TLC generates every small page of a shape: text cut by links and quotations,
long words, lists in lists, blocks, data tables, a table of two records under
headers, one of too many rows, tables with blocks, text and paragraphs fostered
out of a table, deep nesting, forms, figures and details, preformatted text, and
misnested elements that are removed and reparented, and pages of too many nodes.
Limits are small and are crossed.

`HtmlDocument` threads one record through the walks, as the code threads `&mut
self`: the nodes pushed, the segments gathered, the anchor names pending, the
next NodeId. Characters are numbered as the page has them, so where each one
ends up can be told; 0 is whitespace. Its walks are recursive in the code; here
they are functions of how many levels of the tree they may still go down
(`Walks[n]` stands for the walks of trees of `n` levels, `RawText[n]` and the
others likewise), and `Levels` is more than any tree of the arena has. Written
so, they need no recursive operator and can be proved about, and `WalksEnd` says
that no walk is cut off. What the walks gather for one block goes to
`InlineRuns`, which is `RunBuilder`: a state machine that reads one character at
a time and decides what is a run, which space stays and where names go.

`PageLayout` turns the nodes into rows of cells. `RowsOfNode` is `node_rows`
with its case per kind, told what the nodes a level down become; `NodeRows[n]`
are the rows of trees of `n` levels, for any width and any names that wait, and
`Height` is as high as the extractor builds. The nodes themselves are such
levels (`NodesOver`, `NodesOf`, `AnyNode`: all the nodes a document can be made
of), so the functions have a domain and TLC evaluates them only where they are
asked. `NodeRuns` are `collect_node_runs`, which gathers the line of a data
cell. `Draw` lays the page out at another width.

What is done to cells whatever they show is in modules of its own. `CellRows`:
`WrapCells` is the `LineWrapper`, `Clip` is `clip_cells`, `LinkSpans` and
`FieldSpans` are the scans of a row, `Buffer` is what `write_row` puts into the
`CellBuffer`. A character takes two columns (`Wide`), none (`ZeroWidth`, as a
zero width space does), or one. One of none has a place in a row and no column
of the buffer: `write_row` puts what follows over it, and a span ends a column
before the scan but no further left than the row (`LastColumn`, the
`saturating_sub` of the code). `GridRows` is `table.rs` once its cells are
lines: `ColumnsOrRecords` is the choice between `ColumnRow` for each row and
`Records`. The label of a field is the text of its header cell without its marks
(`FieldLabel`, `Plainly`), so a header is drawn again for each record.

`InlineRuns`, `CellRows`, `GridRows` and `PageLayout` declare no recursive
operator either. Each loop of the code is a function of how far it has come
(`WrapUpTo`, `ScanUpTo`, `RenderedUpTo`, `ListUpTo`), so they can be proved
about for texts, tables and lists of any length.

Left out: decoding and sanitising, templates, roles, labels, URL resolution,
styles but for `display: none` and the blank rows after blocks, case
transformation, emoji substitution and what the overlay writes into the
placeholder of a field. The labels drawn before controls, which repeat text of
the page, are left out too, and a label of a record whose characters merge with
their neighbours when it is cut into graphemes again is not told from one whose
characters do not. `Draw` has no outcome for more rows than a `u16` counts
(`LayoutError::DimensionOverflow`): it would leave no rows, and `Draw` models
the layouts there are. Titles are dropped as the walk drops them.

## 3. What the runs check

`FormFields` and `McpServer` check for deadlock. The others have `CHECK_DEADLOCK
FALSE`: quitting really ends the loop, a page over its limits is never laid out,
and the bounded counters end the rest.

| Run | Bounds | Shows |
| --- | --- | --- |
| `EventLoop` | 2 addresses, 2 loads after the start page, stack of 1, 1 jump, mouse | what a load may find open, and that state of one page does not outlive it; the session history and the contract of a load are implemented; fragments are consumed, over 2.1 million states |
| `CookieEngine_cookies` | 2 sites, 1 redirect, 2 loads, no foreign domains, any spelling | what enters, is kept, listed and sent, over 2.3 million states |
| `CookieEngine_restarts` | 1 site, 1 redirect, stores that fail to open, read or write or keep nothing, 3 sessions, sites spelt as their addresses | confirmed policies survive; the chain implements `LoadTask` |
| `VisitHistory` | 2 addresses with a host each, 2 visits, 1 tick, 2 sessions in any mode, failing stores, hosts in any spelling | tables, index and list agree; what was cleared stays cleared; `RememberedVisits` is implemented |
| `SettingsPanel` | 3 texts of which 2 are addresses, 3 keystrokes, 2 sessions, failing store | drafts, rows, settings and store agree; saves happen when they should; what was set survives |
| `FormFields` | 3 pages with every kind of control, drafts of 2 characters | radios, defaults and submissions |
| `McpServer` | 3 calls at once, 2 pages, 1 redirect | `AtomicTools` is implemented, its liveness included |
| `PageLayout` | 15 shapes, up to 7 nodes (9 and 13 where the shape names the first), 7 characters and 2 moves, widths of 3 and 8, characters of no, one and two columns | the arena, the text, the anchors, numbers and spans |

The bounds reach what matters: two addresses are one page and another; the start
page and two loads are enough to leave a page, to come back and leave again, and
to drop a page from a stack that keeps one. Cookies need a site and another one,
one redirect to get from the one to the other, and two loads so that a cookie of
the first comes back in the second. Three sessions allow a row written in the
first, a start without a database, and a third one that finds the row. Two
visits of one address are one that is deleted and one that keeps its page, or an
old one that expires and a new one that does not (`Retention` is no tick, the
clock has one); a list limit of one hides a row; two sessions are an interrupted
clear and the start that repairs it, or a session on disk and one in another
mode. (`MaxCounted` bounds what the pages on disk and in memory count together:
three is two visits in the one and one in the other.) In the panel, two
addresses are an old and a new one and the third text is rejected; three
keystrokes are a rejected text, a corrected one and one more in the other row.
Of the form pages, one has two forms that share a radio name, one every kind of
control in a form that is posted, one the odd cases: no name, no form, no
options. Three calls are one that loads, one that waits and one that comes
between. A width of three fits no table and breaks words, a width of eight fits
some; the characters 2 and 5 are two columns wide and may stand at the end of
either, and the character 1 takes none, so that a row, a link or a cell can
start with it; two records of two columns draw the header of the second twice
(`TwoRecords`); limits of three table rows (`Rows`), two columns and two options
are crossed, as are the depth of four (`Deep`) and the thirteen nodes (`Long`).

Safety properties of `EventLoop`: while the task holds the controller the draw
alone asks the placeholder for anything, and nothing is open that the first keys
after the join would act on; an idle loop draws the page it holds; focus,
confirmation and jumps are of the drawn page; a waiting fragment is that of its
load. Of `CookieEngine`: cookies go back to the site that set them only; Secure
ones never touch the wire in clear; a rejected site holds nothing; a tightened
default forgets; a cookie enters only as its party and exception permit; the
list hides nothing; a policy confirmed with the database on disk is in force
after every start that has it and can read the row. Of `VisitHistory`: a page's
counters cover the visits left of it; the index is the pages table but for
addresses whose last visit was deleted or whose host was cleared in another
spelling; a row of the open list is a visit that is still held, whatever ids
were given again; what was cleared from disk does not come back unvisited, if
the store knows the host as it was typed; a start repairs a half-done clear. Of
`SettingsPanel`: keys change the draft of the row they are read for; the open
panel shows what is in force; Esc saves nothing, even as the timer runs out;
leaving a row saves it; no draft waits forever; what was shown as set is in
force after the next start.

Of `FormFields`: once a radio was selected, one of its group is checked,
whatever other forms use its name; what nobody edited has the page's value, so
that a hidden control goes back as it came; a submission is what the overlay
shows, in page order, the button last. Of `PageLayout`: the arena is a forest
its two ends agree about, whatever the parser moves; a block reads as its part
of the page with whitespace collapsed, whichever elements cut it (the reference
definition is by position, the code's is a state machine); no character is drawn
twice or out of order, but for the headers of a table drawn as records, which
stand before each field of their column and nowhere else, and fields are in
order; no character of flowing text that takes a column is lost past the right
edge where the width has room at all; no anchor is below its text; NodeIds
follow the page and are given once; at each column there is exactly the span of
what is drawn there, but for what marked characters of no column leave on the
first column of a row.

Runs that end in a violation are the findings of section 5.

### Fairness

`EventLoop` assumes weak fairness of the end of a load only: `run_hops` has a
limit on redirects, each request a timeout of thirty seconds, and `select!`
polls the join handle. Users promise nothing. `CookieEngine` assumes weak
fairness of the chain's own steps; Set-Cookie lines are finitely many because
response headers are bounded, which `MaxLines` stands for. `SettingsPanel`
assumes weak fairness of `Idle`: the loop wakes every 80 ms whether or not a key
came, and a user who types without end postpones the save without end
(`MaxKeys`). `McpServer` assumes weak fairness of each call's steps: the runtime
polls a task that can go on, a request ends by its answer or by
`REQUEST_TIMEOUT`, and the mutex is handed over in order, so no stronger
fairness is needed for a call that waits.

## 4. What is proved

The theorems hold for every set of addresses, sites, texts, pages, clients or
element names and for all limits, from the assumptions the modules name for
their constants. Each component has its type invariant proved (`TypeCorrect`; no
run is spent on one). Every safety property of `EventLoop`, `CookieEngine`,
`VisitHistory` and `SettingsPanel` that a passing run checks has its theorem,
and so has every one of `FormFields`. Of the document pipeline they are the
arena, the text of the blocks, the NodeIds and the spans; of the rest, what
holds of every line's rows is proved, whatever the line comes from.
`SessionHistory`, `RememberedVisits` and the safety of `AtomicTools` and of
`LoadTask`, the latter by both of its implementers, are proved implemented, and
`ConfirmedPoliciesSurvive`, `CookiesEnterAsPermitted` and `StartsAreConsistent`
are proved as action properties. Three theorems are about properties that no run
checks: `BackCorrect` (the back stack is strictly older, ordered and bounded),
`BodyCorrect` (only the first request of a chain carries the body of a form) and
`AutosaveCorrect` (the timer tries a text once).

The arguments: in `EventLoop` most properties are not inductive alone. The drawn
page (`DrawnPageIsCurrent`) needs that the buffer, when there is one under a
load, is still the current page's; focus and confirmation need the drawn page
and that no mode but reading runs with a load; jumps need that they are cleared
whenever the page changes. They are proved in that order, each from the ones
before it, with one step per action. `BackWalksIntoThePast` is strengthened by:
no page, the current one included, is newer than the last load. In
`CookieEngine` the invariants speak of each cookie of the jar first (its setter
is the site it is held for; a Secure one came over https), and what a request
carries follows from what the jar held. Rejection, tightening and entry assume
`NoForeignDomains` (`Declared \subseteq {NoSite}`): without it they are false,
see section 5. Survival assumes sites are typed as addresses spell them; its
invariant is that what was confirmed is what the database on disk holds,
whatever the sessions since have wired (`ConfirmedInv`).

`KeyboardDraftsCorrect` holds for `Pointer = FALSE` only, for the same reason.

In `VisitHistory` most steps only take away: the lemmas about the store's
operations show that each but `RecordVisit` leaves some of the visits, and of
the pages those of the visits left (`Shrinks`). What holds of a database then
holds of what is left of it, which carries the counters (`CoverInv`, which adds
that nothing is of the future) and what was cleared. The list needs that it is
open over a store only and never while it is being cleared (`ListInv`). The
index is compared whenever there is a store, in the middle of a clear too
(`SuggestionInv`). Forgetting needs the counters: what a clear in another
spelling finds uncounted has no visits either, so the rest is `missed`. Neither
assumes anything of how hosts are typed.

In `SettingsPanel` one lemma (`SaveFacts`) says what any end of a save leaves
alone: the types, what is confirmed being stored, and the panel showing what is
in force; the other lemmas take an iteration to it (`Saving`). The type
invariant carries that no text which is not an address is in force or stored.
`PanelShowsWhatIsInForce` needs that the draft is of the row in focus, since a
toggle changes the settings under it; `AutosaveTriesOnce` is strengthened by: a
draft that was tried is clean or held off (`TriesInv`); survival by: what is
confirmed is stored (`ConfirmedIsStored`).

In `DomBuilder` a call of the sink is a composition of a few changes of the
child lists and of the parents: a child appended, inserted, taken out, a list
moved to an empty element. Each is a lemma about any lists and any parents,
which are not the module's variables: they keep the two ends in agreement
(`Agree`) and every set of nodes free of cycles (`Acyclic`), given that the new
child is loose and is no ancestor of the new parent. `IInv` adds where handles
come from (`Handles`): only handles that were pushed are in the tree, so a fresh
one is loose. The ancestor test of the guards is a set closed under parents
(`NotBelow`), which needs no recursion, and a cycle would have to cross it.

In `FormFields` a radio is selected or reset group by group, and a group is
never partly of one form; the invariant adds that only one mode is open
(`OneMode`) and that an open edit is of a control that has one
(`EditsAreOfEditables`), so that a draft cannot reach a radio. That a form sends
what it shows (`SubmissionsCorrect`) needs two more: what is selected in a
select is offered by it (`SelectionsAreOffered`), since the overlay shows
options and the submission sends values, and a value that no option has would be
sent unseen; and that only a submit button asks for a confirmation
(`ConfirmsASubmit`), so that the button whose pair is added is the one that was
pressed. The walk over the controls is followed from control to control: so far
the pairs are those shown, in page order. In `McpServer` the refinement needs
that the page under a reply that waits for its visit to be recorded cannot
change: `RecordingIsLocked`.

`LoadTaskImplemented` maps the chain of `CookieEngine` and the load of
`EventLoop` to the same abstract load. In the loop it needs that no page held
anywhere is newer than the last load (`TrailInv`), so that Back returns to a
page that was loaded; in the engine, that a chain is never mistaken for none
(`ChainAssumption`).

`LayoutProofs` is about functions, not about steps. The library's induction
theorems cannot be used here, so induction is proved once from the least number
of a set (`LeastNumber`, `Induction`); a function that is defined by its own
equation is shown to satisfy it (`WalkExists`), and then what each loop keeps is
proved along its way. No theorem bounds a text, a table, a width or the set of
characters of two columns or of none. What the browser writes itself, and
spaces, are taken to be one column wide (`InkAssumption`).

- `RunsReadCollapsed`: the runs of a block read as its segments do with
  whitespace collapsed, in the right style, which is what
  `TextIsCollapsedFaithfully` checks on pages. The invariant of the builder is
  that its runs read as the characters so far without every space that follows
  no visible one (`Followed`), and that `last_was_space` tells the last of them;
  at the end one space at most is too many (`TrimmedIsCollapsed`).
- `NamesAreBound`: every anchor name of a block is on a run that none of the
  text behind the name comes before. On its way a name waits, with no visible
  character passed, or is bound early enough (`IsKept`); a run that is dropped
  because its text was one space has no names, since only visible text binds
  (`NamesAreSeen`).
- `WrapKeepsText`, `WrappedRowsFit`: wrapping keeps every character but spaces,
  in order; a row fits or is one character, and neither starts nor ends with a
  space. `ClippedRowFits` is about rows that are cut instead.
- `WrappedTextIsInTheBuffer`: at a width of two columns or more no character of
  a wrapped line that takes a column is lost at the right edge, as
  `FlowTextIsInTheBuffer` checks on pages. What is written at a column stays
  there, since only characters of no column are written over (`WriteFacts`). All
  three of the wrap assume that whitespace is one column wide.
- `SpansCorrect`: at each column there is exactly the span of what is drawn
  there. Marked characters of no column at the start of a row are the one
  exception: their spans are given the first column, whose own span is there
  besides (`SpansOfNothing`). Everywhere else such a span is empty.
- `GridTextIsInTheBuffer`: a table shows every such character of its data cells
  where its labels leave room. In columns a cell loses nothing because a column
  is as wide as its widest cell, and the columns are only used if their sum fits
  (`ColumnWidthsFacts`, `ColumnRowFacts`); in records a field is wrapped into
  what its label leaves.
- `NodeRowsOK`: the same of whole trees. `LaysOut` says of a level that its
  nodes become rows of drawable cells, and that the rows show the text of a node
  that has room, `NeedsOf` being the columns its markers, indents and labels
  take at most. If it holds a level down, each of `ListRows`, `QuoteRows`,
  `TableRows`, `FigureRows` and `RenderChildren` keeps it, one lemma for each:
  trimming drops blank rows only, indenting under a marker adds just the columns
  the content was narrowed by, names change no character. Then it holds of every
  level.

`PageProofs` goes on from there to whole pages: `DocumentInv` says of the arena
and of the nodes the walk made of it everything the properties need, and
`DocumentCorrect` that it is inductive. Its middle part is `Forest`: each list
of nodes holds nodes only, within the limits of `WithinLimits`, whose NodeIds
are counted up in page order from one number to another and whose text reads as
its part of the page (`Reads`). That this is kept by putting lists one after the
other, by wrapping a list in a node, by dropping text, and by cutting rows and
cells down to a table's limits is proved of any lists; `Grows` says of a walk
that it takes an extractor to a later one and makes such a forest on the way.
Then the walks go by induction on the levels: if all of `Walks[n]` grow, so does
each handler of `Walks[n + 1]`, one lemma for each.

- `TextIsFaithful`, `NumbersFollow`: the two properties the run checks, for
  pages of any size. The text of a block rests on `RunsReadCollapsed`, and on
  what is gathered for a block being exactly the characters of its part of the
  page (`GatherOK`), whichever spans, anchors and hidden elements it goes
  through.
- `DocumentBounded`: rows, columns and options stay within the limits however
  the elements are nested, and so do the nodes of the arena.
- `WalksEnd`: the levels the walks are given are enough. Each of the recursive
  functions of the extractor gives, at `Levels`, what its own next level would
  give (`LevelsSuffice`), so it is the function of the code, which has no such
  bound. The argument is the one for the termination of the recursion: the arena
  is a forest, so it has fewer levels than handles (`NoTreeIsDeeper`), and a
  walk of n levels is final for every handle with fewer than n levels below it
  (`LevelsSettle`).
- `DocumentArena`: the parser with its walk implements the arena alone, so
  `ArenaIsATree` holds whatever the walk is doing.

The specification of these is `SpecDocument`, the parser's calls and the walk.
`PageLayout` adds `Draw`, which touches none of their variables
(`LayoutDocument`), so all of it holds of `Spec`, too. What `PageLayout` adds is
proved from `LayoutInv`:

- `LayoutCorrect`: the document is a list of nodes of `AnyNode`, and the rows
  are `Rendered` for the width of the last layout. The first needs that the
  extractor makes nodes no higher than `Height`: what each handler of `Walks[n +
  1]` makes is at most three levels, a table's, above what those of `Walks[n]`
  make (`WalksInLevels`).
- `FlowTextIsDrawn`: `FlowTextIsInTheBuffer` of every state. A character of the
  flowing text is of the page, so it is no space; where the widest need leaves
  two columns, `NodeRowsOK` shows it in a row that fits the width, and a row
  that fits is in the buffer as it stands.
- `LayoutSpans`: `SpansMatchTheCells`, from `SpansCorrect` for the rows of any
  page.

Model-checked only: the liveness of `ImplementsLoadTask` and
`ImplementsAtomicTools`, `FragmentsAreConsumed` and `DraftsAreSettled`, which
need fairness; and two properties of `PageLayout`. `PageIsDrawnOnceInOrder`
compares two recursive walks over different trees, the order of the page
(`PageOrder`) and the concatenation of rows, character by character; it needs an
induction over both at once, in which each of the walks of the extractor and of
the layout keeps an order, and that has not been done.
`AnchorsAreNotBelowTheirText` is about the rows names are bound to, across the
names that wait from node to node; the part of it inside a block is
`NamesAreBound`.

## 5. What the models found

Each is a run that ends in a counterexample; `PROJECT.json` quotes the words of
the source it contradicts.

1. A draft typed into a field can be written into another page: click a link
   while the edit is open, press Enter when the next page is there.
2. A rejected site can still set cookies by naming a permitted site's domain.
3. A reset leaves a typed password in its field, and the next submission sends
   it: a password has no seed.
4. A word wider than the line is glued to the word before it: the wrapper drops
   the space it held back and goes on in the current row.

Seen while modelling, without a run of their own. Of the loop and the cookies:
During a load the title bar counts no script, byte or cookie and an open option
list shows nothing chosen, since both are asked of the placeholder
(`DrawAsksFor`). Back leaves the mouse selection of the page it left on the page
it restores, where a load clears it (`LeavePage`). A site rejected under another
case (`Example.com`) is confirmed as rejected and is filed under a key no host
has (`AnyCase`). Without a path for the database a policy counts as saved and is
gone at exit, and a start that cannot read the row of a scope takes that of the
configuration file, with the database still wired (`OpenStore`). A redirect to
another site sends it the cookies held for it, whatever the third-party default:
policies decide what enters the jar and are not asked again. The fragment of a
start address that failed is applied to the next page a search, a reload or a
submission loads; after a failed load, a jump within the still current page does
nothing and says nothing; Tab in a field edit leaves interactive navigation
under the open edit. The models contain these behaviours (`Search`,
`JumpToAnchor`, `LeaveFocus`). Three more of the history. A host to clear that
is typed with capitals is gone from the index and not from the store, and comes
back at the next start, though the answer is "site history cleared" (`missed`:
`ForgottenStaysForgotten` without that exception fails in the run). An address
whose last visit was deleted from the list is offered until the session ends
(`stale`). Without a store, and when history is disabled, a clear is a
documented no-op and answers "history cleared" all the same, so the disk keeps
what it held. And three of the settings. When the store fails,
`set_search_engine` has already put the engine in force and may have written one
of its two rows, while the row says that the value is invalid and not saved, and
Esc reverts the text only (`SaveBreaks`). Without a store a save is still
answered as saved. A link clicked on the page under the panel drops an edited
draft that leaving the row would have saved (`ClickLink`).

Of forms (`FormFields`): a select with two options of one value gets stuck
cycling, and a multi-select toggles both at once, since selections are values; a
select without options gets the empty value on Enter, sends it and draws
nothing; a textarea outside every form opens an edit whose text is dropped on
Enter, other controls there cannot be changed; a radio without a name cannot be
selected; two radios a page checks in one group both stay checked until one is
selected; the values of a multi-select are sent in the order they were chosen.

Of the document (`HtmlDocument`, `PageLayout`): names that still wait when a
container ends are bound to the container's own first row, bullets and indents
included, while the comment of `append_node_rows` lets them wait for the first
node after them that draws something; a paragraph of nothing but an anchor loses
it, as does a name on a space that ends a row; ids of list items, rows, sections
and options are no anchors; controls, preformatted text and figures in the cells
of a data table are not drawn, nor is the text of a section, a form or a table
that stands deeper in such a cell, in a quotation, since what makes a table one
of layout is looked for among the children of its cells only (`IsLayoutTable`);
a table of one header row that does not fit draws nothing; marked characters of
no column at the start of a row give their link or field the first column,
whatever is drawn there (`SpansOfNothing`); a table drawn as records repeats its
headers for each record; `display: none` on list items and cells is ignored; the
recorded depth of the nodes below a reparented one is stale, so the depth limit
is a limit on the links as they were made.

## 6. Plan

Done: `LoadTask`, `SessionHistory`, `EventLoop`, `CookieEngine`,
`RememberedVisits`, `VisitHistory`, `SettingsPanel`, `FormFields`,
`AtomicTools`, `McpServer`, `DomBuilder`, `InlineRuns`, `HtmlDocument`,
`CellRows`, `GridRows`, `PageLayout`, and the proofs named above.

What would add most next, in this order:

1. `Migrations`: versions and tables over crashes and a second process.
2. `InputArms`: two-press confirmations, palette and suggestion popups.
3. Offsets in rows: `EventLoop` over `PageLayout`, so that jumps, selections and
   the scroll offset can be followed through a change of width.
4. The order of what is drawn: `PageIsDrawnOnceInOrder` as a theorem, from an
   order each handler of the walks keeps and one each case of `RowsOfNode`
   keeps.

## 7. Not modelled

SQLite, TLS, decompression, html5ever and the terminal library are taken as
given. Migrations and a second process on one database are left to SQLite's
locking, which a model would have to invent. Drawing (bars, menus, hints),
formatting and the clipboard have no state that another part reads. The
unwrapping of tracking redirects, URL resolution, character decoding, emoji
widths and what the MCP tools extract from a document are functions of strings
or trees without state; the repository tests them by example, and a model of
them would repeat them character by character. The suggestion and palette popups
and the two-press arms are modelled by their outcome only.

# Formal models of rieman

rieman is a pager for X11: a small window that shows the virtual desktops and
the windows on them, and lets the user switch desktops with the mouse, with
commands on a control socket and from scripts.  It is one thread that talks to
the X server through libxcb.  This directory holds TLA+ models of its logic,
TLC configurations that check them on small instances, and TLAPS proofs.

Paths are relative to the root of the repository; the program is in `src/`.

## Inventory

| Component | Code | State | Operations | What makes it correct |
|---|---|---|---|---|
| Main loop | `rie_event.c` 168-356, `rieman.c` main | the event just taken, `render`, position in the loop | drain, dispatch, render, `pselect()`, quit, reload, exit | no event is left in memory when it sleeps; events in order; redraws are done; signals take effect |
| Control socket | `rie_control.c` | socket, path, queued datagrams | create, receive, close | commands reach the running pager under the configured path |
| Signals | `rieman.c` 552-632 | `rie_quit`, `rie_reload`, pending signals | handler, mask | none lost, quit before reload |
| Reload | `rie_event.c` 359-392, `rieman.c` 253-305, 473-489, 635-678 | the old and the new pager | read, initialise, swap, fail | a failed reload keeps the old pager and its control path; what belonged to the other is freed, once |
| Desktop properties | `rie_event.c` 726-869, 952-986, 1135-1382 | number, current and selected desktop, names, geometry, workareas, viewports, virtual roots | one handler per root property | follows the window manager; indices stay valid |
| Visible slice and grid | `rie_render.c` 108-192, 498-651, 1189-1291, `rieman.c` 308-441 | `vdesktops`, rows, columns, place of each desktop | slice, layout, `switch_desktop_*` | inside the array; commands agree with the picture |
| Windows | `rie_window.c` 39-239, `rie_event.c` 605-660, 872-949, 989-1071, 1095-1132 | window list, focus, dead windows | client list, queries, notifications per window | converges to the server's windows; no dangling focus |
| Mouse | `rie_event.c` 417-602 | `m_in`, `m_x`, `m_y`, `fwindow`, `selected_*` | enter, leave, motion, button | what is highlighted and hit is what is drawn under the pointer |
| Tiling | `rie_window.c` 338-481, `rie_render.c` 653-687 | tile mode, windows counted per desktop | tile a desktop | no division by zero; windows inside the workarea, no overlap |
| Rendering | `rie_render.c` | template boxes, boxes of desktops, hidden counts | sizes, borders, viewports, scaling, icons, hits | what is drawn fits, does not overlap and is found by clicks; frames complete |
| X requests and errors | `rie_xcb.c` | connection, atoms, size of the root window | requests, event masks, classification of errors | a window that vanished is not an error |
| Configuration | `rie_config.c` | settings, static tables of marks | scan, convert, defaults, cleanup | lines are read as the manual says; strings have one owner |
| Skin | `rie_skin.c` | strings, surfaces, borders, fonts | load, delete | every part freed once |
| External geometry | `rie_external.c` | | ask `xdpyinfo` | the size of the root window when the window manager gives none |
| Graphics and fonts, log, tests | `rie_gfx_cairo.c`, `rie_font.c`, `rie_log.c`, `rie_test.c` | | | painting, output and test code: not modelled |

How they interact: the main loop is the only caller.  The X server and the
window manager send events; a handler reads properties back, synchronously, so
that it sees values newer than the event it handles, and libxcb may read more
events into memory while it waits.  The control socket's commands are run
outside the drain loop.  Signals are delivered only in `pselect()` and set two
flags.  A reload builds a second pager on the same X connection, and the two
pagers compete for the control path.  All of them share `rie_t`.

What is hard here: stale notifications and values read at different times;
events that are in memory where `pselect()` cannot see them; reloads that fail
halfway; windows that vanish between two requests; counts and indices that are
valid only until the next handler; unsigned numbers used for "none"; counts
made by the drawing and used by commands; coordinates relative to things that
change on their own; strings and surfaces shared by two pagers.
`PROJECT.json` lists these hazards with the lines where they bite.

## Modules

| Module | What it is |
|---|---|
| `EventLoop` | main loop, control socket, signals and reload, with the X server, users and the configuration file as environment |
| `XChannel` | abstract: one FIFO channel; `EventLoop` is shown to implement it |
| `Grid` | pure operators: shape of the grid, place of a desktop, target of a command |
| `Picture` | pure operators, in pixels: sizes, borders, viewports, scaled windows, icons, what is under the mouse; extends `Grid` |
| `Pager` | a user who walks over a grid drawn by `Picture`, and the references both are checked against |
| `Desktops` | number, current and selected desktop, visible slice, mouse, switch requests; extends `Grid` |
| `Places` | geometry, workareas, viewports, virtual roots, names and monitor, and the places of windows |
| `Windows` | the list of windows, its queries and notifications, focus |
| `Tiling` | tile commands and the counts of windows they divide by |
| `Config` | the scanner of configurations and skins, its table of items, defaults and cleanup |
| `Ownership` | strings, surfaces and images through reloads, and what frees them |
| `MCEventLoop`, `MCGrid`, `MCDesktops`, `MCPlaces`, `MCWindows`, `MCTiling`, `MCConfig` | constants and symmetry of the small instances |
| `EventLoopProofs`, `PagerProofs`, `DesktopsProofs`, `PlacesProofs`, `WindowsProofs`, `TilingProofs`, `ConfigProofs`, `OwnershipProofs` | TLAPS proofs about the modules they are named after; `PagerProofs` is also about `Grid` and `Picture` |

The modules are views of one program.  `EventLoop` establishes what the others
rest on: events come in order (`ChannelInOrder`), all are handled
(`EventsHandled`), and the drawing a handler asks for is made before the next
event (`RedrawNotForgotten`).  The others therefore take a FIFO of
notifications, and a handler and its drawing as one step; `Tiling` is where
`pager->render` set outside that loop matters, and models it.  `Places` and
`Desktops` share `rie_event_init()` and the reload; `Windows` takes the requests
about a window apart, which `Places` and `Tiling` keep together.  `Ownership`
has the steps of a reload of `EventLoop` and the failed parse of `Config`.

Each module that models code also holds *mutants*: variants of one of its
definitions, placed before it, that contain a plausible bug.  They are used by
nothing; `PROJECT.json` says which property each of them breaks.

### EventLoop

`pc` is the place in `rie_event_loop()` and what it calls: `poll` is
`rie_xcb_next_event()`, `handle` the handler of the event, `render`
`rie_render()`, `wait` `pselect()`, `ctl` the loop over the datagrams, `signals`
the look at the two flags, `reload`, `init` and `bound` the steps of
`rie_event_reload()` (file read; layout, graphics, skin and event
initialisation; control socket bound), `exit` the way out.  `xsock` is what the
server has written, `xq` what libxcb has read: any step that waits for a reply
may move events from one to the other (`RoundTrip`), and this is where libxcb
notices that the connection is gone.  A handler only succeeds, with or without
asking for a redraw, or fails; its effect on the pager is in other modules.

`file` is what each control path names: nothing, a socket nobody holds, the
socket of the running pager or that of the pager being loaded.  A datagram goes
to the socket the path names at that moment.  `Faults` says which steps of a
reload may fail: reading the file (`conf`), graphics or skin (`gfx`), the first
event initialisation (`init`), binding the socket (`bind`), the second event
initialisation (`late`).  `taken` is a history variable: a reload has failed in
or after the bind of a socket to the path of the running pager.
`rie_control_new()` unlinks whatever the path names before it binds, and
nothing gives the path back; `ControlReachable` says that it is lost in this
way only, and until the next reload that succeeds.

`pselect()` delivers signals only when no descriptor is ready, but a descriptor
may become ready at any time after it has looked, so the model lets it do
either; the control socket is looked at before the X connection, as in the
code.

### Grid and Desktops

`Grid` translates the two places that must agree: where
`rie_set_desktop_geometry()` draws a desktop, and which number
`rie_switch_desktop()` computes for its neighbour.  Both have a case for each
orientation and corner; `Pager` checks one against the picture drawn by the
other.

`Desktops` has the window manager's properties (`wmnum`, `wmcur`) and the
queue of notifications (the channel of `EventLoop`).  A handler reads the
property as it is when it runs.  The window manager is assumed to follow EWMH:
after announcing a number that excludes the current desktop, or a current
desktop beyond the number, its next change brings the other in line
(`owed`).  It removes both properties in one step when it exits.
`rie_event_init()` is a sequence of reads, counted down by `todo`, with changes
possible in between; a reload runs it twice.  The handler of an event and the drawing that follows
are one step, because the loop takes no other event in between
(`RedrawNotForgotten`).  Where a click or a motion falls is any slot of the
visible slice.  With `subset.enabled` the viewport mode is off, because the
monitor is never larger than the root window; without it the slot of a desktop
is its number, so the mode makes no difference to the desktop that is selected.

An index read behind the end of `pager->desktops` (`CurrentCell`) gives any
value: the command may or may not be ignored.

### Windows

The server's side is what exists (`exists`), what each window is (`desk`,
`geom`, `hidden`), the published list (`clist`) and the active window; each
change is a step, and is reported to rieman if the event masks select it
(`subs`; the mask on the root window selects the structure events of
unreparented windows, `Reparents`).  `rie_event_client_list()` and
`rie_window_query()` are sequences of requests, each a step: `at` is the next
one, `cur` the window being queried, `built` the list so far.  A window that
does not exist or has no desktop ends the query and is marked dead.  A
notification of a single window reads one property again, a ConfigureNotify
queries the window again without a look at `dead`.  Where the pointer is is any
window that has been drawn once and is not hidden, whatever has become of it,
because this is all `rie_window_update_pager_focus()` looks at.

The window manager may lag behind with its list but catches up without being
counted; it never lists a window it does not manage and begins to manage only
windows that exist, unless `EarlyList` lets it publish the list before the
desktop.  An id is used again only after the list has dropped it.

`lost` is a history variable: the fields of a window that changed after they
were read and before the subscription of the same query.  It marks the one gap
the code has; `FieldsFollow` says there is no other.

### Picture

`Picture` follows `rie_render.c` from the configuration to the pixels.
`Template` is the computation at the head of `rie_set_pager_geometry()` and
`rie_init_vdesktops()`'s callers: the size of a desktop's picture (`dbox`), its
label (`pad`), both together (`cell`) and one of its viewports.  `PagerSize`
and `PagerAt` are the size and the place of the pager's window, `DesktopBoxes`
is `rie_set_desktop_geometry()`, `Frame` is `rie_create_borders()`,
`ScaleToDesktop`, `HiddenBox`, `SelectIcon` and `IconBox` are what
`rie_draw_window()` and `rie_render_icon()` do to a window, and `SlotsHit` and
`ViewportsHit` are the searches a click starts.  A style is the part of the
configuration and the skin that sizes depend on, a screen the part of the
pager.  The program divides in single precision and truncates or rounds as
here; sizes are small enough for exact division to agree with it.

`Pager` compares these with what they must give: the set of border pieces
with the lines of the grid, a click with the box drawn, the viewport a click
asks for with the one marked when the window manager has obeyed.  Its
assumptions say what the code relies on: no screen is empty, a monitor is no
larger than the root window, and icons have at least one row, by which
`rie_box_fit()` divides.

### Places

One action for each property the window manager may change, for the output of
a subset, for the root window, for a window that is moved, sent to another
desktop or destroyed, and for a desktop that is scrolled: `BeginScroll`, then
`ScrollWindow` for each window on it and `ScrollSet` for the property, in any
order.  `Initialise` is `rie_event_init()`, one handler after the other,
counted down by `todo`; `Handle` the handler of the next event.  Only one axis
is modelled, and a workarea or a viewport is an offset along it.

`stale` is a history variable: windows whose coordinates are relative to
something a handler has changed (a desktop, a virtual root, the viewport that
went away) without reading them again.  `WindowsInPlace` excepts them, and
those behind a dead window, because `rie_window_update_geometry()` stops
there; it says there are no others.

All windows are listed in the beginning, in any order; the window manager takes
those that are gone from its list one at a time.

### Tiling

`nnormal` is what `rie_count_hidden_windows()` found at the last drawing,
`render` a `pager->render` that no drawing has followed yet, `asked` the
rectangles the last tile command asked for.  The counts and the windows placed
are two different sets (`Counted`, `Tiled`), computed at two different times:
this is the hazard.  `Place` is the body of `rie_windows_tile_awesome_fair()`
for one window, with a single `Part` for both axes.  A division by zero ends
the program (`running`).  Drawing may fail, which the loop ignores.  Sizes are
natural numbers and do not wrap: `RoomAssumption` says of areas, frames and
lists that no window is left without a size by what its frame, the rounding and
the number of parts take off.

### Config

Each action of the scanner takes one character and is one state of
`rie_conf_parse()`; `buf` is the file in memory, into which the scanner writes
the zeros that end keys and arguments.  `EndOfFile` is what follows the loop.
`Default` is one round of `rie_conf_init_defaults()`, `Failed` is
`rie_conf_cleanup()`.  What a converter accepts is a set of words, chosen with
the table; a plain string accepts all.  `strings` counts allocations that have
not been freed and `lost` those that nothing points to any more, because a
later line replaced them.

### Ownership

An object is the strings of one configuration or skin, the surface of one
texture (of desktops or of the pager), or one image of the root window; a pager
is a record of pointers to them.  cairo counts the references to a surface:
`live` are the objects whose maker has not given its own back, `pinned` those
that patterns refer to, and what is in neither is freed (`Allocated`).
`DrawBackground` is the drawing of the pager's background, whose pattern
nothing destroys.  `Delete` is `rie_pager_delete()` with everything it calls.  The steps of
making a pager are those of `rie_pager_new()`, `rie_pager_init()` and
`rie_event_reload()`; each may fail, and `GiveUp` is the error path.  `marked`
are the two static tables, shared by the running pager and the one being made.
Between reloads the image of the root window changes, cannot be read, is drawn
as the pager's background, or is lent to the skin's textures by `DrawDesktops`.
Left out is what one pager makes, alone points to and frees: arrays, windows,
icons, fonts, tiles of borders, the textures of windows, labels and viewports.

## Runs

| Run | Bounds | Shows |
|---|---|---|
| `loop_drain` | 4 events or errors, 1 command, 1 signal, 1 edit, failing reloads | `NoStrandedEvents`, `RedrawNotForgotten`, the refinement `ChannelInOrder`, and, under fairness, `EventsHandled`; 749 380 states |
| `loop_reload` | 2 control paths, 1 event, 1 command, 2 signals, 2 edits, every fault | no `SIGUSR1` lost, the path reaches the running pager unless a reload took it over and failed, socket names, quit before reload; under fairness, signals honoured, and an exit command unless a new pager is made before; 1 million states |
| `grid` | up to 7 desktops, wrap up to 3, all orientations and corners, subset starting at 0 or 1, three styles, three screens | what is drawn fits, does not overlap and is found by clicks; borders painted once; windows and icons in their place; the pager on the workarea; commands agree with the picture; 16 128 states |
| `desktops` | up to 3 desktops, 2 changes by the window manager and one it makes on request, 1 reload, four layouts and subsets | convergence, valid indices, the slice shown, commands stay in it |
| `places` | 2 windows, 2 desktops, 2 changes (a scroll is one, with all its steps), 1 reload, subset on or off | windows in place, properties known, pager sized; 842 813 states |
| `windows` | 2 windows, 2 desktops, 2 boxes, 2 changes besides the list's catching up | the list, the states, desktops and boxes, focus; 1.2 million states |
| `tiling` | 2 desktops, lists of up to 7 plain windows and of 2 that change, two frames | no division by zero; windows apart, inside the workarea, filling it; 429 552 states |
| `config` | every file of up to 8 characters of 2 letters, blank, newline, `#` and a character that is refused; 3 items | files are read as the manual says, strings have owners; 2 million states |
| `ownership` | 4 pagers, 3 images, desktops with files and colours, the pager with these or the root window | the running pager keeps its own, makers' references are given back, none twice; 2 million states |
| `loop_crash` | one path, one signal | *violation*: a reload that fails in graphics or skin crashes |
| `loop_takeover` | one path, one signal, a failure after the bind | *violation*: the old pager is kept, but its control path is not |
| `ownership_root` | 2 pagers, 2 images, desktops with `:root:` | *violation*: the root window's image is freed twice |

The runs that are marked as violations each check one statement of a comment or
of the manual that the code does not keep; `PROJECT.json` quotes it and says
what TLC finds.

Why the bounds are enough.  Four events make every split between kernel and
libxcb, an error between events and an event behind it possible.  Two signals
and two edits put a second request before, during and after a reload; two paths
let a reload keep, change, add or drop the control socket.  A grid of 7
desktops and a wrap of 3 has full and incomplete last lines of every length,
crossings with neighbours on all sides, single rows and columns; the screens
have one viewport, two rows of two and a rest, and a second monitor; the styles
a label below, above and none, borders of 0, 1 and 2 pixels.  Two changes plus
one on request cover a number and a current desktop changed in either order
before, between and after the reads of `rie_event_init()`.  Two changes of
places are a scroll and anything that happens between its steps, or two
properties one of which is computed from the other.  Two changes to windows,
each followed by as many updates of the list, cover a window destroyed and its
id used again, or two windows changing, at each of the up to ten requests of the
query of two windows.  Seven windows are tiled in three rows and three columns
with a last column that is not full, and two are enough for one to change while
the other is counted.  Eight characters hold a key, an argument with blanks
around it and a comment behind, or two lines about the same item; an item whose
name begins like another's and one whose conversion may fail are in the table.
Four pagers are a start, a reload that succeeds, one that fails, and one more.
The proofs remove the bounds for the properties they cover.

Deadlock is not checked: rieman may exit, crash or sleep with nothing to do,
and a bounded environment stops.

Fairness.  `EventLoop` assumes weak fairness of the loop as a whole: the kernel
runs a process that can run.  It is not assumed that `pselect()` prefers signals
to descriptors.  `Desktops` assumes weak fairness of initialisation and of
handling notifications, which is what `EventsHandled` establishes for the loop;
nothing is assumed of the window manager or the user.

## What is proved

The assumptions of all proofs are those on the constants, named in the module
that declares them: bounds are natural numbers, `None` is nothing else, the
records have their types.

`EventLoopProofs` proves, for any number of events, commands, signals, edits
and paths and any faults: type correctness, `NoStrandedEvents`,
`RedrawNotForgotten`, `SignalReloadNotLost`, `NamesBelong`, `QuitBeforeReload`,
`ControlReachable`, and that the loop implements `XChannel`.  The inductive
strengthenings are small: `ControlInv` (while a new socket is bound, the path of
the old pager still names the old socket, unless the new one has the same path),
`QuitPending` (the quit flag is set only between a wake-up and the look at the
flags), `RedrawPending` (the flag of an event's redraw does not outlive the
rendering) and `AskedOnDisk` (a signal asks for a version that exists).

`PagerProofs` proves, for any number of desktops, layout, style, screen, icons
and workareas, every property of the run `grid`.  The walk changes nothing but
the current desktop, so the invariant (`PagerInv`) says little more than that
what is drawn was drawn with `Template` and `DesktopBoxes`; the work is in the
arithmetic.  `Division` and `DivisionUnique` state what a quotient and a rest
are, and the order in which the code multiplies, divides and rounds is followed
from there: a slot is its row and column (`ClicksFind`, `MovesOnScreen`), what
is scaled stays within a pixel (`WindowsKeepPlace`), as many icons as are
shrunk fit (`IconsShown`).  For `BordersOnce` each piece of the grid's lines is
shown to be painted by the one desktop that the position of the piece decides.

`DesktopsProofs` proves, for any number of desktops and any configurations:
type correctness, that the slice shown exists (`ViewExists`) and is the
configured one (`ViewIsSubset`), that the selected desktop exists
(`SelectedExists`), that switch commands stay in the slice (`MovesStayInView`),
and that rieman converges to the window manager's picture (`Converged`).  The
first four follow from `PagerInv`: the pager knows of a
desktop once the first read has been made, the slice is the one made for the
number known now, and the selected desktop is below it.  The fifth needs that the places commands start from are those of
the last drawing of this slice (`PlacesFresh`), and the geometry of a grid
without holes.  The last one also needs `Following`: for each of the two properties, either a read of it is still
to come (a notification or a step of `rie_event_init()`), or the window manager
owes it, or the pager has the window manager's value; and because the handler of
the number clamps the current desktop, while the window manager has announced a
current desktop beyond its last one every notification of the number that is
still pending has one of the current desktop behind it (`ClampUndone`).

`PlacesProofs` proves, for any windows, desktops, values and changes: type
correctness, that the pager's window has the size computed from the area it is
scaled to (`PagerSized`), that rieman knows what the window manager says
(`KnownFollows`), and where the windows are (`WindowsInPlace`).  The first needs
only that a handler that changes the area computes the size, or leaves it to
the last step of `rie_event_init()` (`SizedInv`).  The second is an induction
over `FollowInv`: for each property, a notification of it is pending, or its
handler in `rie_event_init()` is still to be called, or the pager has its value.
The third needs both what is true of the types (`Typed`: a window is listed
once, lists have elements as soon as their handler was called, there are no
windows before the list is read) and `PlaceInv`: a dead window does not exist,
and one that is gone is dead or its DestroyNotify is pending (`GoneKnown`); and
of a window with no gone one before it, the desktop is the true one or a
notification of it is pending, and the place is the true one relative to the
viewport and virtual root that are *known*, or a ConfigureNotify is pending, or
it is stale (`PlaceKnown`).  That the place is relative to what is known, and
not to what is true, makes this inductive, and is what lets the steps of a
scroll come in any order; at rest `FollowInv` says that both are the same.

`WindowsProofs` proves, for any finite set of windows and any number of changes:
type correctness, that `pager->fwindow` never dangles (`FwindowListed`), and,
under the assumption that the window manager lists no window before it has given
it a desktop (`EarlyList = FALSE`), that rieman ends up with the windows of the
list, in its order and none of them dead (`ListFollows`).  `ListFollows` says
nothing about a state in which events wait, so its induction needs what holds
while they do.  As long as no further list is announced (`ListSeen`), what has
been queried followed by what is still to be queried is the list (`ListKept`),
and no record is dead whose window is listed and has a desktop (`NoUndead`),
neither in the list in use nor in the one being built nor in the query under
way.  The second needs that a DestroyNotify cannot kill a window that was
created again with the same id: it is always followed by the announcement of the
list that has the new window (`EndAnnounced`), because an id is used again only
after it has left the list.

Its second part rests on this and proves that the fields of the windows follow:
`StateFollows`, `ActiveFollows` and, with `EarlyList = FALSE`, `FieldsFollow`.
The lists name no window twice (`Distinct`).  A record's field is the window's,
or an event is waiting whose handler reads it again; that event exists because
rieman is subscribed to every window that exists and whose record it has
finished (`StateKept`), and where it is not yet subscribed, `lost` says that the
change was missed (`FieldsKept`).  A record that `rie_event_xcb_configure_notify()`
queries again owes nothing meanwhile: the query writes it when it is over.  What
a step does to records is stated once for the server (`ServerFields`), for the
handlers (`HandlerEffect`) and for the requests of a query (`QueryEffect`,
`Learnt`).  The focus needs `Distinct` and that a list being built has none
(`FocusKept`).

`TilingProofs` proves, for any lists of windows, frames, areas and number of
desktops: type correctness, that the windows counted for a desktop are at least
those a tile command would place there unless the last drawing failed
(`CountsCover`), and from it that no tile command divides by zero
(`NoDivisionByZero`).  Its core is that of the handlers that change windows only
one that kills a window, or finds it dead, does without a drawing, and dead
windows are not placed (`TiledCounted`, `FS_Subset`).  From that it proves that
windows are placed apart and inside the workarea (`TiledApart`) and fill it
(`TiledFills`).  The invariant is that what was asked for is what
`rie_windows_tile_awesome_fair()` gives for a desktop that exists and a number
that is neither less than the windows it places nor more than the windows there
are (`AskedAsCounted`, `CountsFit`), of a list for which there is room
(`KnownList`); the geometry is that of rows and columns of a number of parts
(`Part`), the last of which takes what rounding leaves.

`ConfigProofs` proves, for any table of items and files of any length: type
correctness, `StringsOwned` and `NothingLeftBehind` (which no run checks: it
follows from `StringsOwned` and what `Failed` does).  The inductive invariant
adds what the scanner knows of its buffer (`ScanInv`): it is as long as what has
been read, and within an argument `arg` is the place of a character that is no
blank, so that `rie_conf_strip_tail()` stops behind it and the string taken out
is a word.

Its second part proves `ReadsLines`.  `LinesInv` relates what the scanner has
done, character by character, to the manual's reading of the file line by line:
the settings hold what the lines before the current one say (`Done`), and the
current line is as far as the state says (`LineOpen`), with its key and its
argument in the buffer at `key` and `arg` as they stand in the file, a zero
behind the key (`ScanLines`).  The lemmas behind it say what a line, its key and
its value are by the places where they begin and end (`FullLine`, `LoneKey`,
`OddLine`, `BlankLine`), that a line which has ended does not change when more
is read (`SameLine`), and that the two strings which `rie_conf_handle_key()`
takes from the buffer are these (`ArgumentRead`).  While the defaults are set
(`Defaulted`) an item without a line has no value or its default, and of a file
that is refused some line is wrong (`Refused`).

`OwnershipProofs` proves, for any number of reloads and images:
`RunningKeepsItsOwn`, `MakersReleased`, and, if no desktop's texture is
`:root:`, `NothingFreedTwice`.  `OwnInv` says at which step which of the two pagers there
is and which marks are set (`StepInv`), that each pager points only to what was
made for it and all it needs is allocated (`RunningInv`, `FreshInv`), that the
two have nothing in common (`ApartInv`), and that nothing else is in `live` but
images that were lost (`HeapInv`).  What patterns refer to is not in the
invariant: it grows with every drawing of a background that has a surface.  The marks are what makes this hard: a failed
reload removes marks that the running pager's strings also depend on, and the
next deletion is right only because a successful load has set them again.

Only model-checked: what must eventually happen (`EventsHandled`,
`QuitHonoured`, `ExitUnlessReload`, `ReloadHonoured`, `FollowsManager`), because
liveness under fairness is out of the prover's reach.

## Observed, without a run

Statements in the modules that TLC refutes, each with the configuration that
shows it.  They are not among the runs; each is what a comment or the manual
says:

* An image of the root window that has been replaced, or that belonged to a
  pager that is deleted, stays allocated when it was drawn as the pager's
  background, and so does the pager's own picture: `rie_gfx_render_patch()` never
  destroys its pattern (`NothingForgotten` of `Ownership`,
  `Ownership_pattern.cfg`; `rie_gfx_cairo.c:152`).  `rie_xcb.c:1326` says
  "previous root image, if any" of the surface it frees.
* A command accepted by the old control socket while a reload is under way is
  discarded (`ExitHonoured` of `EventLoop`, `EventLoop_exit.cfg`;
  `rie_event.c:379`).  The manual says "exit - terminate the process".
* A window that is listed before it has a desktop is taken for dead and never
  shown (`ListedShown` of `Windows`, `Windows_early.cfg`; `rie_event.c:917`).
  Elsewhere such a window "has no yet desktop assigned" (`rie_event.c:1065`).
* A click where a destroyed window was drawn asks for it to be activated
  (`DeadIgnored` of `Windows`, `Windows_dead.cfg`; `rie_window.c:222`).  The
  window is dead in order to "ignore this window since now" (`rie_event.c:655`).
* The highlight compares a desktop's number with a slot of the slice, so a
  subset that does not start at 0 highlights another desktop
  (`HighlightFollowsPointer` of `Desktops`, `Desktops_highlight.cfg`;
  `rie_render.c:411`).  The manual says "a desktop under mouse".
* The unsigned -1 of "no desktop selected" is clamped to the last desktop, which
  is then highlighted before the pointer has been over any (`NoGhostHighlight`
  of `Desktops`, `Desktops_ghost.cfg`; `rie_event.c:761`).
* Two commands for the next desktop that are read before the window manager's
  notification ask for the same one (`NextGoesOn` of `Desktops`,
  `Desktops_next.cfg`; `rieman.c:330`).  The manual says "by order".
* The root window's mask has the substructure bit, its comment names the
  structure bit: rieman is not told that the root window is resized
  (`RootFollows` of `Places`, `Places_root.cfg`; `rie_xcb.c:173-186`, and the
  branch at `rie_event.c:616-619`, are without effect).

Conditions in the properties, each of which stands for a case in which the
code does something else:

* On a grid with holes a command may ask for a desktop that does not exist
  (`MovesOnScreen`; `rieman.c:433`), and unless it begins at the top left the
  border pieces next to holes are missing (`BordersOnce`).
* Events behind an asynchronous error wait in memory until something else wakes
  the loop (`NoStrandedEvents`; `rie_xcb.c:762`).
* The left and upper sides are those of the screen and not of the workarea or
  the monitor (`OnWorkarea`; the comment at `rie_render.c:595` says workarea).
* Every workarea is filled from the first one of the reply (`KnownFollows`;
  `rie_event.c:1170`).
* `rie_window_update_geometry()` stops at the first dead window; a window sent to
  another desktop, moved virtual roots and a viewport property that goes away
  leave the coordinates as they were (`WindowsInPlace`, `stale`).
* The names of desktops that have been removed are kept (`KnownFollows`).
* Windows whose drawing failed are counted as before (`NoDivisionByZero`, `fresh`).

Read, but left out of the modules:

* The workarea handler does not set `pager->resize`, so the pager is not moved
  when a dock appears (`rie_event.c:1135-1210`).
* Without viewports, the column of the only one is set to the width of the root
  window in pixels (`rie_event.c:1284`).
* A subset's output that is missing at the start leaves an empty monitor, by
  which sizes are divided; RandR events that are selected are not all handled; a
  reload that turns the subset on does not select them.
* An empty `_NET_DESKTOP_NAMES` reads and frees outside its memory
  (`rie_util.c:99`).
* A border image three tiles high is accepted and a fourth row is cut from it
  (`rie_skin.c:305-320`).
* The box of a hidden window that died stays clickable (`rie_event.c:496-517`).
* `rie_viewport_by_coords()` returns a slot where a desktop's number is wanted
  (`rie_render.c:220`); the slots of `ViewportsHit` are what it returns.
* A window on the desktop just behind the last is not taken for one that is on
  all (`rie_render.c:470`).
* A number with anything behind its digits is accepted.
* `-w` is lost on reload (`rieman.c:795`), and what depends on it after
  that is the place of the window (`rie_render.c:631`), which no module with
  reloads has.
* A current desktop beyond the known number is stored as it is
  (`rie_event.c:858`).  Until the notification of the number arrives,
  `rie_switch_desktop()` indexes `pager->desktops` behind its end; drawing uses
  `rie_array_get()`, which falls back to the first desktop.

## Not modelled

* Painting: pixels, cairo and Xft, which texture goes where, text and its
  measurement.  Nothing else depends on them, but that they may fail.
* Atoms, text properties, names, classes and icons of windows as data: what is
  read is shown and nothing is decided by it.
* The formats of numbers, colours and truth values, and the search for the
  configuration file.
* Restoring a hidden window by a click on its icon: a request to the window
  manager without state in rieman; the place of the icon is in `Picture`.
* Log, test harness, command line.

## Plan

1. Names and icons of windows, with the requests of `rie_window_query()` that
   may fail for other reasons than a window that vanished.
2. Larger grids with other styles, and sizes at which single precision differs
   from exact division.

# GostUI in TLA+

TLA+ models of GostUI, the Wayland compositor and shell of this repository, with
TLC runs on small instances and TLAPS proofs for every value of the constants.
The models are written from the Rust source; a comment is quoted only where a
property states what the comment promises.

- [The system](#the-system)
- [Modules](#modules)
- [How code becomes TLA+](#how-code-becomes-tla)
- [Runs](#runs)
- [Properties](#properties)
- [What the comments say and the code does not keep](#what-the-comments-say-and-the-code-does-not-keep)
- [Fairness, deadlock, symmetry](#fairness-deadlock-symmetry)
- [Proofs](#proofs)
- [What is not modelled](#what-is-not-modelled)
- [Plan](#plan)

## The system

One process, one thread. `gostui-core` holds pure state and decisions;
`gostui-compositor` owns protocol objects and an event loop (calloop) whose
sources are the nested host window (winit), the Wayland socket and display, the
clock's timer and the two timers of `--idle-test`. A source's handler runs to its
end; after every dispatch the loop calls one callback that draws a pending frame.
Concurrency is therefore in the *order* of handlers: clients send what they like
when they like, and the user and the host come in between. The exception is the
configuration, which other processes read and write and a power cut may interrupt.

| Component | State | Operations | Hard part | Correct when |
|---|---|---|---|---|
| Window model, `core/window.rs` | windows, per output: bar order, tiles, capacity; focus; next handle | open, open child, adopt, close, activate, focus, cycle, set capacity, migrate | late parents, cycles, capacity 0, outputs that go away | tiles follow the bar, no hole while a window waits, each toplevel on one bar, parents form trees, focus lives |
| Card strip, `core/tab.rs` | cards, active index, pin, next handle | add, remove, activate, slide, reorder, pin, unpin | the active card is an index, the pin a handle | index in range, pin names a card, reordering keeps the card |
| Outputs, `core/output.rs` | outputs in order, next handle | add, insert, remove, mode, scale, transform, position | handles brought along, a place to come back to | new handles are new, the first output stays the first, sizes fit the mode |
| Surface map and xdg handlers, `wayland/` | toplevel and popup lists, pending configure states | new/destroyed toplevel and popup, commit, title, app id, fullscreen, reposition | who synchronises after which change; families that close together | lists match the model; activation and frames follow it |
| Devices, focus and selections, `compositor/input.rs`, `handlers.rs`, `core/input.rs` | keyboard and pointer focus, lock, one touch grab, selections | keys, shortcuts, motion, buttons, wheel, touch, constraints | windows that move and die under a device | events, clipboard and lock go where they belong |
| Geometry, shell, hit test, `core/geometry.rs`, `layout.rs`, `shell.rs`, `input.rs` | none of its own: screen, theme, strip, windows | zones, tiles, bars, cards, chips, hit test | rounding, tiny screens, two answers to "what is here" | parts fit into one another; what is hit is what is drawn |
| Loop and frames, `backend/winit.rs`, `stats.rs` | pending cause, stop flag, counters, watch | request, draw, callback, resize, repaint, stop | failing frames, a stop before the loop, two ends of a run | requests are served, budget and verdict are right |
| Clock, `core/clock.rs` | reading, text, timer | tick, re-arm | read in whole seconds, armed later; early or late timers, a clock that is set | the minute is late by no more than that, no spinning |
| Display list, text, `render/` | text cache | paint, fit, resolve, rasterise | limit, eviction order, cutting to width | the cache changes no picture; names fit |
| Renderers, `compositor/render/` | canvas, textures | prepare, draw | buffers that lie, retained pixels, two roundings | a client stays in its tile, both paths agree |
| Atomic file, `config/atomic.rs` | files and names, memory and disk | write, load | failing calls, two writers, power cuts | the whole old or the whole new text |
| Theme, settings, command line, `core/theme.rs`, `config/`, `main.rs` | two files, arguments | load, sanitise, save, parse, start | half-broken files, options in any order | what is right applies, what is wrong is reported |
| Desktop entries, `desktop-entry/` | none | parse, should_display, name, command | files from everywhere; a language inside a language | bad lines cost nothing else; a file name is never read as a command |
| Hostile client, `gostui-fuzz-client` | | scenarios | | the compositor survives |

How they meet: handlers call methods of the window model, then `sync_layout`
(capacity from the screen's size, `configure` to clients, keyboard re-aimed), then
`request_redraw`. User actions go through `focus_changed`, which does the same and
draws at once. `layout` is the one answer to "who is on screen": the picture, the
configure events, the keyboard and the hit test all ask it. `paint` turns it into
a display list, which both renderers draw; `hit_test` turns the same rectangles
into what a press means. The theme, loaded once at start, decides every size.

`PROJECT.json` lists every component with what is and is not modelled, and under
`hazards` each thing in this code that is hard to test, at its line, with the
property that covers it.

## Modules

| Module | Models | State and actions |
|---|---|---|
| `Vec` | the `Vec` and iterator calls core leans on | operators |
| `TabOps` | `TabStrip`'s methods | operators from a strip (a record, as the struct) to a strip |
| `TabStrip` | any sequence of those calls | `strip`; one action per method |
| `WindowOps` | `WindowModel`'s methods, `layout`'s choice of who is placed | operators from a model to a model, and the parts of a good model |
| `WindowModel` | any sequence of those calls on any window and output | `model`; one action per method |
| `WindowWaiting` | who gets a tile that comes free | `WindowModel` with a history of who waits longer |
| `Dock` | `Output` and `Outputs` | `outputs`, `next_id`; one action per call |
| `Compositor` | handlers, surface map, keyboard, activation, frame requests and callbacks, subsurfaces | a handler is one action with all it calls; composes `WindowOps` |
| `EventLoop` | loop, frame accounting, clock, idle test, frame budget, card keys | handlers, timers and `EndPass`; composes `TabOps` |
| `Geometry` | rectangles, tile limit, tile extents | operators, `i32` division towards zero |
| `ShellOps` | zones, bars, card columns, shortcuts, chips | operators on a metrics record |
| `Theme` | colours, contrast, sanitising with its report | operators on a theme record |
| `Picture` | rectangles of `layout`, the order of `paint`, `hit_test` | operators on one screenful |
| `Screen` | one screen with theme, cards, windows, menus; resize, presses, keys, commits | composes `Picture`, `TabOps`, `WindowOps` |
| `Seat` | keyboard, pointer with lock, touch, selections | one action per event of `input.rs`; composes `WindowOps` |
| `Renderers` | CPU and GL paths over one display list | frames, failed frames, resizes, commits |
| `TextCache` | `fit`, `place`, cache and eviction | frames of strings |
| `SettingsOps`, `Startup` | the two files; `main.rs` and the state the window opens with | edit, type an option, run, save, close |
| `ExecLine`, `Launcher` | `exec.rs`; the entry parser and its menu | read a line, open with files, show |
| `AtomicFile` | what `atomic.rs` promises | a file that is replaced, made durable, or set back by a power cut |
| `AtomicWrite` | `atomic::write` over a file system with failures | one system call a step; implements `AtomicFile` |
| `MC*` | instances for TLC | values of constants, what is explored together, symmetry |
| `*Proofs` | | see [Proofs](#proofs) |

`MCOutputs`, `MCFiles` and `MCPictures` each explore components that share no
state. A product of their states would tell nothing that the parts do not, so
one component moves while the others are as they began. Components that *do*
share state are composed for real: `Compositor` and `Seat` call the methods of
`WindowOps`, `EventLoop` those of `TabOps`, and `Screen` puts strip, windows,
theme and geometry on one screen.

## How code becomes TLA+

* A struct is a record and a method an operator on it, so that a handler which
  calls several methods is one step. `Compositor!Commit`, for example, is
  `refresh_metadata` (which may adopt), `sync_layout` and `request_redraw`.
* `Option::None` is a constant (`NoWindow`, `NoTab`, `NoSurface`, `NoCause`) or an
  empty sequence, where `Some(v)` is `<<v>>`. Indices count from 1 in windows'
  bars; the strip's `active` keeps the code's 0.
* Handles are numbers that count up from 0. Wrap-around at 2^32 is not modelled;
  a session would have to open that many windows.
* `WindowModel.windows` is a function from live handles. The code's `Vec` is
  always in increasing order of handle, so nothing is lost.
* The walk of `close` over children is `Family`, the least set closed under
  "child of"; `CanAdopt` uses it for `is_descendant`. That both terminate is what
  `FamiliesAreTrees` is about.
* `Placed` is who `layout` returns. `layout` drops a tile without a rectangle; it
  has one for each as long as the capacity is at most the tile limit of the
  screen, which `sync_layout` sees to at each resize (`TilesShareTheZone`).
* Sizes are integers with the code's arithmetic (`Quot` divides as `i32` does, a
  colour is a byte). They do not wrap; see [below](#what-is-not-modelled).
* A string is a sequence of the characters the code tells apart: 16 hex digits
  and four others for a colour, quote, backslash, dollar, percent, space and the
  field codes for an `Exec` value, four letters of different widths for a title.
  A file is what reading and parsing it can tell apart.
* `Renderers` draws every frame with both renderers, which the program never does,
  so that the pictures can be compared. A pixel has one colour channel and alpha.
* Time goes in ticks, `Second` of them to a second. A reading of the clock is cut to
  whole seconds (`clock.rs:15-17`). The reading and the arming of the timer are two
  instants (`winit.rs:188` and `311-314`, or `316`), some ticks from `Delays` apart,
  and the timer may fire up to `Hair` ticks early, or as late as it likes.
* Definitions called `X_Variant` (`Close_DropsFocus`, ...) are plausible mistakes
  in `X`. Nothing uses them; each shows that a property can fail (`mutants` of
  `PROJECT.json` names the pairs, several for a property that has several parts).
* smithay, calloop, GL, fonts, TOML, the kernel and the wall clock are external:
  `SetParent`, `Dies`, `WriteBackData`, `TimePasses` and the like are what
  `src/` relies on.

History variables, which the code does not have: `Compositor!owed` (a handler
changed the model and did not synchronise or ask for a frame), `EventLoop!stepped`
(somebody set the clock), `EventLoop!slack` (ticks from the last reading to the arming
of the timer), `WindowWaiting!longer` (who waits longer than whom), `EventLoop!unasked` (frames of nobody's asking since
the watch began), `Dock!given` (every handle there has been), `Startup!history`
(the files and arguments a process began with), `Seat!event` and `Seat!sent` (what
the device did last and what clients were told), `Renderers!shown` (what the
picture on the screen was drawn from), `TextCache!before`. No guard reads them.

`Compositor` separates "synchronised" from "not yet": `new_toplevel`,
`title_changed`, `app_id_changed` and `popup_destroyed` change the model without
`sync_layout`, and the next commit, key or resize makes up for it. The invariants on
keyboard and activation hold exactly when nothing is owed. `FramesAreScheduled`
likewise excepts the one handler that asks for no frame.

## Runs

| Run | Configuration | Question | Bounds |
|---|---|---|---|
| `strip_and_outputs` | `MCOutputs` | is the strip sound after any calls; is the collection of outputs? | 5 cards made; 2 outputs at a time, handles up to 3, three modes, three scales |
| `window_model` | `MCWindowModel` | is the window model sound after any calls; do its steps keep bar, tiles and focus? | 4 windows made, 2 outputs, capacities 0 to 2 |
| `compositor` | `MCCompositor` | do surfaces, keyboard, activation and frames stay in step with the model? | 3 surfaces made, of 3 toplevels and 2 popups; tile limits 0, 1, 2 |
| `compositor_trees` | `CompositorTrees` | is a subsurface's frame callback answered with its window's; does nobody on screen wait past the clock's next frame? | 2 toplevels with a subsurface each |
| `event_loop` | `EventLoop` | are verdict, budget, clock and labels right; is every request and stop served? | seconds of 2 ticks, minutes of 2 seconds, days of 2 minutes; the timer armed 1 tick after the reading, up to 1 tick early, or late; frame budgets none, 0, 2; 2 frames, then only timers and the end of the pass go on |
| `files` | `MCFiles` | is a save atomic; does a process run with what the files and the command say; is an entry read, shown and launched as written? | 2 writers, 1 reader, 4 inodes, 2 texts; 9 theme files, 3 settings files, 3 of 16 options; files of up to 4 lines of 15 kinds, `Exec` values of 3 pieces of 12 kinds and one of 2 ends, up to two files opened, a caller with a name of its own that is empty |
| `screen` | `MCScreen` | do the parts fit, does a press act on what is seen? | 7 screens down to 90 by 5, 4 themes, 6 cards, 3 windows with menus and dialogs |
| `seat` | `MCSeat` | do events, lock and clipboard go where they belong? | 3 windows, 2 clients, 5 keys, 2 fingers, 2 sizes of screen |
| `pictures` | `MCPictures` | does a client stay in its tile, do both paths agree, does the cache change nothing? | windows of 4 by 3 pixels, some 450 buffers sound and lying, 2 commits; cache of 2, 3 frames; every word of up to 4 letters |
| `compositor_popup`, `window_waiting`, `seat_lock` | | a promise of a comment that the code does not keep | see [below](#what-the-comments-say-and-the-code-does-not-keep) |

Why these are enough to see the interesting cases. Four windows on two tiles give
a tile, a victim, a waiting window and a family of three, on an output that can be
emptied onto another. Three surfaces are a window, a second to compete for the
tile, and a dialog or menu; a chain of a dialog's menu also takes three. Limits 0
to 2 include the screen too small for a window (`layout.rs` returns 0). A minute of
two seconds has a top and a middle, and a day of two minutes wraps. In two ticks of a
second a reading is cut by one, the set-up takes the other, so that a text is wrong
while its timer sleeps, and a timer that is early by one finds the old minute.
`window_waiting` needs four windows on one output: two that compete for a tile, and a
tile that is taken away and given back. Two writers and
a reader use three inodes at a time, and the fourth is left for a name that
survived a power cut. The screens have real sizes: a monitor, a laptop, a phone, one where two tiles would fit but for the gap,
one too low for its cards, one lower than its bars and a scrap; the themes
are the built-in one, one of sizes below what `sanitised` accepts, one of sizes
larger than the screen, and one with uneven gaps, which leave a remainder. Six
cards are more than a monitor shows. Two fingers and three windows let a finger's
window close while another takes the touch grab. Buffers come with every sign of
width, height, stride and offset and pools one byte short. A cache of two is full
while the second of two strings is still to come.

`MCScreen` explores cards on any screen and theme with one window, two windows
with menus on a monitor and a phone, and three windows between wide gaps;
`MCSeat` moves one device at a time, since none reads the state of another; and
`MCPictures` shows buffers of any shape once and a few of them in sequence. The
predicates that say so are commented there.

The bounds are constants with names (`MaxWindows`, `MaxCapacity`, `MaxSurfaces`,
`MaxTabs`, `MaxFrames`, `MaxButtons`, `MaxCommits`, `MaxLines`, `MaxOptions`,
`MaxId`, `MaxOutputs`, `MaxCards`) and are used in guards only. The frame bound of
`event_loop` stops handlers, never `EndPass`, so it makes no liveness property true.

## Properties

A property of a run may be a conjunction of parts that have names and comments of
their own in the module.

| Property | Parts | Says |
|---|---|---|
| `StripInv` | | the active index names a card, the pin a card that exists, handles are distinct |
| `StepsKeepCards` | `ReorderKeepsActive`, `HandlesNeverReused` | reordering keeps the active card; a handle is given out once |
| `DockIsSound` | `DockTypeOK`, `LogicalSizeFitsTheMode`, `HandlesAreFresh`, `FallbackStays` | a logical size is that of the mode, turned and scaled; an output plugged in takes nobody's handle; the first output stays first while it is there |
| `TilesFollowBar`, `BarsHoldToplevels`, `FamiliesAreTrees` | | the window model is sound (see [Proofs](#proofs)); its `TypeOK` says that focus is a live window and that no handle is given out twice |
| `OrderIsKept` | `BarNeverReordered`, `HandlesNeverReused` | windows keep their order on the bar, and a new one goes to its end |
| `ScreenIsKept` | `AtMostOneEvicted`, `ResizeKeepsLeadingTiles`, `FocusLostOnlyWhenNothingShown` | no step takes more off the screen than it has to |
| `MapsStaySound` | `TypeOK`, `ModelStaysSound`, `SurfacesMatchWindows` | every living window is one surface's, through closing families and late parents |
| `KeyboardFollowsFocus`, `ActivatedIsFocused` | | once synchronised, keyboard and `Activated` are with the focused window, if it is on screen |
| `FramesAreScheduled` | | what a handler changed on screen is drawn or a frame is pending |
| `SubsurfaceRidesAlong` | | liveness: once a frame is pending, the callback of a subsurface of a window on screen is answered |
| `EverybodyIsAnswered` | | liveness: while minutes turn, nobody on screen waits for ever for a frame callback, whether or not a frame was asked for |
| `FramesAreCounted` | `TypeOK`, `IdleVerdictIsRight` | no counter runs below another; the idle test fails exactly if a frame was drawn that nobody asked for |
| `BudgetEndsTheLoop` | | no pass begins with the frame budget spent |
| `ClockIsRight` | `MinuteShownIsRight`, `NotAMomentSooner`, `ClockDrawsOnceAMinute` | the minute is late by less than a second and the time from reading to arming; a timer waited for to its end finds another minute; the clock sleeps a second at least and draws only a new text |
| `RequestsAreServed` | `FirstAskerKeepsLabel`, `CardsAreDrawn`, `PendingIsTaken`, `StopEndsTheLoop` | liveness of requests and of stop; the first to ask for a frame labels it; a change of card is drawn |
| `ReplacesAtomically` | | `AtomicWrite` implements `AtomicFile` |
| `TextsStayWhole` | `OpenFileIsFrozen`, `OnlyASaveReplaces` | what a reader has open is whole and does not change; a failed save changes nothing |
| `ThemeIsTrueToItsFile` | `StartupTypeOK`, `NothingFailsSilently`, `RunningThemeIsUsable`, `SavedThemeReadsBack` | what runs is what the file says but for what the report names; it is usable; saving it and reading it back gives it again |
| `StartIsWhatWasAsked` | `WindowIsWhatWasAsked`, `SettingsAreWholeOrDefault` | what is refused opens no window, and a window has what was asked for; settings are the file's or the defaults, never half |
| `EntriesAreRead` | `LauncherTypeOK`, `BadLinesHideNothing`, `LaterGroupsAreNotRead`, `ShownAsItSays`, `NearestNameIsShown` | each line of an entry costs or counts for itself alone; the last word on each key counts; what is hidden is in no menu and what is not, with its program there, is; the name is the nearest to the locale |
| `CommandsAreRead` | `FileNamesAreNotRead`, `NoFileNoArgument`, `ArgumentsReadBack` | what a user opens goes into the arguments as it is |
| `ShellFitsTheScreen` | `TypeOK`, `ZonesCoverScreen`, `BarPartsAreApart`, `ActiveCardIsWhole`, `ShortcutsStayOnCard` | zones, bars, cards and shortcuts fit into one another on every screen |
| `TilesShareTheZone` | | every window on a tile has a rectangle, and the rectangles and gaps fill the zone |
| `PressActsOnWhatIsSeen` | | at every corner and inside of every rectangle, `hit_test` names what is drawn there on top (no fullscreen window shown, room for the marks of focus) |
| `StripMovesByOneColumn` | | a step to the next card moves the strip by a column or not at all |
| `SelectionFollowsKeyboard` | | clipboard and primary selection are the keyboard's client's |
| `TouchPointsAreInTheirOwnWindow` | | a touch point carries the origin of the window it is sent to |
| `LockHolds` | `LockIsUnderThePointer`, `LockedPointerStandsStill` | a lock is with the window under the pointer, which does not move while it lasts |
| `PictureIsFresh` | | nothing of an earlier frame is left in a picture (GL's: over an opaque desktop) |
| `ClientsShowTheirOwn` | `RenderTypeOK`, `ClientStaysInItsTile`, `ShadowsAreNeverShown`, `ReadsStayInPool` | a client draws in its tile, without the shadow around its window, from inside its pool |
| `PathsAgreeWithinRounding` | | the two renderers differ by rounding alone, for opaque colours of the shell |
| `CacheIsRight` | `TextTypeOK`, `CachedPictureIsRight`, `StillPictureCostsNothing` | what the cache returns would be drawn afresh; a frame drawn again rasterises nothing; the cache stays within its limit |
| `NamesFitTheirBoxes` | `NamesAreCutLate`, `TextStaysInItsWidth` | a title on one line is cut as late as its box allows and never wider |

## What the comments say and the code does not keep

Three runs find a shortest behaviour in which the code does not do what its own
comment says (`findings` of `PROJECT.json` quotes the comments).

| Run | Shows |
|---|---|
| `compositor_popup` | a pressed menu that closes leaves the keyboard on its dead surface, because `popup_destroyed` does not synchronise (`KeyboardNeverDangles`) |
| `window_waiting` | a tile that comes free goes to the first window on the bar, which may have been sent back a moment ago, before one that has waited all along (`LongestWaitingFirst`) |
| `seat_lock` | under a pointer lock the delta is taken from the shell's pointer, which stands still, and not from the device: each motion repeats the whole way since the lock (`MovementIsTold`) |

The claims below are definitions at the end of their modules. They have no run of
their own; each is violated when it is added to the `INVARIANTS` (or, where it says
so, `PROPERTIES`) of the configuration named.

| Claim | Configuration | What TLC finds |
|---|---|---|
| `SlideSkipsPinned` | `MCOutputs` | `activate_next` and `activate_prev` (`tab.rs:148`) never look at the pin: the slider stops on the card that "leaves the slider rotation" (`tab.rs:189-191`) |
| `PortraitOutputsStack` | `MCOutputs` | `is_portrait` (`output.rs:116`) compares the whole output, `is_vertical` the zone between the bars: on an output a little taller than wide they differ |
| `ChildrenOfVisiblePlaced` | `MCWindowModel` | `layout` (`window.rs:606`) looks parents up among the tiles only; a menu of a dialog is never placed |
| `ActivatedIsOnScreen` | `MCCompositor` | `configure` (`mod.rs:503`) resets only waiting toplevels; a dialog that leaves the screen with its parent stays `Activated` |
| `EveryToplevelHasAWindow` | `MCCompositor` | closing a parent forgets the living toplevel of its dialog (`mod.rs:379`), whose commits are then ignored |
| `NoPictureIsStale` | `CompositorPopup` | `app_id_changed` (`handlers.rs:306`) may adopt a window and so bring another on screen, and asks for no frame; it is drawn when somebody else asks, or when the minute turns |
| `MinuteIsNeverLate` | `EventLoop` | the timer is armed (`winit.rs:311`) for whole seconds from a reading of whole seconds, taken before the set-up (`winit.rs:188`): for what was cut off and the set-up, the text is of the minute before |
| `NoStrayTemp` | `MCFiles` | the `?` after `write_all` and `sync_all` (`atomic.rs:32`) returns without removing the temporary file; a refused rename removes it |
| `DiagnosticIsTheShell` | `MCFiles` | the diagnostic (`main.rs:133`) takes bars to be 40 units high; the built-in theme makes them 48, so its tiles are not the shell's |
| `NeverPanics` | `MCFiles` | `--idle-test inf` passes the check for "greater than zero" and panics in `Duration::from_secs_f64` (`main.rs:82`) |
| `TyposAreReported` | `MCFiles` | `from_str_radix` takes a sign (`core/theme.rs:44`): `#+f0000` is a colour and nothing is reported |
| `TryExecHides` | `MCFiles` | `should_display` never looks at `try_exec` (`desktop-entry/lib.rs:167`), which the field's comment says hides an entry |
| `NameFallsBack` | `MCFiles` | a locale's modifier is cut off neither tag nor language (`lib.rs:154`): for `ca@valencia` not even `Name[ca]` is found |
| `PressActsOnTheTopmost` | `MCScreen` | `hit_test` (`core/input.rs:340`) asks the bars first, also under a fullscreen window that is drawn over them |
| `MenusStayInTheZone` (`PROPERTIES`) | `MCScreen` | `position_popup` (`mod.rs:329`) keeps a menu inside a rectangle of the parent's size at the corner of the screen, not inside the zone |
| `TargetsAreTouchable` | `MCScreen` | chips are 32 units high (`shell.rs:139`); what a finger must hit is to be 48 (`shell.rs:28`) |
| `SystemPressesAreConsumed` | `MCSeat` | `on_pointer_button` (`input.rs:429`) always sends the button on, to the focus of the last motion, though the press was on a bar |
| `FingerKeepsItsWindow` | `MCSeat` | there is one `touch_focus` (`input.rs:605`); a second finger takes it, and the first one's motions are dropped |
| `ReleasesWerePressed` | `MCSeat` | the release of a key that was taken for a shortcut is forwarded (`input.rs:121`) |
| `TextAgreesExactly` | `MCPictures` | the GL path rounds the edge of a glyph twice (`gles.rs:207`), the canvas once |
| `GlIsAlwaysFresh` | `MCPictures` | `gles.rs` draws the list and clears nothing before it: through a desktop colour with an alpha, which no theme is refused for, what was in the framebuffer shows; the canvas overwrites it |
| `SolidsAgree` | `MCPictures` | a translucent colour is copied by `fill_rect` (`render/lib.rs:103`) and taken for premultiplied by `draw_solid` |
| `TextStaysInItsBox` | `MCPictures` | `place` (`text.rs:291`) centres text higher than its box above its upper edge, and nothing clips it |
| `TitlesAreCutLate` | `MCPictures` | with a line break the width of a beginning does not grow with its length, which the search in `fit` (`text.rs:345`) relies on |

Seen while modelling, and stated by no definition:

* Focus after a close goes to the first tile of the output that was created first,
  where `window.rs:361` says the same output if possible.
* Frames may exceed `--frames n` within the last pass.
* A dialog keeps 480 by 320 (`mod.rs:273`), a plain toplevel 640 by 480 (`window.rs:196`),
  whatever its client commits: `refresh_metadata` copies no size, though the
  comment says the client "corrects it on its first commit".
* Where the outer gap leaves nothing of the zone a tile has no height
  (`TilesShareTheZone` excepts it).
* The marks of focus are drawn without asking whether there is room, where
  `paint.rs:153` has "An outline `t` units wide, drawn inside `rect`" and `:180` "Drawn
  *inside* the window's own rectangle". A ring wider than `card_pad` covers the edge of
  the card's shortcuts; one wider than a card or a menu is painted beside it, as is the
  mark, 3 units high, of a chip that is lower (`paint.rs:334`). A press beside them acts
  on what is there, not on what is seen; `PressActsOnWhatIsSeen` excepts such screens
  (`RoomForTheMarks`). That a client's menu one unit wide is among them came out of
  the proof, and TLC confirmed it.
* `remove` of a card left of the active one makes another card active; its comment
  promises the range of the index only.

## Fairness, deadlock, symmetry

The only fairness is `WF_vars(EndPass)` in `EventLoop` and `Compositor`: calloop's
`EventLoop::run` calls the callback after every dispatch and then looks at the
stop flag, so a pass always ends. Nothing is assumed of clients, of the user
or of the host. `EverybodyIsAnswered` alone assumes in addition `WF_vars(ClockTurns)`, in
the property and not in the specification: minutes turn, since `tick_clock` arms the
timer anew whenever it fires (`winit.rs:316`). All other specifications state safety only.

Deadlock is checked except in `event_loop`, where a run that is over (`phase =
"done"`) has stopped for good. In the others something can always be done: a
client commits again, a user resizes, a process is started anew, a frame is drawn.

Outputs, surfaces of a kind, clients, inodes and texts are interchangeable (the
models only compare them). The runs that check liveness declare no symmetry.

## Proofs

TLAPS checks these for every value of the constants, from the named assumptions
beside the constants and nothing else. They say that `NoWindow`, `NoTab`, `NoFile`
and the like are values of no other kind, that `Path` is no temporary name, that
bounds are numbers, and these:

* `SubsurfacesAssumption`: the surface below a toplevel is not a toplevel or a popup;
* `ReportsAssumption`: a host reports modes of two integers and an integer scale,
  of whatever sign (an `i32` each);
* `ReadableAssumption`: a theme or settings file that was read has the tables of its
  schema, with integers and strings where those belong. All three structs are
  `deny_unknown_fields`, so that any other text is the file called "garbage";
* `AreasAssumption`, `ThemesAssumption`, `SizesAssumption`, `PositionersAssumption`:
  what `Screen` is given are integers. A window may be of no size at all, a theme may
  ask for any size and font, of whatever sign; a minimum size is at least one unit,
  which `min_size` sees to, and a menu may ask for any place and any size;
* `ScalesAssumption`, `AdvanceAssumption`, `ListsAssumption`: an output's scale is a
  positive integer, no character of the font has a negative advance, and a frame is
  a finite list of strings in boxes of integers, of whatever sign and size;
* `LinesAssumption`, `HeadersAssumption`, `ContextsAssumption`, `LocalesAssumption`: a
  line of a desktop file is a group, a key with its value, or says nothing; a key is
  a name, or `Name` in a language; names, icons, `Exec` values, paths and URIs are any
  strings of characters, the value of a list is any words, and a locale has
  a language, a country and a modifier. `CharactersAssumption`: the quoting characters
  and the percent are characters. That is what `split_once`, `strip_prefix`, `list` and
  the types of the struct say. `MarksAssumption` is about the property and not the code:
  the inert names that `FileNamesAreNotRead` puts in place of files are new;
* `WindowSizesAssumption`, `ThemesAssumption` and `GarbageAssumption` of `Renderers`,
  `GlyphsAssumption`, `BuffersAssumption`: colours and coverage are bytes, a line of
  text is one pixel high, and a client may claim any integer as width, height, stride,
  offset and geometry of its buffer; only the length of the pool, which is mapped
  memory, is a natural number.

| Module | Theorems |
|---|---|
| `WindowModelProofs` | `TypeCorrect`, `TilesAreRight`, `BarsAreComplete`, `ParentsAreAForest`; of single steps `OrderAlwaysKept`, `ScreenAlwaysKept`, `NobodyIsEverOvertaken` |
| `CompositorProofs` | `MapsAlwaysSound`, `KeyboardAlwaysFollows`, `ActivatedAlwaysFocused`, `FramesAlwaysScheduled` |
| `SeatProofs` | `TypeCorrect`, `NobodyElseHasTheLock`, `LockedPointerStays`, `LockIsKept`, `ClipboardIsTheKeyboards`, `TouchesStayAtHome` |
| `ScreenProofs` | the shell: `ShellAlwaysFits`, `TilesAlwaysShare`, `StripAlwaysFollows`; what is seen: `PressesActOnWhatIsSeen`, `NoPressGoesAstray`; the words on it: `CacheStaysRight`, `NamesAlwaysFit` |
| `EventLoopProofs` | `FramesAlwaysCounted`, `BudgetIsKept`, `ClockIsAlwaysRight`, `LabelIsKept`, `CardsAlwaysDrawn` |
| `OutputsProofs` | the strip: `TypeCorrect`, `StripStaysSound`, `ReorderingKeepsTheCard`, `CardHandlesAreFresh`, `CardsStayWhatTheyAre`; the outputs: `SizesAlwaysFit`, `DockAlwaysSound`; the renderers: `FramesStayFresh`, `ClientsAreShownAsTheyAre`, `PathsAgree` |
| `FilesProofs` | the writer: `TypeCorrect`, `WriteIsAtomic` (refinement), `FailedSavesChangeNothing`, `ReadersSeeWholeTexts`, `TextsAreNeverTorn`; the start: `ThemesStayTrue`, `StartsAreAsAsked`; the desktop entries: `EntriesReadRight`, `CommandsReadRight` |
| `CoreProofs` | lemmas about products and quotients and about the operators of `Vec`, `TabOps` and `WindowOps`, cited by the others |

**Vectors.** `Retain` (what is left of a `Vec` after `retain`) is a recursive
function, so its facts come from an induction on the length (`SetInduction`):
elements, order and absence of duplicates, and that what it keeps at the front stays
there. `Take`, `Swap`, insertion and removal follow from `Sequences`.

**Card strip.** `TypeOK /\ StripInv` is inductive as it stands. Reordering is the
delicate step: a card is removed and inserted and the index looked up again.

**Window model.** The invariant is `Good(model) /\ FamiliesOK(model)`, where
`Good` is type, tiles, bars and handles together. They must be proved together: a
tile is filled with a window of the bar (tiles need bars), the bar of a closed
window loses the toplevels of its family (bars need families and handles), a new
handle must be on no bar (handles need bars). For `FamiliesOK` the key fact is that
`Family` is the least closed set: opening adds a leaf, closing removes a closed set,
so no family of what is left changes, and adoption hangs one family below a window
outside it, which is what `is_descendant` asks for. `CoreProofs` states for
each method `m` that `Good(m)` gives `Good` of its result, and likewise for
families; so the same lemmas serve every module whose handlers call the methods.

**Steps of the window model.** `OrderIsKept` and `ScreenIsKept` speak of a bar and its
tiles before and after. `Allowed(old, new)` says it of one output: the order of what
stays, who is served first, how many lose a tile, which tiles a resize keeps.
`StepAllowed` is that for every output, with handles and focus; there is a lemma for
each kind of change a method makes to an output (a window joined, windows
left, a new capacity, a tile taken) and one for each method. Two facts carry them:
`retain` keeps the order of what it keeps (`RetainKeepsOrder`), and filling free
tiles takes from the front of what waits (`FillServesOldest`). The second also gives
`NobodyIsEverOvertaken`: whichever way a tile comes free, a window is not passed over
that stands first on the bar *and* has waited at least as long. Bar order and waiting
time are not the same, as `window_waiting` shows; where they agree, the comments are
kept. No listed run checks this one; TLC found it to hold with two outputs and three
windows and with one output and four.

**Compositor.** The invariant has four parts. `MapInv`: the window model is sound and
the map is one to one between live windows and living surfaces (`Match`). Each
change of the model has its lemma about the map: a window opened (`MatchAdded`), a
family closed (`MatchRemaining`, where the popup or dialog that goes with its
parent must lose its entry too), everything rearranged (`MatchRearranged`).
`SeatInv`: keyboard and activation are right *unless* `owed` says that nobody
synchronised yet; so it needs no more than that `SyncLayout` makes them right whatever
they were (`SyncLayoutKeeps`), and that a handler which does not call it and owes
nothing leaves layout and focus alone (`Similar`, `SeatStays`). The interesting handlers
are those that return early: a refresh that adopts nobody, a popup that dies.
`FrameInv` is the same for frames, with `CallbacksOK`: only a living surface,
or the subsurface below one, waits for a callback.
`ClientInv` bounds what clients may have said.

**Screen.** Most of it is arithmetic, with a lemma for each function of `shell.rs` and
`layout.rs`, for every rectangle and every theme that `sanitised` can return:
`ZonesFit`, `TopBarFits`, `BottomBarFits`, `StripFits`, `CardTilesFit`, `FaceFits`,
`TilesFit`. They are what the integer division in the code has to be right about:
that two bars which share half of a low screen both keep something (`ShareIsPart`),
that the last row and column of shortcuts end before the card does, that the units
left over by three tiles go to the first of them. What they ask for in return is
the invariant, `ScreenInv`: windows with sizes, a strip whose active index is a card,
the window model of the other modules, and `Roomy`: the tile limit in the model is that
of the zone *now*. Without `Roomy` a window could hold a tile that `layout` drops;
it is why every handler that changes windows or the screen ends in `sync_layout`
(`SyncedFacts`, `EndsInSync`), and why opening a window or closing a menu may do
without (they leave the capacity alone). A press needs that what is hit is there
(`HitIsThere`). A slide changes the active index by one, and `strip_offset` is clamped
at both ends and moves between neighbours by at most a column (`OffsetMoves`).

**What is seen.** `DisplayList` is six lists after one another, from the desktop to
fullscreen windows, and what is seen at a point is what was painted there last. Two
predicates say all the proof needs of a list: `Only(l, p, h)`, nothing in `l` is
painted at `p` except for `h`, and `Shows(l, p, h)`, `h` was painted at `p` and is last.
They pass through concatenation (`AfterAnother`), a single rectangle with its clip
(`OneIsShown`, `NothingIsShown`), an outline of four (`OutlineShows`) and a list of
pieces (`PiecesShow`). So each part has one lemma: where the press is its, it shows what
the hit test returns, and where it is not, it is silent: `TopBarShows`,
`BottomBarShows`, `WindowsShow`, `CardShows`, `CardsShow`. What they use is the
arithmetic above (tiles and chips apart, names on their shortcut), `OneZone` (a point
is in one of the zones) and that `hit_test` and `layout` number windows from the
front in the same order. Menus may hang anywhere and have any size (`AnyRect`), so
the windows' part asks for nothing but that every rectangle is of integers.

**Renderers.** Both pictures are unrolled, item by item, to a formula for each pixel
(`CpuIsPointwise`, `GlIsPointwise`): four items over whatever was there. The rest is
about bytes. The fill of the background covers every pixel, so a kept canvas or an
old framebuffer has no influence (`RenderInv`, with types of canvas and texture,
is the invariant; TLC checked it first). A pixel of the client is looked at only
where it is readable, inside the tile and behind the corner of its geometry
(`SameWindow`, `ReadsFit`, where `h * stride + offset <= len` bounds the last byte read).
`GlyphPixelsAgree` and `RoundingOnly` are inequalities on products and quotients by 255: a
colour rounded once and one rounded twice are a step apart and no more.

**Text cache.** `TextInv` says that every image in the cache is the one its key stands
for (`FromKey`: the key holds all an image depends on), also those no frame showed
lately; that no two were wanted last at the same time; that the last frame is
painted as if there were no cache (`Painted`); and that what it showed is still there,
if one frame fits. The last is the delicate part and needs an induction along the
frame (`FrameStep`): while the frame's wishes fit the cache, the entries it has
touched are exactly those used since it began, so when the cache is full some
entry is older, and the oldest, which is what `remember` drops, is none of this
frame's (`EvictsTheOld`). A frame that finds everything therefore makes nothing.

**Names.** `Search` is a recursive function of two bounds, so what it returns is an
induction on their distance (`SearchFacts`): the character count stays between them and
fits. That nothing longer fits needs the widths of beginnings to grow, which they
do in one line (`OneLineGrows`, `CutsGrow`) and do not across a line break.

**Event loop.** `WatchInv` is the point: since the watch began, frames drawn are
those of the clock, of clients, of input, and `unasked`, term by term, so a frame
that fails must count nowhere; that needs to know that initial, resized and
redraw frames draw at once and are never what is `pending` (`AskersInv`).
`ClockInv`: a due time, unless the clock was set, is the top of the minute after the
reading the text was made from, later by `slack` and by less than the second that was
cut off, in a day that goes round. What is left is arithmetic on quotients by any
length of second, minute and day: what a reading says of a time (`ReadingFacts`,
`ReadingOrder`), a tick further on (`NextTick`), how long is waited (`WaitFacts`). So a
text is wrong for less than `Second + slack` ticks before its timer is due, and a
timer waited for to its end finds another minute (`NotSooner`). The budget needs `EndPass` and every handler that draws by
itself: whoever spends the last of it sets the stop flag.

**Outputs.** `DockInv` is the type and every output as the code builds it (`Built`).
`LogicalSize` divides and truncates, but never below one (`UnitsFit`). That the
fallback stays needs only the head of the list: appending, inserting behind it and
retaining it all leave it first.

**Atomic write.** The invariant says that the file the name leads to, and the one
it leads to on disk, is whole and no writer's temporary file (`TargetsWhole`,
`TempsApart`), that a text which is about to be renamed is on disk
(`TempsWritten`), and that readers hold whole files (`ReadersSafe`). `TempsApart`
is where the process id in the name and the sibling directory matter;
`TempsWritten` is where `sync_all` before `rename` matters. The refinement maps a
successful `rename` to `Replace`, directory write-back to `Persist`, a power cut to
`PowerCut`, and all else to stuttering.

**Start-up.** The invariant `StartInv` is short: a process that runs is
`Window(file, arguments)` of the file and the arguments it *began* with, whatever was
edited since. What is left is about operators. `HexReadsBack`: what `to_hex` writes
`parse_hex` reads, of all four bytes, opaque or not. `SanitisedOnce`: sanitising what
was sanitised changes nothing and reports nothing. `SavedFile` puts the two together:
a saved theme is a file in which nothing is wrong. `LoadedIsReported` goes field by
field through what a file may say.

**Desktop entries.** `LauncherInv`, which TLC checked first, is the state and nothing
more: the entry is `Parse` of the file, the command `Command` of the entry and what
was opened. All the rest is about two readers that go from left to right, for files of
any length and any lines. They are recursive functions; `ReadLinesFacts`, `ReadAllFacts`
and `SubstitutedFacts` say what they do with nothing and with one thing more, and then
the induction is over the sequence (`AppendInduction`).

For the entry it is over lines. `OwnFacts` says how the entry's own group grows with
the file, and `FileReads` that the reader has, at every line, exactly the keys that
were said in it, each with the last word. So a line that says nothing changes nothing
(`BadLinesRead`), and since the group is a stretch of the file (`OwnIsAStretch`), that
stretch read alone gives the same entry (`GroupReadsAlone`).

For the command it is over characters and then over arguments. `WrittenRead` follows
the reader through an argument as the specification quotes it, from outside to
inside and back; `LineRead` through the line. An argument that asks for a file is
dropped when there is none (`AskingIsDropped`): a code is behind an odd run of
percents, and `RunFacts` says that the reader knows which. That file names are not read
is a relation between two runs of the reader: `Same(a, b, ctx)`, where `a` has
read with the files and `b` with inert names for them, says that `a` is `b` with the names put in.
Each character keeps it (`SameStep`), because what a code stands for is only ever
pushed; so do an argument (`SameExpanded`) and the line (`SameCommand`). The delicate
case is a file without a name, which makes one of two commands drop an argument: the
property leaves it out, as no file has an empty name.

**Seat.** The invariant has a part for each device. `ModelInv`: the window model is
good, every window is a toplevel and has an owner. `KeyInv` and `PointerInv`:
keyboard, pointer and lock are with a live window or with none, the selections are
the keyboard's client's, and the lock is the pointer's. `TouchInv` is the one that
is not obvious: the state remembers one finger and the window it went down on,
*also when that window has closed*. What can be kept is that its handle was given
out, and that while it lives the finger is still on it; since `next_id` only grows,
a window that opens later cannot be mistaken for it. `SentInv`: an event goes to a
live window and carries that window's own origin. The hit test needs that a place
on the screen falls on a tile that exists (`TileIndex`), and everything that changes
the layout goes through `SyncLayout`, which is one lemma (`SyncLayoutKeeps`).

**Left to TLC.** Liveness: `PendingIsTaken` and `StopEndsTheLoop` (the other half of
`RequestsAreServed` is `LabelIsKept` and `CardsAlwaysDrawn`), `SubsurfaceRidesAlong`,
`EverybodyIsAnswered`. Every invariant and every action property of a run that passes is
proved. What a recursive function computes is proved by an induction over a set of
numbers or of sequences (`SetInduction`, `AppendInduction`), which needs
no operator as a parameter; so `TextCache`, `Picture`, `Renderers`, `ExecLine` and
`Launcher` are written with recursive functions and lists of pieces where the code
has loops, and no module declares a RECURSIVE operator.

## What is not modelled

* Overflow of `i32`. Sizes on a screen come nowhere near it. A theme file may ask
  for sizes near the end of the range; `sanitised` raises and never lowers, and the
  sums of `shell.rs` would wrap. No rule of the code bounds them, so no property
  could.
* A scale other than 1 in `Renderers`: `winit.rs` fixes it (`try_draw`). `TextCache`
  has scales 1 and 2.
* The shapes of glyphs, captions, logs, the wording of reports and the test
  pictures that are written as PNG: pixels and wording.
* GL objects, DMA buffers and EGL; Wayland sockets, new clients, damage: external
  to the logic. A dmabuf is a buffer that one renderer can read.
* TOML: a file is what parsing can tell apart. The lists of categories and the
  unescaping of string values in desktop entries.
* Drag and drop, decorations, what a client is told of the output: smithay's.
* A failing frame in `Compositor` (in `EventLoop` and `Renderers` frames fail), and
  more than one level of subsurfaces.
* Several outputs in `Compositor` and `Screen`: the nested backend has one.
  `WindowModel` has any number, `Dock` what comes and goes.
* A seat without a keyboard: the backend always adds one.
* Render durations and the statistics report; time zones and the text of the clock.
* The hostile-client tool, a client on a socket. Its scenarios (late `set_parent`,
  rings of parents, popups without a parent) are what `Compositor` lets clients do.

## Plan

1. Done: window model, card strip, compositor, event loop, atomic write, their
   runs, proofs of the window model, the strip and the atomic write.
2. Done: geometry, shell and hit test on one screen; seat; renderers and text
   cache; outputs; theme, settings and start-up; desktop entries; subsurfaces;
   proofs of the seat.
3. Done: proofs of the compositor, the event loop, the outputs, the theme and the
   start, of the window model's steps, of the screen for all sizes and themes, and of
   the text cache.
4. Done: proofs of the renderers, of the hit test against the display list, and of
   the desktop entries.
5. Open: the liveness properties, which stay with TLC; a property of shortcuts whose
   press and release meet different focus (`ReleasesWerePressed` shows what the code does).

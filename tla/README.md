# A verification development of GNU screen

This directory specifies parts of the terminal multiplexer whose sources are
in `src/src/` in TLA+, checks the specifications with TLC on small instances
and proves theorems about them with TLAPS.

## The system

One process, the *daemon* (the backend), owns windows and displays.  A
*window* is a pseudo terminal with a program on it and a terminal emulator
in front; a *display* is a user's terminal.  On each user's terminal sits an
*attacher* process, which does nothing but wait for signals.  The daemon is
single threaded: `sched()` polls the descriptors of all displays, windows and
the session's socket and calls handlers, which queue and dequeue events.
Signal handlers interrupt it anywhere.

| Component | State | Operations | Interacts with | Hard behaviour |
|---|---|---|---|---|
| event scheduler (`sched.c`) | queues `evs`, `tevs`, the poll array, the saved successor | `evenq`, `evdeq`, `sched` | called by every handler | queues change under the walk |
| timers (`sched.c`) | deadline of each event in wrapped milliseconds | `SetTimeout`, `calctimo` | scheduler, status line, key timeouts | wrap-around, starvation by ready descriptors |
| attach and detach (`socket.c`, `attacher.c`, `screen.c`) | socket and its mode, displays, attacher processes, signals | `Attach`, `ReceiveMsg`, `FinishAttach`, `Detach`, `Hangup`, `Attacher` | messages one way, signals the other | races, lost wake-ups, crashes |
| display output (`display.c`) | output buffer, blocked flag, status line | `AddChar`, `disp_writeev_fn`, `Flush`, `MakeStatus` | windows wait for it | a terminal that takes no output |
| window I/O (`window.c`) | input and output buffers, conditions of the events | `win_readev_fn`, `win_writeev_fn`, the pseudo window's pair | displays, emulator | flow control through shared counters |
| window table (`window.c`, `win.c`) | windows, most recently used list, zombies | `MakeWindow`, `FreeWindow`, `WindowDied` | displays, layers | a window freed while referenced |
| keys (`process.c`, `display.c`, `termcap.c`) | table of sequences, partial sequence, mouse parser | `disp_readev_fn`, `ProcessInput`, `disp_map_fn`, `bindkey` | timers | a timeout races the next key; the table changes while keys wait |
| emulator (`ansi.c`) | parser state, modes, character sets, screen memory, history | `WriteString`, `MScrollV`, ... | window, layer | sequences split over reads, halves of wide characters |
| new sizes of windows (`resize.c`) | the memory and the history of a window | `ChangeWindowSize` | emulator, regions | lines wrapped again, the cursor in the middle |
| drawing (`display.c`, `layer.c`) | what the terminal shows and was sent | `LPutChar`, `LInsChar`, `WrapChar`, `ScrollV`, `RefreshArea`, ... | emulator, regions | each terminal lacks other capabilities |
| regions (`canvas.c`, `resize.c`) | tree of canvases, the region in focus | `AddCanvas`, `RemCanvas`, `OneCanvas`, `ResizeCanvas`, `ChangeScreenSize` | displays, windows | regions that no longer fit, rounding, shared caption line |
| layouts, layers (`layout.c`, `layer.c`) | saved trees, stack of overlays | `LoadLayout`, `InitOverlayPage`, `ExitOverlayPage` | displays, windows | shared layers |
| encodings (`encoding.c`) | decoder state | `FromUtf8`, `ToUtf8` | emulator | split and malformed sequences |
| copy mode, paste (`mark.c`, `search.c`) | marks, history | | window | |
| access control (`acls.c`) | users, bit sets | `AclSetPerm`, `AclCheckPermWin` | commands | growth of the bit sets |
| telnet (`telnet.c`) | option state | `TelIn`, `TelOption` | window I/O | negotiation loops |
| termcap, tty, pty, log files, utmp, lists, help | | | | mostly data and plain I/O |

What makes each of them correct: the scheduler calls every handler whose
descriptor is ready and no other, and never stands on a freed event; timers
never fire early and not much late; a session can always be detached and
resumed, attachers never stay behind; output is neither lost nor does one
slow terminal hold all windows for good; a pointer to a window, display,
layer or counter never outlives it; the two lists of windows hold the same
windows; the regions of a display fill its terminal, and one of them has the
focus; no key is lost, doubled or overtaken by another; a program's output
means the same however it is cut into reads; the history keeps the lines in
order; a terminal shows what its regions are meant to show.

## Modules

| Module | Models | Role |
|---|---|---|
| `Sched` | `sched.c`, and the operations its handlers perform | specification |
| `MCSched` | seven events of a display, a window and the daemon | instance for TLC |
| `SchedProofs` | | inductive invariant and theorems about `Sched` |
| `Session` | `socket.c`, `attacher.c`, and `Detach`, `Hangup`, `Finit` of `screen.c` | specification |
| `MCSession` | a creator and up to two other clients | instance for TLC |
| `SessionProofs` | | inductive invariants and theorems about `Session` |
| `WindowIO` | the read and write handlers of `window.c`, the writer and the blocked mode of `display.c` | specification |
| `MCWindowIO` | a window with a pseudo window on a display | instances for TLC |
| `WindowIOProofs` | | inductive invariants and theorems about `WindowIO` |
| `SchedTimer` | `SetTimeout`, `calctimo` and the wait in `sched()` | specification |
| `MCSchedTimer` | two timers under a clock of a few bits | instance for TLC |
| `SchedTimerProofs` | | inductive invariants and theorems about `SchedTimer` |
| `Regions` | `canvas.c`, `ChangeScreenSize`, and the commands on regions of `process.c` | specification |
| `MCRegions` | up to three regions on two small terminals | instance for TLC |
| `Windows` | the two lists of windows, groups, displays, layouts and the commands on them (`window.c`, `canvas.c`, `layout.c`, `win.c`, `process.c`) | specification |
| `WindowList` | what the lists promise, without pointers | abstract specification, implemented by `Windows` |
| `MCWindows` | three windows, two displays, one layout, in four scopes | instance for TLC |
| `WindowsListProofs` | | the two lists and what each step on them does; the inductive invariant of `Windows`, which windows and groups keep |
| `WindowsProofs` | | layouts, regions, deaths, detaching and attaching keep it; theorems about `Windows` |
| `Screen` | the memory, history and cursor of a window (`ansi.c`), new sizes (`resize.c`) | specification |
| `MCScreen` | screens of up to 4x3, in five scopes | instance for TLC |
| `ScreenProofs` | | inductive invariants and theorems about `Screen` |
| `Parser` | `WriteString` and what it calls: sequences, strings, parameters, modes, character sets, printing (`ansi.c`) | specification |
| `Utf8` | the decoder, the encoder and the table of combined characters (`encoding.c`) | specification |
| `MCParser` | `Parser` in six scopes, `Utf8` in two | instance for TLC |
| `ParserProofs` | | inductive invariant and theorems about `Parser` |
| `Keys` | `disp_readev_fn`, `ProcessInput`, the two timers, `bindkey` and `remmapseq` | specification |
| `MCKeys` | tables of up to three sequences, mouse reports in pieces | instance for TLC |
| `Painter` | what a display writes to a terminal (`display.c`) for a window shown in regions (`layer.c`) | specification, over the operators of `Screen` |
| `MCTerminal` | `MCKeys` and, as a scope of its own, `Painter` with four kinds of terminals | instance for TLC |

`Sched` is about which handler runs, with the conditions of the events
abstracted to "held back or not"; `WindowIO` is about what the handlers of
readers and writers do and what those conditions are, with any order of
handlers.  `SchedTimer` replaces the nondeterministic expiry of `Sched` by the
clock.

### Sched

`evs`, `tevs`, `queued`, `type`, `pfd`, `i`, `n`, `ev` and `nextev` are the
variables of the code.  A round is cut where the code is interleaved with its
handlers: `Poll` (filling the array and `poll()` itself, with any set of ready
descriptors, or none and an expired timer), one step per event of the walk
(`PassOver`, `SkipSlot`, `Dispatch`), one step per queue operation of a
handler (`HandlerDeq`, `HandlerEnq`, `HandlerRetype`, `HandlerCondition`),
`HandlerReturn`, `RoundEnd`.  Which operations the handler of an event may
perform is a constant (`MayEnq`, `MayDeq`), read off the callers of `evenq`
and `evdeq`.  The conditions `condpos`, `condneg` are abstracted to the set
`held` of the events held back.  `ready`, `ran`, `seen`, `touched`, `shifted`
are history variables of the round.

`DispatchExact` is stated for rounds in which no polled event ahead of the
walk is dequeued (`~shifted`): without that condition it is false.

### Session

The daemon is `auth`, `alive`, `socket`, `mode`, `displays`, `authing`, `request`,
`busy`; an attacher is its position in `Attacher()` or `Attach()` (`st`), its
command line (`cmd`) and its flags; `conns` is the listen queue of the socket
and `pend` the signals sent and not yet delivered.  `Receive` is the whole of
`ReceiveMsg` after `accept`, with everything it calls; `Password` the end of a
prompt; `Key` the detach, power detach, suspend and lock commands;
`TerminalGone` end of file on a display; `Terminate` and `Crash` the end of
the daemon with and without `Finit`.  On the other side each test of the loop
in `Attacher()` is an action, and so are the three points at which a signal
meets `while (!ContinuePlease) pause()`.  The first attach connects and
writes in two steps, between which the client may be stopped or die; for the
other messages these are one step.

Simplifications: the remote power detach is folded into the remote detach
(they differ in the signal only); each attacher has its own terminal; the
handlers are taken to be installed when the request is written; a client of
a multi-user session waits for SIGCONT as one of `-d` does, and is not
modelled; `lockscreen` runs no lock program in this version, so locking is
detach and re-attach.

### WindowIO

Per display: `pending` is `D_obufp - D_obuf`, `nonblock`, `blocked`, `fuzz`,
`status` and `statpos` are `D_nonblock`, `D_blocked`, `D_blocked_fuzz`,
`D_status` and `D_status_obufpos`, `timer` says that `D_blockedev` is queued,
`accepts` that the terminal takes output.  Per reader (a window or the pseudo
window of `exec`): `in` and `out` are the lengths of its buffers, `cond` is the
condition left in its event, as the kind of the counter and its owner.
`stale` is a history variable: the display misses output.

The four tests at the head of `win_readev_fn` and `pseu_readev_fn` are
`HoldInput`, `HoldDisplay`, `HoldOverlay` and `MayRead`; `muchpending()` is
`Stop` with `GivenUp` (a display with `nonblock 0` is given up on the way, even
when a later one stops the reader).  `Transfer` is the read with `WriteString`
on all canvases, `Announce` the same when the text holds a message that
`MakeStatus` shows at once, so that the rest is put aside, `ShowRest` the
showing of what was put aside.  `DispWrite` is `disp_writeev_fn` including the
end of the blocked mode, `BlockedTimeout` and `StatusTimeout` the two timers.
The user's side is `Message`, `Type`, `OverlayOpen`, `OverlayClose`,
`SetNonblock`, `Print`, `Detach`, `Attach`, and the terminal's `Xoff`, `Xon`.

Data are counted, not modelled: a redisplay is `Redraw` characters, a message
`Text`.  Left out: overlays on one display only, bell messages, hardstatus
lines, zmodem and pasting, a pseudo window that takes the output of its window
away from the displays, `w_norefresh`.  `Attach` gives a display
back only when no condition is left that points to the old structure.

### SchedTimer

`timeout` is the int in the event (`Width` values instead of 2^32), `due`
beside it the time really left, a history variable the code does not have.
`Calctimo` takes the smallest int, ties broken by the queue (`Rank`).
`Bounded` chooses between a clock that stops when a timer is `MaxLate` overdue,
which keeps the model finite with the order of overdue timers intact, and one
that runs on.

### Regions

`root` is `D_canvas` with the tree below it, as nested records: a canvas with
`kids` is a slice (`c_slperp`), the others are the regions of `D_cvlist`.  `fore`
is `D_forecv`, `screen` and `caption` the size of the terminal and the two
variables of the caption command.  `ResizeCanvas` is the function of the code
as a recursive operator: `Shares`, `Evened` and `PlaceAll` are its passes over
the weights, `Clipped` the end of the slice, `Closed` the branch that frees what
does not fit.  `AddCanvas`, `RemCanvas`, `OneCanvas`, `ResizeRegions` (with
`ChangeCanvasSize` and `Equalized`), `SetForeCanvas`, `SetCaption` and
`ResizeScreen` are the commands and the terminal's change of size, each with the
`ResizeCanvas` it ends in.  A division by zero and a null pointer followed set
`crashed`, which ends the behaviour; `KeyWithoutFocus` is the key that finds
`D_forecv` NULL.

The operators are recursive, so nothing is proved about this module.  Left out:
`focusminsize`, sizes in percents, the windows and layers shown, viewports, and
`caption top` with a string, which changes the captions' side and no sizes.

`Proper` says what trees the code means to build.  Some commands leave it (see
"What does not hold"), and after that most commands go on from a tree no
property is meant for; `astray` counts them, and `MaxAstray` bounds them.

### Windows and WindowList

`tab` is the two lists with the pointers of `struct win`: `first`, `last`,
`next`, `prev` for the one ordered by number, `mru`, `prevmru` for the one
ordered by use.  `UnlinkNumber` and `UnlinkUse` are the two halves of
`remove_window_from_list`, `Link` is `add_window_to_list`, `ToHead` the end of
`SetCanvasWindow`, `Killed` the relinking `KillWindow` does by itself.  A
display is the windows of its regions (in the order of `D_cvlist`), the region in
focus, and `D_fore`, `D_other`, `D_layout`; `SetCanvasWindow`, `FindNiceWindow`,
`SwitchWindow`, `LoadLayout`, `KillWindow` and the commands of `process.c` are
operators from a state to a state, so that a step is the whole command.
Commands come from the keys of a display (`Keys`) or from `screen -X` (`Remote`),
which may work on any window.

`WindowList` promises a set of windows with different numbers and an order of
use, which every step keeps a permutation of the windows there are (`Ranked`) and
changes only by bringing the windows it used ahead of the others (`Promoted`): a
key uses one, a display that comes back at most two, a window that dies makes
every display use another.  `Implements` is the refinement, with the window
numbers and the chain of `prevmru` as the mapping.

`Rings` lets groups be put into their own windows, which the code does not
prevent; `ghosts` are the windows that were freed while `fore` pointed to them.

### Screen

`mem` is the memory (rows of characters, with the cell behind the last column
that marks a wrapped line) and the ring of history rows; `cursor`, `region`,
`modes`, `tabs`, `saved`, `alt` are the fields of `struct win` with these
purposes; `pushed` is a history variable with all rows that went out at the top.
Every operator maps a record of all of these to another one, `Step` makes it a
step.  `Resized` is `ChangeWindowSize`: it takes paragraphs (rows joined by wrap
marks) from the bottom up and wraps them again.  A wide character takes two
cells, the second of them marked.

### Parser and Utf8

`Character` is one round of the loop of `WriteString`: `Taken` dispatches on
the state, `Forget` drops what an ended sequence leaves behind and nobody
reads.  `WriteString` is a batch, with what was put aside behind a message
(`w_outbuf`).  `raw`, `printed` and `job` are history variables.  In `Utf8` the
decoder's state is kept between bytes; its properties compare what comes out
with the code points the bytes encode.

### Keys

`dis.map` is the compressed table of sequences with its byte offsets
(`D_kmaps`); `addmapseq`, `remmapseq` and `setseqoff` keep it, `Compare`, `Longer` and
`GiveUp` are the search of `ProcessInput` in it, `Waiting` what it does when the
bytes end first; `Scanned` is the filter for mouse reports of
`disp_readev_fn`.  `heard`, `typed` and `dis.out` are the history of what came in,
what went on to the search, and the keys found.  They begin anew
when no key waits, and are kept when `bindkey` changes the table while some do:
what it drops is an entry `Change` in `dis.out` with the
keys that waited, so that `InputKept` still accounts for every byte.

### Painter

The terminal is modelled by what its capabilities do: cells, cursor, region of
scrolling, insert mode, the pending wrap.  The display is `D_x`, `D_y`, the
region and the mode it believes in, `D_lpchar`.  The operators are those of
`display.c` (`GotoPos`, `PUTCHARLP`, `WrapChar`, `ScrollV`, `ScrollH`, `InsChar`,
`RefreshArea`, ...) and of `layer.c`, which repeat each step of the window in
each region.  The window itself is an instance of `Screen`.

## Runs

| Run | Instance | Shows |
|---|---|---|
| `Sched` | 7 events, at most 3 queue operations in a round | types, queues, cursor, array, completeness of a round, exact dispatch |
| `Session` | 3 clients, with and without password | no attacher left behind; without password the mode bits tell the state |
| `SessionLive` | 2 clients, password, autodetach off | liveness: attachers of a dead session leave; dead displays are freed and suspended attachers come back unless a client stalls between connect and write; the daemon waits for no client longer than that |
| `WindowPipe` | window and pseudo window feeding each other, 1 display, 3 commands of every kind | nobody waits for a freed counter; a display that misses output is blocked or about to be drawn |
| `WindowFlow` | window and pseudo window, 1 display, fair users | liveness |
| `SchedTimer` | 2 timers, clock of 12 values | no timer early, none slept over unless the ints wrapped in between, and then each one that is due runs |
| `Regions` | 3 regions, terminals of 5x4 and 3x7, captions below or always on top, sizes `=`, `min`, `max`, 3, -1 | regions fill the display side by side, none is closed that has room, the caption line is accounted for |
| `Windows` | 3 windows of each kind, 2 displays, 1 layout | the lists agree, nobody keeps a freed window, the keys go to the window in focus; refinement of `WindowList` |
| `Screen` | up to 4x3, history of up to 2 rows | no half characters, history in order, the alternate screen gives back what it covered, new sizes keep the text |
| `Parser` | 2 displays, strings of 3 bytes, 5 parameters; bytes at every boundary of UTF-8 | print jobs (those without `ESC \`), strings and parameters arrive whole however they are cut; the decoder, but for values of 22 and 23 bits; combined characters keep their meaning |
| `Terminal` | tables of 3 sequences; 4 kinds of terminals of up to 3x6 | no key lost but those that wait when `bindkey` changes the table, the longest sequence found, nothing waits for good, the table leads to what it holds; the terminal shows the regions |
| `KeysUnbind` | tables of 3 sequences | violation: after an unbinding other sequences cannot be reached |

Bounds.  `MaxOps` = 3 lets one round hold a dequeue, a requeue and a change of
type; the seven events give every case of the walk a predecessor and a
successor of each kind.  `MaxConns` bounds the listen queue (5 in the code),
`MaxKeys` the commands and closed terminals of a run: one is enough for a
display to go by each way and come back, two for two users to do so.

In `WindowIO`, `MaxOut` is what every program writes: more than the limit plus
one read, so that every buffer fills and empties again; `MaxCmds` the commands
and terminal events of a run, `Features` the kinds of them a run is about.
`Limit`, `Block` and `Size` stand for 256, 4096 and 4096.  Deadlock is
not checked there: when the programs have written everything and the users
have no commands left, the system rests.  In `SchedTimer` twelve values of the
int let timers of up to 3 wrap between any two steps.

In `Regions` the terminals are those on which regions stop fitting: three
regions need six lines or five columns, and each terminal has room for them
one way only.  Three regions are the least with a slice inside
another.  `RegionIds` are the addresses of canvases; any address will do, so they
are symmetric.  Deadlock is not checked: a behaviour ends at `crashed` or at
`MaxAstray` commands from a tree that is not proper.

In `Windows` three windows give a list with a middle, two displays one that did
not do it, `Positions` one number more than windows need to change places.  The
scopes of `MCWindows`, and of the other MC modules with scopes, keep apart what
does not meet: each scope is a set of states closed by a guard (`Within`,
`InScope`, `Bounded`), and all of them are checked in one run.  In `Screen` a
width of 4 is the least with two wide characters, of 3 with one and a
remaining column, heights and histories of 2 the least with an order.  In
`Parser` `MaxStr` = 4 overflows, `MaxArg` = 3 cuts after the first digit above 2,
and batches are the pieces a sequence can be cut into.  In `Terminal` three
sequences are the least with one between two others; `Far` = 16 (256 in the
code) lets an offset overflow; the regions are as large as the window, larger,
smaller, two of one window, and two side by side, on terminals with all, with
some and without any of the capabilities for scrolling, inserting and deleting.
A run stops where a scope ends, so that deadlock is not checked in those.

Fairness (`SessionLive`).  The daemon serves its socket and
its displays (`sched()` never sleeps while a descriptor is ready), every
attacher is scheduled, its alarm goes off, pending signals are delivered, a
stopped attacher is continued by its shell.  Users are never obliged to do
anything, not even to answer a prompt.  Nothing is assumed of a client between
`connect` and `write`, since anybody may stop it there, and the daemon, which
reads the message to its end (`ReadUp`, socket.c:728), then serves nobody.
`ServesOn` says that this is the only way it can hang on a client: one that
has written, given up or died is done with.  `DisplaysAreFreed` and
`SuspendedComesBack` are about a daemon that serves, and except behaviours in
which some client stays there for good (`Stalled`); without the exceptions all
three fail.

Fairness (`WindowFlow`).  `sched()` calls the handlers that are ready and the
timers (`SystemFairness`).  `UserFairness` adds that users leave overlays and
terminals accept output again.

Fairness (`SchedTimer`).  The loop runs and time passes.  That alone does not make
timers run: only a `poll()` that finds nothing does, so `QuietSpec` assumes that
this happens again and again (`SF_vars(Expire)`).

## What does not hold

One run is meant to fail: `KeysUnbind` shows that `remmapseq` loses sequences,
against what the manual says of the tables; `PROJECT.json` quotes both sides.
What else was met while modelling is excepted in the statements of the
properties, which would be false without the exception, or left out of the
models by a guard that is commented there.

Scheduler and timers:

- `DispatchExact` excepts rounds in which a polled event ahead of the walk is
  dequeued (`shifted`): the slots of those behind it are then one off
  (sched.c:100, 187), although the comment at sched.c:184 promises that only
  ready events are called.
- `NoOversleep` and `TimersRun` except timers whose ints are on two sides of the
  wrap (`Straddling`): the later one is taken for the first then.
- `SigHup` frees a display inside the signal handler; in `Sched` only handlers
  called by the loop change its queues.

Attach and detach:

- `ModeTellsState` excepts sessions with passwords: `chsock` is called when the
  attached display is alone in the list, and a display at its prompt counts.
- Two clients of `-r` that both saw the session detached share it (`Ask` reads
  the mode long before `Receive`).  `-d` of a session with two displays leaves
  it attached.
- A client of `-d` that gets SIGCONT between the test of `ContinuePlease` and
  `pause()` sleeps on (attacher.c:234); nothing is promised of it.
- A client stopped between `connect` and `write` blocks the daemon, and with it
  every display and window, as long as it is stopped (socket.c:728).

Windows and displays:

- `StaleIsBlocked` needs printing to wait while a display is behind (`quiet` in
  `Features`): `PrintFlush` ends the blocked mode without a redisplay.  It also
  flushes a message without counting it down, after which `statpos` is beyond
  the buffer; without printing messages are counted right (proved).
- The timer of `nonblock` may be dropped when the buffer is drained and filled
  again by another reader, a wait at exactly the limit has no timer, and a
  message on a stopped terminal holds its windows whatever `nonblock` says.
- Output put aside behind a message (`ShowRest`) appears when the program
  writes again, not when the message goes.
- A `write()` that fails is stored in a `size_t`; `DeviceWrite` has no such
  outcome.

Regions:

- `Survives` excepts trees that are not proper and negative weights.  Four
  regions one above the other on ten lines, `resize -4` in the third and `resize
  0` in the fourth make the weights sum up to zero on the way: canvas.c:448 then
  divides by zero.  `resize` takes space from a neighbour without a test
  (`ChangeCanvasSize`): a region alone in a slice has none.
- A split across a slice opens the new slice before it looks for room
  (`AddCanvas`); if there is none a slice with one canvas stays, which
  `CountCanvasPerp` counts too low and `RemCanvas` may leave at the top, with
  an orientation and without a caption line.  `split`, `split -v`, `focus bottom`,
  `remove` leaves one as well.  A change of size then closes regions, or leaves
  captions on the line of the hardstatus.
- `Kept` excepts commands that close two regions at once: `ResizeCanvas`
  gives the caption line back for each of them.
- `Tiled` excepts slices whose weights are all zero (`resize min` in each of
  two regions): the lines left over are nobody's.

Table of windows:

- A group put into one of its own windows leaves `w_group` dangling when it is
  freed (window.c:846); `Rings` = FALSE excludes such groups.
- `screen -p N -X kill` leaves `fore` dangling, and the next window that dies
  may copy it to `D_other` (canvas.c:227): `NoDangling` excepts these `ghosts`,
  and guards stop where one would be followed.
- `RemoveLayout` leaves `layout_last`, `layout_attach` and the `D_layout` of other
  displays dangling (screen.c:1415 follows the first).  `layout prev` without a
  display, with `layout attach :last`, follows NULL.
- `number` with the window's own number plus 65536 unlinks one window twice.

Screen and new sizes:

- The loop that shrinks a window of equal width stops one row early
  (`ncy + shift < he`, resize.c:557) and loses the row of the cursor, where the
  comment says "never lose sight of the line with the cursor on it"; a rewrap
  with too little history loses it as well.  `TextKept` excepts both, and a change
  of the history alone while the cursor's paragraph reaches into it, which
  drops the newest rows.
- The row in which a rewrap shifts the cursor loses its wrap mark.
- The alternate screen changes the saved cursor's row and resets the tab stops;
  its own cursor is converted twice by a new size.
- Without wrap a wide character at the margin writes into the cell of the mark;
  clearing keeps the mark; in a window of one column a wide character moves the
  cursor outside.

Parser and encodings:

- `ESC \` does not end printing (ansi.c:268), against screen.texinfo:5348 ("The
  ansi sequence ESC \ ends printing and closes the pipe"): both bytes are printed
  and the job goes on.  `PrintWhole` claims nothing of a job with `ESC \` in it
  (`Ended`).  An escape before the closing `ESC [ 4 i` hides that.
- A designation during a single shift ends the shift without restoring the
  fonts (window.h:189); `38;5` without a third parameter sets blinking.
- `ESC c` and the death of the program reset the modes without telling the
  terminal of all of them; the mouse's coding is never reset.
- In UTF-8 windows strings and print jobs are cut to the low byte of each
  character: `PrintWhole` and `StringsRight` speak of the other windows.  A string
  that is too long becomes text from there on.
- A program that dies in the middle of a print job loses the rest of it.
- The decoder replaces what has more than 23 bits where the comment says
  "valid Unicode has 21 bits" (encoding.c:648).  `Transcodes` claims nothing of
  values of 22 and 23 bits (`Excess`), for which the encoder writes malformed
  sequences; it takes 0x110000 to 0x1fffff for characters, as the comment does.
- A taken entry of the table of combined characters changes characters already
  on the screen.

Keys:

- `bindkey` takes the first free slot ahead of the entry the sequence has
  (process.c:3549); unbinding a sequence that equals one of the terminal removes
  the terminal's key; both depend on the order of the commands.
- `bindkey` that changes the length of the table while keys wait drops them
  (termcap.c:570, 629), which `InputKept` allows where an entry `Change` says so;
  and called by one of those keys leaves
  the search at stale pointers; the model changes the table between keys.
- The timer of a mouse report survives the display it belongs to
  (display.c:278); switching mouse mode off while an ESC is held back reorders
  the input.

Drawing.  The model leaves out (`Astray`, and the guard of `Edit`) steps after
which the terminal is known to show something else:

- wrapping in the last line of a window below its scrolling region, where
  `WrapChar` (display.c:2051) goes on to the next row of the terminal;
- a wrap in insert mode when the window's first column is scrolled out of view
  (layer.c:556), or at the bottom of a region that cannot be scrolled, where the
  character is drawn twice;
- the line at the right of a window narrower than its region, which scrolls with
  the window and is not redrawn: cells of that line may be blank in
  `ScreenShown`;
- a scroll to the side by more than the row has (display.c:1041).

## Proofs

Every theorem holds for all values of the constants that satisfy the named
assumptions.  The theorems of each module follow from one or two inductive
invariants, with a lemma for each action and lemmas about the operators.

`SchedProofs` (`Invariance`, `TypeCorrect`, `QueuesAgree`, `CursorIsSafe`,
`ArrayFits`, `RoundsAreComplete`, `DispatchIsExact`).  Any events, priorities,
types, descriptors and handlers, any bound on the operations.  `Inv`: the cursor
is safe because it and the saved successor are adjacent positions of
a queue without duplicates; a round is complete because every event is seen,
touched, or ahead of the cursor; `n` stays non-negative because ready slots
are counted only for polled events; the array fits because `evenq` is the only
operation that adds polled events.  Lemmas about `Enter`, `Unlink` and
`Successor` (sortedness, membership, positions) carry the argument.
`DispatchIsExact` needs more, since the code knows a slot only by counting:
`SlotInv` says that the polled events ahead of the walk stand at the slots
from `i` on, in the order of the queue, apart from those added since; that
the reports of these slots are those of their events; and what each report in
the array was answered with.

`SessionProofs` (`SessionInvariant`, `TypeCorrect`, `NoAttacherIsOrphaned`,
`ModeIsState`).  Any clients and limits.  `NoOrphan` is not inductive: that a
signal is pending or a request on its way has to be followed through every
position of an attacher, which is `Protocol` (which positions go with which
flags, displays, connections and signals) and `CaredInv` (an attacher that is
in its loop while the daemon lives has a display, a request on its way, a signal
that ends it, or is to be stopped).  `ModeInv` ties the mode to the displays and to the
prompts and applies to sessions without passwords.

`SchedTimerProofs` (`TypeCorrect`, `ClockInvariant`, `TimersNeverEarly`,
`NeverOversleeps`).  Any timers, ranks and widths.  `ClockInv` says that the int of
an event is its true deadline modulo the width, as long as the clock is
followed (`Exact`), and that `poll()` waits for a queued event with the least int
and not beyond it (`Waiting`).  The minimum `Calctimo` finds is a recursive
function over the queue; it is reasoned about by taking the least length at which
it would be wrong.  `NeverOversleeps` is for the clock of the run (`Bounded`).

`WindowIOProofs` (`TypeCorrect`, `WindowsWaitForLiving`, `StaleDisplaysAreBlocked`,
`MessagesAreInBuffers`).  Any displays, windows, pseudo windows and sizes.
`WaitInv` says which counter each condition may point to, and that the owner is
there.  `StaleDisplaysAreBlocked` assumes `"quiet" \in Features`,
`MessagesAreInBuffers` that nothing is printed: see "What does not hold".

`WindowsListProofs`, `WindowsProofs` (`Invariance`,
`ListsStayWhole`, `NothingDangles`, `KeysGoToFocus`, `Refines`).  Any number of windows,
displays and layouts, any numbers below 65536.  The pointers are reasoned about
through the sequences they stand for: `Good(t, S)` says that there is a sequence
by number and one by use of the windows of `S` that `next`, `prev`, `first`,
`last` and `prevmru`, `mru` link, the first one with rising numbers; unlinking is
`Cut`, linking is `Insert`, and lemmas show it for each half of
`remove_window_from_list`, for `add_window_to_list`, `ToHead`, the relinking in
`KillWindow`, `SwapWindows`, `collapse` and `sort`.  `Invar` adds to `Good` that
displays and layouts show windows that live (`Fine`), that displays and layouts
which are not there are blank and the others have their focus on a region
(`Arranged`), that a display has the window in focus to the fore (`Lit`), and that
groups live and do not form a ring (`Groups`).  Each part is needed by another:
`KillWindow` takes a window from the list by use first, from the displays next,
and last from the list by number, so that between these steps `Fine` is kept with
one window more than the list has; `D_other` gets the successor of a window by
use, which is a window that lives only because the list by use is whole; and
`FindNiceWindow` and `LoadLayout` follow `D_other`, `fore` and the layouts.  A loop
over regions or displays keeps what each of its rounds keeps (`Iterated`, `Kept`).
`Refines` shows the refinement step by step.  Along with `Invar` every lemma
about a command says what the command does to the lists (`Moving`): they rest,
or at most n windows are used (`Uses`), one is made (`Newly`) or killed (`Parted`), two
trade numbers (`Traded`), or the numbers are closed up or dealt out.
The order of use is compared by `Raised`, which composes (`RaisedTwice`), so that the
windows used by the rounds of a loop over the displays add up; and `RankIs` shows that
the place in the list by number is how many windows have a lower one.
The theorems assume `~Rings`: a group put into one of its own windows may be freed
while it is a group of another window, and then `NoDangling` is false.

`ScreenProofs` (`Typed`, `Invariance`, `Ordered`, `Restored`, `RestoredWider`,
`Undivided`).  Any characters, sizes, lengths of the history and parameters of
control sequences.  `Proper` is the inductive invariant: the cursors and the region
are inside, every line is a function of its columns, the ring starts at an index
within it and, read from there, is what was pushed; and the screen that is put
away is one of its own size, with the cursor that goes with it.  Every operator of
ansi.c is shown to leave a proper window of the same size (`Fine`), or to touch
nothing but lines and history (`Redrawn`).  That no half of a wide character is left
is carried along with these (`Whole`, `Kept`): a lemma for each way of moving cells
follows every column to where it comes from (`OpenedWhole`, `WentLeft`, `Cleared`...).
A new size is a list of rows that becomes history and screen
(`Rowed`, `SizedTo`).  Its text is a function of the paragraphs, so that all that must be
known of the rewrapping is that it makes rows of the new width; that a size of the same
width keeps the rows as they are, and with them whole characters, is shown too.
`Undivided` assumes that the window wraps and keeps its width n, at least 2,
`Restored` that the cursor stays at the magic margin or before it, which
`RestoredWider` shows for windows of two columns and more: the code breaks
both otherwise, see "What does not hold".

`ParserProofs` (`Invariance`, `PrintsWhole`, `Collects`).  Any batches over any
alphabet, any displays, any `MAXSTR`, `MAXARGS`, limit of a parameter and size of
the print buffer.  A window is a record of 27 fields, reasoned about as a function
(`IsWin`): most operators change fields the properties do not look at (`Like`).  The
invariant `Sound` compares what is collected with the raw bytes since the
sequence began: `Jobs` (what was printed, what is in the buffer and what the state
still holds back make up what was sent, and a job that is done was printed
without its last four bytes), `Strings` (the same of a string, without NUL) and
`Parameters` (each is the value of the digits between two separators, cut at the
limit, and their number is that of the separators, cut at `MAXARGS`).  The history is
recorded only while its window is in the sequence, so that every operator that
leaves a sequence must be shown to (`Forget`).  `WriteString`, `PrintChars`, the values
of parameters and the text without NUL are recursive functions: a lemma for each
shows that the function exists, as the limit of the ones up to each length, and what
one more byte does to it.

Assumptions on constants are named in the modules, and TLC evaluates them in
the runs.  They say what kind of value a constant is, that NULL and NONE are no
member of anything, and in `FeedsAssumption` that a window is piped through its
own pseudo window only.

## Only model-checked

- Liveness, here and with any version of these provers: they have no rule
  for fairness that involves ENABLED.
- `Regions`, `Keys`, `Utf8` and `Painter`: their definitions follow recursive
  functions of the code (a tree, the search in the table, the decoder's bits, the
  repetition of a step in every region) with RECURSIVE operators or `Bitwise`,
  which the provers do not take.
- `TextKept` of `Screen`: what the rewrapping does to the text is defined by
  recursion over the paragraphs, and both sides of the property count characters
  over whole documents (`FlattenSeq`, `SelectSeq`).
- `Transcodes` and `Meaning` of `Utf8`, for the bits (`Bitwise`).

Induction is done by hand: the library's induction theorems take an operator as
a parameter, which no installed prover instantiates, but the ordering of the
naturals is well founded as a theorem about a set, so that a least
counterexample can be picked.

## Not modelled

Capability tables, text layout, help, utmp and the terminal driver
are data or plain input and output.  Copy mode, access control, telnet
negotiation, log files, the stack of overlays and colours on the terminal are
left out so far.  `PROJECT.json` lists every component with its status.

## Plan

Done: the scheduler, attach and detach, window I/O, timers, regions, the table of
windows with layouts and its abstract specification, the screen with new
sizes, the parser, UTF-8, keys, drawing.  In this order:

1. Telnet negotiation, access control, log files, the stack of layers.
2. The output buffer and the status line in detail (`Flush` with a timeout,
   autonuke, growth).

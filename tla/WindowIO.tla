------------------------------ MODULE WindowIO ------------------------------
(***************************************************************************)
(* Output of programs to the displays that show them, and its flow         *)
(* control: the read and write handlers of windows and of the pseudo       *)
(* windows of exec (window.c), the writer of a display with its status     *)
(* message and its blocked mode (display.c).                               *)
(*                                                                         *)
(* A reader that must not read leaves a condition in its event, a pair of  *)
(* pointers to counters of somebody else, and sched() does not poll it     *)
(* until the condition holds.  Nothing wakes a reader but that condition,  *)
(* so whoever changes a counter, frees it, or gives a display up has to    *)
(* know who waits.                                                         *)
(***************************************************************************)
EXTENDS Integers, Sequences, FiniteSets

CONSTANTS
  Displays, Windows, Pseudos,
  NONE,
  Host,         \* Host[p]: the window of pseudo window p
  Feeds,        \* Feeds[r]: the device that reads what r writes, or NONE
  Types,        \* Types[w]: the device the keys of a user of w go to (F_UWP)
  Shows,        \* Shows[w]: the displays with a canvas for w, in order
  Nonblock,     \* defnonblock: "off", "zero" or "timed"
  Limit,        \* D_obufmax
  Block,        \* OUTPUT_BLOCK_SIZE
  Size,         \* IOSIZE
  Redraw, Text, \* the output of a redisplay and of a message
  MaxOut,       \* what every program writes (bound)
  MaxCmds,      \* user commands and terminal events of a run (bound)
  Features      \* which of them there are

Readers == Windows \cup Pseudos

ASSUME HostAssumption == Host \in [Pseudos -> Windows]
\* A window feeds its own pseudo window, w_pwin, and that one its window.
ASSUME FeedsAssumption ==
  /\ NONE \notin Readers /\ Windows \cap Pseudos = {}
  /\ Feeds \in [Readers -> Readers \cup {NONE}]
  /\ \A w \in Windows : Feeds[w] # NONE => Feeds[w] \in Pseudos /\ Host[Feeds[w]] = w
  /\ \A p \in Pseudos : Feeds[p] \in {NONE, Host[p]}
ASSUME ShowsAssumption == Shows \in [Windows -> Seq(Displays)]
ASSUME SizesAssumption ==
  /\ Limit \in Nat /\ Block \in Nat /\ Size \in Nat
  /\ Redraw \in Nat /\ Text \in Nat \ {0}
  /\ MaxOut \in Nat /\ MaxCmds \in Nat
  /\ Nonblock \in {"off", "zero", "timed"}

VARIABLES
  up,           \* the displays that exist
  accepts,      \* the terminal takes output
  pending,      \* D_obufp - D_obuf
  nonblock,     \* D_nonblock
  blocked,      \* D_blocked is 1
  fuzz,         \* D_blocked_fuzz
  timer,        \* D_blockedev is queued
  status,       \* D_status is STATUS_ON_WIN
  statpos,      \* D_status_obufpos
  active,       \* the readers that exist
  src,          \* what the program has still to write
  in,           \* w_inlen and p_inlen: input on its way to the program
  out,          \* w_outlen: output put aside when a message came up
  cond,         \* the condition in the reader's event
  overlay,      \* a blocking overlay lies on the window (w_blocked)
  stale,        \* the display misses output (read by the properties only)
  cmds          \* commands so far (bound)

displayVars == <<up, accepts, pending, nonblock, blocked, fuzz, timer, status,
                 statpos, stale>>
readerVars == <<active, src, in, out, cond, overlay>>
vars == <<displayVars, readerVars, cmds>>

-----------------------------------------------------------------------------
Free == [kind |-> "none", of |-> NONE]
On(kind, x) == [kind |-> kind, of |-> x]

WindowOf(r) == IF r \in Pseudos THEN Host[r] ELSE r

\* The displays that show w, and the places of those whose canvas shows the
\* window itself: an overlay takes all canvases.
Showing(w) == {d \in {Shows[w][k] : k \in DOMAIN Shows[w]} : up[d]}
CvList(w) == {k \in DOMAIN Shows[w] : up[Shows[w][k]] /\ ~overlay[w]}

\* The device that gets a copy of what r writes.
FeedOf(r) == IF Feeds[r] \in active THEN Feeds[r] ELSE NONE

\* Once a message is written out, obuflen and obuffree are both zero until
\* it is removed, and so the writer's condition does not hold.
Withheld(d) == status[d] /\ statpos[d] = 0

\* What the test of a condition may yield: a counter of a freed display is
\* read as whatever is there.
Outcomes(c) ==
  CASE c.kind = "none" -> {TRUE}
    [] c.kind = "status" -> IF up[c.of] THEN {~status[c.of]} ELSE BOOLEAN
    [] c.kind = "obuf" -> IF up[c.of] THEN {pending[c.of] < Limit /\ ~Withheld(c.of)}
                          ELSE BOOLEAN
    [] c.kind = "overlay" -> {~overlay[c.of]}
    [] c.kind = "in" -> {in[c.of] < Size}

Lesser(a, b) == IF a < b THEN a ELSE b

-----------------------------------------------------------------------------
Init ==
  /\ up = [d \in Displays |-> TRUE] /\ accepts = [d \in Displays |-> TRUE]
  /\ pending = [d \in Displays |-> 0]
  /\ nonblock = [d \in Displays |-> Nonblock]
  /\ blocked = [d \in Displays |-> FALSE] /\ fuzz = [d \in Displays |-> 0]
  /\ timer = [d \in Displays |-> FALSE]
  /\ status = [d \in Displays |-> FALSE] /\ statpos = [d \in Displays |-> 0]
  /\ stale = [d \in Displays |-> FALSE]
  /\ active = Readers
  /\ src = [r \in Readers |-> MaxOut] /\ in = [r \in Readers |-> 0]
  /\ out = [w \in Windows |-> 0]
  /\ cond = [r \in Readers |-> Free]
  /\ overlay = [w \in Windows |-> FALSE]
  /\ cmds = 0

-----------------------------------------------------------------------------
(* The readers, win_readev_fn and pseu_readev_fn: four tests, in order,    *)
(* each of which may hold the event, and then one read.                    *)

Ready(r) ==
  /\ r \in active /\ src[r] > 0
  /\ TRUE \in Outcomes(cond[r])

Full(d) == ~blocked[d] /\ pending[d] > Limit + fuzz[d]

\* muchpending(): the place of the first display of the list at which r has to
\* wait, 0 if there is none, and the displays with "nonblock 0" that are given
\* up before that one.
Stops(d) == status[d] \/ (Full(d) /\ nonblock[d] # "zero")
Stop(w) ==
  LET stops == {k \in CvList(w) : Stops(Shows[w][k])}
  IN  IF stops = {} THEN 0 ELSE CHOOSE k \in stops : \A j \in stops : k <= j
MuchPending(w) == Stop(w) \in CvList(w)
GivenUp(w) ==
  {Shows[w][k] : k \in {k \in CvList(w) : Full(Shows[w][k]) /\ (MuchPending(w) => k < Stop(w))}}
Blocked(w) == [d \in Displays |-> blocked[d] \/ d \in GivenUp(w)]

NoRoom(r) == FeedOf(r) # NONE /\ in[FeedOf(r)] >= Size

HoldInput(r) ==
  /\ Ready(r) /\ NoRoom(r)
  /\ cond' = [cond EXCEPT ![r] = On("in", FeedOf(r))]
  /\ UNCHANGED <<displayVars, active, src, in, out, overlay, cmds>>

HoldDisplay(r) ==
  LET w == WindowOf(r)
      d == Shows[w][Stop(w)]
  IN  /\ Ready(r) /\ ~NoRoom(r) /\ MuchPending(w)
      /\ blocked' = Blocked(w)
      /\ IF status[d]
           THEN cond' = [cond EXCEPT ![r] = On("status", d)] /\ UNCHANGED timer
           ELSE /\ cond' = [cond EXCEPT ![r] = On("obuf", d)]
                /\ timer' = [timer EXCEPT ![d] = @ \/ nonblock[d] = "timed"]
      /\ UNCHANGED <<up, accepts, pending, nonblock, fuzz, status, statpos, stale,
                     active, src, in, out, overlay, cmds>>

HoldOverlay(r) ==
  LET w == WindowOf(r)
  IN  /\ Ready(r) /\ ~NoRoom(r) /\ ~MuchPending(w) /\ overlay[w]
      /\ cond' = [cond EXCEPT ![r] = On("overlay", w)]
      /\ UNCHANGED <<displayVars, active, src, in, out, overlay, cmds>>

MayRead(r) ==
  /\ Ready(r) /\ ~NoRoom(r) /\ ~MuchPending(WindowOf(r)) /\ ~overlay[WindowOf(r)]
  /\ cond' = [cond EXCEPT ![r] = Free]
  /\ blocked' = Blocked(WindowOf(r))
  /\ UNCHANGED <<up, accepts, nonblock, fuzz, timer, active, overlay, cmds>>

\* WriteString: m characters go to every display of the window's list that
\* is not blocked; a blocked one has to be redrawn.
Drawn(w, m) ==
  LET shown == {Shows[w][k] : k \in CvList(w)}
      on == {d \in shown : ~Blocked(w)[d]}
  IN  /\ pending' = [d \in Displays |-> pending[d] + IF d \in on THEN m ELSE 0]
      /\ stale' = [d \in Displays |-> stale[d] \/ d \in shown \ on]

\* What was put aside goes first, and nothing is read.
ShowRest(r) ==
  LET w == WindowOf(r)
  IN  /\ MayRead(r) /\ out[w] > 0
      /\ out' = [out EXCEPT ![w] = 0]
      /\ Drawn(w, out[w])
      /\ UNCHANGED <<src, in, status, statpos>>

Takes(r, m) ==
  /\ MayRead(r) /\ out[WindowOf(r)] = 0
  /\ m <= src[r]
  /\ FeedOf(r) # NONE => m <= Size - in[FeedOf(r)]
  /\ src' = [src EXCEPT ![r] = @ - m]
  /\ in' = [q \in Readers |-> in[q] + IF q = FeedOf(r) THEN m ELSE 0]

Transfer(r, m) ==
  /\ Takes(r, m) /\ Drawn(WindowOf(r), m)
  /\ UNCHANGED <<out, status, statpos>>

\* The text ends a privacy message: MakeStatus on every display with the
\* window, and if one took it the rest of the text is put aside.
Announce(r, m) ==
  LET w == WindowOf(r)
      on == {d \in Showing(w) : ~Blocked(w)[d]}
  IN  /\ "string" \in Features
      /\ on # {} /\ Takes(r, m)
      /\ status' = [d \in Displays |-> status[d] \/ d \in on]
      /\ statpos' = [d \in Displays |-> IF d \in on THEN pending[d] + Text ELSE statpos[d]]
      /\ pending' = [d \in Displays |-> pending[d] + IF d \in on THEN 2 * Text ELSE 0]
      /\ out' = [out EXCEPT ![w] = m - 1]
      /\ UNCHANGED stale

Reader(r) ==
  \/ HoldInput(r) \/ HoldDisplay(r) \/ HoldOverlay(r) \/ ShowRest(r)
  \/ \E m \in 1..Size : Transfer(r, m) \/ Announce(r, m)

-----------------------------------------------------------------------------
(* The writers.                                                            *)

\* win_writeev_fn and pseu_writeev_fn.
DeviceWrite(r) ==
  /\ r \in active /\ in[r] > 0
  /\ \E m \in 1..in[r] : in' = [in EXCEPT ![r] = @ - m]
  /\ UNCHANGED <<displayVars, active, src, out, cond, overlay, cmds>>

\* A blocked display is activated when its buffer has become empty, which
\* removes the message and draws everything.
NotActivated(d, m) == FALSE  \* mutant: blocked mode ends without a redisplay
Activated(d, m) == blocked[d] /\ pending[d] = m

MessageLeftAll(d, m) == statpos[d]  \* mutant: the message is not counted down
MessageLeft(d, m) == IF statpos[d] > m THEN statpos[d] - m ELSE 0

\* disp_writeev_fn: as much of the buffer as the terminal takes, a message
\* apart from what follows it.
DispWrite(d) ==
  LET most == Lesser(Lesser(Block, pending[d]),
                     IF statpos[d] > 0 THEN statpos[d] ELSE pending[d])
      Less(m, x) == IF x < m THEN 0 ELSE x - m
  IN  /\ up[d] /\ accepts[d] /\ pending[d] > 0 /\ ~Withheld(d)
      /\ \E m \in 1..most :
           LET on == Activated(d, m)
           IN  /\ timer' = [timer EXCEPT ![d] = @ /\ pending[d] - m > Limit \div 2]
               /\ blocked' = [blocked EXCEPT ![d] = @ /\ pending[d] > m]
               /\ pending' = [pending EXCEPT ![d] = IF on THEN Redraw ELSE @ - m]
               /\ fuzz' = [fuzz EXCEPT ![d] = IF on THEN Redraw ELSE Less(m, @)]
               /\ stale' = [stale EXCEPT ![d] = @ /\ ~on]
               /\ status' = [status EXCEPT ![d] = @ /\ ~on]
               /\ statpos' = [statpos EXCEPT ![d] = IF on THEN 0 ELSE MessageLeft(d, m)]
               /\ UNCHANGED <<up, accepts, nonblock, readerVars, cmds>>

\* disp_blocked_fn: the display is given up, and the windows that wait for
\* its buffer are released; the readers of pseudo windows are not.
BlockedTimeout(d) ==
  /\ timer[d]
  /\ timer' = [timer EXCEPT ![d] = FALSE]
  /\ IF pending[d] > Limit + fuzz[d]
       THEN /\ blocked' = [blocked EXCEPT ![d] = TRUE]
            /\ cond' = [r \in Readers |->
                 IF r \in Windows /\ cond[r] = On("obuf", d) THEN Free ELSE cond[r]]
       ELSE UNCHANGED <<blocked, cond>>
  /\ UNCHANGED <<up, accepts, pending, nonblock, fuzz, status, statpos, stale,
                 active, src, in, out, overlay, cmds>>

\* disp_status_fn, whose timer is queued when the message is written out.
StatusTimeout(d) ==
  /\ up[d] /\ Withheld(d)
  /\ status' = [status EXCEPT ![d] = FALSE]
  /\ UNCHANGED <<up, accepts, pending, nonblock, blocked, fuzz, timer, statpos, stale,
                 readerVars, cmds>>

-----------------------------------------------------------------------------
(* Users and terminals.                                                    *)

Command(feature) ==
  /\ feature \in Features /\ cmds < MaxCmds /\ cmds' = cmds + 1

\* MakeStatus for a command.
Message(d) ==
  /\ Command("message")
  /\ up[d] /\ ~blocked[d]
  /\ status' = [status EXCEPT ![d] = TRUE]
  /\ statpos' = [statpos EXCEPT ![d] = pending[d] + Text]
  /\ pending' = [pending EXCEPT ![d] = @ + 2 * Text]
  /\ UNCHANGED <<up, accepts, nonblock, blocked, fuzz, timer, stale, readerVars>>

\* RemoveStatus on the displays of D.
Unmessaged(D) ==
  /\ status' = [d \in Displays |-> status[d] /\ d \notin D]
  /\ statpos' = [d \in Displays |-> IF d \in D THEN 0 ELSE statpos[d]]

\* disp_readev_fn: a key removes the messages of all displays that show the
\* same layer, and goes to the window unless its buffer is full or an
\* overlay takes it.
Type(w) ==
  /\ Command("type") /\ Showing(w) # {}
  /\ Unmessaged(Showing(w))
  /\ in' = [r \in Readers |->
       in[r] + IF r = Types[w] /\ r \in active /\ ~overlay[w] /\ in[r] < Size THEN 1 ELSE 0]
  /\ UNCHANGED <<up, accepts, pending, nonblock, blocked, fuzz, timer, stale,
                 active, src, out, cond, overlay>>

\* InitOverlayPage with block set (copy mode), and ExitOverlayPage.
Refreshed(D) ==
  /\ pending' = [d \in Displays |-> pending[d] + IF d \in D /\ ~blocked[d] THEN Redraw ELSE 0]
  /\ stale' = [d \in Displays |-> stale[d] \/ (d \in D /\ blocked[d])]

OverlayOpen(w) ==
  /\ Command("overlay") /\ ~overlay[w] /\ Showing(w) # {}
  /\ overlay' = [overlay EXCEPT ![w] = TRUE]
  /\ Unmessaged(Showing(w)) /\ Refreshed(Showing(w))
  /\ UNCHANGED <<up, accepts, nonblock, blocked, fuzz, timer, active, src, in, out, cond>>

OverlayClose(w) ==
  /\ overlay[w]
  /\ overlay' = [overlay EXCEPT ![w] = FALSE]
  /\ Refreshed(Showing(w))
  /\ UNCHANGED <<up, accepts, nonblock, blocked, fuzz, timer, status, statpos,
                 active, src, in, out, cond, cmds>>

\* DoCommandNonblock.
SetNonblockClear(d) ==  \* mutant: the blocked mode is cleared as well
  /\ Command("nonblock") /\ up[d]
  /\ \E v \in {"off", "zero", "timed"} \ {nonblock[d]} :
       /\ nonblock' = [nonblock EXCEPT ![d] = v]
       /\ timer' = [timer EXCEPT ![d] = @ /\ v = "timed"]
  /\ blocked' = [blocked EXCEPT ![d] = FALSE]
  /\ UNCHANGED <<up, accepts, pending, fuzz, status, statpos, stale, readerVars>>

SetNonblock(d) ==
  /\ Command("nonblock") /\ up[d]
  /\ \E v \in {"off", "zero", "timed"} \ {nonblock[d]} :
       /\ nonblock' = [nonblock EXCEPT ![d] = v]
       /\ timer' = [timer EXCEPT ![d] = @ /\ v = "timed"]
  /\ UNCHANGED <<up, accepts, pending, blocked, fuzz, status, statpos, stale, readerVars>>

\* PrintFlush for a window whose printer is the terminal of d, which need
\* not show it any more: Flush(3) writes what the terminal takes at once,
\* drops the rest and clears the blocked mode.  With "quiet", nothing is
\* printed over a message, or to a terminal that is stopped or behind.
PrintFlush(d) ==
  /\ Command("print") /\ up[d]
  /\ "quiet" \in Features => accepts[d] /\ ~status[d] /\ ~blocked[d]
  /\ status' = [status EXCEPT ![d] = @ /\ statpos[d] > 0]
  /\ pending' = [pending EXCEPT ![d] = 0]
  /\ blocked' = [blocked EXCEPT ![d] = FALSE]
  /\ fuzz' = [fuzz EXCEPT ![d] = 0]
  /\ stale' = [stale EXCEPT ![d] = @ \/ ~accepts[d]]
  /\ UNCHANGED <<up, accepts, nonblock, timer, statpos, readerVars>>

Xoff(d) ==
  /\ Command("stop") /\ up[d] /\ accepts[d]
  /\ accepts' = [accepts EXCEPT ![d] = FALSE]
  /\ UNCHANGED <<up, pending, nonblock, blocked, fuzz, timer, status, statpos, stale, readerVars>>

Xon(d) ==
  /\ up[d] /\ ~accepts[d]
  /\ accepts' = [accepts EXCEPT ![d] = TRUE]
  /\ UNCHANGED <<up, pending, nonblock, blocked, fuzz, timer, status, statpos, stale,
                 readerVars, cmds>>

-----------------------------------------------------------------------------
(* Displays and pseudo windows come and go.                                *)

Reset(d) ==
  /\ accepts' = [accepts EXCEPT ![d] = TRUE]
  /\ nonblock' = [nonblock EXCEPT ![d] = Nonblock]
  /\ blocked' = [blocked EXCEPT ![d] = FALSE]
  /\ fuzz' = [fuzz EXCEPT ![d] = 0] /\ timer' = [timer EXCEPT ![d] = FALSE]
  /\ status' = [status EXCEPT ![d] = FALSE]
  /\ statpos' = [statpos EXCEPT ![d] = 0]
  /\ stale' = [stale EXCEPT ![d] = FALSE]
  /\ UNCHANGED <<active, src, in, out, overlay>>

DetachKeep(d) ==  \* mutant: only the wait for the buffer is undone
  /\ Command("detach") /\ up[d]
  /\ up' = [up EXCEPT ![d] = FALSE]
  /\ pending' = [pending EXCEPT ![d] = 0]
  /\ cond' = [r \in Readers |->
       IF r \in Windows /\ cond[r] = On("obuf", d) THEN Free ELSE cond[r]]
  /\ Reset(d)

\* FreeDisplay takes the conditions on its counters out of the readers of
\* windows, not out of those of pseudo windows.
Detach(d) ==
  /\ Command("detach") /\ up[d]
  /\ up' = [up EXCEPT ![d] = FALSE]
  /\ pending' = [pending EXCEPT ![d] = 0]
  /\ cond' = [r \in Readers |->
       IF r \in Windows /\ cond[r] \in {On("obuf", d), On("status", d)} THEN Free
       ELSE cond[r]]
  /\ Reset(d)

\* A new display is another structure: a condition left behind still
\* points at the freed one, which the model tells by keeping d down then.
Attach(d) ==
  /\ Command("detach") /\ ~up[d]
  /\ \A r \in active : cond[r].of # d
  /\ up' = [up EXCEPT ![d] = TRUE]
  /\ pending' = [pending EXCEPT ![d] = Redraw]
  /\ UNCHANGED cond
  /\ Reset(d)

PseudoDiesKeep(p) ==  \* mutant: the window goes on waiting for its buffer
  /\ Command("pseudo") /\ p \in active
  /\ active' = active \ {p} /\ src' = [src EXCEPT ![p] = 0]
  /\ cond' = [cond EXCEPT ![p] = Free]
  /\ UNCHANGED <<displayVars, in, out, overlay>>

\* FreePseudowin: the end of the program, or of its input.
PseudoDies(p) ==
  /\ Command("pseudo") /\ p \in active
  /\ active' = active \ {p}
  /\ in' = [in EXCEPT ![p] = 0] /\ src' = [src EXCEPT ![p] = 0]
  /\ cond' = [cond EXCEPT ![p] = Free,
                          ![Host[p]] = IF @ = On("in", p) THEN Free ELSE @]
  /\ UNCHANGED <<displayVars, out, overlay>>

System ==
  \/ \E r \in Readers : Reader(r) \/ DeviceWrite(r)
  \/ \E d \in Displays : DispWrite(d) \/ BlockedTimeout(d) \/ StatusTimeout(d)

Users ==
  \/ \E d \in Displays : \/ Message(d) \/ SetNonblock(d) \/ PrintFlush(d)
                         \/ Xoff(d) \/ Xon(d) \/ Attach(d) \/ Detach(d)
  \/ \E w \in Windows : Type(w) \/ OverlayOpen(w) \/ OverlayClose(w)
  \/ \E p \in Pseudos : PseudoDies(p)

Next == System \/ Users

\* sched() calls what is ready; programs read their input; nobody else is
\* obliged to anything.
SystemFairness ==
  /\ \A r \in Readers : WF_vars(Reader(r)) /\ WF_vars(DeviceWrite(r))
  /\ \A d \in Displays : /\ WF_vars(DispWrite(d)) /\ WF_vars(BlockedTimeout(d))
                         /\ WF_vars(StatusTimeout(d))

\* Users leave overlays, and terminals accept output again.
UserFairness ==
  /\ \A w \in Windows : WF_vars(OverlayClose(w))
  /\ \A d \in Displays : WF_vars(Xon(d))

Spec == Init /\ [][Next]_vars
StubbornSpec == Spec /\ SystemFairness
FairSpec == Spec /\ SystemFairness /\ UserFairness

-----------------------------------------------------------------------------
(* Properties                                                              *)

Conditions ==
  {Free} \cup {On(k, d) : k \in {"status", "obuf"}, d \in Displays}
         \cup {On("overlay", w) : w \in Windows} \cup {On("in", r) : r \in Readers}

TypeOK ==
  /\ up \in [Displays -> BOOLEAN] /\ accepts \in [Displays -> BOOLEAN]
  /\ pending \in [Displays -> Nat] /\ fuzz \in [Displays -> Nat]
  /\ nonblock \in [Displays -> {"off", "zero", "timed"}]
  /\ blocked \in [Displays -> BOOLEAN] /\ timer \in [Displays -> BOOLEAN]
  /\ status \in [Displays -> BOOLEAN] /\ statpos \in [Displays -> Nat]
  /\ stale \in [Displays -> BOOLEAN]
  /\ active \in SUBSET Readers /\ src \in [Readers -> Nat] /\ in \in [Readers -> Nat]
  /\ out \in [Windows -> Nat] /\ cond \in [Readers -> Conditions]
  /\ overlay \in [Windows -> BOOLEAN] /\ cmds \in 0..MaxCmds

Alive(c) ==
  /\ c.kind \in {"status", "obuf"} => up[c.of]
  /\ c.kind = "in" => c.of \in active

\* Displays and pseudo windows may be freed at any time: no window waits for
\* a counter of a freed one (FreeDisplay, FreePseudowin).
WindowsWaitForTheLiving == \A w \in Windows : Alive(cond[w])

\* The same of every reader (sched.h: a condition is a pair of pointers); it
\* does not hold, and no run checks it (README, What does not hold).
CondAlive == \A r \in active : Alive(cond[r])

\* A display that misses output is blocked, so that it will be redrawn, as
\* long as nothing is printed.
StaleIsBlocked == \A d \in Displays : stale[d] => blocked[d]

\* A message is in front of everything its display has still to write, and
\* all of it is: otherwise it would never be over.
MessageInBuffer == \A d \in Displays : statpos[d] <= pending[d]

\* No program waits for good, whoever shares its displays and pipes.
Progress == \A r \in Readers : (src[r] > 0) ~> (src[r] = 0)

\* With a timeout, or none, a terminal that takes no more output holds no
\* program up (doc/screen.texinfo, nonblock); this does not hold, either.
NonblockProgress == \A w \in Windows : (src[w] > 0) ~> (src[w] = 0)

\* A display that misses output is redrawn when its terminal takes output
\* again (doc/screen.texinfo, nonblock).
Redrawn == \A d \in Displays : stale[d] ~> ~stale[d]

\* A message goes away (doc/screen.texinfo, msgwait).
MessageGoes == \A d \in Displays : status[d] ~> ~status[d]
=============================================================================

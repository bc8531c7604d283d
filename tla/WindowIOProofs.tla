--------------------------- MODULE WindowIOProofs ---------------------------
(***************************************************************************)
(* What holds of the readers and writers of windows for any number of      *)
(* displays, windows and pseudo windows, any size of a buffer and any list *)
(* of canvases: the types, that no window waits for what was freed, that a *)
(* display that misses output is blocked, and that a message is in front   *)
(* of what its display has still to write.                                 *)
(***************************************************************************)
EXTENDS WindowIO, TLAPS

USE HostAssumption, FeedsAssumption, ShowsAssumption, SizesAssumption

-----------------------------------------------------------------------------
(* The conditions of readers                                               *)

LEMMA WindowType == ASSUME NEW r \in Readers PROVE WindowOf(r) \in Windows
  BY DEF WindowOf, Readers

LEMMA ConditionType ==
  /\ Free \in Conditions
  /\ \A d \in Displays : On("status", d) \in Conditions /\ On("obuf", d) \in Conditions
  /\ \A w \in Windows : On("overlay", w) \in Conditions
  /\ \A r \in Readers : On("in", r) \in Conditions
  BY DEF Conditions

\* The canvases of a window's list are on displays that exist.
LEMMA ListedUp ==
  ASSUME NEW w \in Windows, NEW k \in CvList(w)
  PROVE  Shows[w][k] \in Displays /\ up[Shows[w][k]]
  BY DEF CvList

\* Whoever is fed exists, and reads what its window or pseudo window writes.
LEMMA FeedAlive ==
  ASSUME NEW r \in Readers, FeedOf(r) # NONE
  PROVE  FeedOf(r) \in active /\ FeedOf(r) \in Readers /\ FeedOf(r) = Feeds[r]
  BY DEF FeedOf

LEMMA ShowingType == \A w \in Windows : Showing(w) \subseteq Displays
  BY DEF Showing

-----------------------------------------------------------------------------
(* The steps of a reader, and what each of them leaves alone               *)

LEMMA HoldSteps ==
  ASSUME TypeOK, NEW r \in Readers, HoldInput(r) \/ HoldDisplay(r) \/ HoldOverlay(r)
  PROVE  /\ UNCHANGED <<up, accepts, pending, nonblock, fuzz, status, statpos, stale,
                        active, src, in, out, overlay, cmds>>
         /\ blocked' \in [Displays -> BOOLEAN] /\ timer' \in [Displays -> BOOLEAN]
         /\ \A d \in Displays : blocked[d] => blocked'[d]
         /\ \E c \in Conditions :
              /\ cond' = [cond EXCEPT ![r] = c]
              /\ Alive(c)
              /\ c.kind = "in" => c.of = Feeds[r]
<1>1. CASE HoldInput(r)
  <2>1. FeedOf(r) \in active /\ FeedOf(r) \in Readers /\ FeedOf(r) = Feeds[r]
    BY <1>1, FeedAlive DEF HoldInput, NoRoom
  <2>2. Alive(On("in", FeedOf(r))) /\ On("in", FeedOf(r)).of = Feeds[r]
    BY <2>1 DEF Alive, On
  <2>3. cond' = [cond EXCEPT ![r] = On("in", FeedOf(r))]
    BY <1>1 DEF HoldInput
  <2> QED BY <1>1, <2>1, <2>2, <2>3, ConditionType DEF HoldInput, displayVars, TypeOK
<1>2. CASE HoldDisplay(r)
  <2> DEFINE w == WindowOf(r)
             d == Shows[w][Stop(w)]
  <2>1. w \in Windows
    BY WindowType
  <2>2. d \in Displays /\ up[d]
    BY <1>2, <2>1, ListedUp DEF HoldDisplay, MuchPending
  <2>3. /\ blocked' = Blocked(w)
        /\ \/ cond' = [cond EXCEPT ![r] = On("status", d)] /\ UNCHANGED timer
           \/ /\ cond' = [cond EXCEPT ![r] = On("obuf", d)]
              /\ timer' = [timer EXCEPT ![d] = @ \/ nonblock[d] = "timed"]
        /\ UNCHANGED <<up, accepts, pending, nonblock, fuzz, status, statpos, stale,
                       active, src, in, out, overlay, cmds>>
    BY <1>2 DEF HoldDisplay
  <2>4. /\ Alive(On("status", d)) /\ Alive(On("obuf", d))
        /\ On("status", d).kind # "in" /\ On("obuf", d).kind # "in"
    BY <2>2 DEF Alive, On
  <2>5. blocked' \in [Displays -> BOOLEAN] /\ \A e \in Displays : blocked[e] => blocked'[e]
    BY <2>3 DEF Blocked, TypeOK
  <2>6. timer' \in [Displays -> BOOLEAN]
    BY <2>3 DEF TypeOK
  <2> HIDE DEF d, w
  <2> QED BY <2>2, <2>3, <2>4, <2>5, <2>6, ConditionType
<1>3. CASE HoldOverlay(r)
  <2>1. On("overlay", WindowOf(r)) \in Conditions
    BY WindowType, ConditionType
  <2>2. Alive(On("overlay", WindowOf(r))) /\ On("overlay", WindowOf(r)).kind # "in"
    BY DEF Alive, On
  <2> QED BY <1>3, <2>1, <2>2 DEF HoldOverlay, displayVars, TypeOK
<1> QED BY <1>1, <1>2, <1>3

\* A reader that reads, or shows the rest, waits for nothing.
LEMMA ReadSteps ==
  ASSUME TypeOK, NEW r \in Readers, MayRead(r)
  PROVE  /\ UNCHANGED <<up, accepts, nonblock, fuzz, timer, active, overlay, cmds>>
         /\ cond' = [cond EXCEPT ![r] = Free] /\ cond' \in [Readers -> Conditions]
         /\ blocked' = Blocked(WindowOf(r)) /\ blocked' \in [Displays -> BOOLEAN]
         /\ \A d \in Displays : blocked[d] => blocked'[d]
  BY ConditionType DEF MayRead, Blocked, TypeOK

LEMMA DrawnType ==
  ASSUME TypeOK, NEW w \in Windows, NEW m \in Nat, Drawn(w, m)
  PROVE  /\ pending' \in [Displays -> Nat] /\ stale' \in [Displays -> BOOLEAN]
         /\ \A d \in Displays : pending'[d] >= pending[d]
         /\ \A d \in Displays : stale'[d] => stale[d] \/ Blocked(w)[d]
  BY DEF Drawn, TypeOK

LEMMA TakesType ==
  ASSUME TypeOK, NEW r \in Readers, NEW m \in 1..Size, Takes(r, m)
  PROVE  /\ src' \in [Readers -> Nat] /\ in' \in [Readers -> Nat]
         /\ MayRead(r) /\ m \in Nat /\ m - 1 \in Nat
  BY DEF Takes, TypeOK

\* What disp_writeev_fn writes at most is in the buffer.
LEMMA WrittenType ==
  ASSUME TypeOK, NEW d \in Displays,
         NEW m \in 1..Lesser(Lesser(Block, pending[d]),
                             IF statpos[d] > 0 THEN statpos[d] ELSE pending[d])
  PROVE  /\ m \in Nat \ {0} /\ m <= pending[d]
         /\ statpos[d] > 0 => m <= statpos[d]
  BY DEF Lesser, TypeOK

-----------------------------------------------------------------------------
(* The types                                                               *)

LEMMA InitType == Init => TypeOK
  BY ConditionType DEF Init, TypeOK, Readers

LEMMA ReaderType == ASSUME TypeOK, NEW r \in Readers, Reader(r) PROVE TypeOK'
<1>1. CASE HoldInput(r) \/ HoldDisplay(r) \/ HoldOverlay(r)
  <2>1. PICK c \in Conditions : cond' = [cond EXCEPT ![r] = c]
    BY <1>1, HoldSteps
  <2>2. cond' \in [Readers -> Conditions]
    BY <2>1 DEF TypeOK
  <2>3. /\ UNCHANGED <<up, accepts, pending, nonblock, fuzz, status, statpos, stale,
                       active, src, in, out, overlay, cmds>>
        /\ blocked' \in [Displays -> BOOLEAN] /\ timer' \in [Displays -> BOOLEAN]
    BY <1>1, HoldSteps
  <2> QED BY <2>2, <2>3 DEF TypeOK
<1>2. CASE ShowRest(r)
  <2>1. MayRead(r) /\ Drawn(WindowOf(r), out[WindowOf(r)])
    BY <1>2 DEF ShowRest
  <2>2. out[WindowOf(r)] \in Nat /\ WindowOf(r) \in Windows
    BY WindowType DEF TypeOK
  <2>3. pending' \in [Displays -> Nat] /\ stale' \in [Displays -> BOOLEAN]
    BY <2>1, <2>2, DrawnType
  <2>4. out' \in [Windows -> Nat] /\ UNCHANGED <<src, in, status, statpos>>
    BY <1>2 DEF ShowRest, TypeOK
  <2>9. /\ UNCHANGED <<up, accepts, nonblock, fuzz, timer, active, overlay, cmds>>
        /\ cond' \in [Readers -> Conditions] /\ blocked' \in [Displays -> BOOLEAN]
    BY <2>1, ReadSteps
  <2> QED BY <2>3, <2>4, <2>9 DEF TypeOK
<1>3. ASSUME NEW m \in 1..Size, Transfer(r, m) PROVE TypeOK'
  <2>1. Takes(r, m) /\ Drawn(WindowOf(r), m) /\ UNCHANGED <<out, status, statpos>>
    BY <1>3 DEF Transfer
  <2>2. pending' \in [Displays -> Nat] /\ stale' \in [Displays -> BOOLEAN]
    BY <2>1, DrawnType, WindowType
  <2>3. src' \in [Readers -> Nat] /\ in' \in [Readers -> Nat] /\ MayRead(r)
    BY <2>1, TakesType
  <2>9. /\ UNCHANGED <<up, accepts, nonblock, fuzz, timer, active, overlay, cmds>>
        /\ cond' \in [Readers -> Conditions] /\ blocked' \in [Displays -> BOOLEAN]
    BY <2>3, ReadSteps
  <2> QED BY <2>1, <2>2, <2>3, <2>9 DEF TypeOK
<1>4. ASSUME NEW m \in 1..Size, Announce(r, m) PROVE TypeOK'
  <2>1. Takes(r, m) /\ UNCHANGED stale
    BY <1>4 DEF Announce
  <2>2. /\ status' \in [Displays -> BOOLEAN]
        /\ statpos' \in [Displays -> Nat] /\ pending' \in [Displays -> Nat]
    BY <1>4 DEF Announce, TypeOK
  <2>3. out' \in [Windows -> Nat]
    BY <1>4, <2>1, TakesType DEF Announce, TypeOK
  <2>4. src' \in [Readers -> Nat] /\ in' \in [Readers -> Nat] /\ MayRead(r)
    BY <2>1, TakesType
  <2>9. /\ UNCHANGED <<up, accepts, nonblock, fuzz, timer, active, overlay, cmds>>
        /\ cond' \in [Readers -> Conditions] /\ blocked' \in [Displays -> BOOLEAN]
    BY <2>4, ReadSteps
  <2> QED BY <2>1, <2>2, <2>3, <2>4, <2>9 DEF TypeOK
<1> QED BY <1>1, <1>2, <1>3, <1>4 DEF Reader

LEMMA DispWriteType == ASSUME TypeOK, NEW d \in Displays, DispWrite(d) PROVE TypeOK'
<1>1. PICK m \in 1..Lesser(Lesser(Block, pending[d]),
                           IF statpos[d] > 0 THEN statpos[d] ELSE pending[d]) :
        /\ timer' = [timer EXCEPT ![d] = @ /\ pending[d] - m > Limit \div 2]
        /\ blocked' = [blocked EXCEPT ![d] = @ /\ pending[d] > m]
        /\ pending' = [pending EXCEPT ![d] = IF Activated(d, m) THEN Redraw ELSE @ - m]
        /\ fuzz' = [fuzz EXCEPT ![d] = IF Activated(d, m) THEN Redraw
                                       ELSE IF @ < m THEN 0 ELSE @ - m]
        /\ stale' = [stale EXCEPT ![d] = @ /\ ~Activated(d, m)]
        /\ status' = [status EXCEPT ![d] = @ /\ ~Activated(d, m)]
        /\ statpos' = [statpos EXCEPT ![d] = IF Activated(d, m) THEN 0 ELSE MessageLeft(d, m)]
        /\ UNCHANGED <<up, accepts, nonblock, readerVars, cmds>>
  BY DEF DispWrite
<1>2. m \in Nat /\ m <= pending[d] /\ pending[d] - m \in Nat
  BY WrittenType DEF TypeOK
<1>3. pending' \in [Displays -> Nat] /\ fuzz' \in [Displays -> Nat]
  BY <1>1, <1>2 DEF TypeOK
<1>4. statpos' \in [Displays -> Nat]
  BY <1>1, <1>2 DEF TypeOK, MessageLeft
<1>5. /\ blocked' \in [Displays -> BOOLEAN] /\ timer' \in [Displays -> BOOLEAN]
      /\ stale' \in [Displays -> BOOLEAN] /\ status' \in [Displays -> BOOLEAN]
  BY <1>1, Zenon DEF TypeOK
<1> QED BY <1>1, <1>3, <1>4, <1>5 DEF TypeOK, readerVars

LEMMA SystemType == ASSUME TypeOK, System PROVE TypeOK'
<1>1. ASSUME NEW r \in Readers, DeviceWrite(r) PROVE TypeOK'
  BY <1>1 DEF DeviceWrite, TypeOK, displayVars
<1>2. ASSUME NEW d \in Displays, BlockedTimeout(d) PROVE TypeOK'
  <2>1. \/ UNCHANGED <<blocked, cond>>
        \/ /\ blocked' = [blocked EXCEPT ![d] = TRUE]
           /\ cond' = [r \in Readers |->
                IF r \in Windows /\ cond[r] = On("obuf", d) THEN Free ELSE cond[r]]
    BY <1>2 DEF BlockedTimeout
  <2>2. blocked' \in [Displays -> BOOLEAN]
    BY <2>1 DEF TypeOK
  <2>4. cond' \in [Readers -> Conditions]
    <3> DEFINE released == [r \in Readers |->
                 IF r \in Windows /\ cond[r] = On("obuf", d) THEN Free ELSE cond[r]]
    <3>1. cond \in [Readers -> Conditions] /\ released \in [Readers -> Conditions]
      BY ConditionType DEF TypeOK
    <3> QED BY <2>1, <3>1
  <2>3. timer' \in [Displays -> BOOLEAN]
    BY <1>2 DEF BlockedTimeout, TypeOK
  <2> QED BY <1>2, <2>2, <2>3, <2>4 DEF BlockedTimeout, TypeOK
<1>3. ASSUME NEW d \in Displays, StatusTimeout(d) PROVE TypeOK'
  BY <1>3 DEF StatusTimeout, TypeOK, readerVars
<1> QED BY <1>1, <1>2, <1>3, ReaderType, DispWriteType DEF System

LEMMA CommandType == ASSUME TypeOK, NEW f, Command(f) PROVE cmds' \in 0..MaxCmds
  BY DEF Command, TypeOK

LEMMA RefreshedType ==
  ASSUME TypeOK, NEW D, Refreshed(D)
  PROVE  /\ pending' \in [Displays -> Nat] /\ stale' \in [Displays -> BOOLEAN]
         /\ \A d \in Displays : pending'[d] >= pending[d]
         /\ \A d \in Displays : stale'[d] => stale[d] \/ blocked[d]
  BY DEF Refreshed, TypeOK

LEMMA UsersType == ASSUME TypeOK, Users PROVE TypeOK'
<1>1. ASSUME NEW d \in Displays, Message(d) PROVE TypeOK'
  <2>1. cmds' \in 0..MaxCmds
    BY <1>1, CommandType DEF Message
  <2>2. /\ status' \in [Displays -> BOOLEAN]
        /\ statpos' \in [Displays -> Nat] /\ pending' \in [Displays -> Nat]
    BY <1>1 DEF Message, TypeOK
  <2> QED BY <1>1, <2>1, <2>2 DEF Message, TypeOK, readerVars
<1>2. ASSUME NEW d \in Displays, SetNonblock(d) PROVE TypeOK'
  BY <1>2, CommandType DEF SetNonblock, TypeOK, readerVars
<1>3. ASSUME NEW d \in Displays, PrintFlush(d) PROVE TypeOK'
  <2>1. cmds' \in 0..MaxCmds
    BY <1>3, CommandType DEF PrintFlush
  <2>2. /\ blocked' \in [Displays -> BOOLEAN] /\ stale' \in [Displays -> BOOLEAN]
        /\ status' \in [Displays -> BOOLEAN]
    BY <1>3, Zenon DEF PrintFlush, TypeOK
  <2> QED BY <1>3, <2>1, <2>2 DEF PrintFlush, TypeOK, readerVars
<1>4. ASSUME NEW d \in Displays, Xoff(d) \/ Xon(d) PROVE TypeOK'
  <2>1. cmds' \in 0..MaxCmds
    BY <1>4, CommandType DEF Xoff, Xon, TypeOK
  <2>2. accepts' \in [Displays -> BOOLEAN]
    BY <1>4 DEF Xoff, Xon, TypeOK
  <2> QED BY <1>4, <2>1, <2>2 DEF Xoff, Xon, TypeOK, readerVars
<1>5. ASSUME NEW d \in Displays, Attach(d) \/ Detach(d) PROVE TypeOK'
  <2>1. cmds' \in 0..MaxCmds
    BY <1>5, CommandType DEF Attach, Detach
  <2>2. CASE Attach(d)
    <3>1. up' \in [Displays -> BOOLEAN] /\ pending' \in [Displays -> Nat]
      BY <2>2 DEF Attach, TypeOK
    <3> QED BY <2>1, <2>2, <3>1 DEF Attach, Reset, TypeOK
  <2>3. CASE Detach(d)
    <3>1. up' \in [Displays -> BOOLEAN] /\ pending' \in [Displays -> Nat]
      BY <2>3 DEF Detach, TypeOK
    <3>2. cond' \in [Readers -> Conditions]
      BY <2>3, ConditionType DEF Detach, TypeOK
    <3> QED BY <2>1, <2>3, <3>1, <3>2 DEF Detach, Reset, TypeOK
  <2> QED BY <1>5, <2>2, <2>3
<1>6. ASSUME NEW w \in Windows, Type(w) PROVE TypeOK'
  <2>1. cmds' \in 0..MaxCmds
    BY <1>6, CommandType DEF Type
  <2>2. status' \in [Displays -> BOOLEAN] /\ statpos' \in [Displays -> Nat]
    BY <1>6 DEF Type, Unmessaged, TypeOK
  <2>3. in' \in [Readers -> Nat]
    BY <1>6 DEF Type, TypeOK
  <2> QED BY <1>6, <2>1, <2>2, <2>3 DEF Type, TypeOK
<1>7. ASSUME NEW w \in Windows, OverlayOpen(w) PROVE TypeOK'
  <2>1. cmds' \in 0..MaxCmds
    BY <1>7, CommandType DEF OverlayOpen
  <2>2. pending' \in [Displays -> Nat] /\ stale' \in [Displays -> BOOLEAN]
    BY <1>7, RefreshedType DEF OverlayOpen
  <2>3. status' \in [Displays -> BOOLEAN] /\ statpos' \in [Displays -> Nat]
    BY <1>7 DEF OverlayOpen, Unmessaged, TypeOK
  <2> QED BY <1>7, <2>1, <2>2, <2>3 DEF OverlayOpen, TypeOK
<1>8. ASSUME NEW w \in Windows, OverlayClose(w) PROVE TypeOK'
  <2>1. pending' \in [Displays -> Nat] /\ stale' \in [Displays -> BOOLEAN]
    BY <1>8, RefreshedType DEF OverlayClose
  <2> QED BY <1>8, <2>1 DEF OverlayClose, TypeOK
<1>9. ASSUME NEW p \in Pseudos, PseudoDies(p) PROVE TypeOK'
  <2>1. cmds' \in 0..MaxCmds
    BY <1>9, CommandType DEF PseudoDies
  <2>2. cond' \in [Readers -> Conditions]
    BY <1>9, ConditionType DEF PseudoDies, TypeOK, Readers
  <2> QED BY <1>9, <2>1, <2>2 DEF PseudoDies, TypeOK, displayVars
<1> QED BY <1>1, <1>2, <1>3, <1>4, <1>5, <1>6, <1>7, <1>8, <1>9 DEF Users

\* The variables keep their types: counters of buffers never become negative,
\* and every condition points at a counter of the right kind.
THEOREM TypeCorrect == Spec => []TypeOK
<1>1. TypeOK /\ [Next]_vars => TypeOK'
  <2> SUFFICES ASSUME TypeOK, [Next]_vars PROVE TypeOK'
    OBVIOUS
  <2>1. CASE UNCHANGED vars
    BY <2>1 DEF vars, displayVars, readerVars, TypeOK
  <2> QED BY <2>1, SystemType, UsersType DEF Next
<1> QED BY <1>1, InitType, PTL DEF Spec

-----------------------------------------------------------------------------
(* Whom readers wait for                                                   *)

\* A window waits for a counter of something that exists; one that waits for
\* room waits for its own pseudo window, which is why FreePseudowin has to
\* look at one reader only.
Waits(w) == Alive(cond[w]) /\ (cond[w].kind = "in" => cond[w].of = Feeds[w])
WaitInv == \A w \in Windows : Waits(w)

\* Most steps change neither conditions nor what exists.
Bystander(r, d, w) ==
  \/ DeviceWrite(r) \/ DispWrite(d) \/ StatusTimeout(d)
  \/ Message(d) \/ SetNonblock(d) \/ PrintFlush(d) \/ Xoff(d) \/ Xon(d)
  \/ Type(w) \/ OverlayOpen(w) \/ OverlayClose(w)

LEMMA BystanderSteps ==
  ASSUME NEW r, NEW d, NEW w, Bystander(r, d, w) PROVE UNCHANGED <<up, active, cond>>
  BY DEF Bystander, DeviceWrite, DispWrite, StatusTimeout, Message, SetNonblock, PrintFlush,
         Xoff, Xon, Type, OverlayOpen, OverlayClose, displayVars, readerVars

LEMMA ReaderWaits == ASSUME TypeOK, WaitInv, NEW r \in Readers, Reader(r) PROVE WaitInv'
<1>1. UNCHANGED <<up, active>>
  <2>1. CASE HoldInput(r) \/ HoldDisplay(r) \/ HoldOverlay(r)
    BY <2>1, HoldSteps
  <2>2. CASE MayRead(r)
    BY <2>2, ReadSteps
  <2> QED BY <2>1, <2>2 DEF Reader, ShowRest, Transfer, Announce, Takes
<1>2. PICK c : /\ cond' = [cond EXCEPT ![r] = c]
               /\ Alive(c) /\ (c.kind = "in" => c.of = Feeds[r])
  <2>1. CASE HoldInput(r) \/ HoldDisplay(r) \/ HoldOverlay(r)
    BY <2>1, HoldSteps
  <2>2. CASE MayRead(r)
    <3>1. cond' = [cond EXCEPT ![r] = Free]
      BY <2>2, ReadSteps
    <3>2. Alive(Free) /\ Free.kind # "in"
      BY DEF Free, Alive
    <3> QED BY <3>1, <3>2
  <2> QED BY <2>1, <2>2 DEF Reader, ShowRest, Transfer, Announce, Takes
<1> SUFFICES ASSUME NEW w \in Windows PROVE Waits(w)'
  BY DEF WaitInv
<1>3. CASE w = r
  BY <1>1, <1>2, <1>3 DEF Waits, Alive, TypeOK
<1>4. CASE w # r
  <2>1. cond'[w] = cond[w]
    BY <1>2, <1>4 DEF TypeOK, Readers
  <2> QED BY <1>1, <2>1 DEF WaitInv, Waits, Alive
<1> QED BY <1>3, <1>4

\* A step that releases some of the readers, and frees nothing.
LEMMA ReleaseWaits ==
  ASSUME WaitInv, UNCHANGED active, \A d \in Displays : up[d] => up'[d],
         \A w \in Windows : cond'[w] \in {cond[w], Free},
         TypeOK
  PROVE  WaitInv'
<1> SUFFICES ASSUME NEW w \in Windows PROVE Waits(w)'
  BY DEF WaitInv
<1>1. CASE cond'[w] = Free
  BY <1>1 DEF Waits, Alive, Free
<1>2. CASE cond'[w] = cond[w]
  <2>1. cond[w] \in Conditions /\ Waits(w)
    BY DEF TypeOK, WaitInv, Readers
  <2>2. cond[w].kind \in {"status", "obuf"} => cond[w].of \in Displays
    BY <2>1 DEF Conditions, On, Free
  <2> QED BY <1>2, <2>1, <2>2 DEF Waits, Alive
<1> QED BY <1>1, <1>2

\* FreeDisplay releases the windows that wait for the display.
LEMMA DetachWaits == ASSUME TypeOK, WaitInv, NEW d \in Displays, Detach(d) PROVE WaitInv'
<1>1. /\ up' = [up EXCEPT ![d] = FALSE] /\ active' = active
      /\ \A w \in Windows : cond'[w] = IF cond[w] \in {On("obuf", d), On("status", d)}
                                       THEN Free ELSE cond[w]
  BY DEF Detach, Reset, Readers
<1> SUFFICES ASSUME NEW w \in Windows PROVE Waits(w)'
  BY DEF WaitInv
<1>2. CASE cond[w] \in {On("obuf", d), On("status", d)}
  BY <1>1, <1>2 DEF Waits, Alive, Free
<1>3. CASE cond[w] \notin {On("obuf", d), On("status", d)}
  <2>1. cond'[w] = cond[w] /\ cond[w] \in Conditions /\ Waits(w)
    BY <1>1, <1>3 DEF WaitInv, TypeOK, Readers
  <2>2. cond[w].kind \in {"status", "obuf"} => cond[w].of \in Displays \ {d}
    BY <2>1, <1>3 DEF Conditions, On, Free
  <2>3. cond[w].kind \in {"status", "obuf"} => up'[cond[w].of] = up[cond[w].of]
    BY <1>1, <2>2 DEF TypeOK
  <2> QED BY <1>1, <2>1, <2>3 DEF Waits, Alive
<1> QED BY <1>2, <1>3

\* FreePseudowin releases the window of the pseudo window.
LEMMA PseudoDiesWaits ==
  ASSUME TypeOK, WaitInv, NEW p \in Pseudos, PseudoDies(p) PROVE WaitInv'
<1>1. /\ active' = active \ {p} /\ up' = up
      /\ cond' = [cond EXCEPT ![p] = Free,
                              ![Host[p]] = IF @ = On("in", p) THEN Free ELSE @]
  BY DEF PseudoDies, displayVars
<1> SUFFICES ASSUME NEW w \in Windows PROVE Waits(w)'
  BY DEF WaitInv
<1>2. w # p /\ w \in Readers /\ Host[p] \in Readers /\ Host[p] # p /\ p \in Readers
  BY DEF Readers
<1>3. cond[w] \in Conditions /\ Waits(w)
  BY <1>2 DEF WaitInv, TypeOK
<1>4. cond'[w] = IF w = Host[p] /\ cond[w] = On("in", p) THEN Free ELSE cond[w]
  BY <1>1, <1>2 DEF TypeOK
<1>5. CASE cond'[w] = Free
  BY <1>5 DEF Waits, Alive, Free
<1>6. CASE cond'[w] = cond[w] /\ cond[w] # On("in", p)
  <2>1. cond[w].kind = "in" => cond[w].of # p
    BY <1>3, <1>6 DEF Conditions, On, Free
  <2> QED BY <1>1, <1>3, <1>6, <2>1 DEF Waits, Alive
<1>7. cond[w] = On("in", p) => w = Host[p]
  <2>1. SUFFICES ASSUME cond[w] = On("in", p) PROVE w = Host[p]
    OBVIOUS
  <2>2. Feeds[w] = p
    BY <1>3, <2>1 DEF Waits, On
  <2>3. Feeds[w] # NONE
    BY <1>2, <2>2, FeedsAssumption
  <2> QED BY <2>2, <2>3, FeedsAssumption
<1> QED BY <1>4, <1>5, <1>6, <1>7

\* No window waits for a counter of a display or pseudo window that was freed
\* (FreeDisplay, FreePseudowin, win_readev_fn).
THEOREM WindowsWaitForLiving == Spec => []WindowsWaitForTheLiving
<1>1. Init => WaitInv
  BY DEF Init, WaitInv, Waits, Alive, Free, Readers
<1>2. TypeOK /\ WaitInv /\ [Next]_vars => WaitInv'
  <2> SUFFICES ASSUME TypeOK, WaitInv, [Next]_vars PROVE WaitInv'
    OBVIOUS
  <2>1. ASSUME NEW r, NEW d, NEW w, Bystander(r, d, w) PROVE WaitInv'
    BY <2>1, BystanderSteps, ReleaseWaits
  <2>2. ASSUME NEW d \in Displays, BlockedTimeout(d) PROVE WaitInv'
    <3>1. UNCHANGED <<up, active>> /\ \A w \in Windows : cond'[w] \in {cond[w], Free}
      BY <2>2 DEF BlockedTimeout, Readers
    <3> QED BY <3>1, ReleaseWaits
  <2>3. ASSUME NEW d \in Displays, Attach(d) PROVE WaitInv'
    <3>1. /\ UNCHANGED <<active, cond>>
          /\ \A e \in Displays : up[e] => up'[e]
      BY <2>3 DEF Attach, Reset, TypeOK
    <3> QED BY <3>1, ReleaseWaits
  <2>4. CASE UNCHANGED vars
    BY <2>4, ReleaseWaits DEF vars, displayVars, readerVars
  <2> QED BY <2>1, <2>2, <2>3, <2>4, ReaderWaits, DetachWaits, PseudoDiesWaits
          DEF Next, System, Users, Bystander
<1>3. WaitInv => WindowsWaitForTheLiving
  BY DEF WaitInv, Waits, WindowsWaitForTheLiving
<1> QED BY <1>1, <1>2, <1>3, TypeCorrect, PTL DEF Spec

-----------------------------------------------------------------------------
(* Displays that miss output                                               *)

\* The steps of sched() itself need no assumption on the commands.
LEMMA SystemStale == ASSUME TypeOK, StaleIsBlocked, System PROVE StaleIsBlocked'
<1> SUFFICES ASSUME NEW e \in Displays, stale'[e] PROVE blocked'[e]
  BY DEF StaleIsBlocked
<1>0. /\ stale[e] \in BOOLEAN /\ blocked[e] \in BOOLEAN
      /\ stale[e] => blocked[e]
  BY DEF TypeOK, StaleIsBlocked
<1>1. ASSUME NEW r \in Readers, HoldInput(r) \/ HoldOverlay(r) PROVE blocked'[e]
  BY <1>0, <1>1 DEF HoldInput, HoldOverlay, displayVars
<1>2. ASSUME NEW r \in Readers, HoldDisplay(r) PROVE blocked'[e]
  BY <1>0, <1>2 DEF HoldDisplay, Blocked
<1>3. ASSUME NEW r \in Readers, NEW m, MayRead(r), Drawn(WindowOf(r), m) PROVE blocked'[e]
  BY <1>0, <1>3 DEF MayRead, Drawn, Blocked
<1>4. ASSUME NEW r \in Readers, NEW m, Announce(r, m) PROVE blocked'[e]
  BY <1>0, <1>4 DEF Announce, Takes, MayRead, Blocked
<1>5. ASSUME NEW r \in Readers, DeviceWrite(r) PROVE blocked'[e]
  BY <1>0, <1>5 DEF DeviceWrite, displayVars
<1>6. ASSUME NEW d \in Displays, DispWrite(d) PROVE blocked'[e]
  <2>1. PICK m \in Nat : /\ m <= pending[d]
                         /\ blocked' = [blocked EXCEPT ![d] = @ /\ pending[d] > m]
                         /\ stale' = [stale EXCEPT ![d] = @ /\ ~Activated(d, m)]
    <3>1. pending[d] \in Nat /\ statpos[d] \in Nat
      BY DEF TypeOK
    <3> DEFINE most == Lesser(Lesser(Block, pending[d]),
                              IF statpos[d] > 0 THEN statpos[d] ELSE pending[d])
    <3>2. most \in Nat /\ most <= pending[d]
      BY <3>1, SizesAssumption DEF Lesser
    <3>3. \A m \in 1..most : m \in Nat /\ m <= pending[d]
      BY <3>1, <3>2
    <3>4. PICK m \in 1..most :
            /\ blocked' = [blocked EXCEPT ![d] = @ /\ pending[d] > m]
            /\ stale' = [stale EXCEPT ![d] = @ /\ ~Activated(d, m)]
      BY <1>6 DEF DispWrite
    <3> QED BY <3>3, <3>4
  <2>2. CASE e = d
    <3>1. stale[d] /\ ~Activated(d, m) /\ blocked[d]
      BY <1>0, <2>1, <2>2 DEF TypeOK
    <3>2. pending[d] \in Nat /\ pending[d] # m
      BY <3>1 DEF Activated, TypeOK
    <3>3. pending[d] > m
      BY <2>1, <3>2
    <3> QED BY <2>1, <2>2, <3>1, <3>3 DEF TypeOK
  <2> QED BY <1>0, <2>1, <2>2 DEF TypeOK
<1>7. ASSUME NEW d \in Displays, BlockedTimeout(d) PROVE blocked'[e]
  BY <1>0, <1>7 DEF BlockedTimeout, TypeOK
<1>8. ASSUME NEW d \in Displays, StatusTimeout(d) PROVE blocked'[e]
  BY <1>0, <1>8 DEF StatusTimeout
<1> QED BY <1>1, <1>2, <1>3, <1>4, <1>5, <1>6, <1>7, <1>8
        DEF System, Reader, ShowRest, Transfer, Takes

\* "quiet" keeps PrintFlush from dropping output without blocking its display.
LEMMA UsersStale ==
  ASSUME "quiet" \in Features, TypeOK, StaleIsBlocked, Users PROVE StaleIsBlocked'
<1> SUFFICES ASSUME NEW e \in Displays, stale'[e] PROVE blocked'[e]
  BY DEF StaleIsBlocked
<1>0. /\ stale[e] \in BOOLEAN /\ blocked[e] \in BOOLEAN
      /\ stale[e] => blocked[e]
  BY DEF TypeOK, StaleIsBlocked
<1>1. ASSUME NEW d \in Displays, Message(d) \/ SetNonblock(d) \/ Xoff(d) \/ Xon(d)
      PROVE  blocked'[e]
  BY <1>0, <1>1 DEF Message, SetNonblock, Xoff, Xon
<1>2. ASSUME NEW d \in Displays, PrintFlush(d) PROVE blocked'[e]
  BY <1>0, <1>2 DEF PrintFlush, TypeOK
<1>3. ASSUME NEW d \in Displays, Attach(d) \/ Detach(d) PROVE blocked'[e]
  <2>1. /\ stale' = [stale EXCEPT ![d] = FALSE]
        /\ blocked' = [blocked EXCEPT ![d] = FALSE]
    BY <1>3 DEF Attach, Detach, Reset
  <2>2. e # d
    BY <2>1 DEF TypeOK
  <2> QED BY <1>0, <2>1, <2>2 DEF TypeOK
<1>4. ASSUME NEW w \in Windows, Type(w) \/ OverlayOpen(w) \/ OverlayClose(w) PROVE blocked'[e]
  BY <1>0, <1>4 DEF Type, OverlayOpen, OverlayClose, Refreshed
<1>5. ASSUME NEW p \in Pseudos, PseudoDies(p) PROVE blocked'[e]
  BY <1>0, <1>5 DEF PseudoDies, displayVars
<1> QED BY <1>1, <1>2, <1>3, <1>4, <1>5 DEF Users

\* A display that misses output is blocked, and will be redrawn when its
\* buffer has become empty (disp_writeev_fn, muchpending, WriteString), as
\* long as nothing is printed to its terminal while output is withheld.
THEOREM StaleDisplaysAreBlocked ==
  ASSUME "quiet" \in Features PROVE Spec => []StaleIsBlocked
<1>1. Init => StaleIsBlocked
  BY DEF Init, StaleIsBlocked
<1>2. TypeOK /\ StaleIsBlocked /\ [Next]_vars => StaleIsBlocked'
  <2> SUFFICES ASSUME TypeOK, StaleIsBlocked, [Next]_vars PROVE StaleIsBlocked'
    OBVIOUS
  <2>1. CASE UNCHANGED vars
    BY <2>1 DEF vars, displayVars, StaleIsBlocked
  <2> QED BY <2>1, SystemStale, UsersStale DEF Next
<1> QED BY <1>1, <1>2, TypeCorrect, PTL DEF Spec

-----------------------------------------------------------------------------
(* Messages in the buffer of a display                                     *)

LEMMA SystemMessage == ASSUME TypeOK, MessageInBuffer, System PROVE MessageInBuffer'
<1> SUFFICES ASSUME NEW e \in Displays PROVE statpos'[e] <= pending'[e]
  BY DEF MessageInBuffer
<1>0. /\ statpos[e] \in Nat /\ pending[e] \in Nat
      /\ statpos[e] <= pending[e]
  BY DEF TypeOK, MessageInBuffer
<1>1. ASSUME NEW r \in Readers, HoldInput(r) \/ HoldDisplay(r) \/ HoldOverlay(r) \/ DeviceWrite(r)
      PROVE  statpos'[e] <= pending'[e]
  BY <1>0, <1>1 DEF HoldInput, HoldDisplay, HoldOverlay, DeviceWrite, displayVars
<1>2. ASSUME NEW r \in Readers, NEW m \in Nat, Drawn(WindowOf(r), m), UNCHANGED statpos
      PROVE  statpos'[e] <= pending'[e]
  <2>1. pending'[e] \in {pending[e], pending[e] + m}
    BY <1>0, <1>2 DEF Drawn
  <2> QED BY <1>0, <1>2, <2>1
<1>3. ASSUME NEW r \in Readers, ShowRest(r) PROVE statpos'[e] <= pending'[e]
  <2>1. out[WindowOf(r)] \in Nat
    BY HostAssumption DEF TypeOK, WindowOf, Readers
  <2> QED BY <1>2, <1>3, <2>1 DEF ShowRest
<1>4. ASSUME NEW r \in Readers, NEW m \in 1..Size, Transfer(r, m)
      PROVE  statpos'[e] <= pending'[e]
  <2>1. m \in Nat
    BY SizesAssumption
  <2> QED BY <1>2, <1>4, <2>1 DEF Transfer
<1>5. ASSUME NEW r \in Readers, NEW m, Announce(r, m) PROVE statpos'[e] <= pending'[e]
  <2>1. \/ statpos'[e] = pending[e] + Text /\ pending'[e] = pending[e] + 2 * Text
        \/ statpos'[e] = statpos[e] /\ pending'[e] = pending[e] + 0
    BY <1>5 DEF Announce
  <2> QED BY <1>0, <2>1, SizesAssumption
<1>6. ASSUME NEW d \in Displays, DispWrite(d) PROVE statpos'[e] <= pending'[e]
  <2>1. CASE e = d
    <3> DEFINE most == Lesser(Lesser(Block, pending[d]),
                              IF statpos[d] > 0 THEN statpos[d] ELSE pending[d])
    <3>1. /\ most \in Nat /\ most <= pending[d]
          /\ statpos[d] > 0 => most <= statpos[d]
      BY <1>0, <2>1, SizesAssumption DEF Lesser
    <3>2. \A m \in 1..most : /\ m \in Nat /\ m <= pending[d]
                             /\ statpos[d] > 0 => m <= statpos[d]
      BY <1>0, <2>1, <3>1
    <3> HIDE DEF most
    <3>3. PICK m \in 1..most :
            /\ pending' = [pending EXCEPT ![d] = IF Activated(d, m) THEN Redraw ELSE @ - m]
            /\ statpos' = [statpos EXCEPT ![d] = IF Activated(d, m) THEN 0
                                                 ELSE MessageLeft(d, m)]
      BY <1>6 DEF DispWrite, most
    <3>4. \/ pending'[d] = Redraw /\ statpos'[d] = 0
          \/ pending'[d] = pending[d] - m /\ statpos'[d] = MessageLeft(d, m)
      BY <3>3 DEF TypeOK
    <3> QED BY <1>0, <2>1, <3>2, <3>4, SizesAssumption DEF MessageLeft
  <2>2. CASE e # d
    <3>1. pending'[e] = pending[e] /\ statpos'[e] = statpos[e]
      BY <1>6, <2>2 DEF DispWrite, TypeOK
    <3> QED BY <1>0, <3>1
  <2> QED BY <2>1, <2>2
<1>7. ASSUME NEW d \in Displays, BlockedTimeout(d) \/ StatusTimeout(d)
      PROVE  statpos'[e] <= pending'[e]
  BY <1>0, <1>7 DEF BlockedTimeout, StatusTimeout
<1> QED BY <1>1, <1>3, <1>4, <1>5, <1>6, <1>7 DEF System, Reader

\* Printing drops the buffer and leaves the message's place in it behind.
LEMMA UsersMessage ==
  ASSUME "print" \notin Features, TypeOK, MessageInBuffer, Users PROVE MessageInBuffer'
<1> SUFFICES ASSUME NEW e \in Displays PROVE statpos'[e] <= pending'[e]
  BY DEF MessageInBuffer
<1>0. /\ statpos[e] \in Nat /\ pending[e] \in Nat
      /\ statpos[e] <= pending[e]
  BY DEF TypeOK, MessageInBuffer
<1>1. ASSUME NEW d \in Displays, Message(d) PROVE statpos'[e] <= pending'[e]
  <2>1. \/ statpos'[e] = pending[e] + Text /\ pending'[e] = pending[e] + 2 * Text
        \/ statpos'[e] = statpos[e] /\ pending'[e] = pending[e]
    BY <1>1 DEF Message, TypeOK
  <2> QED BY <1>0, <2>1, SizesAssumption
<1>2. ASSUME NEW d \in Displays, SetNonblock(d) \/ Xoff(d) \/ Xon(d)
      PROVE  statpos'[e] <= pending'[e]
  BY <1>0, <1>2 DEF SetNonblock, Xoff, Xon
<1>3. ASSUME NEW d \in Displays, PrintFlush(d) PROVE statpos'[e] <= pending'[e]
  BY <1>3 DEF PrintFlush, Command
<1>4. ASSUME NEW d \in Displays, Attach(d) \/ Detach(d) PROVE statpos'[e] <= pending'[e]
  <2>1. statpos' = [statpos EXCEPT ![d] = 0]
    BY <1>4 DEF Attach, Detach, Reset
  <2>2. \E x \in {0, Redraw} : pending' = [pending EXCEPT ![d] = x]
    BY <1>4 DEF Attach, Detach
  <2>3. \/ statpos'[e] = 0 /\ pending'[e] \in {0, Redraw}
        \/ statpos'[e] = statpos[e] /\ pending'[e] = pending[e]
    BY <2>1, <2>2 DEF TypeOK
  <2> QED BY <1>0, <2>3, SizesAssumption
<1>5. ASSUME NEW w \in Windows, Type(w) \/ OverlayOpen(w) \/ OverlayClose(w)
      PROVE  statpos'[e] <= pending'[e]
  <2>1. statpos'[e] \in {0, statpos[e]} /\ pending'[e] \in {pending[e] + 0, pending[e] + Redraw, pending[e]}
    BY <1>5 DEF Type, OverlayOpen, OverlayClose, Unmessaged, Refreshed
  <2> QED BY <1>0, <2>1, SizesAssumption
<1>6. ASSUME NEW p \in Pseudos, PseudoDies(p) PROVE statpos'[e] <= pending'[e]
  BY <1>0, <1>6 DEF PseudoDies, displayVars
<1> QED BY <1>1, <1>2, <1>3, <1>4, <1>5, <1>6 DEF Users

\* The place of a message is counted down with the buffer it lies in
\* (disp_writeev_fn), so that it is written out as a whole and its timeout is
\* started, unless printing empties the buffer (Flush from PrintFlush).
THEOREM MessagesAreInBuffers ==
  ASSUME "print" \notin Features PROVE Spec => []MessageInBuffer
<1>1. Init => MessageInBuffer
  BY DEF Init, MessageInBuffer
<1>2. TypeOK /\ MessageInBuffer /\ [Next]_vars => MessageInBuffer'
  <2> SUFFICES ASSUME TypeOK, MessageInBuffer, [Next]_vars PROVE MessageInBuffer'
    OBVIOUS
  <2>1. CASE UNCHANGED vars
    BY <2>1 DEF vars, displayVars, MessageInBuffer
  <2> QED BY <2>1, SystemMessage, UsersMessage DEF Next
<1> QED BY <1>1, <1>2, TypeCorrect, PTL DEF Spec

=============================================================================

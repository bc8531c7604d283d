--------------------------- MODULE SessionProofs ---------------------------
(***************************************************************************)
(* What holds of attaching and detaching for any number of clients: no     *)
(* attacher is left behind in its loop, and the mode of the socket tells   *)
(* the state of a session without a password.                              *)
(*                                                                         *)
(* Both rest on what a client may have sent: one that waits in its loop is *)
(* none of "screen -d", whose display is freed with SIGCONT alone, and one *)
(* that has found the session owns a connection the daemon still reads.    *)
(***************************************************************************)
EXTENDS Session, SequenceTheorems, TLAPS

-----------------------------------------------------------------------------
(* Connections                                                             *)

Conn == [from : Clients, msg : Messages]

LEMMA OpenedConns ==
  ASSUME conns \in Seq(Conn), NEW c \in Clients, NEW m \in Messages, Opened(c, m)
  PROVE  /\ conns' \in Seq(Conn) /\ DOMAIN conns' = DOMAIN conns
         /\ (conns' = <<>>) <=> (conns = <<>>)
         /\ \A k \in DOMAIN conns :
              conns'[k] = IF conns[k].from = c /\ conns[k].msg = "OPEN"
                          THEN [from |-> c, msg |-> m] ELSE conns[k]
<1>1. DOMAIN conns = 1..Len(conns) /\ Len(conns) \in Nat
  OBVIOUS
<1>2. \A k \in 1..Len(conns) : conns[k] \in Conn
  OBVIOUS
<1>3. [from |-> c, msg |-> m] \in Conn
  BY DEF Conn
<1>4. conns' = [k \in 1..Len(conns) |->
                  IF conns[k].from = c /\ conns[k].msg = "OPEN"
                  THEN [from |-> c, msg |-> m] ELSE conns[k]]
  BY <1>1 DEF Opened
<1>5. conns' \in [1..Len(conns) -> Conn]
  BY <1>2, <1>3, <1>4
<1>6. conns' \in Seq(Conn) /\ Len(conns') = Len(conns)
  BY <1>1, <1>5
<1>7. (conns' = <<>>) <=> (conns = <<>>)
  BY <1>6
<1> QED BY <1>1, <1>4, <1>6, <1>7

LEMMA ConnectConns ==
  ASSUME conns \in Seq(Conn), NEW c \in Clients, NEW m \in Messages, Connect(c, m)
  PROVE  /\ conns' \in Seq(Conn) /\ conns' # <<>>
         /\ DOMAIN conns \subseteq DOMAIN conns'
         /\ \A k \in DOMAIN conns : conns'[k] = conns[k]
         /\ \E k \in DOMAIN conns' : conns'[k] = [from |-> c, msg |-> m]
         /\ \A k \in DOMAIN conns' : k \in DOMAIN conns \/ conns'[k] = [from |-> c, msg |-> m]
<1>1. [from |-> c, msg |-> m] \in Conn
  BY DEF Conn
<1>2. /\ conns' = Append(conns, [from |-> c, msg |-> m])
      /\ DOMAIN conns' = 1..Len(conns) + 1 /\ DOMAIN conns = 1..Len(conns)
      /\ Len(conns) \in Nat
  BY <1>1 DEF Connect
<1>3. conns' \in Seq(Conn) /\ conns'[Len(conns) + 1] = [from |-> c, msg |-> m]
      /\ \A k \in 1..Len(conns) : conns'[k] = conns[k]
  BY <1>1, <1>2
<1> QED BY <1>2, <1>3

LEMMA TailConns ==
  ASSUME conns \in Seq(Conn), conns # <<>>, conns' = Tail(conns)
  PROVE  /\ conns' \in Seq(Conn) /\ Head(conns) \in Conn
         /\ 1 \in DOMAIN conns /\ Head(conns) = conns[1]
         /\ \A k \in DOMAIN conns' : k + 1 \in DOMAIN conns /\ conns'[k] = conns[k + 1]
         /\ \A k \in DOMAIN conns : k # 1 =>
              \E j \in DOMAIN conns' : conns'[j] = conns[k]
<1>1. /\ Len(conns) \in Nat \ {0} /\ DOMAIN conns = 1..Len(conns)
      /\ conns' \in Seq(Conn) /\ DOMAIN conns' = 1..Len(conns) - 1
      /\ \A k \in 1..Len(conns) - 1 : conns'[k] = conns[k + 1]
  OBVIOUS
<1>2. \A k \in DOMAIN conns : k # 1 =>
         \E j \in DOMAIN conns' : conns'[j] = conns[k]
  <2> SUFFICES ASSUME NEW k \in DOMAIN conns, k # 1
               PROVE  \E j \in DOMAIN conns' : conns'[j] = conns[k]
    OBVIOUS
  <2>1. k - 1 \in 1..Len(conns) - 1 /\ (k - 1) + 1 = k
    BY <1>1
  <2> QED BY <1>1, <2>1
<1>3. Head(conns) = conns[1] /\ Head(conns) \in Conn
  BY <1>1
<1> QED BY <1>1, <1>2, <1>3

LEMMA SignalledType ==
  ASSUME NEW p \in [Clients -> SUBSET Signals], NEW C, NEW s \in Signals
  PROVE  /\ Signalled(p, C, s) \in [Clients -> SUBSET Signals]
         /\ \A c \in Clients : p[c] \subseteq Signalled(p, C, s)[c]
         /\ \A c \in Clients : c \in C /\ st[c] # "exited" => s \in Signalled(p, C, s)[c]
  BY DEF Signalled

-----------------------------------------------------------------------------
(* What the daemon does to displays, one operation at a time: it keeps the *)
(* types, takes no signal back, and lets no attacher lose its display      *)
(* without a signal that ends its loop.                                    *)

Ending == {"BYE", "POWER", "STOP", "LOCK"}
Ended(p, e) == \E s \in Ending : s \in p[e]

\* Of displays, authing, mode and pend, after the operation.
Settled ==
  /\ displays' \subseteq Clients /\ authing' \subseteq displays'
  /\ mode' \in {"attached", "detached"}
  /\ pend' \in [Clients -> SUBSET Signals]
  /\ \A e \in Clients : pend[e] \subseteq pend'[e]

Told(e) == e \in displays' \/ st[e] = "exited" \/ Ended(pend', e)

LEMMA DetachAllTells ==
  ASSUME TypeOK, NEW C \in SUBSET Clients, NEW s \in Ending, DetachAll(C, s)
  PROVE  /\ Settled
         /\ \A e \in displays : Told(e)
<1>1. s \in Signals
  BY DEF Ending, Signals
<1>2. /\ displays \subseteq Clients /\ authing \subseteq displays
      /\ mode \in {"attached", "detached"} /\ pend \in [Clients -> SUBSET Signals]
  BY DEF TypeOK
<1>3. /\ displays' = displays \ C /\ authing' = authing \ C
      /\ mode' \in {"attached", "detached"}
      /\ pend' = Signalled(pend, C, s)
  BY <1>2 DEF DetachAll, SocketMode
<1>4. Settled
  BY <1>1, <1>2, <1>3, SignalledType DEF Settled
<1>5. ASSUME NEW e \in displays PROVE Told(e)
  BY <1>1, <1>2, <1>3, SignalledType DEF Told, Ended
<1> QED BY <1>4, <1>5

LEMMA FinitAllTells ==
  ASSUME TypeOK, FinitAll
  PROVE  /\ Settled /\ alive' = FALSE /\ socket' = FALSE /\ request' = request
         /\ \A e \in displays : Told(e)
<1>1. "BYE" \in Signals /\ "BYE" \in Ending
  BY DEF Signals, Ending
<1>2. displays \subseteq Clients /\ mode \in {"attached", "detached"}
      /\ pend \in [Clients -> SUBSET Signals]
  BY DEF TypeOK
<1>3. pend' = Signalled(pend, displays, "BYE") /\ mode' = mode
      /\ displays' = {} /\ authing' = {}
  BY DEF FinitAll
<1>4. Settled
  BY <1>1, <1>2, <1>3, SignalledType DEF Settled
<1>5. ASSUME NEW e \in displays PROVE Told(e)
  BY <1>1, <1>2, <1>3, SignalledType DEF Told, Ended
<1> QED BY <1>4, <1>5 DEF FinitAll

LEMMA HangUpTells ==
  ASSUME TypeOK, NEW c \in Clients, HangUp(c)
  PROVE  /\ Settled /\ alive' \in BOOLEAN /\ socket' \in BOOLEAN /\ request' = request
         /\ (alive' => alive) /\ \A e \in displays : Told(e)
<1>1. CASE DetachAll({c}, "BYE") /\ UNCHANGED <<alive, socket, request>>
  <2>1. {c} \in SUBSET Clients /\ "BYE" \in Ending
    BY DEF Ending
  <2>2. Settled /\ \A e \in displays : Told(e)
    BY <1>1, <2>1, DetachAllTells
  <2> QED BY <1>1, <2>2 DEF TypeOK
<1>2. CASE FinitAll
  BY <1>2, FinitAllTells
<1> QED BY <1>1, <1>2 DEF HangUp

LEMMA FinishAttachTells ==
  ASSUME TypeOK, NEW c \in Clients, NEW D \in SUBSET Clients, NEW first, NEW m,
         NEW p \in [Clients -> SUBSET Signals], \A e \in Clients : pend[e] \subseteq p[e],
         FinishAttach(c, D, first, m, p)
  PROVE  /\ Settled
         /\ \A e \in D : Told(e)
         /\ Told(c)
         /\ c \in displays' => m # "DETACH"
         /\ displays' \subseteq D \cup {c} /\ authing' \subseteq authing \ {c}
<1> DEFINE others == IF first THEN {} ELSE D \ {c}
           gone == D \ (others \cup {c})
           told == Signalled(p, gone, "BYE")
<1>0. "BYE" \in Signals /\ "BYE" \in Ending
  BY DEF Signals, Ending
<1>1. /\ told \in [Clients -> SUBSET Signals]
      /\ \A e \in Clients : p[e] \subseteq told[e]
      /\ \A e \in Clients : e \in gone /\ st[e] # "exited" => "BYE" \in told[e]
  BY <1>0, SignalledType
<1>2. mode' \in {"attached", "detached"} /\ authing' = authing \cap others
  BY DEF FinishAttach, SocketMode, TypeOK
<1>3. \/ displays' = others \cup {c} /\ pend' = told /\ m # "DETACH"
      \/ displays' = others /\ pend' = Signalled(told, {c}, "BYE")
  BY DEF FinishAttach
<1>4. others \subseteq D /\ c \notin others /\ D \ (others \cup {c}) = gone
  OBVIOUS
<1> HIDE DEF others, gone, told
<1>5. /\ pend' \in [Clients -> SUBSET Signals]
      /\ \A e \in Clients : told[e] \subseteq pend'[e]
      /\ displays' = others => (st[c] # "exited" => "BYE" \in pend'[c])
  <2>1. CASE displays' = others \cup {c} /\ pend' = told
    BY <1>1, <1>4, <2>1
  <2>2. CASE displays' = others /\ pend' = Signalled(told, {c}, "BYE")
    BY <1>0, <1>1, <2>2, SignalledType
  <2> QED BY <1>3, <2>1, <2>2
<1>6. Settled
  BY <1>1, <1>2, <1>3, <1>4, <1>5 DEF Settled
<1>7. ASSUME NEW e \in D \cup {c} PROVE Told(e)
  <2>1. CASE e \in others
    BY <1>3, <2>1 DEF Told
  <2>2. CASE e \in gone
    BY <1>0, <1>1, <1>5, <2>2 DEF Told, Ended
  <2>3. CASE e = c
    BY <1>0, <1>3, <1>5, <2>3 DEF Told, Ended
  <2> QED BY <1>4, <2>1, <2>2, <2>3
<1> QED BY <1>2, <1>3, <1>4, <1>6, <1>7

LEMMA FinishDetachTells ==
  ASSUME TypeOK, NEW c \in Clients, FinishDetach(c, displays)
  PROVE  /\ Settled /\ displays' = {}
         /\ \A e \in displays \ {c} : Told(e)
<1> DEFINE told == Signalled(pend, displays \ {c}, "BYE")
<1>0. "BYE" \in Signals /\ "BYE" \in Ending /\ "CONT" \in Signals
  BY DEF Signals, Ending
<1>1. /\ displays \subseteq Clients /\ pend \in [Clients -> SUBSET Signals]
      /\ mode \in {"attached", "detached"}
  BY DEF TypeOK
<1>2. /\ displays' = {} /\ authing' = {} /\ mode' \in {"attached", "detached"}
      /\ pend' = Signalled(told, {c}, "CONT")
  BY <1>1 DEF FinishDetach, SocketMode
<1>3. /\ told \in [Clients -> SUBSET Signals]
      /\ \A e \in Clients : pend[e] \subseteq told[e]
      /\ \A e \in displays \ {c} : st[e] # "exited" => "BYE" \in told[e]
  BY <1>0, <1>1, SignalledType
<1> HIDE DEF told
<1>4. /\ pend' \in [Clients -> SUBSET Signals]
      /\ \A e \in Clients : told[e] \subseteq pend'[e]
  BY <1>0, <1>2, <1>3, SignalledType
<1>5. Settled
  BY <1>2, <1>3, <1>4 DEF Settled
<1>6. ASSUME NEW e \in displays \ {c} PROVE Told(e)
  BY <1>0, <1>1, <1>3, <1>4 DEF Told, Ended
<1> QED BY <1>2, <1>5, <1>6

\* After an attach request its client has a display or has been told to go.
LEMMA TempDisplayTells ==
  ASSUME TypeOK, NEW c \in Clients, NEW m \in Messages, TempDisplay(c, m)
  PROVE  /\ Settled /\ request' \in [Clients -> Messages]
         /\ \A e \in displays : Told(e)
         /\ m # "DETACH" => Told(c)
         /\ displays' \subseteq displays \cup {c}
         /\ ~auth /\ c \in displays' => c \in displays \/ m # "DETACH"
         /\ authing' \subseteq authing \cup {c}
         /\ auth \/ authing' \subseteq authing
         /\ request' = request \/ request' = [request EXCEPT ![c] = m]
         /\ c \in authing' => c \in authing \/ request'[c] = m
<1> DEFINE p == IF m # "DETACH" THEN Signalled(pend, {c}, "CONT") ELSE pend
<1>0. "BYE" \in Signals /\ "BYE" \in Ending /\ "CONT" \in Signals
  BY DEF Signals, Ending
<1>1. /\ displays \subseteq Clients /\ pend \in [Clients -> SUBSET Signals]
      /\ authing \subseteq displays /\ request \in [Clients -> Messages]
      /\ mode \in {"attached", "detached"} /\ auth \in BOOLEAN
  BY DEF TypeOK
<1>2. p \in [Clients -> SUBSET Signals] /\ \A e \in Clients : pend[e] \subseteq p[e]
  BY <1>0, <1>1, SignalledType
<1>3. \/ /\ pend' = Signalled(p, {c}, "BYE") /\ c \in displays
         /\ UNCHANGED <<displays, authing, mode, request>>
      \/ /\ displays' = displays \cup {c} /\ authing' = authing \cup {c} /\ auth
         /\ request' = [request EXCEPT ![c] = m] /\ pend' = p /\ UNCHANGED mode
      \/ /\ FinishAttach(c, displays \cup {c}, m = "ATTACHFIRST", m, p)
         /\ ~(m # "DETACH" /\ c \in displays)
         /\ UNCHANGED request
  BY DEF TempDisplay
<1> HIDE DEF p
<1>4. CASE /\ pend' = Signalled(p, {c}, "BYE") /\ c \in displays
           /\ UNCHANGED <<displays, authing, mode, request>>
  <2>1. Settled
    BY <1>0, <1>1, <1>2, <1>4, SignalledType DEF Settled
  <2> QED BY <1>1, <1>4, <2>1 DEF Told
<1>5. CASE /\ displays' = displays \cup {c} /\ authing' = authing \cup {c} /\ auth
           /\ request' = [request EXCEPT ![c] = m] /\ pend' = p /\ UNCHANGED mode
  <2>1. Settled
    BY <1>1, <1>2, <1>5 DEF Settled
  <2> QED BY <1>1, <1>5, <2>1 DEF Told
<1>6. CASE /\ FinishAttach(c, displays \cup {c}, m = "ATTACHFIRST", m, p)
           /\ ~(m # "DETACH" /\ c \in displays)
           /\ UNCHANGED request
  <2> DEFINE first == m = "ATTACHFIRST"
  <2>0. FinishAttach(c, displays \cup {c}, first, m, p)
    BY <1>6
  <2> HIDE DEF first
  <2>1. displays \cup {c} \in SUBSET Clients
    BY <1>1
  <2>2. /\ Settled
        /\ \A e \in displays \cup {c} : Told(e)
        /\ c \in displays' => m # "DETACH"
        /\ displays' \subseteq displays \cup {c} /\ authing' \subseteq authing \ {c}
    BY <1>2, <2>0, <2>1, FinishAttachTells
  <2> QED BY <1>1, <1>6, <2>2
<1> QED BY <1>3, <1>4, <1>5, <1>6

-----------------------------------------------------------------------------
(* What clients have sent                                                  *)

Asks == {"ATTACH", "ATTACHFIRST", "CONT"}

\* The connection of a client that has found the session.
OpenOf(c) == \E k \in DOMAIN conns : conns[k].from = c /\ conns[k].msg = "OPEN"

\* Only a client of -d asks for a detach, and it asks for nothing else.
Fits(c, m) == /\ m \in Asks => cmd[c] # "detach"
              /\ m = "DETACH" => cmd[c] = "detach"

ConnsFit ==
  \A k \in DOMAIN conns : Fits(conns[k].from, conns[k].msg) /\ st[conns[k].from] # "idle"

ClientsFit ==
  \A c \in Clients :
    /\ st[c] = "connected" => OpenOf(c)
    /\ cmd[c] = "detach" => st[c] \notin Looping \cup {"stopped"}
    /\ c \in authing /\ request[c] = "DETACH" => cmd[c] = "detach"
    /\ c \in displays => st[c] # "idle" /\ (~auth => cmd[c] # "detach")

Protocol ==
  /\ busy => conns # <<>>
  /\ ~auth => authing = {}
  /\ ConnsFit /\ ClientsFit

SessionInv == TypeOK /\ Protocol

LEMMA ConnsType == TypeOK => conns \in Seq(Conn)
  BY DEF TypeOK, Conn

\* The states a step of the attacher may lead to.
Moved(c) ==
  \E s \in States \ {"idle", "connected"} :
    /\ st' = [st EXCEPT ![c] = s]
    /\ cmd[c] = "detach" => s \notin Looping \cup {"stopped"}

Sends(c) ==
  \/ UNCHANGED conns
  \/ \E m \in Messages : (Opened(c, m) \/ Connect(c, m)) /\ Fits(c, m)

Attending(c) ==
  /\ UNCHANGED <<server, cmd, keys>>
  /\ st[c] # "idle" /\ Moved(c) /\ Sends(c)
  /\ pend' \in [Clients -> SUBSET Signals] /\ flags' \in [Clients -> SUBSET Signals]

LEMMA ClientAttends ==
  ASSUME SessionInv, NEW c \in Clients, ClientStep(c) PROVE Attending(c)
<1>0. /\ st \in [Clients -> States] /\ cmd[c] \in Commands
      /\ pend \in [Clients -> SUBSET Signals] /\ flags \in [Clients -> SUBSET Signals]
      /\ cmd[c] = "detach" => st[c] \notin Looping \cup {"stopped"}
  BY DEF SessionInv, TypeOK, Protocol, ClientsFit
<1>1. ASSUME Exit(c) PROVE Moved(c) /\ pend' \in [Clients -> SUBSET Signals]
  <2>1. "exited" \in States \ {"idle", "connected"} /\ "exited" \notin Looping \cup {"stopped"}
    BY DEF States, Looping
  <2>2. st' = [st EXCEPT ![c] = "exited"] /\ pend' = [pend EXCEPT ![c] = {}]
    BY <1>1 DEF Exit, Move
  <2>3. Moved(c)
    BY <2>1, <2>2 DEF Moved
  <2> QED BY <1>0, <2>2, <2>3
<1>2. ASSUME NEW s \in States \ {"idle", "connected"}, Move(c, s),
             cmd[c] = "detach" => s \notin Looping \cup {"stopped"}
      PROVE  Moved(c)
  BY <1>2 DEF Move, Moved
<1>3. ASSUME UNCHANGED st, st[c] \notin {"idle", "connected"} PROVE Moved(c)
  <2>1. st' = [st EXCEPT ![c] = st[c]] /\ st[c] \in States
    BY <1>0, <1>3
  <2> QED BY <1>0, <1>3, <2>1 DEF Moved
<1>4. ASSUME Again(c), cmd[c] # "detach", UNCHANGED flags
      PROVE  Moved(c) /\ Sends(c) /\ pend' \in [Clients -> SUBSET Signals]
  <2>1. CASE Connect(c, "CONT") /\ Move(c, "check") /\ UNCHANGED pend
    <3>1. Moved(c)
      BY <1>2, <1>4, <2>1 DEF States
    <3>2. Sends(c)
      BY <1>4, <2>1 DEF Sends, Fits, Messages
    <3> QED BY <1>0, <2>1, <3>1, <3>2
  <2>2. CASE Exit(c) /\ UNCHANGED conns
    BY <1>1, <2>2 DEF Sends
  <2> QED BY <1>4, <2>1, <2>2 DEF Again
<1>5. CASE Ask(c)
  <2>1. CASE /\ Opened(c, Request(c))
             /\ Move(c, IF cmd[c] = "detach" THEN "waittest" ELSE "tested")
             /\ UNCHANGED pend
    <3>1. Request(c) \in Messages /\ Fits(c, Request(c))
      BY <1>0 DEF Request, Messages, Fits, Asks, Commands
    <3>2. Sends(c)
      BY <2>1, <3>1 DEF Sends
    <3>3. Moved(c)
      BY <1>2, <2>1 DEF States, Looping
    <3> QED BY <1>0, <1>5, <2>1, <3>2, <3>3 DEF Ask, Attending
  <2>2. CASE Opened(c, "CLOSED") /\ Exit(c)
    <3>1. "CLOSED" \in Messages /\ Fits(c, "CLOSED")
      BY DEF Messages, Fits, Asks
    <3> QED BY <1>0, <1>1, <1>5, <2>2, <3>1 DEF Ask, Attending, Sends
  <2> QED BY <1>5, <2>1, <2>2 DEF Ask
<1>6. CASE Pause(c) \/ Alarm(c) \/ Loop(c)
  <2>1. Moved(c)
    BY <1>0, <1>2, <1>6 DEF Pause, Alarm, Loop, States, Looping
  <2> QED BY <1>0, <1>6, <2>1 DEF Pause, Alarm, Loop, Attending, Sends
<1>7. CASE MasterGone(c) \/ PowerBye(c)
  <2>1. st[c] # "idle"
    BY <1>7 DEF MasterGone, PowerBye, Running, Looping, Waiting
  <2> QED BY <1>0, <1>1, <1>7, <2>1 DEF MasterGone, PowerBye, Attending, Sends
<1>8. CASE Suspend(c)
  <2>1. Moved(c)
    BY <1>0, <1>2, <1>8 DEF Suspend, States, Looping
  <2> QED BY <1>0, <1>8, <2>1 DEF Suspend, Attending, Sends
<1>9. CASE Resume(c)
  BY <1>0, <1>4, <1>9 DEF Resume, Attending
<1>10. CASE Unlock(c)
  <2>1. cmd[c] # "detach"
    BY <1>0, <1>10 DEF Unlock, Looping
  <2>2. CASE Connect(c, "CONT") /\ Move(c, "check") /\ UNCHANGED pend
    <3>1. Moved(c)
      BY <1>2, <2>1, <2>2 DEF States
    <3>2. Sends(c)
      BY <2>1, <2>2 DEF Sends, Fits, Messages
    <3> QED BY <1>0, <1>10, <2>2, <3>1, <3>2 DEF Unlock, Attending
  <2>3. CASE Exit(c) /\ UNCHANGED conns
    BY <1>0, <1>1, <1>10, <2>3 DEF Unlock, Attending, Sends
  <2> QED BY <1>10, <2>2, <2>3 DEF Unlock, Again
<1>11. CASE WaitTest(c)
  <2>1. CASE Exit(c)
    BY <1>0, <1>1, <1>11, <2>1 DEF WaitTest, Attending, Sends
  <2>2. CASE Move(c, "waitready") /\ UNCHANGED pend
    <3>1. Moved(c)
      BY <1>2, <2>2 DEF States, Looping
    <3> QED BY <1>0, <1>11, <2>2, <3>1 DEF WaitTest, Attending, Sends
  <2> QED BY <1>11, <2>1, <2>2 DEF WaitTest
<1>12. CASE WaitPause(c)
  <2>1. Moved(c)
    BY <1>2, <1>12 DEF WaitPause, States, Looping
  <2> QED BY <1>0, <1>12, <2>1 DEF WaitPause, Attending, Sends
<1>13. CASE Bye(c)
  <2>1. st[c] # "idle"
    BY <1>13 DEF Bye, Running, Looping, Waiting
  <2>2. Sends(c)
    BY <1>13 DEF Bye, Sends, Fits, Messages, Asks
  <2> QED BY <1>0, <1>1, <1>13, <2>1, <2>2 DEF Bye, Attending
<1>14. CASE Flag(c)
  <2>1. st[c] # "idle" /\ Moved(c)
    BY <1>0, <1>2, <1>3, <1>14 DEF Flag, States, Looping
  <2> QED BY <1>0, <1>14, <2>1 DEF Flag, Attending, Sends, Signals
<1>15. CASE Cont(c)
  <2>1. st[c] # "idle" /\ Moved(c)
    BY <1>0, <1>2, <1>3, <1>15 DEF Cont, Running, States, Looping, Waiting
  <2>2. flags' \in [Clients -> SUBSET Signals]
    BY <1>0, <1>15 DEF Cont, Signals
  <2> QED BY <1>0, <1>15, <2>1, <2>2 DEF Cont, Attending, Sends
<1> QED BY <1>5, <1>6, <1>7, <1>8, <1>9, <1>10, <1>11, <1>12, <1>13, <1>14, <1>15 DEF ClientStep

\* The connection a client of state "connected" owns stays until it writes.
LEMMA OpenKept ==
  ASSUME conns \in Seq(Conn), NEW c \in Clients, NEW e \in Clients, e # c, Sends(c), OpenOf(e)
  PROVE  OpenOf(e)'
<1>1. PICK k \in DOMAIN conns : conns[k].from = e /\ conns[k].msg = "OPEN"
  BY DEF OpenOf
<1>2. CASE UNCHANGED conns
  BY <1>1, <1>2 DEF OpenOf
<1>3. ASSUME NEW m \in Messages, Opened(c, m) PROVE OpenOf(e)'
  BY <1>1, <1>3, OpenedConns DEF OpenOf
<1>4. ASSUME NEW m \in Messages, Connect(c, m) PROVE OpenOf(e)'
  BY <1>1, <1>4, ConnectConns DEF OpenOf
<1> QED BY <1>2, <1>3, <1>4 DEF Sends

\* Every message in the queue is an old one, or the one just sent.
LEMMA SentConns ==
  ASSUME conns \in Seq(Conn), NEW c \in Clients, Sends(c)
  PROVE  /\ conns' \in Seq(Conn) /\ (conns # <<>> => conns' # <<>>)
         /\ \A k \in DOMAIN conns' :
              \/ k \in DOMAIN conns /\ conns'[k] = conns[k]
              \/ conns'[k].from = c /\ Fits(c, conns'[k].msg)
<1>1. CASE UNCHANGED conns
  BY <1>1
<1>2. ASSUME NEW m \in Messages, Opened(c, m), Fits(c, m)
      PROVE  /\ conns' \in Seq(Conn) /\ (conns # <<>> => conns' # <<>>)
             /\ \A k \in DOMAIN conns' :
                  \/ k \in DOMAIN conns /\ conns'[k] = conns[k]
                  \/ conns'[k].from = c /\ Fits(c, conns'[k].msg)
  <2>1. /\ conns' \in Seq(Conn) /\ DOMAIN conns' = DOMAIN conns
        /\ (conns' = <<>>) <=> (conns = <<>>)
        /\ \A k \in DOMAIN conns : conns'[k] \in {conns[k], [from |-> c, msg |-> m]}
    BY <1>2, OpenedConns
  <2>2. [from |-> c, msg |-> m].from = c /\ [from |-> c, msg |-> m].msg = m
    OBVIOUS
  <2> QED BY <1>2, <2>1, <2>2
<1>3. ASSUME NEW m \in Messages, Connect(c, m), Fits(c, m)
      PROVE  /\ conns' \in Seq(Conn) /\ (conns # <<>> => conns' # <<>>)
             /\ \A k \in DOMAIN conns' :
                  \/ k \in DOMAIN conns /\ conns'[k] = conns[k]
                  \/ conns'[k].from = c /\ Fits(c, conns'[k].msg)
  <2>1. /\ conns' \in Seq(Conn) /\ conns' # <<>>
        /\ \A k \in DOMAIN conns : conns'[k] = conns[k]
        /\ \A k \in DOMAIN conns' : k \in DOMAIN conns \/ conns'[k] = [from |-> c, msg |-> m]
    BY <1>3, ConnectConns
  <2>2. [from |-> c, msg |-> m].from = c /\ [from |-> c, msg |-> m].msg = m
    OBVIOUS
  <2> QED BY <1>3, <2>1, <2>2
<1> QED BY <1>1, <1>2, <1>3 DEF Sends

LEMMA AttendingInv ==
  ASSUME SessionInv, NEW c \in Clients, Attending(c) PROVE SessionInv'
<1>0. /\ UNCHANGED <<auth, alive, socket, mode, displays, authing, request, busy, cmd, keys>>
      /\ st[c] # "idle" /\ Sends(c) /\ conns \in Seq(Conn)
      /\ ConnsFit /\ ClientsFit /\ (busy => conns # <<>>) /\ (~auth => authing = {})
  BY ConnsType DEF SessionInv, Protocol, Attending, server
<1>1. PICK s \in States \ {"idle", "connected"} :
        /\ st' = [st EXCEPT ![c] = s]
        /\ cmd[c] = "detach" => s \notin Looping \cup {"stopped"}
  BY DEF Attending, Moved
<1>2. st \in [Clients -> States] /\ st' \in [Clients -> States]
  BY <1>1 DEF SessionInv, TypeOK
<1>3. /\ conns' \in Seq(Conn) /\ (conns # <<>> => conns' # <<>>)
      /\ \A k \in DOMAIN conns' :
           \/ k \in DOMAIN conns /\ conns'[k] = conns[k]
           \/ conns'[k].from = c /\ Fits(c, conns'[k].msg)
  BY <1>0, SentConns
<1>4. TypeOK'
  <2>1. conns' \in Seq([from : Clients, msg : Messages])
    BY <1>3 DEF Conn
  <2>2. /\ pend' \in [Clients -> SUBSET Signals] /\ flags' \in [Clients -> SUBSET Signals]
    BY DEF Attending
  <2>3. TypeOK
    BY DEF SessionInv
  <2> QED BY <1>0, <1>2, <2>1, <2>2, <2>3 DEF TypeOK
<1>5. ConnsFit'
  <2> SUFFICES ASSUME NEW k \in DOMAIN conns'
               PROVE  (Fits(conns[k].from, conns[k].msg) /\ st[conns[k].from] # "idle")'
    BY DEF ConnsFit
  <2>0. conns'[k] \in Conn
    BY <1>3
  <2>1. conns'[k].from \in Clients
    BY <2>0 DEF Conn
  <2>2. CASE k \in DOMAIN conns /\ conns'[k] = conns[k]
    <3>1. Fits(conns[k].from, conns[k].msg) /\ st[conns[k].from] # "idle"
      BY <1>0, <2>2 DEF ConnsFit
    <3> QED BY <1>0, <1>1, <1>2, <2>1, <2>2, <3>1 DEF Fits
  <2>3. CASE conns'[k].from = c /\ Fits(c, conns'[k].msg)
    BY <1>0, <1>1, <1>2, <2>3 DEF Fits
  <2> QED BY <1>3, <2>2, <2>3
<1>6. ClientsFit'
  <2> SUFFICES ASSUME NEW e \in Clients
               PROVE  /\ st'[e] = "connected" => OpenOf(e)'
                      /\ cmd[e] = "detach" => st'[e] \notin Looping \cup {"stopped"}
                      /\ e \in authing /\ request[e] = "DETACH" => cmd[e] = "detach"
                      /\ e \in displays => st'[e] # "idle" /\ (~auth => cmd[e] # "detach")
    BY <1>0 DEF ClientsFit
  <2>1. CASE e = c
    BY <1>0, <1>1, <1>2, <2>1 DEF ClientsFit
  <2>2. CASE e # c
    <3>1. st'[e] = st[e]
      BY <1>1, <1>2, <2>2
    <3> QED BY <1>0, <2>2, <3>1, OpenKept DEF ClientsFit
  <2> QED BY <2>1, <2>2
<1> QED BY <1>0, <1>3, <1>4, <1>5, <1>6 DEF SessionInv, Protocol

\* FindSocket sets the command of a client that has not done anything yet.
LEMMA FindInv == ASSUME SessionInv, NEW c \in Clients, Find(c) PROVE SessionInv'
<1>0. /\ UNCHANGED <<auth, alive, socket, mode, displays, authing, request, busy, keys, flags>>
      /\ st[c] = "idle" /\ conns \in Seq(Conn)
      /\ st \in [Clients -> States] /\ cmd \in [Clients -> Commands]
      /\ ConnsFit /\ ClientsFit /\ (busy => conns # <<>>) /\ (~auth => authing = {})
  BY ConnsType DEF SessionInv, TypeOK, Protocol, Find, server
<1>1. PICK k \in Commands : cmd' = [cmd EXCEPT ![c] = k]
  BY DEF Find
<1>2. /\ c \notin displays /\ c \notin authing
      /\ \A j \in DOMAIN conns : conns[j].from # c
  BY <1>0 DEF ClientsFit, ConnsFit, SessionInv, TypeOK
<1>3. \/ Connect(c, "OPEN") /\ st' = [st EXCEPT ![c] = "connected"] /\ pend' = pend
      \/ st' = [st EXCEPT ![c] = "exited"] /\ pend' = [pend EXCEPT ![c] = {}]
         /\ conns' = conns
  BY DEF Find, Move, Exit
<1>4. /\ conns' \in Seq(Conn) /\ (conns # <<>> => conns' # <<>>)
      /\ \A j \in DOMAIN conns' : \/ j \in DOMAIN conns /\ conns'[j] = conns[j]
                                  \/ conns'[j] = [from |-> c, msg |-> "OPEN"]
      /\ DOMAIN conns \subseteq DOMAIN conns' /\ \A j \in DOMAIN conns : conns'[j] = conns[j]
      /\ st'[c] = "connected" => \E j \in DOMAIN conns' : conns'[j] = [from |-> c, msg |-> "OPEN"]
  <2>1. CASE Connect(c, "OPEN")
    <3>1. "OPEN" \in Messages
      BY DEF Messages
    <3> QED BY <1>0, <2>1, <3>1, ConnectConns
  <2>2. CASE conns' = conns /\ st' = [st EXCEPT ![c] = "exited"]
    BY <1>0, <2>2
  <2> QED BY <1>3, <2>1, <2>2
<1>5. /\ st' \in [Clients -> States] /\ st'[c] \in {"connected", "exited"}
      /\ \A e \in Clients : e # c => st'[e] = st[e] /\ cmd'[e] = cmd[e]
      /\ cmd' \in [Clients -> Commands]
  BY <1>0, <1>1, <1>3 DEF States
<1>6. TypeOK'
  <2>1. pend' \in [Clients -> SUBSET Signals]
    BY <1>3 DEF SessionInv, TypeOK
  <2>2. conns' \in Seq([from : Clients, msg : Messages])
    BY <1>4 DEF Conn
  <2>3. TypeOK
    BY DEF SessionInv
  <2>4. /\ UNCHANGED <<auth, alive, socket, mode, displays, authing, request, keys, flags>>
        /\ st' \in [Clients -> States] /\ cmd' \in [Clients -> Commands]
    BY <1>0, <1>5
  <2> QED BY <2>1, <2>2, <2>3, <2>4 DEF TypeOK
<1>7. ConnsFit'
  <2> SUFFICES ASSUME NEW j \in DOMAIN conns'
               PROVE  (Fits(conns[j].from, conns[j].msg) /\ st[conns[j].from] # "idle")'
    BY DEF ConnsFit
  <2>1. CASE j \in DOMAIN conns /\ conns'[j] = conns[j]
    <3>0. conns[j] \in Conn
      BY <1>0, <2>1
    <3>1. conns[j].from \in Clients /\ conns[j].from # c
      BY <1>2, <2>1, <3>0 DEF Conn
    <3> QED BY <1>0, <1>5, <2>1, <3>1 DEF ConnsFit, Fits
  <2>2. CASE conns'[j] = [from |-> c, msg |-> "OPEN"]
    BY <1>5, <2>2 DEF Fits, Asks
  <2> QED BY <1>4, <2>1, <2>2
<1>8. ClientsFit'
  <2> SUFFICES ASSUME NEW e \in Clients
               PROVE  /\ st'[e] = "connected" => OpenOf(e)'
                      /\ cmd'[e] = "detach" => st'[e] \notin Looping \cup {"stopped"}
                      /\ e \in authing /\ request[e] = "DETACH" => cmd'[e] = "detach"
                      /\ e \in displays => st'[e] # "idle" /\ (~auth => cmd'[e] # "detach")
    BY <1>0 DEF ClientsFit
  <2>1. CASE e = c
    <3>1. st'[c] = "connected" => OpenOf(c)'
      BY <1>4 DEF OpenOf
    <3> QED BY <1>2, <1>5, <2>1, <3>1 DEF Looping
  <2>2. CASE e # c
    <3>1. OpenOf(e) => OpenOf(e)'
      BY <1>4 DEF OpenOf
    <3> QED BY <1>0, <1>5, <2>2, <3>1 DEF ClientsFit
  <2> QED BY <2>1, <2>2
<1> QED BY <1>0, <1>4, <1>6, <1>7, <1>8 DEF SessionInv, Protocol

\* The daemon's part of the invariant, once its types are known: the queue is
\* the old one or its tail.
LEMMA DaemonInv ==
  ASSUME SessionInv, Settled, UNCHANGED <<auth, st, cmd, flags>>,
         alive' \in BOOLEAN, socket' \in BOOLEAN, keys' \in Nat,
         request' \in [Clients -> Messages],
         \/ UNCHANGED conns
         \/ conns # <<>> /\ conns' = Tail(conns) /\ Head(conns).msg # "OPEN",
         busy' => conns' # <<>>,
         ~auth => authing' = {},
         \A e \in Clients : e \in authing' /\ request'[e] = "DETACH" => cmd[e] = "detach",
         \A e \in displays' : st[e] # "idle" /\ (~auth => cmd[e] # "detach")
  PROVE  SessionInv'
<1>0. /\ conns \in Seq(Conn) /\ ConnsFit /\ ClientsFit /\ TypeOK
  BY ConnsType DEF SessionInv, Protocol
<1>1. /\ conns' \in Seq(Conn)
      /\ \A k \in DOMAIN conns' : \E j \in DOMAIN conns : conns'[k] = conns[j]
      /\ \A k \in DOMAIN conns : conns[k].msg = "OPEN" =>
           \E j \in DOMAIN conns' : conns'[j] = conns[k]
  <2>1. CASE UNCHANGED conns
    BY <1>0, <2>1
  <2>2. CASE conns # <<>> /\ conns' = Tail(conns) /\ Head(conns).msg # "OPEN"
    BY <1>0, <2>2, TailConns
  <2> QED BY <2>1, <2>2
<1>2. TypeOK'
  <2>1. conns' \in Seq([from : Clients, msg : Messages])
    BY <1>1 DEF Conn
  <2>2. /\ displays' \subseteq Clients /\ authing' \subseteq displays'
        /\ mode' \in {"attached", "detached"} /\ pend' \in [Clients -> SUBSET Signals]
    BY DEF Settled
  <2> QED BY <1>0, <2>1, <2>2 DEF TypeOK
<1>3. ConnsFit'
  <2> SUFFICES ASSUME NEW k \in DOMAIN conns'
               PROVE  (Fits(conns[k].from, conns[k].msg) /\ st[conns[k].from] # "idle")'
    BY DEF ConnsFit
  <2>1. PICK j \in DOMAIN conns : conns'[k] = conns[j]
    BY <1>1
  <2> QED BY <1>0, <2>1 DEF ConnsFit, Fits
<1>4. ClientsFit'
  <2> SUFFICES ASSUME NEW e \in Clients
               PROVE  /\ st[e] = "connected" => OpenOf(e)'
                      /\ cmd[e] = "detach" => st[e] \notin Looping \cup {"stopped"}
                      /\ e \in authing' /\ request'[e] = "DETACH" => cmd[e] = "detach"
                      /\ e \in displays' => st[e] # "idle" /\ (~auth => cmd[e] # "detach")
    BY DEF ClientsFit
  <2>1. OpenOf(e) => OpenOf(e)'
    BY <1>1 DEF OpenOf
  <2> QED BY <1>0, <2>1 DEF ClientsFit
<1> QED BY <1>2, <1>3, <1>4 DEF SessionInv, Protocol

\* What becomes of the display and the password prompt of a client that hangs
\* up, or loses its display otherwise.
LEMMA HangUpLeaves ==
  ASSUME NEW c, HangUp(c) PROVE displays' \subseteq displays /\ authing' \subseteq authing
  BY DEF HangUp, DetachAll, FinitAll

\* The state of what the daemon works on, for DaemonInv.
LEMMA DaemonStart ==
  ASSUME SessionInv
  PROVE  /\ TypeOK /\ request \in [Clients -> Messages] /\ displays \subseteq Clients
         /\ authing \subseteq displays
         /\ alive \in BOOLEAN /\ socket \in BOOLEAN /\ keys \in Nat
         /\ ~auth => authing = {}
         /\ \A e \in Clients : e \in authing /\ request[e] = "DETACH" => cmd[e] = "detach"
         /\ \A e \in displays : st[e] # "idle" /\ (~auth => cmd[e] # "detach")
         /\ conns \in Seq(Conn) /\ ConnsFit /\ (busy => conns # <<>>)
  BY ConnsType DEF SessionInv, TypeOK, Protocol, ClientsFit

LEMMA ReceiveInv == ASSUME SessionInv, Receive PROVE SessionInv'
<1> DEFINE c == Head(conns).from
           m == Head(conns).msg
<1>0. /\ TypeOK /\ busy /\ conns # <<>> /\ conns \in Seq(Conn) /\ conns' = Tail(conns)
      /\ m # "OPEN" /\ ~busy' /\ UNCHANGED <<auth, st, cmd, flags, keys>>
  BY DaemonStart DEF Receive, ReadUp, client
<1>1. /\ c \in Clients /\ m \in Messages /\ Fits(c, m) /\ st[c] # "idle"
  <2>1. Head(conns) \in Conn /\ 1 \in DOMAIN conns /\ Head(conns) = conns[1]
    BY <1>0, TailConns
  <2> QED BY <2>1, DaemonStart DEF ConnsFit, Conn
<1>2. \/ HangUp(c)
      \/ /\ TempDisplay(c, m) /\ UNCHANGED <<alive, socket>>
         /\ c \notin authing /\ m \in Asks \cup {"DETACH"}
      \/ UNCHANGED <<alive, socket, mode, displays, authing, request, pend>>
  BY DEF Receive, Asks
<1> HIDE DEF c, m
<1>3. CASE HangUp(c)
  <2>1. /\ Settled /\ alive' \in BOOLEAN /\ socket' \in BOOLEAN /\ request' = request
        /\ displays' \subseteq displays /\ authing' \subseteq authing
    BY <1>0, <1>1, <1>3, HangUpTells, HangUpLeaves
  <2> QED BY <1>0, <2>1, DaemonStart, DaemonInv DEF m
<1>4. CASE /\ TempDisplay(c, m) /\ UNCHANGED <<alive, socket>>
           /\ c \notin authing /\ m \in Asks \cup {"DETACH"}
  <2>1. /\ Settled /\ request' \in [Clients -> Messages]
        /\ displays' \subseteq displays \cup {c}
        /\ ~auth /\ c \in displays' => c \in displays \/ m # "DETACH"
        /\ authing' \subseteq authing \cup {c}
        /\ auth \/ authing' \subseteq authing
        /\ request' = request \/ request' = [request EXCEPT ![c] = m]
        /\ c \in authing' => c \in authing \/ request'[c] = m
    BY <1>0, <1>1, <1>4, TempDisplayTells
  <2>2. ~auth => authing' = {}
    BY <2>1, DaemonStart
  <2>3. ASSUME NEW e \in Clients, e \in authing', request'[e] = "DETACH"
        PROVE  cmd[e] = "detach"
    <3>1. CASE e = c
      BY <1>1, <1>4, <2>1, <2>3, <3>1 DEF Fits
    <3>2. CASE e # c
      <4>1. e \in authing /\ request'[e] = request[e]
        BY <2>1, <2>3, <3>2, DaemonStart
      <4> QED BY <2>3, <4>1, DaemonStart
    <3> QED BY <3>1, <3>2
  <2>4. ASSUME NEW e \in displays' PROVE st[e] # "idle" /\ (~auth => cmd[e] # "detach")
    <3>1. CASE e \in displays
      BY <3>1, DaemonStart
    <3>2. CASE e = c /\ e \notin displays
      BY <1>1, <1>4, <2>1, <2>4, <3>2 DEF Fits
    <3> QED BY <2>1, <2>4, <3>1, <3>2
  <2>5. alive' \in BOOLEAN /\ socket' \in BOOLEAN /\ keys' \in Nat
    BY <1>0, <1>4, DaemonStart
  <2> QED BY <1>0, <2>1, <2>2, <2>3, <2>4, <2>5, DaemonInv DEF m
<1>5. CASE UNCHANGED <<alive, socket, mode, displays, authing, request, pend>>
  <2>1. Settled
    BY <1>0, <1>5 DEF Settled, TypeOK
  <2> QED BY <1>0, <1>5, <2>1, DaemonStart, DaemonInv DEF m
<1> QED BY <1>2, <1>3, <1>4, <1>5

\* A display that gets through the prompt, or does not.
LEMMA PasswordInv == ASSUME SessionInv, NEW c \in Clients, Password(c) PROVE SessionInv'
<1>0. /\ c \in authing /\ c \in displays /\ auth \in BOOLEAN /\ auth
      /\ UNCHANGED <<auth, alive, socket, request, busy, conns, st, cmd, flags, keys>>
  BY DaemonStart DEF Password, client, SessionInv, TypeOK
<1>1. Settled /\ displays' \subseteq displays /\ authing' \subseteq authing
  <2>1. CASE FinishDetach(c, displays)
    BY <2>1, DaemonStart, FinishDetachTells DEF FinishDetach
  <2>2. ASSUME NEW first, NEW m, FinishAttach(c, displays, first, m, pend)
        PROVE  Settled /\ displays' \subseteq displays /\ authing' \subseteq authing
    <3>1. displays \in SUBSET Clients /\ pend \in [Clients -> SUBSET Signals]
      BY DEF SessionInv, TypeOK
    <3>2. Settled /\ displays' \subseteq displays \cup {c} /\ authing' \subseteq authing \ {c}
      BY <2>2, <3>1, DaemonStart, FinishAttachTells
    <3> QED BY <1>0, <3>2
  <2>3. CASE /\ displays' = displays \ {c} /\ authing' = authing \ {c}
             /\ pend' = Signalled(pend, {c}, "BYE") /\ UNCHANGED mode
    <3>1. pend \in [Clients -> SUBSET Signals] /\ "BYE" \in Signals
      BY DEF SessionInv, TypeOK, Signals
    <3>2. /\ pend' \in [Clients -> SUBSET Signals]
          /\ \A e \in Clients : pend[e] \subseteq pend'[e]
      BY <2>3, <3>1, SignalledType
    <3> QED BY <2>3, <3>2 DEF Settled, SessionInv, TypeOK
  <2> DEFINE first == request[c] = "ATTACHFIRST"
  <2>4. \/ FinishDetach(c, displays)
        \/ FinishAttach(c, displays, first, request[c], pend)
        \/ /\ displays' = displays \ {c} /\ authing' = authing \ {c}
           /\ pend' = Signalled(pend, {c}, "BYE") /\ UNCHANGED mode
    BY DEF Password
  <2> HIDE DEF first
  <2> QED BY <2>1, <2>2, <2>3, <2>4
<1>2. \A e \in Clients : e \in authing' /\ request'[e] = "DETACH" => cmd[e] = "detach"
  BY <1>0, <1>1, DaemonStart
<1> QED BY <1>0, <1>1, <1>2, DaemonStart, DaemonInv

LEMMA DaemonSteps ==
  ASSUME SessionInv,
         Accept \/ Terminate \/ Crash \/ \E c \in Clients : TerminalGone(c) \/ Key(c)
  PROVE  SessionInv'
<1>1. CASE Accept
  <2>1. Settled
    BY <1>1, DaemonStart DEF Accept, Settled, TypeOK
  <2> QED BY <1>1, <2>1, DaemonStart, DaemonInv DEF Accept, client
<1>2. CASE Terminate
  <2>1. /\ UNCHANGED <<auth, busy, conns, st, cmd, flags, keys>>
        /\ FinitAll /\ displays' = {} /\ authing' = {}
    BY <1>2 DEF Terminate, FinitAll, client
  <2>2. /\ Settled /\ alive' \in BOOLEAN /\ socket' \in BOOLEAN /\ request' = request
    BY <2>1, DaemonStart, FinitAllTells
  <2> QED BY <2>1, <2>2, DaemonStart, DaemonInv
<1>3. CASE Crash
  <2>1. Settled
    BY <1>3, DaemonStart DEF Crash, Settled, TypeOK
  <2>2. alive' \in BOOLEAN
    BY <1>3 DEF Crash
  <2> QED BY <1>3, <2>1, <2>2, DaemonStart, DaemonInv DEF Crash, client
<1>4. ASSUME NEW c \in Clients, TerminalGone(c) PROVE SessionInv'
  <2>1. /\ UNCHANGED <<auth, busy, conns, st, cmd, flags, keys>> /\ HangUp(c)
    BY <1>4 DEF TerminalGone, client
  <2>2. /\ Settled /\ alive' \in BOOLEAN /\ socket' \in BOOLEAN /\ request' = request
        /\ displays' \subseteq displays /\ authing' \subseteq authing
    BY <2>1, DaemonStart, HangUpTells, HangUpLeaves
  <2> QED BY <2>1, <2>2, DaemonStart, DaemonInv
<1>5. ASSUME NEW c \in Clients, Key(c) PROVE SessionInv'
  <2>1. /\ UNCHANGED <<auth, alive, socket, request, busy, conns, st, cmd, flags>>
        /\ keys' = keys + 1
    BY <1>5 DEF Key, client
  <2>2. PICK s \in Ending : DetachAll({c}, s)
    BY <1>5 DEF Key, Ending
  <2>3. Settled /\ displays' \subseteq displays /\ authing' \subseteq authing
    BY <2>2, DaemonStart, DetachAllTells DEF DetachAll
  <2>4. keys' \in Nat
    BY <2>1, DaemonStart
  <2> QED BY <2>1, <2>3, <2>4, DaemonStart, DaemonInv
<1> QED BY <1>1, <1>2, <1>3, <1>4, <1>5

\* The variables keep their types, and clients send what fits their command.
THEOREM SessionInvariant == Spec => []SessionInv
<1>1. Init => SessionInv
  <2> SUFFICES ASSUME Init PROVE TypeOK /\ Protocol
    BY DEF SessionInv
  <2>1. TypeOK
    BY SessionAssumption DEF Init, TypeOK, Messages, States, Commands, Signals
  <2>2. Protocol
    BY SessionAssumption DEF Init, Protocol, ConnsFit, ClientsFit
  <2> QED BY <2>1, <2>2
<1>2. SessionInv /\ [Next]_vars => SessionInv'
  <2> SUFFICES ASSUME SessionInv, [Next]_vars PROVE SessionInv'
    OBVIOUS
  <2>1. ASSUME NEW c \in Clients, CloseTerminal(c) PROVE SessionInv'
    <3>1. /\ UNCHANGED <<auth, alive, socket, mode, displays, authing, request, busy, conns,
                         st, cmd, flags>>
          /\ keys' \in Nat
          /\ pend' = [pend EXCEPT ![c] = @ \cup {"BYE"}]
      BY <2>1, DaemonStart DEF CloseTerminal, server, client
    <3>2. pend \in [Clients -> SUBSET Signals] /\ "BYE" \in Signals
      BY DEF SessionInv, TypeOK, Signals
    <3>3. Settled
      BY <3>1, <3>2 DEF Settled, SessionInv, TypeOK
    <3> QED BY <3>1, <3>3, DaemonStart, DaemonInv
  <2>2. CASE UNCHANGED vars
    <3>1. Settled
      BY <2>2, DaemonStart DEF vars, server, Settled, TypeOK
    <3> QED BY <2>2, <3>1, DaemonStart, DaemonInv DEF vars, server, client
  <2> QED BY <2>1, <2>2, ClientAttends, AttendingInv, FindInv, ReceiveInv, PasswordInv,
             DaemonSteps
          DEF Next, ServerStep, UserStep
<1> QED BY <1>1, <1>2, PTL DEF Spec

\* The variables keep their types.
THEOREM TypeCorrect == Spec => []TypeOK
<1>1. SessionInv => TypeOK
  BY DEF SessionInv
<1> QED BY <1>1, SessionInvariant, PTL

-----------------------------------------------------------------------------
(* Attachers in their loop                                                 *)

Cared(c) ==
  \/ c \in displays \/ InFlight(c) \/ Ended(pend, c)
  \/ flags[c] \cap {"STOP", "LOCK"} # {}

CaredInv == \A c \in Clients : st[c] \in Looping /\ alive => Cared(c)

\* What an attacher sends takes no request of another away.
LEMMA FlightKept ==
  ASSUME conns \in Seq(Conn), NEW c \in Clients, NEW e \in Clients, e # c, Sends(c), InFlight(e)
  PROVE  InFlight(e)'
<1>1. PICK k \in DOMAIN conns : conns[k].from = e /\ conns[k].msg \in Asks
  BY DEF InFlight, Asks
<1>2. CASE UNCHANGED conns
  BY <1>1, <1>2 DEF InFlight, Asks
<1>3. ASSUME NEW m \in Messages, Opened(c, m) PROVE InFlight(e)'
  BY <1>1, <1>3, OpenedConns DEF InFlight, Asks
<1>4. ASSUME NEW m \in Messages, Connect(c, m) PROVE InFlight(e)'
  BY <1>1, <1>4, ConnectConns DEF InFlight, Asks
<1> QED BY <1>2, <1>3, <1>4 DEF Sends

LEMMA AskFlies ==
  ASSUME conns \in Seq(Conn), NEW c \in Clients, NEW m \in Asks,
         Connect(c, m) \/ (Opened(c, m) /\ OpenOf(c))
  PROVE  InFlight(c)'
<1>1. m \in Messages
  BY DEF Asks, Messages
<1>2. \A x : x = [from |-> c, msg |-> m] => x.from = c /\ x.msg = m
  OBVIOUS
<1>3. CASE Connect(c, m)
  <2>1. \E k \in DOMAIN conns' : conns'[k] = [from |-> c, msg |-> m]
    BY <1>1, <1>3, ConnectConns
  <2> QED BY <1>2, <2>1 DEF InFlight, Asks
<1>4. CASE Opened(c, m) /\ OpenOf(c)
  <2>1. \E k \in DOMAIN conns' : conns'[k] = [from |-> c, msg |-> m]
    BY <1>1, <1>4, OpenedConns DEF OpenOf
  <2> QED BY <1>2, <2>1 DEF InFlight, Asks
<1> QED BY <1>3, <1>4

\* A step of an attacher is about its own signals and flags.
LEMMA ClientLocal ==
  ASSUME TypeOK, NEW c \in Clients, ClientStep(c), NEW e \in Clients, e # c
  PROVE  pend'[e] = pend[e] /\ flags'[e] = flags[e] /\ st'[e] = st[e]
  BY DEF ClientStep, TypeOK, Ask, Pause, Alarm, MasterGone, Suspend, Resume, Unlock, Loop,
         WaitTest, WaitPause, Bye, PowerBye, Flag, Cont, Again, Exit, Move

\* An attacher enters the loop with a request on its way, and leaves signals
\* and flags that end it for the tests of the loop.
LEMMA ClientCared ==
  ASSUME SessionInv, NEW c \in Clients, ClientStep(c), st'[c] \in Looping, alive,
         st[c] \in Looping => Cared(c)
  PROVE  Cared(c)'
<1>0. conns \in Seq(Conn) /\ (st[c] = "connected" => OpenOf(c))
  BY DaemonStart DEF SessionInv, Protocol, ClientsFit
<1>1. /\ st \in [Clients -> States] /\ cmd[c] \in Commands
      /\ pend \in [Clients -> SUBSET Signals] /\ flags \in [Clients -> SUBSET Signals]
      /\ UNCHANGED displays
  BY ClientAttends DEF SessionInv, TypeOK, Attending, server
<1>2. \A s : Move(c, s) => st'[c] = s
  BY <1>1 DEF Move
<1>3. ~Exit(c)
  BY <1>2 DEF Exit, Looping
<1>4. CASE Ask(c)
  <2>1. /\ Opened(c, Request(c)) /\ cmd[c] # "detach" /\ st[c] = "connected"
    BY <1>2, <1>3, <1>4 DEF Ask, Looping
  <2>2. Request(c) \in Asks
    BY <2>1 DEF Request, Asks
  <2> QED BY <1>0, <2>1, <2>2, AskFlies DEF Cared
<1>5. CASE Pause(c) \/ Alarm(c) \/ Loop(c)
  <2>1. st[c] \in Looping /\ UNCHANGED <<conns, flags, pend>>
    BY <1>5 DEF Pause, Alarm, Loop, Looping
  <2> QED BY <1>1, <2>1 DEF Cared, InFlight, Ended
<1>6. CASE Resume(c) \/ Unlock(c)
  <2>1. Connect(c, "CONT")
    BY <1>3, <1>6 DEF Resume, Unlock, Again
  <2> QED BY <1>0, <2>1, AskFlies DEF Cared, Asks
<1>7. CASE Flag(c)
  <2>1. PICK s \in {"STOP", "LOCK"} : s \in flags'[c]
    BY <1>1, <1>7 DEF Flag
  <2> QED BY <2>1 DEF Cared
<1>8. CASE Cont(c)
  <2>1. st[c] \in Looping
    BY <1>2, <1>8 DEF Cont, Running, Looping, Waiting
  <2>2. UNCHANGED <<conns, flags>> /\ pend' = [pend EXCEPT ![c] = @ \ {"CONT"}]
    BY <1>8, <2>1 DEF Cont
  <2>3. Ended(pend, c) => Ended(pend', c)
    BY <1>1, <2>2 DEF Ended, Ending
  <2> QED BY <1>1, <2>1, <2>2, <2>3 DEF Cared, InFlight
<1>9. ~(MasterGone(c) \/ Suspend(c) \/ WaitTest(c) \/ WaitPause(c) \/ Bye(c) \/ PowerBye(c))
  BY <1>2, <1>3 DEF MasterGone, Suspend, WaitTest, WaitPause, Bye, PowerBye, Looping
<1> QED BY <1>4, <1>5, <1>6, <1>7, <1>8, <1>9 DEF ClientStep

LEMMA AttendingOrphans ==
  ASSUME SessionInv, CaredInv, NEW c \in Clients, ClientStep(c) PROVE CaredInv'
<1>1. /\ UNCHANGED <<alive, displays>> /\ Sends(c) /\ conns \in Seq(Conn)
  BY ClientAttends, DaemonStart DEF Attending, server
<1>2. ASSUME NEW e \in Clients, st'[e] \in Looping /\ alive' PROVE Cared(e)'
  <2>1. st[e] \in Looping => Cared(e)
    BY <1>1, <1>2 DEF CaredInv
  <2>2. CASE e = c
    BY <1>1, <1>2, <2>1, <2>2, ClientCared
  <2>3. CASE e # c
    <3>1. pend'[e] = pend[e] /\ flags'[e] = flags[e] /\ st'[e] = st[e]
      BY <2>3, ClientLocal DEF SessionInv
    <3>2. InFlight(e) => InFlight(e)'
      BY <1>1, <2>3, FlightKept
    <3> QED BY <1>1, <1>2, <2>1, <3>1, <3>2 DEF Cared, Ended
  <2> QED BY <2>2, <2>3
<1> QED BY <1>2 DEF CaredInv

\* The daemon's part, once it is known whom it tells: the request taken from the
\* queue has been answered, and the others are still there.
LEMMA DaemonCares ==
  ASSUME SessionInv, CaredInv, UNCHANGED <<st, flags>>, alive' => alive,
         \A e \in Clients : pend[e] \subseteq pend'[e],
         \A e \in displays : st[e] \in Looping => Told(e),
         \/ UNCHANGED conns
         \/ /\ conns # <<>> /\ conns' = Tail(conns)
            /\ LET c == Head(conns).from
               IN  Head(conns).msg \in Asks => c \in displays \/ Told(c)
  PROVE  CaredInv'
<1> SUFFICES ASSUME NEW e \in Clients, st[e] \in Looping, alive, alive' PROVE Cared(e)'
  BY DEF CaredInv
<1>1. Ended(pend, e) => Ended(pend', e)
  BY DEF Ended
<1>2. Told(e) => Cared(e)'
  BY DEF Told, Cared, Looping
<1>3. e \in displays => Cared(e)'
  BY <1>2
<1>4. InFlight(e) => InFlight(e)' \/ e \in displays \/ Told(e)
  <2> SUFFICES ASSUME NEW k \in DOMAIN conns, conns[k].from = e, conns[k].msg \in Asks
               PROVE  InFlight(e)' \/ e \in displays \/ Told(e)
    BY DEF InFlight, Asks
  <2>1. CASE UNCHANGED conns
    BY <2>1 DEF InFlight, Asks
  <2>2. CASE /\ conns # <<>> /\ conns' = Tail(conns)
             /\ LET c == Head(conns).from
                IN  Head(conns).msg \in Asks => c \in displays \/ Told(c)
    <3>1. CASE k = 1
      <4>1. Head(conns) = conns[1]
        BY <2>2, DaemonStart, TailConns
      <4> QED BY <2>2, <3>1, <4>1
    <3>2. CASE k # 1
      <4>1. \E j \in DOMAIN conns' : conns'[j] = conns[k]
        BY <2>2, <3>2, DaemonStart, TailConns
      <4> QED BY <4>1 DEF InFlight, Asks
    <3> QED BY <3>1, <3>2
  <2> QED BY <2>1, <2>2
<1>5. Cared(e)
  BY DEF CaredInv
<1> QED BY <1>1, <1>2, <1>3, <1>4, <1>5 DEF Cared

LEMMA ReceiveCares == ASSUME SessionInv, CaredInv, Receive PROVE CaredInv'
<1> DEFINE c == Head(conns).from
           m == Head(conns).msg
<1>0. /\ TypeOK /\ conns # <<>> /\ conns' = Tail(conns) /\ UNCHANGED <<st, flags>>
  BY DaemonStart DEF Receive, client
<1>1. c \in Clients /\ m \in Messages
  <2>1. Head(conns) \in Conn
    BY <1>0, DaemonStart, TailConns
  <2> QED BY <2>1 DEF Conn
<1>2. \/ HangUp(c) /\ m = "HANGUP"
      \/ /\ TempDisplay(c, m) /\ UNCHANGED <<alive, socket>>
         /\ m \in Asks \cup {"DETACH"}
      \/ /\ UNCHANGED <<alive, socket, mode, displays, authing, request, pend>>
         /\ m \in Asks => c \in displays \/ st[c] = "exited"
  BY DaemonStart DEF Receive, Asks
<1>3. \A e \in displays : UNCHANGED displays => Told(e)
  BY DEF Told
<1> DEFINE answered == m \in Asks => c \in displays \/ Told(c)
<1>4. /\ \A e \in Clients : pend[e] \subseteq pend'[e]
      /\ \A e \in displays : Told(e)
      /\ alive' => alive
      /\ answered
  <2>1. CASE HangUp(c) /\ m = "HANGUP"
    BY <1>0, <1>1, <2>1, HangUpTells DEF Asks, Settled
  <2>2. CASE TempDisplay(c, m) /\ UNCHANGED <<alive, socket>> /\ m \in Asks \cup {"DETACH"}
    BY <1>0, <1>1, <2>2, TempDisplayTells DEF Asks, Settled
  <2>3. CASE /\ UNCHANGED <<alive, socket, mode, displays, authing, request, pend>>
             /\ m \in Asks => c \in displays \/ st[c] = "exited"
    BY <1>3, <2>3 DEF Told
  <2> QED BY <1>2, <2>1, <2>2, <2>3
<1> QED BY <1>0, <1>4, DaemonCares

LEMMA PasswordCares ==
  ASSUME SessionInv, CaredInv, NEW c \in Clients, Password(c) PROVE CaredInv'
<1>0. /\ TypeOK /\ c \in authing /\ c \in displays /\ displays \in SUBSET Clients
      /\ pend \in [Clients -> SUBSET Signals]
      /\ UNCHANGED <<alive, conns, st, flags>>
  BY DaemonStart DEF Password, client, TypeOK
<1>1. /\ \A e \in Clients : pend[e] \subseteq pend'[e]
      /\ \A e \in displays : st[e] \in Looping => Told(e)
  <2>1. CASE request[c] = "DETACH" /\ FinishDetach(c, displays)
    <3>1. st[c] \notin Looping
      BY <1>0, <2>1, DaemonStart DEF SessionInv, Protocol, ClientsFit
    <3> QED BY <1>0, <2>1, <3>1, FinishDetachTells DEF Settled
  <2>2. ASSUME NEW first, NEW m, FinishAttach(c, displays, first, m, pend)
        PROVE  /\ \A e \in Clients : pend[e] \subseteq pend'[e]
               /\ \A e \in displays : Told(e)
    BY <1>0, <2>2, FinishAttachTells DEF Settled
  <2>3. CASE displays' = displays \ {c} /\ pend' = Signalled(pend, {c}, "BYE")
    <3>1. "BYE" \in Signals /\ "BYE" \in Ending
      BY DEF Signals, Ending
    <3>2. /\ \A e \in Clients : pend[e] \subseteq pend'[e]
          /\ st[c] # "exited" => "BYE" \in pend'[c]
      BY <1>0, <2>3, <3>1, SignalledType
    <3> QED BY <2>3, <3>1, <3>2 DEF Told, Ended
  <2> DEFINE first == request[c] = "ATTACHFIRST"
  <2>4. \/ request[c] = "DETACH" /\ FinishDetach(c, displays)
        \/ FinishAttach(c, displays, first, request[c], pend)
        \/ displays' = displays \ {c} /\ pend' = Signalled(pend, {c}, "BYE")
    BY DEF Password
  <2> HIDE DEF first
  <2> QED BY <2>1, <2>2, <2>3, <2>4
<1> QED BY <1>0, <1>1, DaemonCares

\* No attacher is left behind in its loop (ReceiveMsg, FinishAttach,
\* FinishDetach, Detach, Attacher): whatever takes its display away tells it.
THEOREM NoAttacherIsOrphaned == Spec => []NoOrphan
<1>1. Init => CaredInv
  BY SessionAssumption DEF Init, CaredInv, Cared, Looping
<1>2. SessionInv /\ CaredInv /\ [Next]_vars => CaredInv'
  <2> SUFFICES ASSUME SessionInv, CaredInv, [Next]_vars PROVE CaredInv'
    OBVIOUS
  <2>0. TypeOK /\ \A e \in displays : UNCHANGED displays => Told(e)
    BY DEF SessionInv, Told
  <2>1. CASE Accept \/ Crash \/ UNCHANGED vars
    <3>1. UNCHANGED <<st, flags, displays, pend, conns>> /\ (alive' => alive)
      BY <2>1 DEF Accept, Crash, vars, server, client
    <3> QED BY <2>0, <3>1, DaemonCares
  <2>2. CASE Terminate
    BY <2>2 DEF Terminate, FinitAll, CaredInv
  <2>3. ASSUME NEW c \in Clients, TerminalGone(c) PROVE CaredInv'
    <3>1. HangUp(c) /\ UNCHANGED <<st, flags, conns>>
      BY <2>3 DEF TerminalGone, client
    <3> QED BY <2>0, <3>1, HangUpTells, DaemonCares DEF Settled
  <2>4. ASSUME NEW c \in Clients, Key(c) PROVE CaredInv'
    <3>1. UNCHANGED <<st, flags, conns, alive>>
      BY <2>4 DEF Key, client
    <3>2. PICK s \in Ending : DetachAll({c}, s)
      BY <2>4 DEF Key, Ending
    <3> QED BY <2>0, <3>1, <3>2, DetachAllTells, DaemonCares DEF Settled
  <2>5. ASSUME NEW c \in Clients, Find(c) PROVE CaredInv'
    <3>1. /\ UNCHANGED <<alive, displays, flags>> /\ conns \in Seq(Conn)
          /\ st[c] = "idle" /\ st \in [Clients -> States]
          /\ pend \in [Clients -> SUBSET Signals]
      BY <2>5, DaemonStart DEF Find, server, TypeOK
    <3>2. \/ Connect(c, "OPEN") /\ st' = [st EXCEPT ![c] = "connected"] /\ pend' = pend
          \/ /\ st' = [st EXCEPT ![c] = "exited"] /\ pend' = [pend EXCEPT ![c] = {}]
             /\ conns' = conns
      BY <2>5 DEF Find, Move, Exit
    <3>3. Sends(c)
      BY <3>2 DEF Sends, Fits, Messages, Asks
    <3> SUFFICES ASSUME NEW e \in Clients, st'[e] \in Looping, alive' PROVE Cared(e)'
      BY DEF CaredInv
    <3>4. e # c /\ st'[e] = st[e] /\ pend'[e] = pend[e]
      BY <3>1, <3>2 DEF Looping
    <3>5. Cared(e)
      BY <3>1, <3>4 DEF CaredInv
    <3>6. InFlight(e) => InFlight(e)'
      BY <3>1, <3>3, <3>4, FlightKept
    <3> QED BY <3>1, <3>4, <3>5, <3>6 DEF Cared, Ended
  <2>6. ASSUME NEW c \in Clients, CloseTerminal(c) PROVE CaredInv'
    <3>1. /\ UNCHANGED <<st, flags, conns, alive, displays>>
          /\ pend' = [pend EXCEPT ![c] = @ \cup {"BYE"}]
      BY <2>6 DEF CloseTerminal, server, client
    <3>2. \A e \in Clients : pend[e] \subseteq pend'[e]
      BY <2>0, <3>1 DEF TypeOK
    <3> QED BY <2>0, <3>1, <3>2, DaemonCares
  <2> QED BY <2>1, <2>2, <2>3, <2>4, <2>5, <2>6, AttendingOrphans, ReceiveCares, PasswordCares
          DEF Next, ServerStep, UserStep
<1>3. CaredInv => NoOrphan
  BY DEF CaredInv, NoOrphan, Cared, Ended, Ending
<1> QED BY <1>1, <1>2, <1>3, SessionInvariant, PTL DEF Spec

-----------------------------------------------------------------------------
(* The mode of the socket                                                  *)

Tells == (mode = "attached" <=> displays # {}) /\ mode \in {"attached", "detached"}
ModeInv == ~auth /\ alive /\ socket => Tells

LEMMA ModeAfterDetach ==
  ASSUME Tells, NEW c \in Clients, c \in displays, NEW s, DetachAll({c}, s) PROVE Tells'
<1>1. /\ displays' = displays \ {c} /\ displays # {} /\ {c} # {}
      /\ mode' = IF {c} # {} /\ displays \ {c} = {} THEN "detached" ELSE mode
  BY DEF DetachAll, SocketMode
<1>2. mode' = IF displays' = {} THEN "detached" ELSE mode
  BY <1>1
<1>3. mode = "attached"
  BY <1>1 DEF Tells
<1> QED BY <1>2, <1>3 DEF Tells

LEMMA ModeAfterHangUp ==
  ASSUME Tells, NEW c \in Clients, c \in displays, HangUp(c), alive' PROVE Tells'
<1>1. CASE DetachAll({c}, "BYE")
  BY <1>1, ModeAfterDetach
<1>2. CASE FinitAll
  BY <1>2 DEF FinitAll
<1> QED BY <1>1, <1>2 DEF HangUp

LEMMA ModeAfterAttach ==
  ASSUME Tells, NEW c, c \notin displays, NEW first, NEW m, NEW p,
         FinishAttach(c, displays \cup {c}, first, m, p)
  PROVE  Tells'
<1> DEFINE others == IF first THEN {} ELSE (displays \cup {c}) \ {c}
           gone == (displays \cup {c}) \ (others \cup {c})
           mode1 == IF gone # {} THEN SocketMode({}) ELSE mode
<1>1. \/ displays' = others \cup {c}
         /\ mode' = IF others = {} THEN SocketMode({c}) ELSE mode1
      \/ displays' = others /\ mode' = mode1
  BY DEF FinishAttach
<1>2. \/ others = {} /\ gone = displays
      \/ others = displays /\ gone = {}
  OBVIOUS
<1>3. SocketMode({}) = "detached" /\ SocketMode({c}) = "attached"
  BY DEF SocketMode
<1> HIDE DEF others, gone
<1>4. mode1 = IF gone # {} THEN "detached" ELSE mode
  BY <1>3
<1> HIDE DEF mode1
<1> QED BY <1>1, <1>2, <1>3, <1>4 DEF Tells

LEMMA ModeAfterDisplay ==
  ASSUME SessionInv, ~auth, Tells, NEW c \in Clients, NEW m, TempDisplay(c, m), Fits(c, m)
  PROVE  Tells'
<1> DEFINE p == IF m # "DETACH" THEN Signalled(pend, {c}, "CONT") ELSE pend
           first == m = "ATTACHFIRST"
<1>1. \/ UNCHANGED <<displays, mode>>
      \/ /\ FinishAttach(c, displays \cup {c}, first, m, p)
         /\ ~(m # "DETACH" /\ c \in displays)
  BY DEF TempDisplay
<1>2. c \in displays => cmd[c] # "detach"
  BY DaemonStart
<1> HIDE DEF p, first
<1> QED BY <1>1, <1>2, ModeAfterAttach DEF Fits, Tells

\* Without a password the mode of the socket says whether a display is up
\* (chsock, MakeServerSocket; Detach, FinishAttach): clients of -r and -d go by
\* it before they ask.
THEOREM ModeIsState == Spec => []ModeTellsState
<1>1. Init => ModeInv
  BY DEF Init, ModeInv, Tells
<1>2. SessionInv /\ ModeInv /\ [Next]_vars => ModeInv'
  <2> SUFFICES ASSUME SessionInv, ModeInv, [Next]_vars, ~auth', alive', socket'
               PROVE  Tells'
    BY DEF ModeInv
  <2>0. auth' = auth /\ (alive' => alive) /\ (socket' => socket)
    BY DEF Next, ServerStep, UserStep, ClientStep, Accept, Receive, TerminalGone, Terminate,
           Crash, Find, Password, Key, CloseTerminal, Ask, Pause, Alarm, MasterGone, Suspend,
           Resume, Unlock, Loop, WaitTest, WaitPause, Bye, PowerBye, Flag, Cont, FinitAll,
           HangUp, vars, server
  <2>1. Tells /\ ~auth /\ authing = {}
    BY <2>0 DEF ModeInv, SessionInv, Protocol
  <2>2. CASE UNCHANGED <<displays, mode>>
    BY <2>1, <2>2 DEF Tells
  <2>3. CASE Receive
    <3> DEFINE c == Head(conns).from
               m == Head(conns).msg
    <3>1. c \in Clients /\ Fits(c, m)
      <4>1. conns # <<>> /\ conns' = Tail(conns) /\ conns \in Seq(Conn)
        BY <2>3, DaemonStart DEF Receive
      <4>2. Head(conns) \in Conn /\ 1 \in DOMAIN conns /\ Head(conns) = conns[1]
        BY <4>1, TailConns
      <4> QED BY <4>2, DaemonStart DEF ConnsFit, Conn
    <3>2. \/ HangUp(c) /\ c \in displays
          \/ TempDisplay(c, m)
          \/ UNCHANGED <<displays, mode>>
      BY <2>3 DEF Receive
    <3> HIDE DEF c, m
    <3> QED BY <2>1, <2>2, <3>1, <3>2, ModeAfterHangUp, ModeAfterDisplay
  <2>4. ASSUME NEW c \in Clients, TerminalGone(c) PROVE Tells'
    BY <2>1, <2>4, ModeAfterHangUp DEF TerminalGone
  <2>5. ASSUME NEW c \in Clients, Key(c) PROVE Tells'
    <3>1. c \in displays
      BY <2>5 DEF Key, On
    <3>2. PICK s : DetachAll({c}, s)
      BY <2>5 DEF Key
    <3> QED BY <2>1, <3>1, <3>2, ModeAfterDetach
  <2>6. ASSUME NEW c \in Clients, Password(c) PROVE Tells'
    BY <2>1, <2>6 DEF Password
  <2>7. CASE Terminate
    BY <2>7 DEF Terminate, FinitAll
  <2>8. ASSUME NEW c \in Clients, ClientStep(c) PROVE Tells'
    BY <2>2, <2>8, ClientAttends DEF Attending, server
  <2>9. ASSUME NEW c \in Clients, Find(c) \/ CloseTerminal(c) PROVE Tells'
    BY <2>2, <2>9 DEF Find, CloseTerminal, server
  <2>10. CASE Accept \/ Crash \/ UNCHANGED vars
    BY <2>2, <2>10 DEF Accept, Crash, vars, server
  <2> QED BY <2>3, <2>4, <2>5, <2>6, <2>7, <2>8, <2>9, <2>10 DEF Next, ServerStep, UserStep
<1>3. SessionInv /\ ModeInv => ModeTellsState
  BY DEF SessionInv, Protocol, ModeInv, Tells, ModeTellsState, On
<1> QED BY <1>1, <1>2, <1>3, SessionInvariant, PTL DEF Spec
=============================================================================

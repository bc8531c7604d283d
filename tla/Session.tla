------------------------------ MODULE Session ------------------------------
(***************************************************************************)
(* Attaching to a session and leaving it: the daemon (the backend), which  *)
(* owns the displays, and the attachers, one process on each user's        *)
(* terminal (socket.c, attacher.c, and Detach, Hangup and Finit of         *)
(* screen.c).                                                              *)
(*                                                                         *)
(* They talk in three ways: an attacher connects to the session's socket   *)
(* and writes one message; the daemon answers with signals only; and the   *)
(* mode bits of the socket say whether the session is attached.            *)
(***************************************************************************)
EXTENDS Integers, Sequences

CONSTANTS
  Clients,      \* the attachers, each on a terminal of its own
  Creator,      \* the attacher that started the session
  AuthSettings, \* the values of the auth command that are looked at
  AutoDetach,   \* the autodetach setting
  MaxConns,     \* bound on the connections in the listen queue
  MaxKeys       \* bound on the detach, stop and lock keys of all users

ASSUME SessionAssumption ==
  /\ Creator \in Clients
  /\ AuthSettings \subseteq BOOLEAN /\ AutoDetach \in BOOLEAN
  /\ MaxConns \in Nat /\ MaxKeys \in Nat

\* The command line: -r, -x, -d, -d -r.
Commands == {"resume", "share", "detach", "takeover"}
Signals == {"CONT", "BYE", "POWER", "LOCK", "STOP"}
\* OPEN: connected, nothing written yet; CLOSED: closed without a message.
Messages == {"OPEN", "CLOSED", "ATTACH", "ATTACHFIRST", "CONT", "DETACH", "HANGUP"}
\* The states of an attacher.  "tested" and "paused" are before and inside
\* pause() in the main loop; "waittest", "waitready" and "waitpause" are the
\* test, the gap after it and the pause() of a client of -d.
States == {"idle", "connected", "check", "tested", "paused", "stopped",
           "waittest", "waitready", "waitpause", "exited"}
Looping == {"check", "tested", "paused"}
Waiting == {"waittest", "waitready", "waitpause"}

VARIABLES
  auth,         \* do_auth: clients are asked for a password
  alive,        \* the daemon runs
  socket,       \* the socket file exists
  mode,         \* its mode: "attached" (0700) or "detached" (0600)
  displays,     \* the clients with a display
  authing,      \* those of them still asked for the password
  request,      \* the message the password prompt holds back, per client
  busy,         \* the daemon has accepted the first of conns and reads it
  conns,        \* connections not yet accepted: [from, msg]
  st,           \* state of every attacher
  cmd,          \* its command
  pend,         \* signals pending for it
  flags,        \* ContinuePlease, SuspendPlease, LockPlease
  keys          \* keys pressed so far (bound)

server == <<auth, alive, socket, mode, displays, authing, request, busy>>
client == <<st, cmd, flags>>
vars == <<server, conns, client, pend, keys>>

On == displays \ authing

Init ==
  /\ auth \in AuthSettings
  /\ alive = TRUE /\ socket = TRUE /\ mode = "attached"
  /\ displays = {Creator} /\ authing = {}
  /\ request = [c \in Clients |-> "ATTACH"]
  /\ busy = FALSE /\ conns = <<>>
  /\ st = [c \in Clients |-> IF c = Creator THEN "check" ELSE "idle"]
  /\ cmd = [c \in Clients |-> "share"]
  /\ pend = [c \in Clients |-> {}]
  /\ flags = [c \in Clients |-> {}]
  /\ keys = 0

-----------------------------------------------------------------------------
(* The daemon                                                              *)

\* Kill(pid, sig) for every client of a set; the dead get nothing.
Signalled(p, C, s) ==
  [c \in Clients |-> IF c \in C /\ st[c] # "exited" THEN p[c] \cup {s} ELSE p[c]]

SocketMode(D) == IF D = {} THEN "detached" ELSE "attached"

DetachAllMode(C, s) ==  \* mutant: the socket's mode is left as it is
  /\ displays' = displays \ C /\ authing' = authing \ C
  /\ mode' = mode
  /\ pend' = Signalled(pend, C, s)

\* Detach() of the displays of C, the mode of the socket being changed
\* when the last display is gone.
DetachAll(C, s) ==
  /\ displays' = displays \ C
  /\ authing' = authing \ C
  /\ mode' = IF C # {} /\ displays \ C = {} THEN SocketMode({}) ELSE mode
  /\ pend' = Signalled(pend, C, s)

\* Finit(): the socket is removed, every attacher told to go.
FinitAll ==
  /\ alive' = FALSE /\ socket' = FALSE
  /\ displays' = {} /\ authing' = {}
  /\ pend' = Signalled(pend, displays, "BYE")
  /\ UNCHANGED <<mode, request>>

\* Hangup() of the display of c.
HangUp(c) ==
  IF AutoDetach \/ displays # {c}
    THEN DetachAll({c}, "BYE") /\ UNCHANGED <<alive, socket, request>>
    ELSE FinitAll

FinishAttachMute(c, D, first, m, p) ==  \* mutant: a failed attach is not told
  LET others == IF first THEN {} ELSE D \ {c}
      gone == D \ (others \cup {c})
  IN  /\ \/ displays' = others \cup {c} /\ m # "DETACH"
         \/ displays' = others
      /\ authing' = authing \cap others
      /\ mode' = SocketMode(displays')
      /\ pend' = Signalled(p, gone, "BYE")

\* FinishAttach() for the display of c, in D.  With "first" the others are
\* detached before; the terminal may turn out to be unknown or, for a -d
\* client, which sends no terminal type, does.
FinishAttach(c, D, first, m, p) ==
  LET others == IF first THEN {} ELSE D \ {c}
      gone == D \ (others \cup {c})
      mode1 == IF gone # {} THEN SocketMode({}) ELSE mode
      told == Signalled(p, gone, "BYE")
  IN  \/ /\ displays' = others \cup {c}
         /\ authing' = authing \cap others
         /\ mode' = IF others = {} THEN SocketMode({c}) ELSE mode1
         /\ pend' = told
         /\ m # "DETACH"
      \/ /\ displays' = others
         /\ authing' = authing \cap others
         /\ mode' = mode1
         /\ pend' = Signalled(told, {c}, "BYE")

\* FinishDetach() for a -d client c whose temporary display is in D: every
\* other display is detached, the client told to go on.
FinishDetach(c, D) ==
  /\ displays' = {} /\ authing' = {}
  /\ mode' = IF D \ {c} # {} THEN SocketMode({}) ELSE mode
  /\ pend' = Signalled(Signalled(pend, D \ {c}, "BYE"), {c}, "CONT")

\* CreateTempDisplay() and what follows it in ReceiveMsg, for a client that
\* is alive.  An attacher hears SIGCONT at once, and SIG_BYE if its
\* terminal has a display already.
TempDisplay(c, m) ==
  LET attach == m # "DETACH"
      p == IF attach THEN Signalled(pend, {c}, "CONT") ELSE pend
  IN  IF attach /\ c \in displays
        THEN pend' = Signalled(p, {c}, "BYE")
             /\ UNCHANGED <<displays, authing, mode, request>>
      ELSE IF auth
        THEN /\ displays' = displays \cup {c}
             /\ authing' = authing \cup {c}
             /\ request' = [request EXCEPT ![c] = m]
             /\ pend' = p
             /\ UNCHANGED mode
        ELSE /\ FinishAttach(c, displays \cup {c}, m = "ATTACHFIRST", m, p)
             /\ UNCHANGED request

\* ReceiveMsg(): the daemon accepts the connection at the head of the queue
\* and does nothing else until its message is there.
Accept ==
  /\ alive /\ ~busy /\ conns # <<>>
  /\ busy' = TRUE
  /\ UNCHANGED <<auth, alive, socket, mode, displays, authing, request, conns,
                 client, pend, keys>>

ReadUpRetry(m) ==  \* mutant: end of file is taken for an interrupted read
  m \notin {"OPEN", "CLOSED"}

\* The loops that read the message are left at its end, or at the file's.
ReadUp(m) == m # "OPEN"

Receive ==
  /\ alive /\ busy
  /\ LET c == Head(conns).from
         m == Head(conns).msg
     IN  /\ ReadUp(m)
         /\ conns' = Tail(conns) /\ busy' = FALSE
         /\ CASE m = "HANGUP" /\ c \in displays -> HangUp(c)
              [] /\ m \in {"ATTACH", "ATTACHFIRST", "CONT", "DETACH"}
                 /\ c \notin authing
                 /\ ~(m = "CONT" /\ c \in displays)
                 /\ st[c] # "exited" ->
                   TempDisplay(c, m) /\ UNCHANGED <<alive, socket>>
              [] OTHER -> UNCHANGED <<alive, socket, mode, displays, authing,
                                      request, pend>>
  /\ UNCHANGED <<auth, client, keys>>

\* PasswordProcessInput(): the right password, or a wrong one or ^C.
Password(c) ==
  /\ alive /\ ~busy /\ c \in authing
  /\ \/ LET m == request[c]
        IN  IF m = "DETACH" THEN FinishDetach(c, displays)
            ELSE FinishAttach(c, displays, m = "ATTACHFIRST", m, pend)
     \/ /\ displays' = displays \ {c} /\ authing' = authing \ {c}
        /\ pend' = Signalled(pend, {c}, "BYE")
        /\ UNCHANGED mode
  /\ UNCHANGED <<auth, alive, socket, request, busy, conns, client, keys>>

\* The detach, power detach, suspend and lock commands on a display.
Key(c) ==
  /\ alive /\ ~busy /\ c \in On /\ keys < MaxKeys
  /\ keys' = keys + 1
  /\ \E s \in {"BYE", "POWER", "STOP", "LOCK"} : DetachAll({c}, s)
  /\ UNCHANGED <<auth, alive, socket, request, busy, conns, client>>

TerminalGoneUp(c) ==  \* mutant: not noticed at the password prompt
  /\ alive /\ ~busy /\ c \in On /\ st[c] = "exited"
  /\ HangUp(c)
  /\ UNCHANGED <<auth, busy, conns, client, keys>>

\* The daemon reads end of file from the terminal of an exited attacher.
TerminalGone(c) ==
  /\ alive /\ ~busy /\ c \in displays /\ st[c] = "exited"
  /\ HangUp(c)
  /\ UNCHANGED <<auth, busy, conns, client, keys>>

\* The last window closes, or the daemon is killed.
Terminate ==
  /\ alive /\ ~busy
  /\ FinitAll
  /\ UNCHANGED <<auth, busy, conns, client, keys>>

Crash ==
  /\ alive
  /\ alive' = FALSE
  /\ UNCHANGED <<auth, socket, mode, displays, authing, request, busy, conns, client,
                 pend, keys>>

-----------------------------------------------------------------------------
(* The attachers                                                           *)

Connect(c, m) == conns' = Append(conns, [from |-> c, msg |-> m])

CanConnect == alive /\ socket /\ Len(conns) < MaxConns

\* The connection of c that waits for its message.
Opened(c, m) ==
  conns' = [k \in DOMAIN conns |->
              IF conns[k].from = c /\ conns[k].msg = "OPEN"
              THEN [from |-> c, msg |-> m] ELSE conns[k]]

Move(c, s) == st' = [st EXCEPT ![c] = s]
Exit(c) == Move(c, "exited") /\ pend' = [pend EXCEPT ![c] = {}]

\* FindSocket(): the session is found by connecting to it.
Find(c) ==
  /\ st[c] = "idle"
  /\ \E k \in Commands : cmd' = [cmd EXCEPT ![c] = k]
  /\ \/ CanConnect /\ Connect(c, "OPEN") /\ Move(c, "connected")
        /\ UNCHANGED pend
     \/ ~(alive /\ socket) /\ Exit(c) /\ UNCHANGED conns
  /\ UNCHANGED <<server, flags, keys>>

\* Attach(): what the mode of the socket allows, read after connecting.
\* -x does not look at it; -d -r takes over what is attached, and is -r
\* otherwise.
Allowed(c) ==
  CASE cmd[c] = "resume" -> mode = "detached"
    [] cmd[c] = "detach" -> mode = "attached"
    [] OTHER -> TRUE

Request(c) ==
  CASE cmd[c] = "detach" -> "DETACH"
    [] cmd[c] = "takeover" /\ mode = "attached" -> "ATTACHFIRST"
    [] OTHER -> "ATTACH"

\* The mode is checked and the message written; without the daemon the
\* write fails.  A client that gives up closes its connection.
Ask(c) ==
  /\ st[c] = "connected"
  /\ \/ /\ alive /\ socket /\ Allowed(c)
        /\ Opened(c, Request(c))
        /\ Move(c, IF cmd[c] = "detach" THEN "waittest" ELSE "tested")
        /\ UNCHANGED pend
     \/ /\ ~(alive /\ socket /\ Allowed(c))
        /\ Opened(c, "CLOSED")
        /\ Exit(c)
  /\ UNCHANGED <<server, cmd, flags, keys>>

\* Attacher(): alarm(15), pause().
Pause(c) ==
  /\ st[c] = "tested"
  /\ Move(c, "paused")
  /\ UNCHANGED <<server, conns, cmd, flags, pend, keys>>

Alarm(c) ==
  /\ st[c] = "paused"
  /\ Move(c, "check")
  /\ UNCHANGED <<server, conns, cmd, flags, pend, keys>>

MasterGoneSocket(c) ==  \* mutant: a session is gone when its socket is
  /\ st[c] = "check" /\ ~alive /\ ~socket
  /\ Exit(c)
  /\ UNCHANGED <<server, conns, cmd, flags, keys>>

\* The tests the loop makes after pause(), in their order; Suspended and
\* Unlocked go on to the tests that are left.
MasterGone(c) ==
  /\ st[c] = "check" /\ ~alive
  /\ Exit(c)
  /\ UNCHANGED <<server, conns, cmd, flags, keys>>

Suspend(c) ==
  /\ st[c] = "check" /\ alive /\ "STOP" \in flags[c]
  /\ flags' = [flags EXCEPT ![c] = @ \ {"STOP"}]
  /\ Move(c, "stopped")
  /\ UNCHANGED <<server, conns, cmd, pend, keys>>

\* Attach(MSG_CONT), which gives up when the session cannot be reached.
Again(c) ==
  \/ CanConnect /\ Connect(c, "CONT") /\ Move(c, "check") /\ UNCHANGED pend
  \/ ~(alive /\ socket) /\ Exit(c) /\ UNCHANGED conns

Resume(c) ==
  /\ st[c] = "stopped"
  /\ Again(c)
  /\ UNCHANGED <<server, cmd, flags, keys>>

UnlockOnly(c) ==  \* mutant: the session is not asked again
  /\ st[c] = "check" /\ alive /\ flags[c] \cap {"STOP", "LOCK"} = {"LOCK"}
  /\ flags' = [flags EXCEPT ![c] = @ \ {"LOCK"}]
  /\ UNCHANGED <<server, conns, st, cmd, pend, keys>>

Unlock(c) ==
  /\ st[c] = "check" /\ alive /\ flags[c] \cap {"STOP", "LOCK"} = {"LOCK"}
  /\ flags' = [flags EXCEPT ![c] = @ \ {"LOCK"}]
  /\ Again(c)
  /\ UNCHANGED <<server, cmd, keys>>

Loop(c) ==
  /\ st[c] = "check" /\ alive /\ flags[c] \cap {"STOP", "LOCK"} = {}
  /\ Move(c, "tested")
  /\ UNCHANGED <<server, conns, cmd, flags, pend, keys>>

\* Attach() of a -d client: while (!ContinuePlease) pause().
WaitTest(c) ==
  /\ st[c] = "waittest"
  /\ IF "CONT" \in flags[c] THEN Exit(c)
     ELSE Move(c, "waitready") /\ UNCHANGED pend
  /\ UNCHANGED <<server, conns, cmd, flags, keys>>

WaitPause(c) ==
  /\ st[c] = "waitready"
  /\ Move(c, "waitpause")
  /\ UNCHANGED <<server, conns, cmd, flags, pend, keys>>

-----------------------------------------------------------------------------
(* Signals reach a process that is not stopped.                            *)

Running(c) == st[c] \in Looping \cup Waiting

\* AttacherFinit, the handler of SIG_BYE and SIGHUP: if the session still
\* looks attached the daemon is told to hang up this terminal.
Bye(c) ==
  /\ Running(c) /\ "BYE" \in pend[c]
  /\ Exit(c)
  /\ \/ mode = "attached" /\ CanConnect /\ Connect(c, "HANGUP")
     \/ ~(mode = "attached" /\ alive /\ socket) /\ UNCHANGED conns
  /\ UNCHANGED <<server, cmd, flags, keys>>

\* AttacherFinitBye.
PowerBye(c) ==
  /\ Running(c) /\ "POWER" \in pend[c]
  /\ Exit(c)
  /\ UNCHANGED <<server, conns, cmd, flags, keys>>

\* SIG_STOP and SIG_LOCK set a flag and end pause().
Flag(c) ==
  /\ st[c] \in Looping
  /\ \E s \in pend[c] \cap {"STOP", "LOCK"} :
       /\ flags' = [flags EXCEPT ![c] = @ \cup {s}]
       /\ pend' = [pend EXCEPT ![c] = @ \ {s}]
  /\ IF st[c] = "paused" THEN Move(c, "check") ELSE UNCHANGED st
  /\ UNCHANGED <<server, conns, cmd, keys>>

\* SIGCONT is caught while a -d client waits for it, and ignored elsewhere.
Cont(c) ==
  /\ Running(c) /\ "CONT" \in pend[c]
  /\ pend' = [pend EXCEPT ![c] = @ \ {"CONT"}]
  /\ IF st[c] \in Looping THEN UNCHANGED <<flags, st>>
     ELSE /\ flags' = [flags EXCEPT ![c] = @ \cup {"CONT"}]
          /\ IF st[c] = "waitpause" THEN Move(c, "waittest") ELSE UNCHANGED st
  /\ UNCHANGED <<server, conns, cmd, keys>>

\* The terminal of an attacher is closed: the kernel sends it SIGHUP.
CloseTerminal(c) ==
  /\ st[c] \in Looping /\ keys < MaxKeys
  /\ keys' = keys + 1
  /\ pend' = [pend EXCEPT ![c] = @ \cup {"BYE"}]
  /\ UNCHANGED <<server, conns, client>>

-----------------------------------------------------------------------------
ServerStep == Accept \/ Receive \/ \E c \in Clients : TerminalGone(c)

ClientStep(c) ==
  \/ Ask(c) \/ Pause(c) \/ Alarm(c) \/ MasterGone(c) \/ Suspend(c)
  \/ Resume(c) \/ Unlock(c) \/ Loop(c) \/ WaitTest(c)
  \/ WaitPause(c)
  \/ Bye(c) \/ PowerBye(c) \/ Flag(c) \/ Cont(c)

\* What users and the system may do, and need not.
UserStep ==
  \/ Terminate \/ Crash
  \/ \E c \in Clients : Find(c) \/ Password(c) \/ Key(c) \/ CloseTerminal(c)

Next == ServerStep \/ UserStep \/ \E c \in Clients : ClientStep(c)

Spec == Init /\ [][Next]_vars

\* The daemon serves its socket; every attacher is scheduled, its alarm
\* goes off and signals reach it; an attacher the session suspended is
\* continued.  Nothing is assumed of a client that has connected and not
\* written yet: its user may have stopped it there, for as long as he likes.
Fairness ==
  /\ WF_vars(ServerStep)
  /\ \A c \in Clients : WF_vars(st[c] # "connected" /\ ClientStep(c))

FairSpec == Spec /\ Fairness

-----------------------------------------------------------------------------
(* Properties                                                              *)

TypeOK ==
  /\ auth \in BOOLEAN /\ alive \in BOOLEAN /\ socket \in BOOLEAN
  /\ mode \in {"attached", "detached"}
  /\ displays \subseteq Clients /\ authing \subseteq displays
  /\ request \in [Clients -> Messages]
  /\ conns \in Seq([from : Clients, msg : Messages])
  /\ st \in [Clients -> States] /\ cmd \in [Clients -> Commands]
  /\ pend \in [Clients -> SUBSET Signals]
  /\ flags \in [Clients -> SUBSET Signals]
  /\ keys \in Nat

\* The mode of the socket tells the state of a session without a password, as
\* the comment of chsock says: attached exactly when some display is up.  It
\* does not with a password: a display that waits at its prompt is counted.
ModeTellsState ==
  ~auth /\ alive /\ socket => (mode = "attached" <=> On # {})

\* A connection of c that still carries a request.
InFlight(c) ==
  \E k \in DOMAIN conns : /\ conns[k].from = c
                          /\ conns[k].msg \in {"ATTACH", "ATTACHFIRST", "CONT"}

\* No attacher is left behind: one that sits in its loop has a display, or
\* its request is on the way, or the daemon has told it what to do, or the
\* daemon is gone, which its alarm lets it notice.
NoOrphan ==
  \A c \in Clients : st[c] \in Looping /\ alive =>
    \/ c \in displays \/ InFlight(c)
    \/ pend[c] \cap {"BYE", "POWER", "STOP", "LOCK"} # {}
    \/ flags[c] \cap {"STOP", "LOCK"} # {}

\* The attachers of a session that is gone leave, however it went.
AttachersLeave ==
  \A c \in Clients : (st[c] \in Looping /\ ~alive) ~> st[c] = "exited"

\* Some client sits between connecting and writing for good; the daemon may be
\* reading from it, and then it does nothing else (ReceiveMsg).
Stalled == <>[](\E c \in Clients : st[c] = "connected")

\* A display never outlives its attacher for good, unless a client stalls.
DisplaysAreFreed ==
  \/ Stalled
  \/ \A c \in Clients :
       (c \in displays /\ st[c] = "exited") ~> (c \notin displays \/ ~alive)

\* An attacher that was told to lock or stop comes back, or leaves, unless a
\* client stalls.
SuspendedComesBack ==
  \/ Stalled
  \/ \A c \in Clients :
       (flags[c] \cap {"STOP", "LOCK"} # {}) ~>
         (c \in displays \/ st[c] = "exited")

\* The daemon does not hang on a client any longer than that client itself
\* sits between connecting and writing: once it has written, closed the
\* connection, given up or died, the daemon serves the others again
\* (ReceiveMsg reads until the message is complete or the file ends).
ServesOn ==
  \A c \in Clients :
    \/ <>[](st[c] = "connected")
    \/ (busy /\ Head(conns).from = c) ~> (~busy \/ ~alive)

\* screen -d: once the daemon has served the request no display is left
\* (screen.1: -d detaches the elsewhere running screen).  It does not hold, and
\* no run checks it (README, What does not hold).
DetachDetaches ==
  [][\A c \in Clients :
       Receive /\ ~auth /\ Head(conns) = [from |-> c, msg |-> "DETACH"]
               /\ st[c] # "exited" => displays' = {}]_vars

\* screen -r resumes a detached session only: the daemon never gives its
\* client a display beside another one.
ResumeAlone ==
  [][\A c \in Clients :
       cmd[c] = "resume" /\ c \in (On' \ On) => On = {}]_vars
=============================================================================

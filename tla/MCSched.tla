------------------------------ MODULE MCSched ------------------------------
(* The events of a daemon with one display and one window: the server     *)
(* socket, the two sides of the display, the output of the window, the    *)
(* socket poller that runs in every round, and the destroy timer.         *)
EXTENDS Sched

CONSTANTS serv_read, D_readev, D_writeev, w_readev, w_telconnev,
          serv_select, w_destroyev

MCEvents == {serv_read, D_readev, D_writeev, w_readev, w_telconnev,
             serv_select, w_destroyev}

MCFd == [e \in MCEvents |->
  CASE e = serv_read -> 1
    [] e \in {D_readev, D_writeev} -> 2
    [] e \in {w_readev, w_telconnev} -> 3
    [] OTHER -> 0]

MCPrio == [e \in MCEvents |-> 
  CASE e = serv_select -> -10 [] e = w_telconnev -> 1 [] OTHER -> 0]

MCInitType == [e \in MCEvents |->
  CASE e \in {serv_read, D_readev, w_readev} -> "READ"
    [] e \in {D_writeev, w_telconnev} -> "WRITE"
    [] e = serv_select -> "ALWAYS"
    [] OTHER -> "TIMEOUT"]

MCAltType == [MCInitType EXCEPT ![D_writeev] = "TIMEOUT"]

\* A display's command opens the telnet window: the poll array grows.
MCInitQueue == <<serv_read, w_readev, D_readev, D_writeev, serv_select>>

\* An accepted connection may detach the display and attach a new one; a key
\* may detach it, kill the window or make one; output that fails waits; a
\* window that dies takes its events away and arms its destroy timer.
MCMayDeq == [e \in MCEvents |->
  CASE e = serv_read -> {D_readev, D_writeev}
    [] e = D_readev -> {D_readev, D_writeev, w_readev}
    [] e = D_writeev -> {D_writeev}
    [] e \in {w_readev, w_telconnev} -> {w_readev, w_telconnev}
    [] OTHER -> {}]

MCMayEnq == [e \in MCEvents |->
  CASE e = serv_read -> {D_readev, D_writeev}
    [] e = D_readev -> {w_readev, w_telconnev}
    [] e = D_writeev -> {D_writeev}
    [] e = w_readev -> {w_destroyev}
    [] OTHER -> {}]

MCConditional == {w_readev}
=============================================================================

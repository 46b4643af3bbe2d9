------------------------------ MODULE ChatClient ------------------------------
(***************************************************************************)
(* hw4/client.c: one process per connection with two threads.  main reads  *)
(* lines from the keyboard and sends them; msg_recv_handler prints what    *)
(* arrives.  Either ends the process, and with it the other: main when     *)
(* "exit" is typed or send fails, the handler when the server closes.      *)
(*                                                                         *)
(* The socket is that of Sockets.  Where Sockets says what a client may do *)
(* to its connection, this module says when the program does it.           *)
(***************************************************************************)
EXTENDS Sockets

CONSTANT Mishaps   \* a subset of {"thread", "interrupt"}: pthread_create fails,
                   \* and Ctrl-C is typed

ASSUME ChatClientAssumption == Mishaps \subseteq {"thread", "interrupt"}

VARIABLES
  main,    \* where main of each client is: "start", "spawn", "fgets", "eof" (the
           \* input has ended), "close" or "over" (the process has)
  reader   \* where msg_recv_handler of each client is: "none" (it does not run), "recv"
           \* or "exit"

clientVars == <<main, reader>>

ClientInit ==
  /\ main = [c \in Conn |-> "start"]
  /\ reader = [c \in Conn |-> "none"]

-----------------------------------------------------------------------------
\* the server has closed the connection, or its process has ended
Closed(c) == peer[c] = "shut" \/ proc # "running"

\* the last descriptor of the socket is closed
HangUp(c) ==
  IF peer[c] = "open" /\ proc = "running" THEN ClientExit(c) ELSE UNCHANGED sockVars

MainGoes(c, l) == main' = [main EXCEPT ![c] = l] /\ UNCHANGED reader

\* return from main, exit() or a signal: both threads end
EndProcess(c) ==
  /\ main' = [main EXCEPT ![c] = "over"]
  /\ reader' = [reader EXCEPT ![c] = "none"]
  /\ HangUp(c)

\* connect() waits for room in the backlog; without a server it fails
Start(c) ==
  /\ main[c] = "start"
  /\ \/ proc = "running" /\ Connect(c) /\ MainGoes(c, "spawn")
     \/ proc # "running" /\ MainGoes(c, "over") /\ UNCHANGED sockVars

\* pthread_create() fails with a positive number, which is not noticed
Spawn(c) ==
  /\ main[c] = "spawn"
  /\ main' = [main EXCEPT ![c] = "fgets"]
  /\ \/ reader' = [reader EXCEPT ![c] = "recv"]
     \/ "thread" \in Mishaps /\ UNCHANGED reader
  /\ UNCHANGED sockVars

\* fgets() returns a line that begins with "exit", or NULL, now and for ever
Fgets(c) ==
  /\ main[c] = "fgets"
  /\ \E l \in {"close", "eof"} : MainGoes(c, l)
  /\ UNCHANGED sockVars

\* fgets() returns another line, and send().  On a connection the server has closed
\* the first send() succeeds for nothing; a later one fails or raises SIGPIPE.
SendLine(c) ==
  /\ main[c] = "fgets"
  /\ \/ ~Closed(c) /\ ClientSend(c) /\ UNCHANGED clientVars
     \/ Closed(c) /\ MainGoes(c, "close") /\ UNCHANGED sockVars
     \/ Closed(c) /\ EndProcess(c)

\* close() and return.  While recv() is waiting in the other thread close() alone
\* does not end the connection; the end of the process does.
Return(c) == main[c] = "close" /\ EndProcess(c)

\* mutant: one thread, which reads when the user has typed "exit"
RecvAtExit(c) ==
  /\ reader[c] = "recv" /\ main[c] = "close"
  /\ ClientReads(c)
  /\ UNCHANGED clientVars

\* recv() > 0 and printf
Recv(c) ==
  /\ reader[c] = "recv"
  /\ ClientReads(c)
  /\ UNCHANGED clientVars

\* mutant: the end of the stream is taken for an empty message
RecvEndGoesOn(c) == reader[c] = "recv" /\ Closed(c) /\ UNCHANGED <<sockVars, clientVars>>

\* recv() = 0, after what was left on the stream and after the error of a reset,
\* with which the loop goes on
RecvEnd(c) ==
  /\ reader[c] = "recv" /\ Closed(c)
  /\ reader' = [reader EXCEPT ![c] = "exit"]
  /\ UNCHANGED <<sockVars, main>>

\* close() and exit(0)
Exit(c) == reader[c] = "exit" /\ EndProcess(c)

msg_recv_handler(c) == Recv(c) \/ RecvEnd(c) \/ Exit(c)

\* Ctrl-C
Interrupt(c) ==
  /\ "interrupt" \in Mishaps /\ main[c] \notin {"start", "over"}
  /\ EndProcess(c)

Process(c) ==
  \/ Start(c) \/ Spawn(c) \/ Fgets(c) \/ SendLine(c) \/ Return(c)
  \/ msg_recv_handler(c) \/ Interrupt(c)

-----------------------------------------------------------------------------
\* nobody reads what the server sends to c
Deaf(c) == reader[c] = "none" /\ main[c] \notin {"start", "spawn", "over"}

\* A client ends when its user says so or sending fails, whatever the server does;
\* and when the server has closed its connection (it turned the client away) or has
\* died, even if its user types nothing or the input is at its end (client.c:26-34),
\* unless the thread that would notice was never started.
ClientEnds ==
  \A c \in Conn :
    /\ main[c] = "close" ~> main[c] = "over"
    /\ (main[c] # "start" /\ Closed(c)) ~> (main[c] = "over" \/ Deaf(c))
=============================================================================

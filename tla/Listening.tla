------------------------------- MODULE Listening -------------------------------
(***************************************************************************)
(* Listener and its Acceptors with the sockets they use: the start of the  *)
(* engine, StartAccept, the accept loop of every acceptor, CloseAccept at  *)
(* any moment after that, and the end of the sessions that were accepted.  *)
(* What a session does in between, and its places, is Connection.          *)
(*                                                                         *)
(* A socket is a handle of the kernel, which has Handles to give to the    *)
(* process; INVALID_SOCKET is none of them.  mSocket is a plain variable   *)
(* that CloseAccept writes while the workers read it: the read, and the    *)
(* call that uses the value, are steps of their own.                       *)
(***************************************************************************)
EXTENDS Integers, FiniteSets

CONSTANTS
  Handles,      \* the sockets the kernel can give to the process
  AcceptCount,  \* mAcceptCount
  INVALID       \* INVALID_SOCKET

ASSUME ListeningAssumption ==
  /\ IsFiniteSet(Handles)
  /\ AcceptCount \in Nat
  /\ INVALID \notin Handles

Acceptors == 1..AcceptCount

VARIABLES
  started,    \* WSAStartup is in force
  bound,      \* SocketUtils::acceptEx is set
  kernel,     \* kernel[h]: what has become of the socket
  main,       \* the step of the thread that starts and closes the listener
  mSocket,    \* Listener::mSocket
  acceptors,  \* the size of Listener::mAcceptors
  slot,       \* slot[a]: where acceptor a is
  guest,      \* guest[a]: the socket of the session it holds
  port,       \* port[a]: the value of mSocket it has read
  crashed,    \* the process has ended
  late        \* history: the connections handed over since CloseAccept

engine == <<started, bound>>
slots  == <<slot, guest, port>>
vars   == <<engine, kernel, main, mSocket, acceptors, slots, crashed, late>>

Init ==
  /\ started = FALSE
  /\ bound = FALSE
  /\ kernel = [h \in Handles |-> "free"]
  /\ main = "engine"
  /\ mSocket = INVALID
  /\ acceptors = 0
  /\ slot = [a \in Acceptors |-> "none"]
  /\ guest = [a \in Acceptors |-> INVALID]
  /\ port = [a \in Acceptors |-> INVALID]
  /\ crashed = FALSE
  /\ late = [a \in Acceptors |-> 0]

-----------------------------------------------------------------------------
(* SocketUtils: the socket h is the kernel's next one.                     *)
CreateTcpSocket(h) ==
  /\ started
  /\ kernel[h] = "free"
  /\ kernel' = [kernel EXCEPT ![h] = "open"]

(* Close passes to closesocket nothing but INVALID_SOCKET.                 *)
Close(socket, after) == after = INVALID /\ UNCHANGED kernel

(* The pointers are fetched in the order ConnectEx, DisconnectEx, AcceptEx *)
(* with a socket that stays open.  A step that fails ends Init, and nobody *)
(* looks at its result.                                                    *)
SocketUtilsInit ==
  /\ main = "engine" /\ ~crashed
  /\ main' = "create"
  /\ \/ UNCHANGED <<engine, kernel>>
     \/ started' = TRUE /\ UNCHANGED <<bound, kernel>>
     \/ /\ started' = TRUE
        /\ \E h \in Handles : kernel' = [kernel EXCEPT ![h] = "open"]
        /\ bound' \in BOOLEAN
  /\ UNCHANGED <<mSocket, acceptors, slots, crashed, late>>

Crash ==
  /\ crashed' = TRUE
  /\ UNCHANGED <<engine, kernel, main, mSocket, acceptors, slots, late>>

-----------------------------------------------------------------------------
(* StartAccept: a call that fails ends the process.                        *)
Start(from, to) ==
  /\ main = from /\ ~crashed
  /\ main' = to
  /\ UNCHANGED <<engine, acceptors, slots, crashed, late>>

StartFails == main \in {"create", "port", "options", "bind", "listen"} /\ ~crashed /\ Crash

CreateListener ==
  /\ Start("create", "port")
  /\ mSocket' \in Handles /\ CreateTcpSocket(mSocket')

Kernel(from, to) == /\ kernel[mSocket] = from
                    /\ kernel' = [kernel EXCEPT ![mSocket] = to]
                    /\ UNCHANGED mSocket

RegisterPort == Start("port", "options") /\ Kernel("open", "port")

(* Reuse of the address, keep-alive and linger.                            *)
SetOptions == Start("options", "bind") /\ UNCHANGED <<kernel, mSocket>>

Bind == Start("bind", "listen") /\ Kernel("port", "bound")

Listen == Start("listen", "accept") /\ Kernel("bound", "listening")

(* Wrong on purpose: the acceptor registers and is then put in the vector. *)
StartAcceptorLate ==
  /\ main = "accept" /\ ~crashed
  /\ \/ /\ acceptors < AcceptCount /\ slot[acceptors + 1] = "none"
        /\ slot' = [slot EXCEPT ![acceptors + 1] = "create"]
        /\ UNCHANGED acceptors
     \/ /\ acceptors < AcceptCount
        /\ slot[acceptors + 1] \notin {"none", "create", "read", "post"}
        /\ acceptors' = acceptors + 1
        /\ UNCHANGED slot
  /\ UNCHANGED <<engine, kernel, main, mSocket, guest, port, crashed, late>>

(* The next acceptor is put in the vector and registers, on this thread:   *)
(* the loop goes on when its Register has returned.                        *)
StartAcceptor ==
  /\ main = "accept" /\ ~crashed
  /\ acceptors < AcceptCount
  /\ acceptors \in Acceptors => slot[acceptors] \notin {"create", "read", "post"}
  /\ acceptors' = acceptors + 1
  /\ slot' = [slot EXCEPT ![acceptors'] = "create"]
  /\ UNCHANGED <<engine, kernel, main, mSocket, guest, port, crashed, late>>

StartReturns ==
  /\ acceptors = AcceptCount
  /\ acceptors \in Acceptors => slot[acceptors] \notin {"create", "read", "post"}
  /\ Start("accept", "started")
  /\ UNCHANGED <<kernel, mSocket>>

(* CloseAccept, which the program that owns the listener calls: Service    *)
(* does not yet.                                                           *)
CloseAccept ==
  /\ Start("started", "closed")
  /\ Close(mSocket, mSocket')

-----------------------------------------------------------------------------
(* Acceptor::Register.                                                     *)
Move(a, from, to) ==
  /\ ~crashed
  /\ slot[a] = from
  /\ slot' = [slot EXCEPT ![a] = to]
  /\ UNCHANGED <<engine, main, mSocket, acceptors, crashed>>

(* The new session has a socket of its own, registered with the port.      *)
CreateSession(a) ==
  /\ Move(a, "create", "read")
  /\ \E h \in Handles :
       /\ CreateTcpSocket(h)
       /\ guest' = [guest EXCEPT ![a] = h]
  /\ UNCHANGED <<port, late>>

(* The port refuses the session, and the acceptor gives up.                *)
CreateSessionFails(a) ==
  /\ Move(a, "create", "cleared")
  /\ \E h \in Handles : CreateTcpSocket(h)
  /\ UNCHANGED <<guest, port, late>>

(* The session's constructor finds no socket.                              *)
NoSocket(a) == ~crashed /\ slot[a] = "create" /\ Crash

(* Wrong on purpose: the acceptor keeps the value it has.                  *)
ReadOnce(a) ==
  /\ Move(a, "read", "post")
  /\ port' = [port EXCEPT ![a] = IF @ = INVALID THEN mSocket ELSE @]
  /\ UNCHANGED <<kernel, guest, late>>

ReadForAccept(a) ==
  /\ Move(a, "read", "post")
  /\ port' = [port EXCEPT ![a] = mSocket]
  /\ UNCHANGED <<kernel, guest, late>>

AcceptEx(a) ==
  /\ bound /\ port[a] # INVALID
  /\ Move(a, "post", "armed")
  /\ kernel' = [kernel EXCEPT ![guest[a]] = "waiting"]
  /\ UNCHANGED <<guest, port, late>>

(* The error is reported, and session and acceptor are cleared.            *)
AcceptExFails(a) ==
  /\ bound
  /\ Move(a, "post", "cleared")
  /\ guest' = [guest EXCEPT ![a] = INVALID]
  /\ UNCHANGED <<kernel, port, late>>

(* The pointer was never fetched.                                          *)
NoAcceptEx(a) == ~crashed /\ ~bound /\ slot[a] = "post" /\ Crash

-----------------------------------------------------------------------------
(* Acceptor::Process.                                                      *)

(* A peer is there, or the accept is lost: both are dispatched.            *)
Completes(a) ==
  /\ Move(a, "armed", "process")
  /\ kernel[port[a]] = "listening"
  /\ \E k \in {"connected", "open"} : kernel' = [kernel EXCEPT ![guest[a]] = k]
  /\ UNCHANGED <<guest, port, late>>

(* Listener::Dispatch, and the argument of SetUpdateAcceptSocket.          *)
Process(a) ==
  /\ a <= acceptors
  /\ Move(a, "process", "update")
  /\ port' = [port EXCEPT ![a] = mSocket]
  /\ UNCHANGED <<kernel, guest, late>>

SetUpdateAcceptSocket(a) ==
  /\ Move(a, "update", "connect")
  /\ port[a] # INVALID /\ kernel[guest[a]] = "connected"
  /\ UNCHANGED <<kernel, guest, port, late>>

(* This call or getpeername fails: the session is let go as it is.         *)
AcceptIsLost(a) ==
  /\ \/ Move(a, "update", "cleared")
     \/ Move(a, "connect", "cleared")
  /\ guest' = [guest EXCEPT ![a] = INVALID]
  /\ UNCHANGED <<kernel, port, late>>

(* processConnect, after which the acceptor registers again.               *)
HandOver(a) ==
  /\ Move(a, "connect", "create")
  /\ kernel' = [kernel EXCEPT ![guest[a]] = "session"]
  /\ guest' = [guest EXCEPT ![a] = INVALID]
  /\ late' = IF main = "closed" THEN [late EXCEPT ![a] = @ + 1] ELSE late
  /\ UNCHANGED port

-----------------------------------------------------------------------------
(* DisconnectEx leaves a socket that could be used again; Session::Clear   *)
(* forgets it.                                                             *)
SessionEnds(h) ==
  /\ ~crashed
  /\ kernel[h] = "session"
  /\ kernel' = [kernel EXCEPT ![h] = "reusable"]
  /\ UNCHANGED <<engine, main, mSocket, acceptors, slots, crashed, late>>

-----------------------------------------------------------------------------
StartStep == \/ SocketUtilsInit \/ StartFails   \/ CreateListener
             \/ RegisterPort    \/ SetOptions \/ Bind \/ Listen
             \/ StartAcceptor   \/ StartReturns \/ CloseAccept

AcceptorStep(a) == \/ CreateSession(a) \/ CreateSessionFails(a) \/ NoSocket(a)
                   \/ ReadForAccept(a) \/ AcceptEx(a) \/ AcceptExFails(a)
                   \/ NoAcceptEx(a)    \/ Completes(a) \/ Process(a)
                   \/ SetUpdateAcceptSocket(a) \/ AcceptIsLost(a)
                   \/ HandOver(a)

Next == \/ StartStep
        \/ \E a \in Acceptors : AcceptorStep(a)
        \/ \E h \in Handles : SessionEnds(h)

Spec == Init /\ [][Next]_vars

-----------------------------------------------------------------------------
(* Properties.                                                             *)

KernelStates == {"free", "open", "port", "bound", "listening", "waiting",
                 "connected", "session", "reusable"}
MainSteps == {"engine", "create", "port", "options", "bind", "listen", "accept",
              "started", "closed"}
SlotSteps == {"none", "create", "read", "post", "armed", "process", "update",
              "connect", "cleared"}

TypeOK ==
  /\ started \in BOOLEAN /\ bound \in BOOLEAN /\ crashed \in BOOLEAN
  /\ kernel \in [Handles -> KernelStates]
  /\ main \in MainSteps
  /\ mSocket \in Handles \cup {INVALID}
  /\ acceptors \in 0..AcceptCount
  /\ slot \in [Acceptors -> SlotSteps]
  /\ guest \in [Acceptors -> Handles \cup {INVALID}]
  /\ port \in [Acceptors -> Handles \cup {INVALID}]
  /\ late \in [Acceptors -> Nat]

(* Dispatch (Listener.cpp:38) indexes mAcceptors with the number in the    *)
(* event while StartAccept may still be filling the vector: whoever has an *)
(* accept outstanding is in it, and the accept waits at a socket that      *)
(* listens, with a socket of its own that nothing has used before.         *)
OutstandingIsReady ==
  \A a \in Acceptors :
    /\ slot[a] \notin {"none", "create"} => a <= acceptors
    /\ slot[a] = "armed" =>
         /\ port[a] # INVALID /\ kernel[port[a]] = "listening"
         /\ kernel[guest[a]] = "waiting"
         /\ \A b \in Acceptors \ {a} : guest[b] # guest[a]

(* CloseAccept does not wait for the acceptors and the kernel's socket     *)
(* goes on listening: an acceptor hands over at most one more connection,  *)
(* and does not register again afterwards.                                 *)
ClosedHandsOverOnce ==
  \A a \in Acceptors : /\ late[a] <= 1
                       /\ late[a] = 1 => slot[a] \notin {"armed", "process",
                                                         "update", "connect"}
===============================================================================

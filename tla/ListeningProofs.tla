---------------------------- MODULE ListeningProofs ----------------------------
(***************************************************************************)
(* Theorems about Listening, for any sockets the kernel has to give and    *)
(* any number of acceptors: every safety invariant its run checks.         *)
(*                                                                         *)
(* Inv says whose each socket is and how far it has come: the listener's   *)
(* follows StartAccept and then only listens, an acceptor's follows its    *)
(* slot and is nobody else's, and late is bounded by where the acceptor    *)
(* is.                                                                     *)
(***************************************************************************)
EXTENDS Listening, TLAPS

(* Acceptors are numbered in the order they are put in the vector; those   *)
(* beyond it have not begun, and none has before the socket listens.       *)
VectorFillsUp ==
  /\ \A a \in Acceptors : a > acceptors => slot[a] = "none"
  /\ main \notin {"accept", "started", "closed"} => acceptors = 0

(* The socket of the listener is the kernel's in the state StartAccept has *)
(* brought it to, and nobody changes it once it listens; a value that an   *)
(* acceptor has read is INVALID_SOCKET or that socket.                     *)
ListenerIsReady ==
  /\ main = "port" => mSocket \in Handles /\ kernel[mSocket] = "open"
  /\ main \in {"options", "bind"} =>
       mSocket \in Handles /\ kernel[mSocket] = "port"
  /\ main = "listen" => mSocket \in Handles /\ kernel[mSocket] = "bound"
  /\ main \in {"accept", "started"} =>
       mSocket \in Handles /\ kernel[mSocket] = "listening"
  /\ main \in {"engine", "create", "closed"} => mSocket = INVALID
  /\ \A a \in Acceptors : port[a] # INVALID => kernel[port[a]] = "listening"
  /\ \A a \in Acceptors : /\ slot[a] = "none" => port[a] = INVALID
                          /\ slot[a] = "armed" => port[a] # INVALID
  /\ main = "engine" => \A h \in Handles : kernel[h] = "free"

(* An acceptor holds a socket between the creation of its session and its  *)
(* end, no two the same.                                                   *)
Holding(a, states) == guest[a] \in Handles /\ kernel[guest[a]] \in states

GuestsApart ==
  /\ \A a \in Acceptors :
       /\ slot[a] \in {"none", "create", "cleared"} => guest[a] = INVALID
       /\ slot[a] \in {"read", "post"} => Holding(a, {"open"})
       /\ slot[a] = "armed" => Holding(a, {"waiting"})
       /\ slot[a] \in {"process", "update"} => Holding(a, {"connected", "open"})
       /\ slot[a] = "connect" => Holding(a, {"connected"})
  /\ \A a, b \in Acceptors : guest[a] # INVALID /\ guest[a] = guest[b] => a = b

(* An acceptor that handed a connection over since CloseAccept finds no    *)
(* listener when it registers again.                                       *)
LateHasEnded ==
  \A a \in Acceptors :
    /\ late[a] \in {0, 1}
    /\ late[a] = 1 => /\ main = "closed"
                      /\ slot[a] \in {"create", "read", "post", "cleared"}
                      /\ slot[a] = "post" => port[a] = INVALID

Inv == TypeOK /\ VectorFillsUp /\ ListenerIsReady /\ GuestsApart /\ LateHasEnded

-----------------------------------------------------------------------------
(* Every action keeps every part of the invariant. *)

LEMMA TypeStep ==
  ASSUME Inv, [Next]_vars
  PROVE  TypeOK'
<1>1. TypeOK /\ VectorFillsUp /\ ListenerIsReady /\ GuestsApart /\ LateHasEnded
  BY DEF Inv
<1>2. CASE SocketUtilsInit
  <2>1. /\ started' \in BOOLEAN /\ bound' \in BOOLEAN
        /\ kernel' \in [Handles -> KernelStates]
    <3>1. CASE UNCHANGED <<engine, kernel>>
      BY <1>1, <3>1 DEF TypeOK, engine
    <3>2. CASE started' = TRUE /\ UNCHANGED <<bound, kernel>>
      BY <1>1, <3>2 DEF TypeOK
    <3>3. CASE /\ started' = TRUE /\ bound' \in BOOLEAN
               /\ \E h \in Handles : kernel' = [kernel EXCEPT ![h] = "open"]
      BY <1>1, <3>3 DEF TypeOK, KernelStates
    <3> QED
      BY <1>2, <3>1, <3>2, <3>3 DEF SocketUtilsInit
  <2> QED
    BY <1>1, <1>2, <2>1 DEF SocketUtilsInit, slots, TypeOK, MainSteps
<1>3. CASE StartFails
  BY <1>1, <1>3 DEF StartFails, Crash, engine, slots, TypeOK,
     KernelStates, MainSteps, SlotSteps
<1>4. CASE CreateListener
  BY <1>1, <1>4 DEF CreateListener, CreateTcpSocket, Start, engine, slots, TypeOK, KernelStates, MainSteps, SlotSteps
<1>5. CASE RegisterPort
  BY <1>1, <1>5 DEF RegisterPort, Kernel, Start, engine, slots, TypeOK,
     KernelStates, MainSteps, SlotSteps
<1>6. CASE SetOptions
  BY <1>1, <1>6 DEF SetOptions, Start, engine, slots, TypeOK,
     KernelStates, MainSteps, SlotSteps
<1>7. CASE Bind
  BY <1>1, <1>7 DEF Bind, Kernel, Start, engine, slots, TypeOK,
     KernelStates, MainSteps, SlotSteps
<1>8. CASE Listen
  BY <1>1, <1>8 DEF Listen, Kernel, Start, engine, slots, TypeOK,
     KernelStates, MainSteps, SlotSteps
<1>9. CASE StartAcceptor
  BY <1>1, <1>9, ListeningAssumption DEF StartAcceptor, engine, TypeOK,
     KernelStates, MainSteps, SlotSteps, Acceptors
<1>10. CASE StartReturns
  BY <1>1, <1>10 DEF StartReturns, Start, engine, slots, TypeOK,
     KernelStates, MainSteps, SlotSteps
<1>11. CASE CloseAccept
  BY <1>1, <1>11 DEF CloseAccept, Close, Start, engine, slots, TypeOK,
     KernelStates, MainSteps, SlotSteps
<1>12. ASSUME NEW x \in Acceptors, CreateSession(x) PROVE TypeOK'
  BY <1>1, <1>12 DEF CreateSession, CreateTcpSocket, Move, engine,
     TypeOK, KernelStates, MainSteps, SlotSteps
<1>13. ASSUME NEW x \in Acceptors, CreateSessionFails(x) PROVE TypeOK'
  BY <1>1, <1>13 DEF CreateSessionFails, CreateTcpSocket, Move, engine,
     TypeOK, KernelStates, MainSteps, SlotSteps
<1>14. ASSUME NEW x \in Acceptors, NoSocket(x) PROVE TypeOK'
  BY <1>1, <1>14 DEF NoSocket, Crash, engine, slots, TypeOK,
     KernelStates, MainSteps, SlotSteps
<1>15. ASSUME NEW x \in Acceptors, ReadForAccept(x) PROVE TypeOK'
  BY <1>1, <1>15 DEF ReadForAccept, Move, engine, TypeOK, KernelStates,
     MainSteps, SlotSteps
<1>16. ASSUME NEW x \in Acceptors, AcceptEx(x) PROVE TypeOK'
  BY <1>1, <1>16 DEF AcceptEx, Move, engine, TypeOK, KernelStates,
     MainSteps, SlotSteps
<1>17. ASSUME NEW x \in Acceptors, AcceptExFails(x) PROVE TypeOK'
  BY <1>1, <1>17 DEF AcceptExFails, Move, engine, TypeOK, KernelStates,
     MainSteps, SlotSteps
<1>18. ASSUME NEW x \in Acceptors, NoAcceptEx(x) PROVE TypeOK'
  BY <1>1, <1>18 DEF NoAcceptEx, Crash, engine, slots, TypeOK,
     KernelStates, MainSteps, SlotSteps
<1>19. ASSUME NEW x \in Acceptors, Completes(x) PROVE TypeOK'
  BY <1>1, <1>19 DEF Completes, Move, engine, TypeOK, KernelStates,
     MainSteps, SlotSteps
<1>20. ASSUME NEW x \in Acceptors, Process(x) PROVE TypeOK'
  BY <1>1, <1>20 DEF Process, Move, engine, TypeOK, KernelStates,
     MainSteps, SlotSteps
<1>21. ASSUME NEW x \in Acceptors, SetUpdateAcceptSocket(x) PROVE TypeOK'
  BY <1>1, <1>21 DEF SetUpdateAcceptSocket, Move, engine, TypeOK,
     KernelStates, MainSteps, SlotSteps
<1>22. ASSUME NEW x \in Acceptors, AcceptIsLost(x) PROVE TypeOK'
  BY <1>1, <1>22 DEF AcceptIsLost, Move, engine, TypeOK, KernelStates,
     MainSteps, SlotSteps
<1>23. ASSUME NEW x \in Acceptors, HandOver(x) PROVE TypeOK'
  <2>1. late' \in [Acceptors -> Nat]
    BY <1>1, <1>23 DEF HandOver, TypeOK
  <2> QED
    BY <1>1, <1>23, <2>1 DEF HandOver, Move, engine, TypeOK, KernelStates,
       SlotSteps
<1>24. ASSUME NEW h \in Handles, SessionEnds(h) PROVE TypeOK'
  BY <1>1, <1>24 DEF SessionEnds, engine, slots, TypeOK, KernelStates,
     MainSteps, SlotSteps
<1>25. CASE UNCHANGED vars
  BY <1>1, <1>25 DEF vars, engine, slots, TypeOK, KernelStates,
     MainSteps, SlotSteps
<1> QED
  BY <1>2, <1>3, <1>4, <1>5, <1>6, <1>7, <1>8, <1>9, <1>10, <1>11, <1>12,
     <1>13, <1>14, <1>15, <1>16, <1>17, <1>18, <1>19, <1>20, <1>21, <1>22,
     <1>23, <1>24, <1>25 DEF Next, StartStep, AcceptorStep

LEMMA VectorStep ==
  ASSUME Inv, [Next]_vars
  PROVE  VectorFillsUp'
<1>1. TypeOK /\ VectorFillsUp /\ ListenerIsReady /\ GuestsApart /\ LateHasEnded
  BY DEF Inv
<1>2. CASE SocketUtilsInit
  BY <1>1, <1>2 DEF SocketUtilsInit, slots, VectorFillsUp, TypeOK
<1>3. CASE StartFails
  BY <1>1, <1>3 DEF StartFails, Crash, engine, slots, VectorFillsUp,
     TypeOK
<1>4. CASE CreateListener
  BY <1>1, <1>4 DEF CreateListener, CreateTcpSocket, Start, engine, slots, VectorFillsUp, TypeOK
<1>5. CASE RegisterPort
  BY <1>1, <1>5 DEF RegisterPort, Kernel, Start, engine, slots,
     VectorFillsUp, TypeOK
<1>6. CASE SetOptions
  BY <1>1, <1>6 DEF SetOptions, Start, engine, slots, VectorFillsUp,
     TypeOK
<1>7. CASE Bind
  BY <1>1, <1>7 DEF Bind, Kernel, Start, engine, slots, VectorFillsUp,
     TypeOK
<1>8. CASE Listen
  BY <1>1, <1>8 DEF Listen, Kernel, Start, engine, slots, VectorFillsUp,
     TypeOK
<1>9. CASE StartAcceptor
  BY <1>1, <1>9, ListeningAssumption DEF StartAcceptor, engine,
     VectorFillsUp, TypeOK, KernelStates, MainSteps, SlotSteps, Acceptors
<1>10. CASE StartReturns
  BY <1>1, <1>10 DEF StartReturns, Start, engine, slots, VectorFillsUp,
     TypeOK
<1>11. CASE CloseAccept
  BY <1>1, <1>11 DEF CloseAccept, Close, Start, engine, slots,
     VectorFillsUp, TypeOK
<1>12. ASSUME NEW x \in Acceptors, CreateSession(x) PROVE VectorFillsUp'
  BY <1>1, <1>12 DEF CreateSession, CreateTcpSocket, Move, engine,
     VectorFillsUp, TypeOK
<1>13. ASSUME NEW x \in Acceptors, CreateSessionFails(x) PROVE VectorFillsUp'
  BY <1>1, <1>13 DEF CreateSessionFails, CreateTcpSocket, Move, engine,
     VectorFillsUp, TypeOK
<1>14. ASSUME NEW x \in Acceptors, NoSocket(x) PROVE VectorFillsUp'
  BY <1>1, <1>14 DEF NoSocket, Crash, engine, slots, VectorFillsUp,
     TypeOK
<1>15. ASSUME NEW x \in Acceptors, ReadForAccept(x) PROVE VectorFillsUp'
  BY <1>1, <1>15 DEF ReadForAccept, Move, engine, VectorFillsUp, TypeOK
<1>16. ASSUME NEW x \in Acceptors, AcceptEx(x) PROVE VectorFillsUp'
  BY <1>1, <1>16 DEF AcceptEx, Move, engine, VectorFillsUp, TypeOK
<1>17. ASSUME NEW x \in Acceptors, AcceptExFails(x) PROVE VectorFillsUp'
  BY <1>1, <1>17 DEF AcceptExFails, Move, engine, VectorFillsUp, TypeOK
<1>18. ASSUME NEW x \in Acceptors, NoAcceptEx(x) PROVE VectorFillsUp'
  BY <1>1, <1>18 DEF NoAcceptEx, Crash, engine, slots, VectorFillsUp,
     TypeOK
<1>19. ASSUME NEW x \in Acceptors, Completes(x) PROVE VectorFillsUp'
  BY <1>1, <1>19 DEF Completes, Move, engine, VectorFillsUp, TypeOK
<1>20. ASSUME NEW x \in Acceptors, Process(x) PROVE VectorFillsUp'
  BY <1>1, <1>20 DEF Process, Move, engine, VectorFillsUp, TypeOK
<1>21. ASSUME NEW x \in Acceptors, SetUpdateAcceptSocket(x) PROVE VectorFillsUp'
  BY <1>1, <1>21 DEF SetUpdateAcceptSocket, Move, engine, VectorFillsUp,
     TypeOK
<1>22. ASSUME NEW x \in Acceptors, AcceptIsLost(x) PROVE VectorFillsUp'
  BY <1>1, <1>22 DEF AcceptIsLost, Move, engine, VectorFillsUp, TypeOK
<1>23. ASSUME NEW x \in Acceptors, HandOver(x) PROVE VectorFillsUp'
  BY <1>1, <1>23 DEF HandOver, Move, engine, VectorFillsUp, TypeOK
<1>24. ASSUME NEW h \in Handles, SessionEnds(h) PROVE VectorFillsUp'
  BY <1>1, <1>24 DEF SessionEnds, engine, slots, VectorFillsUp, TypeOK
<1>25. CASE UNCHANGED vars
  BY <1>1, <1>25 DEF vars, engine, slots, VectorFillsUp, TypeOK,
     KernelStates, MainSteps, SlotSteps
<1> QED
  BY <1>2, <1>3, <1>4, <1>5, <1>6, <1>7, <1>8, <1>9, <1>10, <1>11, <1>12,
     <1>13, <1>14, <1>15, <1>16, <1>17, <1>18, <1>19, <1>20, <1>21, <1>22,
     <1>23, <1>24, <1>25 DEF Next, StartStep, AcceptorStep

LEMMA ListenerStep ==
  ASSUME Inv, [Next]_vars
  PROVE  ListenerIsReady'
<1>1. TypeOK /\ VectorFillsUp /\ ListenerIsReady /\ GuestsApart /\ LateHasEnded
  BY DEF Inv
<1>2. CASE SocketUtilsInit
  <2>1. main = "engine" /\ main' = "create" /\ UNCHANGED <<mSocket, slot, port>>
    BY <1>2 DEF SocketUtilsInit, slots
  <2>2. \A a \in Acceptors : port[a] = INVALID
    <3>1. acceptors = 0
      BY <1>1, <2>1 DEF VectorFillsUp
    <3>2. \A a \in Acceptors : a > 0
      BY ListeningAssumption DEF Acceptors
    <3>3. \A a \in Acceptors : slot[a] = "none"
      BY <1>1, <3>1, <3>2 DEF VectorFillsUp
    <3>4. \A a \in Acceptors : slot[a] = "none" => port[a] = INVALID
      BY <1>1 DEF ListenerIsReady
    <3> QED
      BY <3>3, <3>4
  <2> QED
    BY <1>1, <2>1, <2>2 DEF ListenerIsReady
<1>3. CASE StartFails
  BY <1>1, <1>3 DEF StartFails, Crash, engine, slots, ListenerIsReady,
     TypeOK
<1>4. CASE CreateListener
  BY <1>1, <1>4 DEF CreateListener, CreateTcpSocket, Start, engine, slots, ListenerIsReady, TypeOK
<1>5. CASE RegisterPort
  BY <1>1, <1>5 DEF RegisterPort, Kernel, Start, engine, slots,
     ListenerIsReady, TypeOK
<1>6. CASE SetOptions
  BY <1>1, <1>6 DEF SetOptions, Start, engine, slots, ListenerIsReady,
     TypeOK
<1>7. CASE Bind
  BY <1>1, <1>7 DEF Bind, Kernel, Start, engine, slots, ListenerIsReady,
     TypeOK
<1>8. CASE Listen
  BY <1>1, <1>8 DEF Listen, Kernel, Start, engine, slots,
     ListenerIsReady, TypeOK
<1>9. CASE StartAcceptor
  BY <1>1, <1>9 DEF StartAcceptor, engine, ListenerIsReady, TypeOK
<1>10. CASE StartReturns
  BY <1>1, <1>10 DEF StartReturns, Start, engine, slots,
     ListenerIsReady, TypeOK
<1>11. CASE CloseAccept
  BY <1>1, <1>11 DEF CloseAccept, Close, Start, engine, slots,
     ListenerIsReady, TypeOK
<1>12. ASSUME NEW x \in Acceptors, CreateSession(x) PROVE ListenerIsReady'
  BY <1>1, <1>12, ListeningAssumption DEF CreateSession, CreateTcpSocket,
     Move, engine, ListenerIsReady, VectorFillsUp, GuestsApart, Holding,
     TypeOK, KernelStates, MainSteps, SlotSteps, Acceptors
<1>13. ASSUME NEW x \in Acceptors, CreateSessionFails(x) PROVE ListenerIsReady'
  BY <1>1, <1>13, ListeningAssumption DEF CreateSessionFails, CreateTcpSocket,
     Move, engine, ListenerIsReady, VectorFillsUp, GuestsApart, Holding,
     TypeOK, KernelStates, MainSteps, SlotSteps, Acceptors
<1>14. ASSUME NEW x \in Acceptors, NoSocket(x) PROVE ListenerIsReady'
  BY <1>1, <1>14 DEF NoSocket, Crash, engine, slots, ListenerIsReady,
     TypeOK
<1>15. ASSUME NEW x \in Acceptors, ReadForAccept(x) PROVE ListenerIsReady'
  BY <1>1, <1>15, ListeningAssumption DEF ReadForAccept, Move, engine,
     ListenerIsReady, VectorFillsUp, GuestsApart, Holding, TypeOK,
     KernelStates, MainSteps, SlotSteps, Acceptors
<1>16. ASSUME NEW x \in Acceptors, AcceptEx(x) PROVE ListenerIsReady'
  BY <1>1, <1>16, ListeningAssumption DEF AcceptEx, Move, engine,
     ListenerIsReady, VectorFillsUp, GuestsApart, Holding, TypeOK,
     KernelStates, MainSteps, SlotSteps, Acceptors
<1>17. ASSUME NEW x \in Acceptors, AcceptExFails(x) PROVE ListenerIsReady'
  BY <1>1, <1>17 DEF AcceptExFails, Move, engine, ListenerIsReady, TypeOK
<1>18. ASSUME NEW x \in Acceptors, NoAcceptEx(x) PROVE ListenerIsReady'
  BY <1>1, <1>18 DEF NoAcceptEx, Crash, engine, slots, ListenerIsReady,
     TypeOK
<1>19. ASSUME NEW x \in Acceptors, Completes(x) PROVE ListenerIsReady'
  BY <1>1, <1>19, ListeningAssumption DEF Completes, Move, engine,
     ListenerIsReady, VectorFillsUp, GuestsApart, Holding, TypeOK,
     KernelStates, MainSteps, SlotSteps, Acceptors
<1>20. ASSUME NEW x \in Acceptors, Process(x) PROVE ListenerIsReady'
  BY <1>1, <1>20, ListeningAssumption DEF Process, Move, engine,
     ListenerIsReady, VectorFillsUp, GuestsApart, Holding, TypeOK,
     KernelStates, MainSteps, SlotSteps, Acceptors
<1>21. ASSUME NEW x \in Acceptors, SetUpdateAcceptSocket(x) PROVE ListenerIsReady'
  BY <1>1, <1>21 DEF SetUpdateAcceptSocket, Move, engine,
     ListenerIsReady, TypeOK
<1>22. ASSUME NEW x \in Acceptors, AcceptIsLost(x) PROVE ListenerIsReady'
  BY <1>1, <1>22 DEF AcceptIsLost, Move, engine, ListenerIsReady, TypeOK
<1>23. ASSUME NEW x \in Acceptors, HandOver(x) PROVE ListenerIsReady'
  BY <1>1, <1>23, ListeningAssumption DEF HandOver, Move, engine,
     ListenerIsReady, VectorFillsUp, GuestsApart, Holding, TypeOK,
     KernelStates, MainSteps, SlotSteps, Acceptors
<1>24. ASSUME NEW h \in Handles, SessionEnds(h) PROVE ListenerIsReady'
  BY <1>1, <1>24 DEF SessionEnds, engine, slots, ListenerIsReady, TypeOK
<1>25. CASE UNCHANGED vars
  BY <1>1, <1>25 DEF vars, engine, slots, ListenerIsReady,
     VectorFillsUp, GuestsApart, Holding, TypeOK, KernelStates, MainSteps,
     SlotSteps
<1> QED
  BY <1>2, <1>3, <1>4, <1>5, <1>6, <1>7, <1>8, <1>9, <1>10, <1>11, <1>12,
     <1>13, <1>14, <1>15, <1>16, <1>17, <1>18, <1>19, <1>20, <1>21, <1>22,
     <1>23, <1>24, <1>25 DEF Next, StartStep, AcceptorStep

LEMMA GuestsStep ==
  ASSUME Inv, [Next]_vars
  PROVE  GuestsApart'
<1>1. TypeOK /\ VectorFillsUp /\ ListenerIsReady /\ GuestsApart /\ LateHasEnded
  BY DEF Inv
<1>2. CASE SocketUtilsInit
  BY <1>1, <1>2, ListeningAssumption DEF SocketUtilsInit, slots,
     GuestsApart, Holding, ListenerIsReady, VectorFillsUp, TypeOK,
     KernelStates, MainSteps, SlotSteps, Acceptors
<1>3. CASE StartFails
  BY <1>1, <1>3 DEF StartFails, Crash, engine, slots, GuestsApart,
     Holding, TypeOK
<1>4. CASE CreateListener
  BY <1>1, <1>4 DEF CreateListener, CreateTcpSocket, Start, engine, slots, GuestsApart, Holding, TypeOK
<1>5. CASE RegisterPort
  BY <1>1, <1>5, ListeningAssumption DEF RegisterPort, Kernel, Start, engine,
     slots, GuestsApart, Holding, ListenerIsReady, VectorFillsUp,
     TypeOK, KernelStates, MainSteps, SlotSteps, Acceptors
<1>6. CASE SetOptions
  BY <1>1, <1>6 DEF SetOptions, Start, engine, slots, GuestsApart,
     Holding, TypeOK
<1>7. CASE Bind
  BY <1>1, <1>7 DEF Bind, Kernel, Start, engine, slots, GuestsApart,
     Holding, TypeOK
<1>8. CASE Listen
  BY <1>1, <1>8 DEF Listen, Kernel, Start, engine, slots, GuestsApart,
     Holding, TypeOK
<1>9. CASE StartAcceptor
  BY <1>1, <1>9, ListeningAssumption DEF StartAcceptor, engine,
     GuestsApart, Holding, ListenerIsReady, VectorFillsUp, TypeOK,
     KernelStates, MainSteps, SlotSteps, Acceptors
<1>10. CASE StartReturns
  BY <1>1, <1>10 DEF StartReturns, Start, engine, slots, GuestsApart,
     Holding, TypeOK
<1>11. CASE CloseAccept
  BY <1>1, <1>11 DEF CloseAccept, Close, Start, engine, slots,
     GuestsApart, Holding, TypeOK
<1>12. ASSUME NEW x \in Acceptors, CreateSession(x) PROVE GuestsApart'
  <2>1. PICK h \in Handles :
          /\ kernel[h] = "free" /\ kernel' = [kernel EXCEPT ![h] = "open"]
          /\ guest' = [guest EXCEPT ![x] = h]
    BY <1>12 DEF CreateSession, CreateTcpSocket
  <2>2. slot[x] = "create" /\ slot' = [slot EXCEPT ![x] = "read"]
    BY <1>12 DEF CreateSession, Move
  <2>3. \A a \in Acceptors : guest[a] # h
    BY <1>1, <2>1, ListeningAssumption DEF GuestsApart, Holding, TypeOK,
       SlotSteps
  <2>4. /\ kernel'[h] = "open" /\ guest'[x] = h /\ slot'[x] = "read"
        /\ \A k \in Handles \ {h} : kernel'[k] = kernel[k]
        /\ \A a \in Acceptors \ {x} : guest'[a] = guest[a] /\ slot'[a] = slot[a]
    BY <1>1, <2>1, <2>2 DEF TypeOK
  <2>5. ASSUME NEW a \in Acceptors
        PROVE  /\ slot'[a] \in {"none", "create", "cleared"} => guest'[a] = INVALID
               /\ slot'[a] \in {"read", "post"} => Holding(a, {"open"})'
               /\ slot'[a] = "armed" => Holding(a, {"waiting"})'
               /\ slot'[a] \in {"process", "update"} => Holding(a, {"connected", "open"})'
               /\ slot'[a] = "connect" => Holding(a, {"connected"})'
    <3>1. CASE a = x
      BY <2>4, <3>1 DEF Holding
    <3>2. CASE a # x
      BY <1>1, <2>3, <2>4, <3>2 DEF GuestsApart, Holding
    <3> QED
      BY <3>1, <3>2
  <2>6. \A a, b \in Acceptors : guest'[a] # INVALID /\ guest'[a] = guest'[b] => a = b
    BY <1>1, <2>3, <2>4 DEF GuestsApart
  <2> QED
    BY <2>5, <2>6 DEF GuestsApart
<1>13. ASSUME NEW x \in Acceptors, CreateSessionFails(x) PROVE GuestsApart'
  BY <1>1, <1>13 DEF CreateSessionFails, CreateTcpSocket, Move, engine,
     GuestsApart, Holding, TypeOK
<1>14. ASSUME NEW x \in Acceptors, NoSocket(x) PROVE GuestsApart'
  BY <1>1, <1>14 DEF NoSocket, Crash, engine, slots, GuestsApart,
     Holding, TypeOK
<1>15. ASSUME NEW x \in Acceptors, ReadForAccept(x) PROVE GuestsApart'
  BY <1>1, <1>15 DEF ReadForAccept, Move, engine, GuestsApart, Holding,
     TypeOK
<1>16. ASSUME NEW x \in Acceptors, AcceptEx(x) PROVE GuestsApart'
  BY <1>1, <1>16, ListeningAssumption DEF AcceptEx, Move, engine,
     GuestsApart, Holding, ListenerIsReady, VectorFillsUp, TypeOK,
     KernelStates, MainSteps, SlotSteps, Acceptors
<1>17. ASSUME NEW x \in Acceptors, AcceptExFails(x) PROVE GuestsApart'
  BY <1>1, <1>17 DEF AcceptExFails, Move, engine, GuestsApart, Holding,
     TypeOK
<1>18. ASSUME NEW x \in Acceptors, NoAcceptEx(x) PROVE GuestsApart'
  BY <1>1, <1>18 DEF NoAcceptEx, Crash, engine, slots, GuestsApart,
     Holding, TypeOK
<1>19. ASSUME NEW x \in Acceptors, Completes(x) PROVE GuestsApart'
  BY <1>1, <1>19, ListeningAssumption DEF Completes, Move, engine,
     GuestsApart, Holding, ListenerIsReady, VectorFillsUp, TypeOK,
     KernelStates, MainSteps, SlotSteps, Acceptors
<1>20. ASSUME NEW x \in Acceptors, Process(x) PROVE GuestsApart'
  BY <1>1, <1>20 DEF Process, Move, engine, GuestsApart, Holding, TypeOK
<1>21. ASSUME NEW x \in Acceptors, SetUpdateAcceptSocket(x) PROVE GuestsApart'
  BY <1>1, <1>21 DEF SetUpdateAcceptSocket, Move, engine, GuestsApart,
     Holding, TypeOK
<1>22. ASSUME NEW x \in Acceptors, AcceptIsLost(x) PROVE GuestsApart'
  BY <1>1, <1>22 DEF AcceptIsLost, Move, engine, GuestsApart, Holding,
     TypeOK
<1>23. ASSUME NEW x \in Acceptors, HandOver(x) PROVE GuestsApart'
  BY <1>1, <1>23, ListeningAssumption DEF HandOver, Move, engine, GuestsApart,
     Holding, ListenerIsReady, VectorFillsUp, TypeOK, KernelStates, MainSteps,
     SlotSteps, Acceptors
<1>24. ASSUME NEW h \in Handles, SessionEnds(h) PROVE GuestsApart'
  BY <1>1, <1>24 DEF SessionEnds, engine, slots, GuestsApart, Holding,
     TypeOK
<1>25. CASE UNCHANGED vars
  BY <1>1, <1>25 DEF vars, engine, slots, GuestsApart, Holding,
     ListenerIsReady, VectorFillsUp, TypeOK, KernelStates, MainSteps, SlotSteps
<1> QED
  BY <1>2, <1>3, <1>4, <1>5, <1>6, <1>7, <1>8, <1>9, <1>10, <1>11, <1>12,
     <1>13, <1>14, <1>15, <1>16, <1>17, <1>18, <1>19, <1>20, <1>21, <1>22,
     <1>23, <1>24, <1>25 DEF Next, StartStep, AcceptorStep

LEMMA LateStep ==
  ASSUME Inv, [Next]_vars
  PROVE  LateHasEnded'
<1>1. TypeOK /\ VectorFillsUp /\ ListenerIsReady /\ GuestsApart /\ LateHasEnded
  BY DEF Inv
<1>2. CASE SocketUtilsInit
  BY <1>1, <1>2 DEF SocketUtilsInit, slots, LateHasEnded,
     ListenerIsReady, TypeOK
<1>3. CASE StartFails
  BY <1>1, <1>3 DEF StartFails, Crash, engine, slots, LateHasEnded,
     ListenerIsReady, TypeOK
<1>4. CASE CreateListener
  BY <1>1, <1>4 DEF CreateListener, CreateTcpSocket, Start, engine, slots, LateHasEnded, ListenerIsReady, TypeOK
<1>5. CASE RegisterPort
  BY <1>1, <1>5 DEF RegisterPort, Kernel, Start, engine, slots,
     LateHasEnded, ListenerIsReady, TypeOK
<1>6. CASE SetOptions
  BY <1>1, <1>6 DEF SetOptions, Start, engine, slots, LateHasEnded,
     ListenerIsReady, TypeOK
<1>7. CASE Bind
  BY <1>1, <1>7 DEF Bind, Kernel, Start, engine, slots, LateHasEnded,
     ListenerIsReady, TypeOK
<1>8. CASE Listen
  BY <1>1, <1>8 DEF Listen, Kernel, Start, engine, slots, LateHasEnded,
     ListenerIsReady, TypeOK
<1>9. CASE StartAcceptor
  BY <1>1, <1>9 DEF StartAcceptor, engine, LateHasEnded,
     ListenerIsReady, TypeOK
<1>10. CASE StartReturns
  BY <1>1, <1>10 DEF StartReturns, Start, engine, slots, LateHasEnded,
     ListenerIsReady, TypeOK
<1>11. CASE CloseAccept
  BY <1>1, <1>11 DEF CloseAccept, Close, Start, engine, slots,
     LateHasEnded, ListenerIsReady, TypeOK
<1>12. ASSUME NEW x \in Acceptors, CreateSession(x) PROVE LateHasEnded'
  BY <1>1, <1>12 DEF CreateSession, CreateTcpSocket, Move, engine,
     LateHasEnded, ListenerIsReady, TypeOK
<1>13. ASSUME NEW x \in Acceptors, CreateSessionFails(x) PROVE LateHasEnded'
  BY <1>1, <1>13 DEF CreateSessionFails, CreateTcpSocket, Move, engine,
     LateHasEnded, ListenerIsReady, TypeOK
<1>14. ASSUME NEW x \in Acceptors, NoSocket(x) PROVE LateHasEnded'
  BY <1>1, <1>14 DEF NoSocket, Crash, engine, slots, LateHasEnded,
     ListenerIsReady, TypeOK
<1>15. ASSUME NEW x \in Acceptors, ReadForAccept(x) PROVE LateHasEnded'
  BY <1>1, <1>15 DEF ReadForAccept, Move, engine, LateHasEnded,
     ListenerIsReady, TypeOK
<1>16. ASSUME NEW x \in Acceptors, AcceptEx(x) PROVE LateHasEnded'
  BY <1>1, <1>16 DEF AcceptEx, Move, engine, LateHasEnded,
     ListenerIsReady, TypeOK
<1>17. ASSUME NEW x \in Acceptors, AcceptExFails(x) PROVE LateHasEnded'
  BY <1>1, <1>17 DEF AcceptExFails, Move, engine, LateHasEnded,
     ListenerIsReady, TypeOK
<1>18. ASSUME NEW x \in Acceptors, NoAcceptEx(x) PROVE LateHasEnded'
  BY <1>1, <1>18 DEF NoAcceptEx, Crash, engine, slots, LateHasEnded,
     ListenerIsReady, TypeOK
<1>19. ASSUME NEW x \in Acceptors, Completes(x) PROVE LateHasEnded'
  BY <1>1, <1>19 DEF Completes, Move, engine, LateHasEnded,
     ListenerIsReady, TypeOK
<1>20. ASSUME NEW x \in Acceptors, Process(x) PROVE LateHasEnded'
  BY <1>1, <1>20 DEF Process, Move, engine, LateHasEnded,
     ListenerIsReady, TypeOK
<1>21. ASSUME NEW x \in Acceptors, SetUpdateAcceptSocket(x) PROVE LateHasEnded'
  BY <1>1, <1>21 DEF SetUpdateAcceptSocket, Move, engine, LateHasEnded,
     ListenerIsReady, TypeOK
<1>22. ASSUME NEW x \in Acceptors, AcceptIsLost(x) PROVE LateHasEnded'
  BY <1>1, <1>22 DEF AcceptIsLost, Move, engine, LateHasEnded,
     ListenerIsReady, TypeOK
<1>23. ASSUME NEW x \in Acceptors, HandOver(x) PROVE LateHasEnded'
  BY <1>1, <1>23 DEF HandOver, Move, engine, LateHasEnded, ListenerIsReady,
     TypeOK
<1>24. ASSUME NEW h \in Handles, SessionEnds(h) PROVE LateHasEnded'
  BY <1>1, <1>24 DEF SessionEnds, engine, slots, LateHasEnded,
     ListenerIsReady, TypeOK
<1>25. CASE UNCHANGED vars
  BY <1>1, <1>25 DEF vars, engine, slots, LateHasEnded, ListenerIsReady,
     TypeOK, KernelStates, MainSteps, SlotSteps
<1> QED
  BY <1>2, <1>3, <1>4, <1>5, <1>6, <1>7, <1>8, <1>9, <1>10, <1>11, <1>12,
     <1>13, <1>14, <1>15, <1>16, <1>17, <1>18, <1>19, <1>20, <1>21, <1>22,
     <1>23, <1>24, <1>25 DEF Next, StartStep, AcceptorStep

-----------------------------------------------------------------------------
LEMMA InvInit == Init => Inv
<1> SUFFICES ASSUME Init PROVE Inv
  OBVIOUS
<1>1. TypeOK
  <2>1. kernel \in [Handles -> KernelStates] /\ slot \in [Acceptors -> SlotSteps]
    BY DEF Init, KernelStates, SlotSteps
  <2>2. /\ guest \in [Acceptors -> Handles \cup {INVALID}]
        /\ port \in [Acceptors -> Handles \cup {INVALID}]
        /\ mSocket \in Handles \cup {INVALID} /\ main \in MainSteps
    BY DEF Init, MainSteps
  <2>3. late \in [Acceptors -> Nat] /\ acceptors \in 0..AcceptCount
    BY ListeningAssumption DEF Init
  <2> QED
    BY <2>1, <2>2, <2>3 DEF Init, TypeOK
<1>2. VectorFillsUp /\ ListenerIsReady /\ GuestsApart /\ LateHasEnded
  BY ListeningAssumption DEF Init, VectorFillsUp, ListenerIsReady,
     GuestsApart, LateHasEnded,
     Acceptors
<1> QED
  BY <1>1, <1>2 DEF Inv

LEMMA InvStep == Inv /\ [Next]_vars => Inv'
  BY TypeStep, VectorStep, ListenerStep, GuestsStep, LateStep DEF Inv

LEMMA Invariant == Spec => []Inv
<1> QED
  BY InvInit, InvStep, PTL DEF Spec

-----------------------------------------------------------------------------
(* Every variable of the listener, its acceptors and their sockets keeps   *)
(* its type.                                                               *)
THEOREM ListeningTypes == Spec => []TypeOK
<1>1. Inv => TypeOK
  BY DEF Inv
<1> QED
  BY <1>1, Invariant, PTL

(* Listener::Dispatch (Listener.cpp:38) finds the acceptor of a completion *)
(* in the vector StartAccept may still be filling, and each outstanding    *)
(* AcceptEx has a listening socket and a session socket of its own: from   *)
(* VectorFillsUp, ListenerIsReady and GuestsApart.                         *)
THEOREM FindsAcceptor == Spec => []OutstandingIsReady
<1>1. Inv => OutstandingIsReady
  <2> SUFFICES ASSUME Inv, NEW a \in Acceptors
               PROVE  /\ slot[a] \notin {"none", "create"} => a <= acceptors
                      /\ slot[a] = "armed" =>
                           /\ port[a] # INVALID /\ kernel[port[a]] = "listening"
                           /\ kernel[guest[a]] = "waiting"
                           /\ \A b \in Acceptors \ {a} : guest[b] # guest[a]
    BY DEF OutstandingIsReady
  <2>1. slot[a] \notin {"none", "create"} => a <= acceptors
    BY ListeningAssumption DEF Inv, VectorFillsUp, Acceptors, TypeOK
  <2>2. ASSUME slot[a] = "armed"
        PROVE  /\ port[a] # INVALID /\ kernel[port[a]] = "listening"
               /\ kernel[guest[a]] = "waiting"
               /\ \A b \in Acceptors \ {a} : guest[b] # guest[a]
    BY <2>2, ListeningAssumption DEF Inv, ListenerIsReady, GuestsApart, Holding
  <2> QED
    BY <2>1, <2>2
<1> QED
  BY <1>1, Invariant, PTL

(* After CloseAccept (Listener.cpp:114) an acceptor hands over one more    *)
(* connection at most: it registers again only with a socket it reads      *)
(* then, which is INVALID_SOCKET.                                          *)
THEOREM ClosedEnds == Spec => []ClosedHandsOverOnce
<1>1. Inv => ClosedHandsOverOnce
  BY DEF Inv, LateHasEnded, ClosedHandsOverOnce
<1> QED
  BY <1>1, Invariant, PTL
===============================================================================

---------------------------- MODULE SamplePrograms ----------------------------
(***************************************************************************)
(* What is checked in for the two sample programs, GameServer and          *)
(* DummyClient.  Each compiles its own copy of the enumerations, of the    *)
(* message classes and of the packet handlers, which the generators write  *)
(* from Common/Protocol and somebody copies; nothing in the build compares *)
(* them.  Here they are as they stand, for MCReceiver to compare.          *)
(*                                                                         *)
(* Packets are named without the prefix ID_, files without PacketHandler.  *)
(***************************************************************************)
EXTENDS Integers, Sequences

(* The inputs of PacketGenerator.                                          *)
eRole == {"RoleNone", "Client", "GameServer"}

Message(name, from, to) ==
  [name |-> name, file |-> "Login", marked |-> TRUE, sender |-> from, receiver |-> to]

LoginProto == {Message("C2S_ECHO_REQ", "Client", "GameServer"),
               Message("S2C_ECHO_RES", "GameServer", "Client"),
               Message("C2S_LOGIN_REQ", "Client", "GameServer"),
               Message("S2C_LOGIN_RES", "GameServer", "Client")}

SERVICE_TYPE_LOGIN == [type |-> 1, handler |-> "Login"]   \* its handler_name

-----------------------------------------------------------------------------
(* enum ePacketId of PacketId.pb.h.                                        *)
ServerPacketId == [NONE |-> 0, C2S_ECHO_REQ |-> 65537, S2C_ECHO_RES |-> 65538,
                   C2S_LOGIN_REQ |-> 65539, S2C_LOGIN_RES |-> 65540, C2S_MOVE |-> 513]
ClientPacketId == [NONE |-> 0, C2S_ECHO_REQ |-> 65537, S2C_ECHO_RES |-> 65538,
                   C2S_LOGIN_REQ |-> 65539, S2C_LOGIN_RES |-> 65540, C2S_MOVE |-> 513]

(* The services PacketServiceTypeHandler::Init enters, with their class.   *)
ServerServices == {SERVICE_TYPE_LOGIN}
ClientServices == {SERVICE_TYPE_LOGIN}

(* LoginPacketHandler: the packets Init enters, and those MakeSendBuffer   *)
(* takes.                                                                  *)
ServerHandles == {"C2S_ECHO_REQ", "C2S_LOGIN_REQ"}
ClientHandles == {"S2C_ECHO_RES", "S2C_LOGIN_RES"}
ServerMakes   == {"S2C_ECHO_RES", "S2C_LOGIN_RES"}
ClientMakes   == {"C2S_ECHO_REQ", "C2S_LOGIN_REQ"}

(* The handlers written by hand that return true, by the packet they are   *)
(* for; "invalid" is HANDLE_PACKET_ID_INVALID.                             *)
ServerAgrees == {"C2S_ECHO_REQ"}
ClientAgrees == {"S2C_ECHO_RES", "S2C_LOGIN_RES", "invalid"}

(* The client's classes, the kinds of their fields by number; the server's *)
(* are in LoginMessages.                                                   *)
ClientEchoReq  == <<"string">>
ClientEchoRes  == <<"string">>
ClientLoginReq == <<"uint", "uint", "uint", "uint">>
ClientLoginRes == <<"bool">>

(* Its setters.                                                            *)
SetField(m, n, value) == [m EXCEPT ![n] = value]

-----------------------------------------------------------------------------
(* GameSession of DummyClient: what OnConnected puts into the echo request *)
(* it sends, "Hello World" and a newline.  That of GameServer only prints. *)
OnConnected(request) == SetField(request, 1, [length |-> 12, utf8 |-> TRUE])

(* What the main functions build the services with.  The client has no     *)
(* reaper and no line.                                                     *)
GameServer  == [acceptors |-> 10, maxSessions |-> 1, maxWaiting |-> 0,
                timeoutMs |-> 10000, ioThreads |-> 5, actorThreads |-> 5]
DummyClient == [maxSessions |-> 1, ioThreads |-> 5, actorThreads |-> 5]
===============================================================================

------------------------------ MODULE MCReceiver ------------------------------
(* Receiver with the protocol of its packets: Login.proto, PacketId.proto  *)
(* and PacketConfig.json.                                                  *)
EXTENDS Receiver, PacketProtocol, SamplePrograms

TheProjects == LoadConfig(
  [exists |-> TRUE, wellFormed |-> TRUE,
   projects |-> <<[name |-> "DummyClient", role |-> "Client"],
                  [name |-> "GameServer", role |-> "GameServer"]>>])

HandlerOf(name) == IF name = "invalid" THEN HANDLE_PACKET_ID_INVALID
                                       ELSE HANDLE([name |-> name])

TheAgreeing == [DummyClient |-> {HandlerOf(name) : name \in ClientAgrees},
                GameServer  |-> {HandlerOf(name) : name \in ServerAgrees}]

(* The programs agree on the ids, and each has the handlers that the       *)
(* generator makes for it today.                                           *)
Names(messages) == {m.name : m \in messages}

ASSUME CopiesAreCurrent ==
  /\ ServerPacketId = ClientPacketId
  /\ ServerServices = Services /\ ClientServices = Services
  /\ Names(HandlerFile("GameServer", "Login").handled) = ServerHandles
  /\ Names(HandlerFile("DummyClient", "Login").handled) = ClientHandles
  /\ Names(Sendable("GameServer")) = ServerMakes
  /\ Names(Sendable("DummyClient")) = ClientMakes

(* The assumptions of the theorems about two projects hold of these two.   *)
ASSUME TwoSound ==
  /\ Generates /\ "PacketId" \in DescFiles
  /\ {Projects[1].name, Projects[2].name} = {"DummyClient", "GameServer"}
  /\ \A m, n \in Messages : PacketIds[m.name] = PacketIds[n.name] => m = n
  /\ \A m \in Messages : \E s \in Services :
       s.type = GET_SERVICE_TYPE(PacketIds[m.name]) /\ s.handler = m.file

(* The samples: the server kicks a client for a login and for a move.      *)
ASSUME SampleServer ==
  {x \in DOMAIN PacketIds : ~Kicked("GameServer", PacketIds[x], TRUE)} = {"C2S_ECHO_REQ"}

(* A third project: each file is written for the last peer, and the client *)
(* can make, and would have to handle, what runs between the other two.    *)
ThreeProjects == Append(TheProjects, [name |-> "DbServer", role |-> "DbServer"])

Three == INSTANCE PacketProtocol
           WITH Projects <- ThreeProjects, Roles <- eRole \cup {"DbServer"},
                Messages <- LoginProto \cup {Message("S2D_SAVE", "GameServer", "DbServer"),
                                              Message("D2S_SAVED", "DbServer", "GameServer")}

ASSUME WiderThanPair ==
  /\ Three!LastPair("GameServer") = <<2, 3>> /\ Three!LastPair("DummyClient") = <<1, 3>>
  /\ {m.name : m \in Three!Sendable("DummyClient")} =
       {"C2S_ECHO_REQ", "C2S_LOGIN_REQ", "S2D_SAVE"}
  /\ {m.name : m \in Three!HandlerFile("DummyClient", "Login").handled} =
       {"S2C_ECHO_RES", "S2C_LOGIN_RES", "D2S_SAVED"}

(* Without its configuration the generator reports success and writes      *)
(* nothing.                                                                *)
NoConfig ==
  INSTANCE PacketProtocol
    WITH Projects <- LoadConfig([exists |-> FALSE, wellFormed |-> FALSE])

ASSUME SilentSuccess == NoConfig!Generates /\ NoConfig!Pairs = {}

-----------------------------------------------------------------------------
W == INSTANCE LoginMessages

ASSUME ClassesAgree ==
  /\ ClientEchoReq = W!C2S_ECHO_REQ   /\ ClientEchoRes = W!S2C_ECHO_RES
  /\ ClientLoginReq = W!C2S_LOGIN_REQ /\ ClientLoginRes = W!S2C_LOGIN_RES

(* What the client sends when it is connected comes through to the server, *)
(* which keeps the session.                                                *)
ASSUME Greeting ==
  LET sent == OnConnected(W!ClearMessage(ClientEchoReq))
      wire == W!InternalSerialize(ClientEchoReq, sent)
  IN  /\ W!IsMessage(sent, ClientEchoReq)
      /\ W!Parsed(W!C2S_ECHO_REQ, wire) = sent
      /\ ~Kicked("GameServer", PacketIds["C2S_ECHO_REQ"], W!Parses(W!C2S_ECHO_REQ, wire))

Numbers == {0, 1, 127, 128, 16383, 16384, 268435455, 268435456, 2147483647}

Strings == {s \in [length : {0, 1, 127, 128, 65525, 65526}, utf8 : BOOLEAN] :
              s.length = 0 => s.utf8}

(* A varint against its definition, and the size of a message against the  *)
(* sizes of what is on the wire.                                           *)
ASSUME ShortestVarint ==
  \A v \in Numbers :
    W!VarintSize(v) =
      IF v >= 268435456 THEN 5 ELSE CHOOSE k \in 1..4 : v < 128^k /\ (k = 1 \/ v >= 128^(k - 1))

ASSUME WholeMessage ==
  /\ \A s \in Strings :
       W!ByteSizeLong(W!C2S_ECHO_REQ, <<s>>) =
         IF s.length = 0 THEN 0 ELSE 1 + W!VarintSize(s.length) + s.length
  /\ \A id, hp \in Numbers :
       LET m == <<id, hp, 0, 7>>
       IN  /\ W!ByteSizeLong(W!C2S_LOGIN_REQ, m) = 2 +
                (IF id = 0 THEN 0 ELSE 1 + W!VarintSize(id)) +
                (IF hp = 0 THEN 0 ELSE 1 + W!VarintSize(hp))
           /\ W!Parsed(W!C2S_LOGIN_REQ, W!InternalSerialize(W!C2S_LOGIN_REQ, m)) = m

(* A text that is not UTF-8 is sent, and the server kicks the sender.      *)
ASSUME OtherTextIsKicked ==
  \A s \in Strings :
    Kicked("GameServer", PacketIds["C2S_ECHO_REQ"],
           W!Parses(W!C2S_ECHO_REQ, W!InternalSerialize(W!C2S_ECHO_REQ, <<s>>)))
      <=> ~s.utf8

-----------------------------------------------------------------------------
T == INSTANCE SessionTimeout

(* The client greets and is silent: the reaper of the sample server, which *)
(* looks every ten seconds, keeps it at a look within ten seconds of its   *)
(* record and takes it at the next.                                        *)
ASSUME SilentClient ==
  \A look \in {1, 5000, 9999, 10000}, delay \in {1, 20} :
    /\ ~T!isExpired(GameServer.timeoutMs, 0, look)
    /\ T!isExpired(GameServer.timeoutMs, 0, look + GameServer.timeoutMs + delay)

(* A session with a packet every tenth of a second is kept by a timeout of *)
(* a tenth more than a second, and reaped with one of half a second: the   *)
(* record of the activity is too coarse for the latter.                    *)
Recorded[n \in 0..30] ==
  IF n = 0 THEN 0 ELSE T!UpdateActivity(Recorded[n - 1], 100 * n, 100 * n)

ASSUME TimeoutBelowASecond ==
  /\ \A n \in 1..30 : ~T!isExpired(1100, Recorded[n], 100 * n + 99)
  /\ \E n \in 1..30 : T!isExpired(500, Recorded[n], 100 * n)
===============================================================================

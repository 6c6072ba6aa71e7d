---------------------------- MODULE PacketProtocol ----------------------------
(***************************************************************************)
(* PacketGenerator and the code it writes.  From the options of the        *)
(* messages in the .proto files and a configuration of projects it makes,  *)
(* for each project, one handler class per .proto file: the handlers of    *)
(* the packets the project receives and a MakeSendBuffer for each packet   *)
(* it sends; and PacketServiceTypeHandler, which finds the class by the    *)
(* upper half of a packet's id.                                            *)
(*                                                                         *)
(* A handler is a record: its function fn and, for HANDLE_<message>, the   *)
(* message.  Text is left out; what is in a file is a set.                 *)
(***************************************************************************)
EXTENDS Integers, Sequences

CONSTANTS
  Projects,   \* PacketConfig.json: a sequence of [name, role]
  Roles,      \* the values of eRole
  DescFiles,  \* the names of the .desc files in Common/Protocol
  Messages,   \* [name, file, marked, sender, receiver]; marked: has options
  PacketIds,  \* enum ePacketId: the id of each message name
  Services,   \* the values of eServiceType with a handler_name: [type, handler]
  Agreeing    \* by project name: the handlers written by hand that return true

(* PacketConfig.Load: a configuration that is missing or malformed counts  *)
(* as one without projects.                                                *)
LoadConfig(file) ==
  IF file.exists /\ file.wellFormed THEN file.projects ELSE <<>>

(* Those that get a handler class.                                         *)
Files == DescFiles \ {"Enum", "PacketId", "Struct"}

ASSUME ProtocolAssumption ==
  /\ Projects \in Seq([name : STRING, role : STRING])
  /\ Messages \subseteq [name : STRING, file : Files, marked : BOOLEAN,
                         sender : Roles, receiver : Roles]
  /\ \A s \in Services : s.handler \in Files

InFile(file) == {m \in Messages : m.file = file}

-----------------------------------------------------------------------------
(* The generator, for a project of one role and its peer of another.       *)

(* The packets with a handler: those for this role, and those from the     *)
(* peer's.                                                                 *)
Handled(file, receiver, sender) ==
  {m \in InFile(file) : m.marked /\ (m.receiver = receiver \/ m.sender = sender)}

(* The packets with a MakeSendBuffer.                                      *)
Made(file, receiver, sender) ==
  {m \in InFile(file) : m.marked /\ (m.receiver = sender \/ m.sender = receiver)}

(* GenerateHandleFunctionDeclares reads the options without a test, so a   *)
(* message that has none fails the file.                                   *)
Declarable(file) == \A m \in InFile(file) : m.marked

GenerateHandlerFile(file, receiver, sender) ==
  [handled |-> Handled(file, receiver, sender),
   made    |-> Made(file, receiver, sender)]

(* Generate goes over all ordered pairs of projects of different names.    *)
Pairs == {p \in (DOMAIN Projects) \X (DOMAIN Projects) :
            Projects[p[1]].name # Projects[p[2]].name}

(* Whether it gets through, which the main program reports as SUCCESS.     *)
Generates ==
  Pairs # {} =>
    /\ \A p \in Pairs : Projects[p[1]].role \in Roles /\ Projects[p[2]].role \in Roles
    /\ DescFiles # {}
    /\ \A file \in Files : Declarable(file)

(* The output path names the receiver only: of all the pairs that write a  *)
(* project's files the last one stays.                                     *)
Before(p, q) == p[1] < q[1] \/ (p[1] = q[1] /\ p[2] <= q[2])

PairsOf(name) == {p \in Pairs : Projects[p[1]].name = name}

LastPair(name) == CHOOSE p \in PairsOf(name) : \A q \in PairsOf(name) : Before(q, p)

HandlerFile(name, file) ==
  LET p == LastPair(name)
  IN  GenerateHandlerFile(file, Projects[p[1]].role, Projects[p[2]].role)

-----------------------------------------------------------------------------
(* The generated code of the project called name, after Generates.         *)
GET_SERVICE_TYPE(id) == (id \div 65536) % 65536
GET_PACKET_ID(id)    == id % 65536

HANDLE(m) == [fn |-> "HANDLE", message |-> m.name]
HANDLE_PACKET_ID_INVALID    == [fn |-> "HANDLE_PACKET_ID_INVALID"]
HANDLE_SERVICE_TYPE_INVALID == [fn |-> "HANDLE_SERVICE_TYPE_INVALID"]

(* sPacketHandleMap and sPacketServiceTypeMap, as Init fills them.  The    *)
(* services come from PacketId.desc.                                       *)
sPacketHandleMap(name, file, id) ==
  {m \in HandlerFile(name, file).handled : PacketIds[m.name] = id}

ServiceInits == IF "PacketId" \in DescFiles THEN Services ELSE {}

sPacketServiceTypeMap(type) == {s \in ServiceInits : s.type = type}

HandlePacket(name, file, id) ==
  LET found == sPacketHandleMap(name, file, id)
  IN  IF found = {} THEN HANDLE_PACKET_ID_INVALID
                    ELSE HANDLE(CHOOSE m \in found : TRUE)

HandlePacketServiceType(name, id) ==
  LET found == sPacketServiceTypeMap(GET_SERVICE_TYPE(id))
  IN  IF found = {} THEN HANDLE_SERVICE_TYPE_INVALID
                    ELSE HandlePacket(name, (CHOOSE s \in found : TRUE).handler, id)

(* OnRecvPacket disconnects the session when the handler says no, or the   *)
(* message does not parse.                                                 *)
Kicked(name, id, parses) ==
  LET handler == HandlePacketServiceType(name, id)
  IN  (handler.fn = "HANDLE" /\ ~parses) \/ handler \notin Agreeing[name]

(* What the program called name can send.                                  *)
Sendable(name) == UNION {HandlerFile(name, file).made : file \in Files}
===============================================================================

------------------------------ MODULE Connection ------------------------------
(***************************************************************************)
(* The life of a session object around Admission: the accept slots of the  *)
(* Listener (or the loop of ClientService::Start), processConnect with     *)
(* what follows AddSession, the reaper's timers, processDisconnect with    *)
(* Session::Clear, and the references that keep the object alive.  The     *)
(* steps of Admission go on inside: opening[s] and closing[s] say which    *)
(* handler of s they belong to.                                            *)
(*                                                                         *)
(* A session holds itself: setSessionEvent gives a shared_ptr to each of   *)
(* its parts, and only their Clear or Process lets it go.  A thread that   *)
(* calls through a null pointer ends the process (crashed).                *)
(***************************************************************************)
EXTENDS Admission

CONSTANTS
  Slots,        \* Listener::mAcceptors
  ReaperJobs,   \* mMaxCount of the reaper's job queue
  AcceptFails,  \* bound: calls of the accept and connect path that fail
  InGameMoves   \* bound: SetSessionInGame calls by user code

ASSUME ConnectionAssumption ==
  /\ IsFiniteSet(Slots) /\ None \notin Slots
  /\ ReaperJobs \in Nat \ {0}
  /\ AcceptFails \in Nat /\ InGameMoves \in Nat

VARIABLES
  kind,      \* Service::mServiceType
  slot,      \* slot[a]: where the acceptor is
  guest,     \* guest[a]: the session it holds
  start,     \* ClientService::Start: "ready", "running", "done", "failed"
  born,      \* the sessions that have been created
  dialing,   \* sessions with a ConnectEx outstanding
  service,   \* sessions whose mpService is set
  self,      \* self[s]: the parts of s that hold s
  opening,   \* opening[s]: the step of processConnect
  closing,   \* closing[s]: the step of processDisconnect
  reaper,    \* Service::mpSessionReaper is set
  timer,     \* sessions with a reap job in the timing wheel
  posted,    \* sessions with a reap job in the reaper's queue
  asleep,    \* no completion is on its way for the jobs in that queue
  unposted,  \* history: sessions whose reap job the full queue turned down
  reaping,   \* reaping[s]: the step of ReapSession
  crashed,   \* a null pointer has been called through
  failed,    \* failed calls so far
  moves,     \* SetSessionInGame calls so far
  refused,   \* history: sessions AddSession or the line turned away
  dropped    \* history: sessions the accept or connect path gave up

mailbox == <<reaper, posted, asleep, unposted>>
watch   == <<mailbox, timer, reaping>>
objects == <<kind, slot, guest, start, born, dialing, service, self, opening,
             closing, watch, crashed, failed, moves, refused, dropped>>
cvars   == <<vars, objects>>

Parts == {"connector", "disconnector", "receiver", "sender"}

(* What StartAccept leaves, or the start of the client.  The failure of a  *)
(* step of StartAccept ends the process.  A server may have a reaper;      *)
(* ClientService has none.                                                 *)
ConnectionInit ==
  /\ Init
  /\ kind \in {"server", "client"}
  /\ slot    = [a \in Slots |-> IF kind = "server" THEN "register" ELSE "dead"]
  /\ guest   = [a \in Slots |-> None]
  /\ start   = IF kind = "client" THEN "running" ELSE "done"
  /\ born    = {}
  /\ dialing = {}
  /\ service = {}
  /\ self    = [s \in Sessions |-> {}]
  /\ opening = [s \in Sessions |-> "no"]
  /\ closing = [s \in Sessions |-> "no"]
  /\ reaper \in BOOLEAN /\ (reaper => kind = "server")
  /\ timer    = {}
  /\ posted   = {}
  /\ asleep   = FALSE
  /\ unposted = {}
  /\ reaping = [s \in Sessions |-> "no"]
  /\ crashed = FALSE
  /\ failed  = 0
  /\ moves   = 0
  /\ refused = {}
  /\ dropped = {}

Fail == failed < AcceptFails /\ failed' = failed + 1

-----------------------------------------------------------------------------
(* Service::CreateSession, and the acceptor's Register around it.          *)

Create(s) ==
  /\ s \notin born
  /\ born' = born \cup {s}
  /\ service' = service \cup {s}
  /\ self' = [self EXCEPT ![s] = Parts]

(* IocpCore::Register fails: the new session is cleared and let go.        *)
CreateFails(s) ==
  /\ s \notin born
  /\ Fail
  /\ born' = born \cup {s}
  /\ UNCHANGED <<service, self>>

RegisterAccept(a, s) ==
  /\ slot[a] = "register"
  /\ Create(s)
  /\ slot' = [slot EXCEPT ![a] = "armed"]
  /\ guest' = [guest EXCEPT ![a] = s]
  /\ UNCHANGED <<vars, kind, start, dialing, opening, closing, watch, crashed,
                 failed, moves, refused, dropped>>

(* No session, or AcceptEx fails at once: the session is cleared (the      *)
(* accept event goes on holding it) and the acceptor with it.              *)
RegisterAcceptFails(a, s) ==
  /\ slot[a] = "register"
  /\ CreateFails(s)
  /\ slot' = [slot EXCEPT ![a] = "dead"]
  /\ \/ UNCHANGED guest
     \/ guest' = [guest EXCEPT ![a] = s]
  /\ UNCHANGED <<vars, kind, start, dialing, opening, closing, watch, crashed,
                 moves, refused, dropped>>

(* Acceptor::Process up to processConnect, whose first step is Accept.     *)
AcceptCompletes(a) ==
  LET s == guest[a] IN
  /\ slot[a] = "armed"
  /\ Accept(s)
  /\ slot' = [slot EXCEPT ![a] = "opening"]
  /\ self' = [self EXCEPT ![s] = @ \ {"connector"}]
  /\ opening' = [opening EXCEPT ![s] = "admit"]
  /\ UNCHANGED <<kind, guest, start, born, dialing, service, closing, watch,
                 crashed, failed, moves, refused, dropped>>

(* SetUpdateAcceptSocket or getpeername fails.                             *)
AcceptIsLost(a) ==
  /\ slot[a] = "armed"
  /\ Fail
  /\ slot' = [slot EXCEPT ![a] = "dead"]
  /\ guest' = [guest EXCEPT ![a] = None]
  /\ dropped' = dropped \cup {guest[a]}
  /\ UNCHANGED <<vars, kind, start, born, dialing, service, self, opening,
                 closing, watch, crashed, moves, refused>>

(* processConnect has returned; the acceptor registers again.              *)
Rearm(a) ==
  /\ slot[a] = "opening"
  /\ opening[guest[a]] = "no"
  /\ slot' = [slot EXCEPT ![a] = "register"]
  /\ guest' = [guest EXCEPT ![a] = None]
  /\ UNCHANGED <<vars, kind, start, born, dialing, service, self, opening,
                 closing, watch, crashed, failed, moves, refused, dropped>>

-----------------------------------------------------------------------------
(* ClientService::Start and Connector::Register.                           *)

Dial(s) ==
  /\ start = "running"
  /\ Cardinality(born) < MaxSessions
  /\ Create(s)
  /\ dialing' = dialing \cup {s}
  /\ UNCHANGED <<vars, kind, slot, guest, start, opening, closing, watch,
                 crashed, failed, moves, refused, dropped>>

(* Start uses the session without a test.                                  *)
DialFails(s) ==
  /\ start = "running"
  /\ Cardinality(born) < MaxSessions
  /\ CreateFails(s)
  /\ crashed' = TRUE
  /\ UNCHANGED <<vars, kind, slot, guest, start, dialing, opening, closing,
                 watch, moves, refused, dropped>>

(* An option, the bind or ConnectEx fails: Disconnect finds the session    *)
(* Disconnected and does nothing, the connector lets go, and Start ends.   *)
ConnectIsLost(s) ==
  /\ start = "running"
  /\ Cardinality(born) < MaxSessions
  /\ s \notin born
  /\ Fail
  /\ born' = born \cup {s}
  /\ service' = service \cup {s}
  /\ self' = [self EXCEPT ![s] = Parts \ {"connector"}]
  /\ dropped' = dropped \cup {s}
  /\ start' = "failed"
  /\ UNCHANGED <<vars, kind, slot, guest, dialing, opening, closing, watch,
                 crashed, moves, refused>>

StartReturns ==
  /\ start = "running"
  /\ Cardinality(born) = MaxSessions
  /\ start' = "done"
  /\ UNCHANGED <<vars, kind, slot, guest, born, dialing, service, self,
                 opening, closing, watch, crashed, failed, moves, refused,
                 dropped>>

(* Session::Dispatch on the connect event, whether ConnectEx succeeded or  *)
(* not (IocpCore dispatches both).                                         *)
ConnectCompletes(s) ==
  /\ s \in dialing
  /\ Accept(s)
  /\ dialing' = dialing \ {s}
  /\ self' = [self EXCEPT ![s] = @ \ {"connector"}]
  /\ opening' = [opening EXCEPT ![s] = "admit"]
  /\ UNCHANGED <<kind, slot, guest, start, born, service, closing, watch,
                 crashed, failed, moves, refused, dropped>>

-----------------------------------------------------------------------------
(* The handlers' steps in Admission, and what they do to the object.       *)

(* A DisconnectEx that failed at once makes the disconnector let go.       *)
LetGo == [s \in Sessions |-> IF io[s] # "failed" /\ io'[s] = "failed"
                               THEN self[s] \ {"disconnector"} ELSE self[s]]

TurnedAway(s) == IF handler[s] = "full" THEN {s}
                 ELSE IF handler[s] \in {"demote", "release"} THEN {chosen[s]} \ {None}
                 ELSE {}

Handle(s) ==
  /\ HandlerStep(s)
  /\ self' = LetGo
  /\ refused' = refused \cup TurnedAway(s)
  /\ opening' = [opening EXCEPT ![s] =
       IF @ = "admit" /\ handler'[s] = "idle"
         THEN IF handler[s] = "full" THEN "no" ELSE "reap"
         ELSE @]
  /\ closing' = [closing EXCEPT ![s] =
       IF @ = "remove" /\ handler'[s] = "idle" THEN "clear" ELSE @]
  /\ UNCHANGED <<kind, slot, guest, start, born, dialing, service, watch,
                 crashed, failed, moves, dropped>>

(* Session::registerReap calls through mpService; without a reaper         *)
(* RegisterSessionReap starts no timer.                                    *)
RegisterReap(s) ==
  IF s \notin service
    THEN crashed' = TRUE /\ UNCHANGED timer
    ELSE /\ timer' = IF reaper THEN timer \cup {s} ELSE timer
         /\ UNCHANGED crashed

OpenReap(s) ==
  /\ opening[s] = "reap"
  /\ RegisterReap(s)
  /\ opening' = [opening EXCEPT ![s] = "receive"]
  /\ UNCHANGED <<vars, kind, slot, guest, start, born, dialing, service, self,
                 closing, mailbox, reaping, failed, moves, refused, dropped>>

(* Receiver::Register clears the receiver of a session that is (still, or  *)
(* again) Disconnected.                                                    *)
OpenReceive(s) ==
  /\ opening[s] = "receive"
  /\ opening' = [opening EXCEPT ![s] = "no"]
  /\ self' = [self EXCEPT ![s] =
                IF state[s] = "Disconnected" THEN @ \ {"receiver"} ELSE @]
  /\ UNCHANGED <<vars, kind, slot, guest, start, born, dialing, service,
                 closing, watch, crashed, failed, moves, refused, dropped>>

(* Somebody calls Disconnect.                                              *)
Close(s) ==
  /\ Leave(s)
  /\ self' = LetGo
  /\ UNCHANGED <<kind, slot, guest, start, born, dialing, service, opening,
                 closing, watch, crashed, failed, moves, refused, dropped>>

(* The completion finds its owner in the disconnect event.                 *)
DisconnectArrives(s) ==
  /\ "disconnector" \in self[s]
  /\ DisconnectCompletes(s)
  /\ self' = [self EXCEPT ![s] = @ \ {"disconnector"}]
  /\ closing' = [closing EXCEPT ![s] = "remove"]
  /\ UNCHANGED <<kind, slot, guest, start, born, dialing, service, opening,
                 watch, crashed, failed, moves, refused, dropped>>

(* Wrong on purpose: the sender is not cleared.                            *)
ClearButSender(s) ==
  /\ closing[s] = "clear"
  /\ closing' = [closing EXCEPT ![s] = "no"]
  /\ service' = service \ {s}
  /\ self' = [self EXCEPT ![s] = @ \cap {"sender"}]
  /\ UNCHANGED <<vars, kind, slot, guest, start, born, dialing, opening, watch,
                 crashed, failed, moves, refused, dropped>>

(* Session::Clear.                                                         *)
Clear(s) ==
  /\ closing[s] = "clear"
  /\ closing' = [closing EXCEPT ![s] = "no"]
  /\ service' = service \ {s}
  /\ self' = [self EXCEPT ![s] = {}]
  /\ UNCHANGED <<vars, kind, slot, guest, start, born, dialing, opening, watch,
                 crashed, failed, moves, refused, dropped>>

(* User code: Session::SetSessionInGame.                                   *)
SetSessionInGame(s) ==
  /\ moves < InGameMoves
  /\ moves' = moves + 1
  /\ Cas(s, "Connected", "InGame")
  /\ UNCHANGED <<managers, handler, chosen, after, io, ticket, told, exFails,
                 kind, slot, guest, start, born, dialing, service, self,
                 opening, closing, watch, crashed, failed, refused, dropped>>

-----------------------------------------------------------------------------
(* SessionReaper: a timer posts the job to the reaper, an actor, which     *)
(* runs one job at a time.                                                 *)

(* Somebody besides its own parts refers to s; the jobs are weak pointers. *)
Used(s) ==
  \/ s \in members
  \/ \E k \in DOMAIN line : line[k] = s
  \/ \E h \in Sessions : chosen[h] = s
  \/ \E a \in Slots : guest[a] = s
  \/ opening[s] # "no" \/ closing[s] # "no" \/ reaping[s] # "no"

Exists(s) == Used(s) \/ self[s] # {}

ReaperIsIdle == \A s \in Sessions : reaping[s] = "no"

(* JobDispatcher::Post in the timer's callback: the queue is full and the  *)
(* job is gone, or the actor is registered, which wakes it if it slept.    *)
TimerFires(s) ==
  /\ s \in timer
  /\ timer' = timer \ {s}
  /\ \/ /\ Cardinality(posted) < ReaperJobs
        /\ posted' = posted \cup {s}
        /\ asleep' = FALSE
        /\ UNCHANGED unposted
     \/ /\ Cardinality(posted) >= ReaperJobs
        /\ unposted' = unposted \cup {s}
        /\ UNCHANGED <<posted, asleep>>
  /\ UNCHANGED <<vars, kind, slot, guest, start, born, dialing, service, self,
                 opening, closing, reaper, reaping, crashed, failed, moves,
                 refused, dropped>>

(* PostQueuedCompletionStatus fails, or the thread that receives the       *)
(* completion finds the actor acquired and throws it away: the jobs wait   *)
(* for the next Post.                                                      *)
CompletionIsLost ==
  /\ posted # {} /\ ~asleep
  /\ ReaperIsIdle
  /\ asleep' = TRUE
  /\ UNCHANGED <<vars, kind, slot, guest, start, born, dialing, service, self,
                 opening, closing, reaper, timer, posted, unposted, reaping,
                 crashed, failed, moves, refused, dropped>>

(* Actor::Execute.  The order of the jobs does not matter here.            *)
RunReapJob(s) ==
  /\ s \in posted /\ ~asleep
  /\ ReaperIsIdle
  /\ posted' = posted \ {s}
  /\ reaping' = IF Exists(s) THEN [reaping EXCEPT ![s] = "check"] ELSE reaping
  /\ UNCHANGED <<vars, kind, slot, guest, start, born, dialing, service, self,
                 opening, closing, reaper, timer, asleep, unposted, crashed,
                 failed, moves, refused, dropped>>

(* The idle time is over: Disconnect(Timeout), which may find nothing to   *)
(* do.                                                                     *)
Expired(s) ==
  /\ reaping[s] = "check"
  /\ \/ Leave(s)
     \/ state[s] = "Disconnected" /\ UNCHANGED vars
  /\ self' = LetGo
  /\ reaping' = [reaping EXCEPT ![s] = "no"]
  /\ UNCHANGED <<kind, slot, guest, start, born, dialing, service, opening,
                 closing, mailbox, timer, crashed, failed, moves, refused,
                 dropped>>

NotExpired(s) ==
  /\ reaping[s] = "check"
  /\ reaping' = [reaping EXCEPT ![s] = "again"]
  /\ UNCHANGED <<vars, kind, slot, guest, start, born, dialing, service, self,
                 opening, closing, mailbox, timer, crashed, failed, moves,
                 refused, dropped>>

(* Wrong on purpose: an active session is not looked at again.             *)
ReapOnce(s) ==
  /\ reaping[s] = "again"
  /\ reaping' = [reaping EXCEPT ![s] = "no"]
  /\ UNCHANGED <<vars, kind, slot, guest, start, born, dialing, service, self,
                 opening, closing, mailbox, timer, crashed, failed, moves,
                 refused, dropped>>

ReapAgain(s) ==
  /\ reaping[s] = "again"
  /\ RegisterReap(s)
  /\ reaping' = [reaping EXCEPT ![s] = "no"]
  /\ UNCHANGED <<vars, kind, slot, guest, start, born, dialing, service, self,
                 opening, closing, mailbox, failed, moves, refused, dropped>>

-----------------------------------------------------------------------------
SessionStep(s) ==
  \/ Handle(s)     \/ OpenReap(s) \/ OpenReceive(s) \/ Clear(s)
  \/ NotExpired(s) \/ Expired(s)  \/ ReapAgain(s)

(* After a call through a null pointer the process is gone.                *)
ConnectionNext ==
  /\ ~crashed
  /\ \/ \E a \in Slots :
          \/ \E s \in Sessions : RegisterAccept(a, s) \/ RegisterAcceptFails(a, s)
          \/ AcceptCompletes(a) \/ AcceptIsLost(a) \/ Rearm(a)
     \/ \E s \in Sessions :
          \/ Dial(s) \/ DialFails(s) \/ ConnectIsLost(s) \/ ConnectCompletes(s)
          \/ SessionStep(s)
          \/ Close(s) \/ SetSessionInGame(s)
          \/ DisconnectArrives(s) \/ TimerFires(s) \/ RunReapJob(s)
     \/ StartReturns \/ CompletionIsLost

ConnectionSpec == ConnectionInit /\ [][ConnectionNext]_cvars

-----------------------------------------------------------------------------
(* Properties.                                                             *)

ConnectionTypeOK ==
  /\ TypeOK
  /\ kind \in {"server", "client"}
  /\ slot \in [Slots -> {"register", "armed", "opening", "dead"}]
  /\ guest \in [Slots -> Sessions \cup {None}]
  /\ start \in {"running", "done", "failed"}
  /\ born \subseteq Sessions /\ dialing \subseteq born
  /\ service \subseteq born
  /\ self \in [Sessions -> SUBSET Parts]
  /\ opening \in [Sessions -> {"no", "admit", "reap", "receive"}]
  /\ closing \in [Sessions -> {"no", "remove", "clear"}]
  /\ reaper \in BOOLEAN /\ asleep \in BOOLEAN
  /\ timer \subseteq born /\ posted \subseteq born
  /\ unposted \subseteq born
  /\ reaping \in [Sessions -> {"no", "check", "again"}]
  /\ crashed \in BOOLEAN
  /\ failed \in 0..AcceptFails /\ moves \in 0..InGameMoves
  /\ refused \subseteq born /\ dropped \subseteq born

(* A session that holds itself is of use to somebody, or waits for the     *)
(* completion of its DisconnectEx, whose event still names it; the only    *)
(* ones that stay behind are those that were turned away and those whose   *)
(* accept or connect failed, because Disconnect does nothing for them.     *)
SessionsAreAccounted ==
  \A s \in Sessions :
    /\ self[s] # {} =>
         Used(s) \/ s \in dialing \/ s \in refused \/ s \in dropped
    /\ io[s] = "pending" => "disconnector" \in self[s]

(* Where the service has a reaper, a connected session stays on its way to *)
(* it: a thread is about to start its timer, the timer is pending, its job *)
(* is posted or running.  It is in one of these places only, so it is not  *)
(* looked at twice in a period, and it is lost to the reaper only when     *)
(* the full queue turned its job down.  (A posted job may sleep until the  *)
(* next session's timer fires, when its completion was lost.)              *)
ConnectedIsWatched ==
  \A s \in Sessions :
    /\ reaper /\ state[s] # "Disconnected" /\ ~crashed =>
         \/ opening[s] = "reap" \/ s \in timer \/ s \in posted
         \/ reaping[s] # "no"   \/ s \in unposted
    /\ opening[s] = "reap" => s \notin timer \cup posted \cup unposted
    /\ s \in timer => s \notin posted \cup unposted
    /\ s \in posted => s \notin unposted
    /\ reaping[s] # "no" =>
         opening[s] # "reap" /\ s \notin timer \cup posted \cup unposted
===============================================================================

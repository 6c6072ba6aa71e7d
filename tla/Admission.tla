------------------------------ MODULE Admission ------------------------------
(***************************************************************************)
(* How a server lets sessions in and out: SessionManager (seats),          *)
(* WaitQueueManager (the line in front of them), the parts of Service that *)
(* move a session between them, and the state machine of Session that      *)
(* these handlers drive.  Handlers run on any IOCP or scheduler thread; a  *)
(* step is one critical section of a manager or one atomic operation on a  *)
(* session's state.                                                        *)
(*                                                                         *)
(* handler[s] is the call in progress on behalf of s: processConnect when  *)
(* its accept completes, processDisconnect when its DisconnectEx does.     *)
(***************************************************************************)
EXTENDS Integers, Sequences, FiniteSets

CONSTANTS
  Sessions,        \* the sessions the acceptors create
  MaxSessions,     \* mMaxSessionCount
  WaitSizes,       \* the sizes the line may be given
  DisconnectFails, \* bound: DisconnectEx calls that fail at once
  WeakFails,       \* bound: compare_exchange_weak calls that fail spuriously
  None             \* "no session"

ASSUME AdmissionAssumption ==
  /\ IsFiniteSet(Sessions)
  /\ MaxSessions \in Nat /\ WaitSizes \subseteq Nat
  /\ DisconnectFails \in Nat /\ WeakFails \in Nat
  /\ None \notin Sessions

VARIABLES
  members,   \* SessionManager::mSessions
  seats,     \* SessionManager::mCurrentSessionCount
  line,      \* WaitQueueManager::mEnterWaitQueue
  issued,    \* mWaitTicket: tickets given out
  called,    \* mEnterTicket: tickets called up
  maxWaitSize, \* mMaxWaitSize: the size the line was given
  state,     \* Session::mSessionState
  handler,   \* the step the handler of s is at
  chosen,    \* chosen[s]: the session the handler of s admits from the line
  after,     \* after[s]: where admitWaitingSession returns to
  io,        \* DisconnectEx of s: "none", "pending", "failed", "done"
  ticket,    \* ticket[s]: what OnEnterWaitQueue told s
  told,      \* history: the callbacks s received, in order
  exFails, weakFails   \* failures so far

managers == <<members, seats, line, issued, called, maxWaitSize>>
vars == <<managers, state, handler, chosen, after, io, ticket, told,
          exFails, weakFails>>

States == {"Connected", "Waiting", "InGame", "Disconnected"}

Steps == {"unborn", "add", "connect", "undo", "enqueue", "wait", "full", "idle",
          "remove", "dequeue", "seat", "promote", "demote", "release"}

Init ==
  /\ members = {}
  /\ seats = 0
  /\ line = << >>
  /\ issued = 0
  /\ called = 0
  /\ maxWaitSize \in WaitSizes
  /\ state   = [s \in Sessions |-> "Disconnected"]
  /\ handler = [s \in Sessions |-> "unborn"]
  /\ chosen    = [s \in Sessions |-> None]
  /\ after   = [s \in Sessions |-> "idle"]
  /\ io      = [s \in Sessions |-> "none"]
  /\ ticket  = [s \in Sessions |-> 0]
  /\ told    = [s \in Sessions |-> << >>]
  /\ exFails = 0
  /\ weakFails = 0

Go(s, from, to) == handler[s] = from /\ handler' = [handler EXCEPT ![s] = to]

Tell(s, what) == told' = [told EXCEPT ![s] = Append(@, what)]

(* compare_exchange_weak(from, to) on mSessionState.                       *)
Cas(s, from, to) ==
  /\ state[s] = from
  /\ state' = [state EXCEPT ![s] = to]
  /\ UNCHANGED weakFails

CasFails(s, from) ==
  /\ UNCHANGED state
  /\ \/ state[s] # from /\ UNCHANGED weakFails
     \/ state[s] = from /\ weakFails < WeakFails /\ weakFails' = weakFails + 1

(* Wrong on purpose: every call goes through.                              *)
DisconnectAlways(s, reason) ==
  /\ state' = [state EXCEPT ![s] = "Disconnected"]
  /\ Tell(s, reason)
  /\ \/ io' = [io EXCEPT ![s] = "pending"] /\ UNCHANGED exFails
     \/ /\ exFails < DisconnectFails
        /\ exFails' = exFails + 1
        /\ io' = [io EXCEPT ![s] = "failed"]

(* Session::Disconnect: nothing unless the exchange finds the session not  *)
(* disconnected; then OnDisconnecting and DisconnectEx.                    *)
Disconnect(s, reason) ==
  \/ state[s] = "Disconnected" /\ UNCHANGED <<state, told, io, exFails>>
  \/ /\ state[s] # "Disconnected"
     /\ state' = [state EXCEPT ![s] = "Disconnected"]
     /\ Tell(s, reason)
     /\ \/ io' = [io EXCEPT ![s] = "pending"] /\ UNCHANGED exFails
        \/ /\ exFails < DisconnectFails
           /\ exFails' = exFails + 1
           /\ io' = [io EXCEPT ![s] = "failed"]

-----------------------------------------------------------------------------
(* Session::processConnect and Service::AddSession.                        *)

Accept(s) ==
  /\ Go(s, "unborn", "add")
  /\ UNCHANGED <<managers, state, chosen, after, io, ticket, told, exFails, weakFails>>

(* Wrong on purpose: the limit check lets one more in.                     *)
AddSessionOffByOne(s) ==
  /\ handler[s] = "add"
  /\ IF seats <= MaxSessions /\ s \notin members
       THEN /\ members' = members \cup {s}
            /\ seats' = seats + 1
            /\ Go(s, "add", "connect")
       ELSE Go(s, "add", "enqueue") /\ UNCHANGED <<members, seats>>
  /\ UNCHANGED <<line, issued, called, maxWaitSize, state, chosen, after, io,
                 ticket, told, exFails, weakFails>>

(* Wrong on purpose: the member is inserted but not counted.               *)
AddSessionUncounted(s) ==
  /\ handler[s] = "add"
  /\ IF seats < MaxSessions /\ s \notin members
       THEN members' = members \cup {s} /\ Go(s, "add", "connect")
       ELSE Go(s, "add", "enqueue") /\ UNCHANGED members
  /\ UNCHANGED <<seats, line, issued, called, maxWaitSize, state, chosen, after,
                 io, ticket, told, exFails, weakFails>>

AddSession(s) ==
  /\ handler[s] = "add"
  /\ IF seats < MaxSessions /\ s \notin members
       THEN /\ members' = members \cup {s}
            /\ seats' = seats + 1
            /\ Go(s, "add", "connect")
       ELSE Go(s, "add", "enqueue") /\ UNCHANGED <<members, seats>>
  /\ UNCHANGED <<line, issued, called, maxWaitSize, state, chosen, after, io,
                 ticket, told, exFails, weakFails>>

SetSessionConnected(s) ==
  /\ Cas(s, "Disconnected", "Connected")
  /\ Go(s, "connect", "idle")
  /\ Tell(s, "OnConnected")
  /\ UNCHANGED <<managers, chosen, after, io, ticket, exFails>>

(* Both exchanges fail, the second because nobody is ever Waiting here.    *)
ConnectFails(s) ==
  /\ CasFails(s, "Disconnected")
  /\ Go(s, "connect", "undo")
  /\ UNCHANGED <<managers, chosen, after, io, ticket, told, exFails>>

EnterWaitQueue(s) ==
  /\ handler[s] = "enqueue"
  /\ IF Len(line) < maxWaitSize
       THEN /\ line' = Append(line, s)
            /\ ticket' = [ticket EXCEPT ![s] = issued]
            /\ issued' = issued + 1
            /\ Go(s, "enqueue", "wait")
       ELSE Go(s, "enqueue", "full") /\ UNCHANGED <<line, ticket, issued>>
  /\ UNCHANGED <<members, seats, called, maxWaitSize, state, chosen, after, io,
                 told, exFails, weakFails>>

(* setSessionWaiting exchanges Disconnected for Disconnected.              *)
SetSessionWaiting(s) ==
  /\ Cas(s, "Disconnected", "Disconnected")
  /\ Go(s, "wait", "idle")
  /\ Tell(s, "OnEnterWaitQueue")
  /\ UNCHANGED <<managers, chosen, after, io, ticket, exFails>>

(* The exchange fails: Disconnect(StateError), then AddSession is false.   *)
WaitFails(s) ==
  /\ Go(s, "wait", "full")
  /\ \/ state[s] # "Disconnected" /\ UNCHANGED weakFails
     \/ state[s] = "Disconnected" /\ weakFails < WeakFails /\ weakFails' = weakFails + 1
  /\ Disconnect(s, "StateError")
  /\ UNCHANGED <<managers, chosen, after, ticket>>

(* AddSession was false: processConnect disconnects with ServerFull.       *)
ServerFull(s) ==
  /\ Go(s, "full", "idle")
  /\ Disconnect(s, "ServerFull")
  /\ UNCHANGED <<managers, chosen, after, ticket, weakFails>>

-----------------------------------------------------------------------------
(* Disconnection: a receive, a send, the reaper or user code disconnects a *)
(* session; the completion runs processDisconnect.                         *)

Leave(s) ==
  /\ state[s] # "Disconnected"
  /\ handler[s] = "idle"
  /\ Disconnect(s, "Kicked")
  /\ UNCHANGED <<managers, handler, chosen, after, ticket, weakFails>>

(* Wrong on purpose: processDisconnect forgets RemoveSession.              *)
DisconnectForgetsSeat(s) ==
  /\ io[s] = "pending"
  /\ io' = [io EXCEPT ![s] = "done"]
  /\ Go(s, "idle", "idle")
  /\ Tell(s, "OnDisconnected")
  /\ UNCHANGED <<managers, state, chosen, after, ticket, exFails, weakFails>>

DisconnectCompletes(s) ==
  /\ io[s] = "pending"
  /\ io' = [io EXCEPT ![s] = "done"]
  /\ Go(s, "idle", "remove")
  /\ Tell(s, "OnDisconnected")
  /\ UNCHANGED <<managers, state, chosen, after, ticket, exFails, weakFails>>

(* Service::RemoveSession erases with bKeepWaitingSession: the seat stays  *)
(* counted for admitWaitingSession.  Called by processDisconnect and by    *)
(* the failed AddSession.                                                  *)
RemoveSession(s) ==
  /\ \/ Go(s, "remove", "dequeue") /\ UNCHANGED after
     \/ Go(s, "undo", "dequeue") /\ after' = [after EXCEPT ![s] = "full"]
  /\ members' = members \ {s}
  /\ UNCHANGED <<seats, line, issued, called, maxWaitSize, state, chosen, io,
                 ticket, told, exFails, weakFails>>

-----------------------------------------------------------------------------
(* Service::admitWaitingSession.                                           *)

Return(s, from) ==
  /\ Go(s, from, after[s])
  /\ chosen' = [chosen EXCEPT ![s] = None]
  /\ after' = [after EXCEPT ![s] = "idle"]

(* Wrong on purpose: the ticket is not called up.                          *)
DequeueWithoutCall(s) ==
  /\ handler[s] = "dequeue"
  /\ IF line # << >>
       THEN /\ line' = Tail(line)
            /\ chosen' = [chosen EXCEPT ![s] = Head(line)]
            /\ Go(s, "dequeue", "seat")
       ELSE Go(s, "dequeue", "release") /\ UNCHANGED <<line, chosen>>
  /\ UNCHANGED <<members, seats, issued, called, maxWaitSize, state, after, io,
                 ticket, told, exFails, weakFails>>

DequeueWaitQueue(s) ==
  /\ handler[s] = "dequeue"
  /\ IF line # << >>
       THEN /\ called' = called + 1
            /\ line' = Tail(line)
            /\ chosen' = [chosen EXCEPT ![s] = Head(line)]
            /\ Go(s, "dequeue", "seat")
       ELSE Go(s, "dequeue", "release") /\ UNCHANGED <<called, line, chosen>>
  /\ UNCHANGED <<members, seats, issued, maxWaitSize, state, after, io, ticket,
                 told, exFails, weakFails>>

AddWaitingSession(s) ==
  /\ handler[s] = "seat"
  /\ members' = members \cup {chosen[s]}
  /\ IF chosen[s] \notin members
       THEN Go(s, "seat", "promote")
       ELSE Go(s, "seat", "release")
  /\ UNCHANGED <<seats, line, issued, called, maxWaitSize, state, chosen, after,
                 io, ticket, told, exFails, weakFails>>

SetWaitingToConnected(s) ==
  /\ handler[s] = "promote"
  /\ IF state[chosen[s]] = "Waiting"
       THEN /\ Cas(chosen[s], "Waiting", "Connected")
            /\ Tell(chosen[s], "OnConnected")
            /\ Return(s, "promote")
       ELSE /\ CasFails(chosen[s], "Waiting")
            /\ Go(s, "promote", "demote")
            /\ UNCHANGED <<told, chosen, after>>
  /\ UNCHANGED <<managers, io, ticket, exFails>>

(* The admission fails: RemoveSession without keeping the seat, then       *)
(* Disconnect(StateError).                                                 *)
RemoveAdmitted(s) ==
  /\ handler[s] = "demote"
  /\ members' = members \ {chosen[s]}
  /\ seats' = IF chosen[s] \in members THEN seats - 1 ELSE seats
  /\ Disconnect(chosen[s], "StateError")
  /\ Return(s, "demote")
  /\ UNCHANGED <<line, issued, called, maxWaitSize, ticket, weakFails>>

(* ReleaseKeepTicket, and Disconnect when a session had been dequeued.     *)
ReleaseKeepTicket(s) ==
  /\ handler[s] = "release"
  /\ seats' = seats - 1
  /\ IF chosen[s] = None
       THEN UNCHANGED <<state, told, io, exFails>>
       ELSE Disconnect(chosen[s], "StateError")
  /\ Return(s, "release")
  /\ UNCHANGED <<members, line, issued, called, maxWaitSize, ticket, weakFails>>

-----------------------------------------------------------------------------
HandlerStep(s) ==
  \/ AddSession(s)       \/ SetSessionConnected(s) \/ ConnectFails(s)
  \/ EnterWaitQueue(s)   \/ SetSessionWaiting(s)   \/ WaitFails(s)
  \/ ServerFull(s)       \/ RemoveSession(s)       \/ DequeueWaitQueue(s)
  \/ AddWaitingSession(s) \/ SetWaitingToConnected(s)
  \/ RemoveAdmitted(s)   \/ ReleaseKeepTicket(s)

Next == \E s \in Sessions : \/ Accept(s) \/ HandlerStep(s)
                            \/ Leave(s)  \/ DisconnectCompletes(s)

Spec == Init /\ [][Next]_vars

-----------------------------------------------------------------------------
(* Properties.                                                             *)

TypeOK ==
  /\ members \subseteq Sessions
  /\ seats \in Nat
  /\ line \in Seq(Sessions)
  /\ issued \in Nat /\ called \in Nat /\ maxWaitSize \in WaitSizes
  /\ state \in [Sessions -> States]
  /\ handler \in [Sessions -> Steps]
  /\ chosen \in [Sessions -> Sessions \cup {None}]
  /\ after \in [Sessions -> {"idle", "full"}]
  /\ io \in [Sessions -> {"none", "pending", "failed", "done"}]
  /\ ticket \in [Sessions -> Nat]
  /\ exFails \in Nat /\ weakFails \in Nat

(* Handlers that removed a session and still owe its seat to a waiting     *)
(* session, or its return (the "kept ticket" of SessionManager).           *)
KeptSeats == {s \in Sessions : handler[s] \in {"dequeue", "seat", "release"}}

(* "Maximum number, reserved seats included" (SessionManager.cpp:16): the  *)
(* count is the members plus the kept seats, so a seat is never lost, used *)
(* twice, or handed to a new arrival while it is kept; it stays within the *)
(* limit, and whoever is connected or in game is a member.                 *)
SeatsAreAccounted ==
  /\ seats = Cardinality(members) + Cardinality(KeptSeats)
  /\ seats <= MaxSessions
  /\ \A s \in Sessions : state[s] # "Disconnected" => s \in members

(* WaitQueueManager::GetWaitCount for a session's ticket: the number of    *)
(* sessions in front of it.                                                *)
GetWaitCount(t) == IF t > called THEN t - called ELSE 0

(* What a waiting session reads as its place is its place in the line.     *)
TicketTellsPlace ==
  /\ Len(line) <= maxWaitSize
  /\ \A i \in 1..Len(line) : GetWaitCount(ticket[line[i]]) = i - 1

(* Callbacks: OnEnterWaitQueue, OnConnected, OnDisconnecting,              *)
(* OnDisconnected come in this order and each at most once.                *)
Rank(what) == CASE what = "OnEnterWaitQueue" -> 1
                [] what = "OnConnected"      -> 2
                [] what = "OnDisconnected"   -> 4
                [] OTHER                     -> 3

CallbacksInOrder ==
  \A s \in Sessions : \A i \in 1..(Len(told[s]) - 1) :
    Rank(told[s][i]) < Rank(told[s][i + 1])

(* A member that is disconnected is about to give its seat up: a handler   *)
(* has it in hand or its DisconnectEx is outstanding.  Only a DisconnectEx *)
(* that failed at once keeps the seat for good.                            *)
SeatIsOwed ==
  \A s \in members :
    state[s] = "Disconnected" =>
      \/ handler[s] \in {"connect", "undo", "remove"}
      \/ \E h \in Sessions : chosen[h] = s /\ handler[h] \in {"promote", "demote"}
      \/ io[s] \in {"pending", "failed"}

(* Session.h:16: a session in the waiting line is in state Waiting.        *)
WaitingIsRecorded ==
  \A i \in 1..Len(line) :
    handler[line[i]] = "idle" => state[line[i]] = "Waiting"
=============================================================================

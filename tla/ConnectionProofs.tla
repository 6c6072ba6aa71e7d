--------------------------- MODULE ConnectionProofs ---------------------------
(***************************************************************************)
(* Theorems about Connection and the Admission inside it, for any sets of  *)
(* sessions and accept slots, any number of seats, any length of the line  *)
(* and any number of failures; and about the times at which the reaper     *)
(* takes a session.                                                        *)
(***************************************************************************)
EXTENDS Connection, SessionTimeout, SequenceTheorems, FiniteSetTheorems,
        TLAPS

(* The steps before a session has heard anything, those of a handler that  *)
(* admits another session, and those that have that session in hand.       *)
Early     == {"unborn", "add", "connect", "undo", "enqueue", "wait"}
Admitting == {"dequeue", "seat", "promote", "demote", "release"}
InHand    == {"seat", "promote", "demote"}

Reasons == {"Kicked", "StateError", "ServerFull"}

USE DEF watch, mailbox

Waits(s) == \/ \E i \in 1..Len(line) : line[i] = s
            \/ \E h \in Sessions : chosen[h] = s

-----------------------------------------------------------------------------
(* Admission.                                                              *)

(* A handler has chosen a session while it admits one, and returns to the  *)
(* end of processConnect only then.                                        *)
ChosenInHand ==
  \A s \in Sessions :
    /\ handler[s] \in InHand => chosen[s] # None
    /\ chosen[s] # None => handler[s] \in InHand \cup {"release"}
    /\ after[s] # "idle" => handler[s] \in Admitting

(* Before its first callback nothing has happened to a session.            *)
EarlyIsQuiet ==
  \A s \in Sessions :
    handler[s] \in Early =>
      state[s] = "Disconnected" /\ io[s] = "none" /\ told[s] = << >>

(* No session is ever Waiting; one that is connected or in game is a       *)
(* member, none of its handlers runs and it has not been disconnected.     *)
ActiveIsMember ==
  \A s \in Sessions :
    /\ state[s] # "Waiting"
    /\ state[s] # "Disconnected" =>
         /\ s \in members /\ handler[s] = "idle"
         /\ io[s] = "none" /\ told[s] = <<"OnConnected">>

(* The seat of a session that is leaving is there to be given up.          *)
LeavingIsMember ==
  \A s \in Sessions :
    /\ handler[s] \in {"connect", "undo", "remove"} => s \in members
    /\ handler[s] = "remove" => state[s] = "Disconnected"
    /\ io[s] = "pending" =>
         /\ s \in members /\ handler[s] = "idle" /\ state[s] = "Disconnected"
         /\ \E r \in Reasons : told[s] = <<"OnConnected", r>>

(* What a session has been told is the beginning of one of two stories.    *)
Stories ==
  {<< >>, <<"OnEnterWaitQueue">>, <<"OnConnected">>}
    \cup {<<"OnConnected", r>> : r \in Reasons}
    \cup {<<"OnConnected", r, "OnDisconnected">> : r \in Reasons}

Histories == told \in [Sessions -> Stories]

(* A session in the line, or in the hand of a handler, takes no part in    *)
(* anything else.                                                          *)
WaiterIsQuiet ==
  \A s \in Sessions : Waits(s) =>
    /\ handler[s] \in {"wait", "full", "idle"}
    /\ state[s] = "Disconnected" /\ io[s] = "none"

(* The tickets in the line are the ones given out and not called up.       *)
TicketsInLine ==
  /\ issued = called + Len(line) /\ Len(line) <= maxWaitSize
  /\ \A i \in 1..Len(line) : ticket[line[i]] = called + i - 1

AdmissionInv ==
  /\ TypeOK /\ ChosenInHand /\ EarlyIsQuiet /\ ActiveIsMember
  /\ LeavingIsMember /\ Histories /\ WaiterIsQuiet /\ TicketsInLine
  /\ SeatsAreAccounted /\ SeatIsOwed

(* What a step of Connection does to the variables of Admission.           *)
EnterGame(s) ==
  /\ Cas(s, "Connected", "InGame")
  /\ UNCHANGED <<managers, handler, chosen, after, io, ticket, told, exFails>>

AdmissionStep == Next \/ (\E s \in Sessions : EnterGame(s)) \/ UNCHANGED vars

-----------------------------------------------------------------------------
(* Connection.                                                             *)

(* A slot holds a session that was created, from Register until the        *)
(* handler is through with it.                                             *)
SlotsHoldGuests ==
  \A a \in Slots :
    /\ slot[a] = "register" => guest[a] = None
    /\ slot[a] \in {"armed", "opening"} => guest[a] # None
    /\ guest[a] # None => guest[a] \in born
    /\ slot[a] = "opening" => handler[guest[a]] # "unborn"

(* Only a session that was created has a handler or holds itself.          *)
BornFirst ==
  \A s \in Sessions :
    /\ handler[s] # "unborn" => s \in born
    /\ self[s] # {} => s \in born

(* Which handler the steps of Admission belong to.                         *)
PhasesAgree ==
  \A s \in Sessions :
    /\ handler[s] \in (Early \cup {"full"}) \ {"unborn"} => opening[s] = "admit"
    /\ handler[s] = "remove" => closing[s] = "remove"
    /\ handler[s] \in Admitting =>
         \/ after[s] = "full" /\ opening[s] = "admit"
         \/ after[s] = "idle" /\ closing[s] = "remove"
    /\ opening[s] = "admit" =>
         \/ handler[s] \in (Early \cup {"full"}) \ {"unborn"}
         \/ handler[s] \in Admitting /\ after[s] = "full"
    /\ closing[s] # "no" => io[s] = "done"

(* The disconnector holds a session as long as it may still be needed.     *)
DisconnectorHolds ==
  /\ \A s \in Sessions :
       \/ handler[s] \in {"add", "connect"}
       \/ state[s] # "Disconnected" \/ io[s] = "pending"
       \/ s \in dialing /\ handler[s] = "unborn"
       => "disconnector" \in self[s]
  /\ \A a \in Slots :
       slot[a] = "armed" /\ handler[guest[a]] = "unborn" =>
         "disconnector" \in self[guest[a]]

(* A session that holds itself and is past processConnect is a member, in  *)
(* the line, being closed, or was turned away.                             *)
Settled(s) == s \in members \/ Waits(s) \/ closing[s] # "no" \/ s \in refused

Accounted ==
  \A s \in Sessions :
    /\ handler[s] = "wait" => Waits(s) \/ s \in refused
    /\ self[s] # {} =>
         IF handler[s] = "unborn"
           THEN s \in dialing \/ s \in dropped \/ \E a \in Slots : guest[a] = s
           ELSE opening[s] = "admit" \/ Settled(s)

(* A connected session is on its way to the reaper, if there is one, or    *)
(* its job was turned down; the two halves of ConnectedIsWatched.  A       *)
(* session that processConnect has not admitted is not on its way yet.     *)
InSight ==
  \A s \in Sessions :
    reaper /\ state[s] # "Disconnected" /\ ~crashed =>
      \/ opening[s] = "reap" \/ s \in timer \/ s \in posted
      \/ reaping[s] # "no"   \/ s \in unposted

OnePlace ==
  \A s \in Sessions :
    /\ opening[s] # "no" => handler[s] # "unborn"
    /\ handler[s] = "unborn" \/ opening[s] \in {"admit", "reap"} =>
         s \notin timer /\ s \notin posted /\ s \notin unposted
    /\ s \in timer => s \notin posted /\ s \notin unposted
    /\ s \in posted => s \notin unposted
    /\ reaping[s] # "no" =>
         /\ handler[s] # "unborn" /\ opening[s] \notin {"admit", "reap"}
         /\ s \notin timer /\ s \notin posted /\ s \notin unposted

ConnectionInv ==
  /\ AdmissionInv /\ ConnectionTypeOK /\ SlotsHoldGuests /\ BornFirst
  /\ PhasesAgree /\ DisconnectorHolds /\ Accounted
  /\ InSight /\ OnePlace

-----------------------------------------------------------------------------
(* A step of Connection leaves Admission alone, takes one of its steps, or *)
(* is SetSessionInGame.                                                    *)
LEMMA StepOfAdmission ==
  ASSUME ConnectionTypeOK, SlotsHoldGuests, [ConnectionNext]_cvars
  PROVE  AdmissionStep
<1>1. CASE UNCHANGED cvars
  BY <1>1 DEF cvars, AdmissionStep
<1>2. ASSUME NEW a \in Slots, NEW s \in Sessions,
             RegisterAccept(a, s) \/ RegisterAcceptFails(a, s)
      PROVE  AdmissionStep
  BY <1>2 DEF RegisterAccept, RegisterAcceptFails, AdmissionStep
<1>3. ASSUME NEW a \in Slots, AcceptIsLost(a) \/ Rearm(a)
      PROVE  AdmissionStep
  BY <1>3 DEF AcceptIsLost, Rearm, AdmissionStep
<1>4. ASSUME NEW s \in Sessions,
             \/ Dial(s) \/ DialFails(s) \/ ConnectIsLost(s) \/ TimerFires(s)
             \/ OpenReap(s) \/ OpenReceive(s) \/ Clear(s)
             \/ NotExpired(s) \/ ReapAgain(s) \/ RunReapJob(s)
      PROVE  AdmissionStep
  BY <1>4 DEF Dial, DialFails, ConnectIsLost, TimerFires, OpenReap,
     OpenReceive, Clear, NotExpired, ReapAgain, RunReapJob, AdmissionStep
<1>5. ASSUME NEW s \in Sessions, Handle(s) PROVE AdmissionStep
  BY <1>5 DEF Handle, AdmissionStep, Next
<1>6. ASSUME NEW s \in Sessions, Expired(s) \/ Close(s) PROVE AdmissionStep
  BY <1>6 DEF Expired, Close, AdmissionStep, Next
<1>7. ASSUME NEW s \in Sessions, ConnectCompletes(s) PROVE AdmissionStep
  BY <1>7 DEF ConnectCompletes, AdmissionStep, Next
<1>8. ASSUME NEW s \in Sessions, DisconnectArrives(s) PROVE AdmissionStep
  BY <1>8 DEF DisconnectArrives, AdmissionStep, Next
<1>9. ASSUME NEW s \in Sessions, SetSessionInGame(s) PROVE AdmissionStep
  BY <1>9 DEF SetSessionInGame, AdmissionStep, EnterGame
<1>10. CASE StartReturns \/ CompletionIsLost
  BY <1>10 DEF StartReturns, CompletionIsLost, AdmissionStep
<1>11. ASSUME NEW a \in Slots, AcceptCompletes(a) PROVE AdmissionStep
  <2>1. guest[a] \in Sessions
    BY <1>11 DEF AcceptCompletes, ConnectionTypeOK, SlotsHoldGuests
  <2> QED
    BY <1>11, <2>1 DEF AcceptCompletes, AdmissionStep, Next
<1> QED
  BY <1>1, <1>2, <1>3, <1>4, <1>5, <1>6, <1>7, <1>8, <1>9, <1>10, <1>11
     DEF ConnectionNext, SessionStep

-----------------------------------------------------------------------------
(* Disconnect finds nothing to do for a session with a handler at work,    *)
(* and nothing for one that was taken from the line.                       *)
LEMMA ChosenWaits ==
  ASSUME AdmissionInv, NEW s \in Sessions, chosen[s] # None
  PROVE  /\ chosen[s] \in Sessions
         /\ handler[chosen[s]] \in {"wait", "full", "idle"}
         /\ state[chosen[s]] = "Disconnected" /\ io[chosen[s]] = "none"
<1>1. chosen[s] \in Sessions
  BY DEF AdmissionInv, TypeOK
<1>2. Waits(chosen[s])
  BY DEF Waits
<1> QED
  BY <1>1, <1>2 DEF AdmissionInv, WaiterIsQuiet

LEMMA Refusals ==
  ASSUME AdmissionInv, NEW s \in Sessions,
         WaitFails(s) \/ ServerFull(s) \/ RemoveAdmitted(s) \/ ReleaseKeepTicket(s)
  PROVE  UNCHANGED <<state, told, io, exFails>>
<1>0. handler[s] # "idle" => state[s] = "Disconnected"
  BY DEF AdmissionInv, ActiveIsMember
<1>1. CASE WaitFails(s) \/ ServerFull(s)
  BY <1>0, <1>1 DEF WaitFails, ServerFull, Go, Disconnect
<1>2. CASE RemoveAdmitted(s)
  <2>1. chosen[s] # None
    BY <1>2 DEF RemoveAdmitted, AdmissionInv, ChosenInHand, InHand
  <2>2. state[chosen[s]] = "Disconnected"
    BY <2>1, ChosenWaits
  <2> QED
    BY <1>2, <2>2 DEF RemoveAdmitted, Disconnect
<1>3. CASE ReleaseKeepTicket(s)
  BY <1>3, ChosenWaits DEF ReleaseKeepTicket, Disconnect
<1> QED
  BY <1>1, <1>2, <1>3

(* setWaitingToConnected finds nobody Waiting.                             *)
LEMMA NobodyIsWaiting ==
  ASSUME AdmissionInv, NEW s \in Sessions, SetWaitingToConnected(s)
  PROVE  /\ Go(s, "promote", "demote")
         /\ UNCHANGED <<managers, state, told, chosen, after, io, ticket,
                         exFails, weakFails>>
<1>1. chosen[s] # None
  BY DEF SetWaitingToConnected, AdmissionInv, ChosenInHand, InHand
<1>2. state[chosen[s]] = "Disconnected"
  BY <1>1, ChosenWaits
<1> QED
  BY <1>2 DEF SetWaitingToConnected, CasFails

-----------------------------------------------------------------------------
(* The steps of Admission as the invariant leaves them: what an IF decides *)
(* is an effect of its own, and the Disconnect of a handler is gone.       *)
Quiet == UNCHANGED <<state, io, ticket, told>>

Moves == {<<"unborn", "add">>, <<"add", "enqueue">>, <<"connect", "undo">>,
          <<"enqueue", "full">>, <<"wait", "full">>, <<"full", "idle">>,
          <<"dequeue", "release">>, <<"seat", "release">>,
          <<"promote", "demote">>}

Moved(s) ==
  /\ \E m \in Moves : Go(s, m[1], m[2])
  /\ Quiet /\ UNCHANGED <<managers, chosen, after>>

Seated(s) ==
  /\ seats < MaxSessions /\ s \notin members
  /\ members' = members \cup {s}
  /\ seats' = seats + 1
  /\ Go(s, "add", "connect")
  /\ Quiet /\ UNCHANGED <<line, issued, called, chosen, after>>

Joined(s) ==
  /\ Go(s, "connect", "idle")
  /\ state' = [state EXCEPT ![s] = "Connected"]
  /\ Tell(s, "OnConnected")
  /\ UNCHANGED <<managers, chosen, after, io, ticket>>

Queued(s) ==
  /\ Len(line) < maxWaitSize
  /\ Go(s, "enqueue", "wait")
  /\ line' = Append(line, s)
  /\ ticket' = [ticket EXCEPT ![s] = issued]
  /\ issued' = issued + 1
  /\ UNCHANGED <<members, seats, called, state, chosen, after, io, told>>

Awaited(s) ==
  /\ Go(s, "wait", "idle")
  /\ Tell(s, "OnEnterWaitQueue")
  /\ UNCHANGED <<managers, state, chosen, after, io, ticket>>

Removed(s) ==
  /\ \/ Go(s, "remove", "dequeue") /\ UNCHANGED after
     \/ Go(s, "undo", "dequeue") /\ after' = [after EXCEPT ![s] = "full"]
  /\ members' = members \ {s}
  /\ Quiet /\ UNCHANGED <<seats, line, issued, called, chosen>>

Dequeued(s) ==
  /\ line # << >>
  /\ Go(s, "dequeue", "seat")
  /\ called' = called + 1
  /\ line' = Tail(line)
  /\ chosen' = [chosen EXCEPT ![s] = Head(line)]
  /\ Quiet /\ UNCHANGED <<members, seats, issued, after>>

Taken(s) ==
  /\ chosen[s] \in Sessions \ members
  /\ Go(s, "seat", "promote")
  /\ members' = members \cup {chosen[s]}
  /\ Quiet /\ UNCHANGED <<seats, line, issued, called, chosen, after>>

Undone(s) ==
  /\ Return(s, "demote")
  /\ members' = members \ {chosen[s]}
  /\ seats' = IF chosen[s] \in members THEN seats - 1 ELSE seats
  /\ Quiet /\ UNCHANGED <<line, issued, called>>

Released(s) ==
  /\ Return(s, "release")
  /\ seats' = seats - 1
  /\ Quiet /\ UNCHANGED <<members, line, issued, called>>

Left(s) ==
  /\ state[s] # "Disconnected" /\ handler[s] = "idle"
  /\ state' = [state EXCEPT ![s] = "Disconnected"]
  /\ Tell(s, "Kicked")
  /\ \E o \in {"pending", "failed"} : io' = [io EXCEPT ![s] = o]
  /\ UNCHANGED <<managers, handler, chosen, after, ticket>>

Departed(s) ==
  /\ Go(s, "idle", "remove")
  /\ io[s] = "pending"
  /\ io' = [io EXCEPT ![s] = "done"]
  /\ Tell(s, "OnDisconnected")
  /\ UNCHANGED <<managers, state, chosen, after, ticket>>

Entered(s) ==
  /\ state[s] = "Connected"
  /\ state' = [state EXCEPT ![s] = "InGame"]
  /\ UNCHANGED <<managers, handler, chosen, after, io, ticket, told>>

Effect(s) ==
  \/ Moved(s)   \/ Seated(s)   \/ Joined(s) \/ Queued(s) \/ Awaited(s)
  \/ Removed(s) \/ Dequeued(s) \/ Taken(s)  \/ Undone(s) \/ Released(s)
  \/ Left(s)    \/ Departed(s) \/ Entered(s)

Nothing == Quiet /\ UNCHANGED <<managers, handler, chosen, after>>

(* What an effect leaves out.                                              *)
Rest == exFails' \in Nat /\ weakFails' \in Nat /\ UNCHANGED maxWaitSize

LEMMA EffectOfHandler ==
  ASSUME AdmissionInv, NEW s \in Sessions, HandlerStep(s)
  PROVE  Effect(s) /\ Rest
<1> USE DEF AdmissionInv, TypeOK
<1>1. CASE AddSession(s)
  <2>1. CASE seats < MaxSessions /\ s \notin members
    BY <1>1, <2>1 DEF AddSession, Effect, Seated, Quiet, Rest, managers
  <2>2. CASE ~(seats < MaxSessions /\ s \notin members)
    BY <1>1, <2>2 DEF AddSession, Effect, Moved, Moves, Quiet, managers,
       Rest
  <2> QED
    BY <2>1, <2>2
<1>2. CASE SetSessionConnected(s)
  BY <1>2 DEF SetSessionConnected, Cas, Effect, Joined, Rest, managers
<1>3. CASE ConnectFails(s)
  <2>1. Go(s, "connect", "undo") /\ Quiet /\ UNCHANGED <<managers, chosen, after>>
    BY <1>3 DEF ConnectFails, CasFails, Quiet
  <2> QED
    BY <1>3, <2>1 DEF ConnectFails, CasFails, Effect, Moved, Moves, Rest, managers
<1>4. CASE EnterWaitQueue(s)
  <2>1. CASE Len(line) < maxWaitSize
    BY <1>4, <2>1 DEF EnterWaitQueue, Effect, Queued, Rest, managers
  <2>2. CASE ~(Len(line) < maxWaitSize)
    BY <1>4, <2>2
       DEF EnterWaitQueue, Effect, Moved, Moves, Quiet, managers, Rest
  <2> QED
    BY <2>1, <2>2
<1>5. CASE SetSessionWaiting(s)
  <2>1. state' = state
    BY <1>5 DEF SetSessionWaiting, Cas
  <2> QED
    BY <1>5, <2>1 DEF SetSessionWaiting, Cas, Effect, Awaited, Rest, managers
<1>6. CASE WaitFails(s) \/ ServerFull(s)
  <2>1. UNCHANGED <<state, told, io, exFails>>
    BY <1>6, Refusals
  <2>2. Go(s, "wait", "full") \/ Go(s, "full", "idle")
    BY <1>6 DEF WaitFails, ServerFull
  <2>3. UNCHANGED <<managers, chosen, after, ticket>> /\ weakFails' \in Nat
    BY <1>6 DEF WaitFails, ServerFull
  <2> QED
    BY <2>1, <2>2, <2>3 DEF Effect, Moved, Moves, Quiet, Rest, managers
<1>7. CASE RemoveSession(s)
  BY <1>7 DEF RemoveSession, Effect, Removed, Quiet, Rest, managers
<1>8. CASE DequeueWaitQueue(s)
  <2>1. CASE line # << >>
    BY <1>8, <2>1 DEF DequeueWaitQueue, Effect, Dequeued, Quiet, Rest, managers
  <2>2. CASE line = << >>
    BY <1>8, <2>2
       DEF DequeueWaitQueue, Effect, Moved, Moves, Quiet, managers, Rest
  <2> QED
    BY <2>1, <2>2
<1>9. CASE AddWaitingSession(s)
  <2>1. chosen[s] \in Sessions
    BY <1>9 DEF AddWaitingSession, ChosenInHand, InHand
  <2>2. CASE chosen[s] \notin members
    BY <1>9, <2>1, <2>2 DEF AddWaitingSession, Effect, Taken, Quiet, Rest, managers
  <2>3. CASE chosen[s] \in members
    <3>1. members' = members
      BY <1>9, <2>3 DEF AddWaitingSession
    <3> QED
      BY <1>9, <2>3, <3>1
         DEF AddWaitingSession, Effect, Moved, Moves, Quiet, managers, Rest
  <2> QED
    BY <2>2, <2>3
<1>10. CASE SetWaitingToConnected(s)
  BY <1>10, NobodyIsWaiting DEF Effect, Moved, Moves, Quiet, Rest, managers
<1>11. CASE RemoveAdmitted(s)
  BY <1>11, Refusals DEF RemoveAdmitted, Effect, Undone, Quiet, Rest, managers
<1>12. CASE ReleaseKeepTicket(s)
  BY <1>12, Refusals DEF ReleaseKeepTicket, Effect, Released, Quiet, Rest, managers
<1> QED
  BY <1>1, <1>2, <1>3, <1>4, <1>5, <1>6, <1>7, <1>8, <1>9, <1>10, <1>11, <1>12
     DEF HandlerStep

LEMMA StepHasEffect ==
  ASSUME AdmissionInv, AdmissionStep
  PROVE  Rest /\ (Nothing \/ \E s \in Sessions : Effect(s))
<1> USE DEF AdmissionInv, TypeOK
<1>1. CASE UNCHANGED vars
  BY <1>1 DEF vars, Nothing, Quiet, Rest, managers
<1>2. ASSUME NEW s \in Sessions, HandlerStep(s)
      PROVE  Effect(s) /\ Rest
  BY <1>2, EffectOfHandler
<1>3. ASSUME NEW s \in Sessions, Accept(s)
      PROVE  Effect(s) /\ Rest
  BY <1>3 DEF Accept, Effect, Moved, Moves, Quiet, Rest, managers
<1>4. ASSUME NEW s \in Sessions, Leave(s)
      PROVE  Effect(s) /\ Rest
  BY <1>4 DEF Leave, Disconnect, Effect, Left, Rest, managers
<1>5. ASSUME NEW s \in Sessions, DisconnectCompletes(s)
      PROVE  Effect(s) /\ Rest
  BY <1>5 DEF DisconnectCompletes, Effect, Departed, Rest, managers
<1>6. ASSUME NEW s \in Sessions, EnterGame(s)
      PROVE  Effect(s) /\ Rest
  BY <1>6 DEF EnterGame, Cas, Effect, Entered, Rest, managers
<1> QED
  BY <1>1, <1>2, <1>3, <1>4, <1>5, <1>6 DEF AdmissionStep, Next

-----------------------------------------------------------------------------
(* Finite sets and counts.                                                 *)
LEMMA StepFacts ==
  /\ "add" \in Steps /\ "connect" \in Steps /\ "undo" \in Steps
  /\ "enqueue" \in Steps /\ "wait" \in Steps /\ "full" \in Steps
  /\ "idle" \in Steps /\ "remove" \in Steps /\ "dequeue" \in Steps
  /\ "seat" \in Steps /\ "promote" \in Steps /\ "demote" \in Steps
  /\ "release" \in Steps
BY DEF Steps

(* A member has a seat, and so has a handler that keeps one.               *)
LEMMA SeatsCount ==
  ASSUME TypeOK, SeatsAreAccounted
  PROVE  /\ IsFiniteSet(members) /\ IsFiniteSet(KeptSeats)
         /\ Cardinality(members) \in Nat /\ Cardinality(KeptSeats) \in Nat
         /\ seats = Cardinality(members) + Cardinality(KeptSeats)
         /\ \A s \in members : seats > 0
         /\ \A s \in KeptSeats : seats > 0
<1>1. IsFiniteSet(members) /\ IsFiniteSet(KeptSeats)
  BY AdmissionAssumption, FS_Subset DEF TypeOK, KeptSeats
<1>2. Cardinality(members) \in Nat /\ Cardinality(KeptSeats) \in Nat
  BY <1>1, FS_CardinalityType
<1>3. seats = Cardinality(members) + Cardinality(KeptSeats)
  BY DEF SeatsAreAccounted
<1>4. ASSUME NEW s \in members PROVE seats > 0
  <2>1. Cardinality(members) # 0
    BY <1>1, FS_EmptySet
  <2> QED
    BY <1>2, <1>3, <2>1
<1>5. ASSUME NEW s \in KeptSeats PROVE seats > 0
  <2>1. Cardinality(KeptSeats) # 0
    BY <1>1, FS_EmptySet
  <2> QED
    BY <1>2, <1>3, <2>1
<1> QED
  BY <1>1, <1>2, <1>3, <1>4, <1>5

(* Types, where a seat that is given back was counted.                     *)
LEMMA TypeInv ==
  ASSUME AdmissionInv, AdmissionStep
  PROVE  TypeOK'
<1>0. TypeOK /\ Rest
  BY StepHasEffect DEF AdmissionInv
<1>seats. TypeOK /\ SeatsAreAccounted
  BY DEF AdmissionInv
<1>1. CASE Nothing
  BY <1>0, <1>1 DEF Nothing, Quiet, managers, TypeOK, Rest
<1>2. ASSUME NEW s \in Sessions, Moved(s) PROVE TypeOK'
  <2>1. handler' \in [Sessions -> Steps]
    BY <1>0, <1>2, StepFacts DEF Moved, Moves, Go, TypeOK
  <2> QED
    BY <1>0, <1>2, <2>1 DEF Moved, Quiet, managers, TypeOK, Rest
<1>3. ASSUME NEW s \in Sessions, Seated(s) PROVE TypeOK'
  BY <1>0, <1>3, StepFacts
     DEF Seated, Go, Quiet, managers, TypeOK, States, Rest
<1>4. ASSUME NEW s \in Sessions, Joined(s) PROVE TypeOK'
  BY <1>0, <1>4, StepFacts
     DEF Joined, Go, Tell, Quiet, managers, TypeOK, States, Rest
<1>5. ASSUME NEW s \in Sessions, Queued(s) PROVE TypeOK'
  BY <1>0, <1>5, StepFacts
     DEF Queued, Go, Quiet, managers, TypeOK, States, Rest
<1>6. ASSUME NEW s \in Sessions, Awaited(s) PROVE TypeOK'
  BY <1>0, <1>6, StepFacts
     DEF Awaited, Go, Tell, Quiet, managers, TypeOK, States, Rest
<1>7. ASSUME NEW s \in Sessions, Removed(s) PROVE TypeOK'
  BY <1>0, <1>7, StepFacts
     DEF Removed, Go, Quiet, managers, TypeOK, States, Rest
<1>8. ASSUME NEW s \in Sessions, Dequeued(s) PROVE TypeOK'
  <2>1. Head(line) \in Sessions /\ Tail(line) \in Seq(Sessions)
    BY <1>0, <1>8 DEF Dequeued, TypeOK
  <2> QED
    BY <1>0, <1>8, <2>1, StepFacts
       DEF Dequeued, Go, Quiet, managers, TypeOK, Rest
<1>9. ASSUME NEW s \in Sessions, Taken(s) PROVE TypeOK'
  BY <1>0, <1>9, StepFacts
     DEF Taken, Go, Quiet, managers, TypeOK, States, Rest
<1>10. ASSUME NEW s \in Sessions, Undone(s) PROVE TypeOK'
  <2>1. seats' \in Nat
    BY <1>seats, <1>10, SeatsCount DEF Undone, TypeOK
  <2>3. handler' \in [Sessions -> Steps]
    BY <1>0, <1>10, StepFacts DEF Undone, Return, Go, TypeOK, Steps
  <2> QED
    BY <1>0, <1>10, <2>1, <2>3
       DEF Undone, Return, Quiet, managers, TypeOK, Rest
<1>11. ASSUME NEW s \in Sessions, Released(s) PROVE TypeOK'
  <2>2. s \in KeptSeats
    BY <1>11 DEF Released, Return, Go, KeptSeats
  <2>1. seats' \in Nat
    BY <1>seats, <1>11, <2>2, SeatsCount DEF Released, TypeOK
  <2>3. handler' \in [Sessions -> Steps]
    BY <1>0, <1>11, StepFacts DEF Released, Return, Go, TypeOK, Steps
  <2> QED
    BY <1>0, <1>11, <2>1, <2>3
       DEF Released, Return, Quiet, managers, TypeOK, Rest
<1>12. ASSUME NEW s \in Sessions, Left(s) PROVE TypeOK'
  BY <1>0, <1>12, StepFacts
     DEF Left, Tell, Quiet, managers, TypeOK, States, Rest
<1>13. ASSUME NEW s \in Sessions, Departed(s) PROVE TypeOK'
  BY <1>0, <1>13, StepFacts
     DEF Departed, Go, Tell, Quiet, managers, TypeOK, States, Rest
<1>14. ASSUME NEW s \in Sessions, Entered(s) PROVE TypeOK'
  BY <1>0, <1>14, StepFacts
     DEF Entered, Quiet, managers, TypeOK, States, Rest
<1> QED
  BY <1>1, <1>2, <1>3, <1>4, <1>5, <1>6, <1>7, <1>8, <1>9, <1>10, <1>11,
     <1>12, <1>13, <1>14, StepHasEffect
     DEF Effect

-----------------------------------------------------------------------------
(* Append, on the sequences a session is told.                             *)
LEMMA AppendToOne ==
  ASSUME NEW S, NEW a \in S, NEW b \in S
  PROVE  Append(<<a>>, b) = <<a, b>>
<1> DEFINE u == <<a>>
           v == <<a, b>>
<1>0. u \in Seq(S)
  OBVIOUS
<1>1. Len(u) = 1 /\ u[1] = a
  OBVIOUS
<1>2. v \in Seq(S) /\ Len(v) = 2 /\ v[1] = a /\ v[2] = b
  OBVIOUS
<1> HIDE DEF u, v
<1>3. /\ Append(u, b) \in Seq(S) /\ Len(Append(u, b)) = Len(u) + 1
      /\ \A i \in 1..Len(u) : Append(u, b)[i] = u[i]
      /\ Append(u, b)[Len(u) + 1] = b
  <2>1. Append(u, b) \in Seq(S)
    BY <1>0, AppendProperties
  <2>2. Len(Append(u, b)) = Len(u) + 1
    BY <1>0, AppendProperties
  <2>3. ASSUME NEW i \in 1..Len(u) PROVE Append(u, b)[i] = u[i]
    BY <1>0, AppendProperties
  <2>4. Append(u, b)[Len(u) + 1] = b
    BY <1>0, AppendProperties
  <2> QED
    BY <2>1, <2>2, <2>3, <2>4
<1>4. \A i \in 1..2 : Append(u, b)[i] = v[i]
  BY <1>1, <1>2, <1>3
<1>5. Append(u, b) = v
  BY <1>2, <1>3, <1>4, <1>1, SeqEqual
<1> QED
  BY <1>5 DEF u, v

LEMMA AppendToTwo ==
  ASSUME NEW S, NEW a \in S, NEW b \in S, NEW c \in S
  PROVE  Append(<<a, b>>, c) = <<a, b, c>>
<1> DEFINE u == <<a, b>>
           v == <<a, b, c>>
<1>0. u \in Seq(S)
  OBVIOUS
<1>1. Len(u) = 2 /\ u[1] = a /\ u[2] = b
  OBVIOUS
<1>2. v \in Seq(S) /\ Len(v) = 3 /\ v[1] = a /\ v[2] = b /\ v[3] = c
  OBVIOUS
<1> HIDE DEF u, v
<1>3. /\ Append(u, c) \in Seq(S) /\ Len(Append(u, c)) = Len(u) + 1
      /\ \A i \in 1..Len(u) : Append(u, c)[i] = u[i]
      /\ Append(u, c)[Len(u) + 1] = c
  <2>1. Append(u, c) \in Seq(S)
    BY <1>0, AppendProperties
  <2>2. Len(Append(u, c)) = Len(u) + 1
    BY <1>0, AppendProperties
  <2>3. ASSUME NEW i \in 1..Len(u) PROVE Append(u, c)[i] = u[i]
    BY <1>0, AppendProperties
  <2>4. Append(u, c)[Len(u) + 1] = c
    BY <1>0, AppendProperties
  <2> QED
    BY <2>1, <2>2, <2>3, <2>4
<1>4. \A i \in 1..3 : Append(u, c)[i] = v[i]
  BY <1>1, <1>2, <1>3
<1>5. Append(u, c) = v
  BY <1>2, <1>3, <1>4, <1>1, SeqEqual
<1> QED
  BY <1>5 DEF u, v

LEMMA StoriesGoOn ==
  ASSUME NEW a, NEW r, NEW c
  PROVE  /\ Append(<< >>, a) = <<a>>
         /\ Append(<<a>>, r) = <<a, r>>
         /\ Append(<<a, r>>, c) = <<a, r, c>>
<1>1. PICK S : a \in S /\ r \in S /\ c \in S
  <2>1. a \in {a, r, c} /\ r \in {a, r, c} /\ c \in {a, r, c}
    OBVIOUS
  <2> QED
    BY <2>1, Zenon
<1>2. Append(<< >>, a) = <<a>>
  OBVIOUS
<1>3. Append(<<a>>, r) = <<a, r>>
  BY <1>1, AppendToOne, Zenon
<1>4. Append(<<a, r>>, c) = <<a, r, c>>
  BY <1>1, AppendToTwo, Zenon
<1> QED
  BY <1>2, <1>3, <1>4

(* Each callback finds the story at the point it belongs to.               *)
LEMMA TellsTheStory ==
  ASSUME AdmissionInv, NEW s \in Sessions
  PROVE  /\ Joined(s) => told' = [told EXCEPT ![s] = <<"OnConnected">>]
         /\ Awaited(s) => told' = [told EXCEPT ![s] = <<"OnEnterWaitQueue">>]
         /\ Left(s) => told' = [told EXCEPT ![s] = <<"OnConnected", "Kicked">>]
         /\ Departed(s) =>
              \E r \in Reasons :
                told' = [told EXCEPT ![s] = <<"OnConnected", r, "OnDisconnected">>]
<1>1. CASE Joined(s)
  <2>1. told[s] = << >>
    BY <1>1 DEF Joined, Go, AdmissionInv, EarlyIsQuiet, Early
  <2> QED
    BY <1>1, <2>1, StoriesGoOn DEF Joined, Go, Tell, Awaited, Left, Departed
<1>2. CASE Awaited(s)
  <2>1. told[s] = << >>
    BY <1>2 DEF Awaited, Go, AdmissionInv, EarlyIsQuiet, Early
  <2> QED
    BY <1>2, <2>1, StoriesGoOn DEF Joined, Go, Tell, Awaited, Left, Departed
<1>3. CASE Left(s)
  <2>1. told[s] = <<"OnConnected">>
    BY <1>3 DEF Left, AdmissionInv, ActiveIsMember
  <2> QED
    <3>1. Append(<<"OnConnected">>, "Kicked") = <<"OnConnected", "Kicked">>
      BY StoriesGoOn, Zenon
    <3>2. told' = [told EXCEPT ![s] = <<"OnConnected", "Kicked">>]
      BY <1>3, <2>1, <3>1 DEF Left, Tell
    <3>3. handler' = handler /\ io'[s] # "done" /\ handler[s] = "idle"
      BY <1>3 DEF Left, AdmissionInv, TypeOK
    <3> QED
      BY <3>2, <3>3 DEF Joined, Go, Awaited, Departed, AdmissionInv, TypeOK
<1>4. CASE Departed(s)
  <2>1. PICK r \in Reasons : told[s] = <<"OnConnected", r>>
    BY <1>4 DEF Departed, AdmissionInv, LeavingIsMember
  <2>2. told' = [told EXCEPT ![s] = <<"OnConnected", r, "OnDisconnected">>]
    <3>1. Append(<<"OnConnected", r>>, "OnDisconnected")
            = <<"OnConnected", r, "OnDisconnected">>
      BY StoriesGoOn, Zenon
    <3> QED
      BY <1>4, <2>1, <3>1 DEF Departed, Tell
  <2>3. ~Left(s) /\ ~Joined(s) /\ ~Awaited(s)
    BY <1>4 DEF Departed, Go, Left, Joined, Awaited, AdmissionInv,
       ActiveIsMember
  <2> QED
    BY <2>2, <2>3
<1> QED
  BY <1>1, <1>2, <1>3, <1>4

(* The session that a failed admission gives up takes no part in anything. *)
LEMMA UndoneWaits ==
  ASSUME AdmissionInv, NEW s \in Sessions, Undone(s)
  PROVE  /\ chosen[s] \in Sessions
         /\ handler[chosen[s]] \in {"wait", "full", "idle"}
         /\ state[chosen[s]] = "Disconnected" /\ io[chosen[s]] = "none"
<1>1. chosen[s] # None
  BY DEF Undone, Return, Go, AdmissionInv, ChosenInHand, InHand
<1> QED
  BY <1>1, ChosenWaits

(* A handler keeps its choice until it returns.                            *)
LEMMA ChosenInHandInv ==
  ASSUME AdmissionInv, AdmissionStep
  PROVE  ChosenInHand'
<1>0. TypeOK /\ ChosenInHand
  BY DEF AdmissionInv
<1>1. CASE UNCHANGED <<handler, chosen, after>>
  BY <1>0, <1>1 DEF Quiet, managers, TypeOK, ChosenInHand, InHand, Admitting
<1>2. ASSUME NEW s \in Sessions, Moved(s) PROVE ChosenInHand'
  BY <1>0, <1>2
     DEF Moved, Moves, Go, Quiet, managers, TypeOK, ChosenInHand, InHand,
         Admitting
<1>3. ASSUME NEW s \in Sessions, Seated(s) PROVE ChosenInHand'
  BY <1>0, <1>3
     DEF Seated, Go, Quiet, managers, TypeOK, ChosenInHand, InHand, Admitting
<1>4. ASSUME NEW s \in Sessions, Joined(s) PROVE ChosenInHand'
  BY <1>0, <1>4
     DEF Joined, Go, Tell, Quiet, managers, TypeOK, ChosenInHand, InHand,
         Admitting
<1>5. ASSUME NEW s \in Sessions, Queued(s) PROVE ChosenInHand'
  BY <1>0, <1>5
     DEF Queued, Go, Quiet, managers, TypeOK, ChosenInHand, InHand, Admitting
<1>6. ASSUME NEW s \in Sessions, Awaited(s) PROVE ChosenInHand'
  BY <1>0, <1>6
     DEF Awaited, Go, Tell, Quiet, managers, TypeOK, ChosenInHand, InHand,
         Admitting
<1>7. ASSUME NEW s \in Sessions, Removed(s) PROVE ChosenInHand'
  BY <1>0, <1>7
     DEF Removed, Go, Quiet, managers, TypeOK, ChosenInHand, InHand, Admitting
<1>8. ASSUME NEW s \in Sessions, Dequeued(s) PROVE ChosenInHand'
  <2>1. Head(line) \in Sessions /\ Head(line) # None
    BY <1>0, <1>8, AdmissionAssumption DEF Dequeued, TypeOK
  <2> QED
    BY <1>0, <1>8, <2>1
       DEF Dequeued, Go, Quiet, TypeOK, ChosenInHand, InHand, Admitting
<1>9. ASSUME NEW s \in Sessions, Taken(s) PROVE ChosenInHand'
  BY <1>0, <1>9
     DEF Taken, Go, Quiet, managers, TypeOK, ChosenInHand, InHand, Admitting
<1>10. ASSUME NEW s \in Sessions, Undone(s) PROVE ChosenInHand'
  BY <1>0, <1>10
     DEF Undone, Return, Go, Quiet, managers, TypeOK, ChosenInHand, InHand,
         Admitting
<1>11. ASSUME NEW s \in Sessions, Released(s) PROVE ChosenInHand'
  BY <1>0, <1>11
     DEF Released, Return, Go, Quiet, managers, TypeOK, ChosenInHand, InHand,
         Admitting
<1>12. ASSUME NEW s \in Sessions, Departed(s) PROVE ChosenInHand'
  BY <1>0, <1>12
     DEF Departed, Go, Tell, Quiet, managers, TypeOK, ChosenInHand, InHand,
         Admitting
<1> QED
  BY <1>1, <1>2, <1>3, <1>4, <1>5, <1>6, <1>7, <1>8, <1>9, <1>10, <1>11,
     <1>12, StepHasEffect
     DEF Effect, Nothing, Quiet, managers, Left, Entered

(* The first callback comes with the last of the early steps.              *)
LEMMA EarlyIsQuietInv ==
  ASSUME AdmissionInv, AdmissionStep
  PROVE  EarlyIsQuiet'
<1>0. TypeOK /\ EarlyIsQuiet /\ ActiveIsMember /\ LeavingIsMember
  BY DEF AdmissionInv
<1>1. CASE UNCHANGED <<handler, state, io, told>>
  BY <1>0, <1>1
     DEF Quiet, managers, TypeOK, EarlyIsQuiet, ActiveIsMember,
         LeavingIsMember, Early
<1>2. ASSUME NEW s \in Sessions, Moved(s) PROVE EarlyIsQuiet'
  BY <1>0, <1>2
     DEF Moved, Moves, Go, Quiet, managers, TypeOK, EarlyIsQuiet,
         ActiveIsMember, LeavingIsMember, Early
<1>3. ASSUME NEW s \in Sessions, Seated(s) PROVE EarlyIsQuiet'
  BY <1>0, <1>3
     DEF Seated, Go, Quiet, managers, TypeOK, EarlyIsQuiet, ActiveIsMember,
         LeavingIsMember, Early
<1>4. ASSUME NEW s \in Sessions, Joined(s) PROVE EarlyIsQuiet'
  BY <1>0, <1>4
     DEF Joined, Go, Tell, Quiet, managers, TypeOK, EarlyIsQuiet,
         ActiveIsMember, LeavingIsMember, Early
<1>5. ASSUME NEW s \in Sessions, Queued(s) PROVE EarlyIsQuiet'
  BY <1>0, <1>5
     DEF Queued, Go, Quiet, managers, TypeOK, EarlyIsQuiet, ActiveIsMember,
         LeavingIsMember, Early
<1>6. ASSUME NEW s \in Sessions, Awaited(s) PROVE EarlyIsQuiet'
  BY <1>0, <1>6
     DEF Awaited, Go, Tell, Quiet, managers, TypeOK, EarlyIsQuiet,
         ActiveIsMember, LeavingIsMember, Early
<1>7. ASSUME NEW s \in Sessions, Removed(s) PROVE EarlyIsQuiet'
  BY <1>0, <1>7
     DEF Removed, Go, Quiet, managers, TypeOK, EarlyIsQuiet, ActiveIsMember,
         LeavingIsMember, Early
<1>8. ASSUME NEW s \in Sessions, Dequeued(s) PROVE EarlyIsQuiet'
  BY <1>0, <1>8
     DEF Dequeued, Go, Quiet, managers, TypeOK, EarlyIsQuiet, ActiveIsMember,
         LeavingIsMember, Early
<1>9. ASSUME NEW s \in Sessions, Taken(s) PROVE EarlyIsQuiet'
  BY <1>0, <1>9
     DEF Taken, Go, Quiet, managers, TypeOK, EarlyIsQuiet, ActiveIsMember,
         LeavingIsMember, Early
<1>10. ASSUME NEW s \in Sessions, Undone(s) PROVE EarlyIsQuiet'
  <2>1. after[s] \in {"idle", "full"}
    BY <1>0 DEF TypeOK
  <2> QED
    BY <1>0, <1>10, <2>1
       DEF Undone, Return, Go, Quiet, managers, TypeOK, EarlyIsQuiet, Early
<1>11. ASSUME NEW s \in Sessions, Released(s) PROVE EarlyIsQuiet'
  <2>1. after[s] \in {"idle", "full"}
    BY <1>0 DEF TypeOK
  <2> QED
    BY <1>0, <1>11, <2>1
       DEF Released, Return, Go, Quiet, managers, TypeOK, EarlyIsQuiet, Early
<1>12. ASSUME NEW s \in Sessions, Left(s) PROVE EarlyIsQuiet'
  BY <1>0, <1>12
     DEF Left, Tell, Quiet, managers, TypeOK, EarlyIsQuiet, ActiveIsMember,
         LeavingIsMember, Early
<1>13. ASSUME NEW s \in Sessions, Departed(s) PROVE EarlyIsQuiet'
  BY <1>0, <1>13
     DEF Departed, Go, Tell, Quiet, managers, TypeOK, EarlyIsQuiet,
         ActiveIsMember, LeavingIsMember, Early
<1>14. ASSUME NEW s \in Sessions, Entered(s) PROVE EarlyIsQuiet'
  BY <1>0, <1>14
     DEF Entered, Quiet, managers, TypeOK, EarlyIsQuiet, ActiveIsMember,
         LeavingIsMember, Early
<1> QED
  BY <1>1, <1>2, <1>3, <1>4, <1>5, <1>6, <1>7, <1>8, <1>9, <1>10, <1>11,
     <1>12, <1>13, <1>14, StepHasEffect
     DEF Effect, Nothing, Quiet, managers

(* Nobody takes the seat of a connected session.                           *)
LEMMA ActiveIsMemberInv ==
  ASSUME AdmissionInv, AdmissionStep
  PROVE  ActiveIsMember'
<1>0. TypeOK /\ Histories /\ ActiveIsMember /\ EarlyIsQuiet /\ LeavingIsMember
  BY DEF AdmissionInv
<1>1. CASE UNCHANGED <<members, handler, state, io, told>>
  BY <1>0, <1>1
     DEF Quiet, managers, TypeOK, Histories, ActiveIsMember, EarlyIsQuiet,
         LeavingIsMember, Early
<1>2. ASSUME NEW s \in Sessions, Moved(s) PROVE ActiveIsMember'
  BY <1>0, <1>2
     DEF Moved, Moves, Go, Quiet, managers, TypeOK, Histories, ActiveIsMember,
         EarlyIsQuiet, LeavingIsMember, Early
<1>3. ASSUME NEW s \in Sessions, Seated(s) PROVE ActiveIsMember'
  BY <1>0, <1>3
     DEF Seated, Go, Quiet, managers, TypeOK, Histories, ActiveIsMember,
         EarlyIsQuiet, LeavingIsMember, Early
<1>4. ASSUME NEW s \in Sessions, Joined(s) PROVE ActiveIsMember'
  <2>1. told' = [told EXCEPT ![s] = <<"OnConnected">>]
    BY <1>4, TellsTheStory
  <2> QED
    BY <1>0, <1>4, <2>1
       DEF Joined, Go, Quiet, managers, TypeOK, Histories, ActiveIsMember,
           EarlyIsQuiet, LeavingIsMember, Early
<1>5. ASSUME NEW s \in Sessions, Queued(s) PROVE ActiveIsMember'
  BY <1>0, <1>5
     DEF Queued, Go, Quiet, managers, TypeOK, Histories, ActiveIsMember,
         EarlyIsQuiet, LeavingIsMember, Early
<1>6. ASSUME NEW s \in Sessions, Awaited(s) PROVE ActiveIsMember'
  BY <1>0, <1>6
     DEF Awaited, Go, Tell, Quiet, managers, TypeOK, Histories,
         ActiveIsMember, EarlyIsQuiet, LeavingIsMember, Early
<1>7. ASSUME NEW s \in Sessions, Removed(s) PROVE ActiveIsMember'
  BY <1>0, <1>7
     DEF Removed, Go, Quiet, managers, TypeOK, Histories, ActiveIsMember,
         EarlyIsQuiet, LeavingIsMember, Early
<1>8. ASSUME NEW s \in Sessions, Dequeued(s) PROVE ActiveIsMember'
  BY <1>0, <1>8
     DEF Dequeued, Go, Quiet, managers, TypeOK, Histories, ActiveIsMember,
         EarlyIsQuiet, LeavingIsMember, Early
<1>9. ASSUME NEW s \in Sessions, Taken(s) PROVE ActiveIsMember'
  BY <1>0, <1>9
     DEF Taken, Go, Quiet, managers, TypeOK, Histories, ActiveIsMember,
         EarlyIsQuiet, LeavingIsMember, Early
<1>10. ASSUME NEW s \in Sessions, Undone(s) PROVE ActiveIsMember'
  <2>1. state[chosen[s]] = "Disconnected" /\ io[chosen[s]] = "none"
        /\ handler[chosen[s]] \in {"wait", "full", "idle"}
    BY <1>10, UndoneWaits
  <2>2. after[s] \in {"idle", "full"}
    BY <1>0 DEF TypeOK
  <2> QED
    BY <1>0, <1>10, <2>1, <2>2
       DEF Undone, Return, Go, Quiet, managers, TypeOK, Histories,
           ActiveIsMember, EarlyIsQuiet, LeavingIsMember, Early
<1>11. ASSUME NEW s \in Sessions, Released(s) PROVE ActiveIsMember'
  BY <1>0, <1>11
     DEF Released, Return, Go, Quiet, managers, TypeOK, Histories,
         ActiveIsMember, EarlyIsQuiet, LeavingIsMember, Early
<1>12. ASSUME NEW s \in Sessions, Left(s) PROVE ActiveIsMember'
  <2>1. told' = [told EXCEPT ![s] = <<"OnConnected", "Kicked">>]
    BY <1>12, TellsTheStory
  <2> QED
    BY <1>0, <1>12, <2>1
       DEF Left, Quiet, managers, TypeOK, Histories, ActiveIsMember,
           EarlyIsQuiet, LeavingIsMember, Early
<1>13. ASSUME NEW s \in Sessions, Departed(s) PROVE ActiveIsMember'
  BY <1>0, <1>13
     DEF Departed, Go, Tell, Quiet, managers, TypeOK, Histories,
         ActiveIsMember, EarlyIsQuiet, LeavingIsMember, Early
<1>14. ASSUME NEW s \in Sessions, Entered(s) PROVE ActiveIsMember'
  BY <1>0, <1>14
     DEF Entered, Quiet, managers, TypeOK, Histories, ActiveIsMember,
         EarlyIsQuiet, LeavingIsMember, Early
<1> QED
  BY <1>1, <1>2, <1>3, <1>4, <1>5, <1>6, <1>7, <1>8, <1>9, <1>10, <1>11,
     <1>12, <1>13, <1>14, StepHasEffect
     DEF Effect, Nothing, Quiet, managers

(* Nor the seat of one that is leaving.                                    *)
LEMMA LeavingIsMemberInv ==
  ASSUME AdmissionInv, AdmissionStep
  PROVE  LeavingIsMember'
<1>0. TypeOK /\ Histories /\ ActiveIsMember /\ EarlyIsQuiet /\ LeavingIsMember
  BY DEF AdmissionInv
<1>1. CASE UNCHANGED <<members, handler, state, io, told>>
  BY <1>0, <1>1
     DEF Quiet, managers, TypeOK, Histories, ActiveIsMember, EarlyIsQuiet,
         LeavingIsMember, Early
<1>2. ASSUME NEW s \in Sessions, Moved(s) PROVE LeavingIsMember'
  BY <1>0, <1>2
     DEF Moved, Moves, Go, Quiet, managers, TypeOK, Histories, ActiveIsMember,
         EarlyIsQuiet, LeavingIsMember, Early
<1>3. ASSUME NEW s \in Sessions, Seated(s) PROVE LeavingIsMember'
  BY <1>0, <1>3
     DEF Seated, Go, Quiet, managers, TypeOK, Histories, ActiveIsMember,
         EarlyIsQuiet, LeavingIsMember, Early
<1>4. ASSUME NEW s \in Sessions, Joined(s) PROVE LeavingIsMember'
  <2>1. told' = [told EXCEPT ![s] = <<"OnConnected">>]
    BY <1>4, TellsTheStory
  <2> QED
    BY <1>0, <1>4, <2>1
       DEF Joined, Go, Quiet, managers, TypeOK, Histories, ActiveIsMember,
           EarlyIsQuiet, LeavingIsMember, Early
<1>5. ASSUME NEW s \in Sessions, Queued(s) PROVE LeavingIsMember'
  BY <1>0, <1>5
     DEF Queued, Go, Quiet, managers, TypeOK, Histories, ActiveIsMember,
         EarlyIsQuiet, LeavingIsMember, Early
<1>6. ASSUME NEW s \in Sessions, Awaited(s) PROVE LeavingIsMember'
  BY <1>0, <1>6
     DEF Awaited, Go, Tell, Quiet, managers, TypeOK, Histories,
         ActiveIsMember, EarlyIsQuiet, LeavingIsMember, Early
<1>7. ASSUME NEW s \in Sessions, Removed(s) PROVE LeavingIsMember'
  BY <1>0, <1>7
     DEF Removed, Go, Quiet, managers, TypeOK, Histories, ActiveIsMember,
         EarlyIsQuiet, LeavingIsMember, Early
<1>8. ASSUME NEW s \in Sessions, Dequeued(s) PROVE LeavingIsMember'
  BY <1>0, <1>8
     DEF Dequeued, Go, Quiet, managers, TypeOK, Histories, ActiveIsMember,
         EarlyIsQuiet, LeavingIsMember, Early
<1>9. ASSUME NEW s \in Sessions, Taken(s) PROVE LeavingIsMember'
  BY <1>0, <1>9
     DEF Taken, Go, Quiet, managers, TypeOK, Histories, ActiveIsMember,
         EarlyIsQuiet, LeavingIsMember, Early
<1>10. ASSUME NEW s \in Sessions, Undone(s) PROVE LeavingIsMember'
  <2>1. state[chosen[s]] = "Disconnected" /\ io[chosen[s]] = "none"
        /\ handler[chosen[s]] \in {"wait", "full", "idle"}
    BY <1>10, UndoneWaits
  <2>2. after[s] \in {"idle", "full"}
    BY <1>0 DEF TypeOK
  <2> QED
    BY <1>0, <1>10, <2>1, <2>2
       DEF Undone, Return, Go, Quiet, managers, TypeOK, Histories,
           ActiveIsMember, EarlyIsQuiet, LeavingIsMember, Early
<1>11. ASSUME NEW s \in Sessions, Released(s) PROVE LeavingIsMember'
  BY <1>0, <1>11
     DEF Released, Return, Go, Quiet, managers, TypeOK, Histories,
         ActiveIsMember, EarlyIsQuiet, LeavingIsMember, Early
<1>12. ASSUME NEW s \in Sessions, Left(s) PROVE LeavingIsMember'
  <2>1. told' = [told EXCEPT ![s] = <<"OnConnected", "Kicked">>]
    BY <1>12, TellsTheStory
  <2> QED
    BY <1>0, <1>12, <2>1
       DEF Left, Quiet, managers, TypeOK, Histories, ActiveIsMember,
           EarlyIsQuiet, LeavingIsMember, Early, Reasons
<1>13. ASSUME NEW s \in Sessions, Departed(s) PROVE LeavingIsMember'
  BY <1>0, <1>13
     DEF Departed, Go, Tell, Quiet, managers, TypeOK, Histories,
         ActiveIsMember, EarlyIsQuiet, LeavingIsMember, Early
<1>14. ASSUME NEW s \in Sessions, Entered(s) PROVE LeavingIsMember'
  BY <1>0, <1>14
     DEF Entered, Quiet, managers, TypeOK, Histories, ActiveIsMember,
         EarlyIsQuiet, LeavingIsMember, Early
<1> QED
  BY <1>1, <1>2, <1>3, <1>4, <1>5, <1>6, <1>7, <1>8, <1>9, <1>10, <1>11,
     <1>12, <1>13, <1>14, StepHasEffect
     DEF Effect, Nothing, Quiet, managers

(* So a story goes on as one of the two.                                   *)
LEMMA HistoriesInv ==
  ASSUME AdmissionInv, AdmissionStep
  PROVE  Histories'
<1>0. Histories
  BY DEF AdmissionInv
<1>1. CASE UNCHANGED <<told>>
  BY <1>0, <1>1 DEF Quiet, managers, Histories
<1>2. ASSUME NEW s \in Sessions, Joined(s) PROVE Histories'
  BY <1>0, <1>2, TellsTheStory DEF Histories, Stories, Reasons
<1>3. ASSUME NEW s \in Sessions, Awaited(s) PROVE Histories'
  BY <1>0, <1>3, TellsTheStory DEF Histories, Stories, Reasons
<1>4. ASSUME NEW s \in Sessions, Left(s) PROVE Histories'
  BY <1>0, <1>4, TellsTheStory DEF Histories, Stories, Reasons
<1>5. ASSUME NEW s \in Sessions, Departed(s) PROVE Histories'
  <2>1. PICK r \in Reasons :
          told' = [told EXCEPT ![s] = <<"OnConnected", r, "OnDisconnected">>]
    BY <1>5, TellsTheStory
  <2>2. <<"OnConnected", r, "OnDisconnected">> \in Stories
    BY <2>1 DEF Stories
  <2> QED
    BY <1>0, <2>1, <2>2 DEF Histories
<1> QED
  BY <1>1, <1>2, <1>3, <1>4, <1>5, StepHasEffect
     DEF Effect, Nothing, Quiet, managers, Moved, Seated, Queued, Removed,
         Dequeued, Taken, Undone, Released, Entered

-----------------------------------------------------------------------------
(* The line.                                                               *)
LEMMA LineFacts ==
  ASSUME line \in Seq(Sessions)
  PROVE  /\ Len(line) \in Nat
         /\ \A i \in 1..Len(line) : line[i] \in Sessions
         /\ \A s \in Sessions :
              /\ Len(Append(line, s)) = Len(line) + 1
              /\ Append(line, s)[Len(line) + 1] = s
              /\ \A i \in 1..Len(line) : Append(line, s)[i] = line[i]
         /\ line # << >> =>
              /\ 1 \in 1..Len(line) /\ Head(line) = line[1]
              /\ Len(Tail(line)) = Len(line) - 1
              /\ \A i \in 1..(Len(line) - 1) : Tail(line)[i] = line[i + 1]
<1>1. Len(line) \in Nat /\ \A i \in 1..Len(line) : line[i] \in Sessions
  OBVIOUS
<1>2. ASSUME NEW s \in Sessions
      PROVE  /\ Len(Append(line, s)) = Len(line) + 1
             /\ Append(line, s)[Len(line) + 1] = s
             /\ \A i \in 1..Len(line) : Append(line, s)[i] = line[i]
  <2>1. Len(Append(line, s)) = Len(line) + 1
    BY AppendProperties
  <2>2. Append(line, s)[Len(line) + 1] = s
    BY AppendProperties
  <2>3. ASSUME NEW i \in 1..Len(line) PROVE Append(line, s)[i] = line[i]
    BY AppendProperties
  <2> QED
    BY <2>1, <2>2, <2>3
<1>3. ASSUME line # << >>
      PROVE  /\ 1 \in 1..Len(line) /\ Head(line) = line[1]
             /\ Len(Tail(line)) = Len(line) - 1
             /\ \A i \in 1..(Len(line) - 1) : Tail(line)[i] = line[i + 1]
  BY <1>3
<1> QED
  BY <1>1, <1>2, <1>3

(* Only the one who enters starts to wait.                                 *)
LEMMA OnlyQueuedWaits ==
  ASSUME AdmissionInv, NEW s \in Sessions, Effect(s),
         NEW t \in Sessions, Waits(t)'
  PROVE  Waits(t) \/ (Queued(s) /\ t = s)
<1>1. TypeOK /\ line \in Seq(Sessions)
  BY DEF AdmissionInv, TypeOK
<1>2. CASE UNCHANGED <<line, chosen>>
  BY <1>2 DEF Waits
<1>3. CASE Queued(s)
  BY <1>1, <1>3, LineFacts DEF Waits, Queued
<1>4. CASE Dequeued(s)
  <2>1. CASE \E i \in 1..Len(line') : line'[i] = t
    <3>1. PICK i \in 1..Len(line') : line'[i] = t
      BY <2>1
    <3>2. i + 1 \in 1..Len(line) /\ line[i + 1] = t
      BY <1>1, <1>4, <3>1, LineFacts DEF Dequeued
    <3> QED
      BY <3>2 DEF Waits
  <2>2. CASE \E h \in Sessions : chosen'[h] = t
    <3>1. t = line[1] \/ \E h \in Sessions : chosen[h] = t
      BY <1>1, <1>4, <2>2, LineFacts DEF Dequeued, TypeOK
    <3> QED
      BY <1>1, <1>4, <3>1, LineFacts DEF Dequeued, Waits
  <2> QED
    BY <2>1, <2>2 DEF Waits
<1>5. CASE Undone(s) \/ Released(s)
  <2>1. t # None
    BY AdmissionAssumption
  <2> QED
    BY <1>1, <1>5, <2>1 DEF Undone, Released, Return, Waits, TypeOK
<1> QED
  BY <1>2, <1>3, <1>4, <1>5
     DEF Effect, Moved, Seated, Joined, Awaited, Removed, Taken, Left, Departed,
         Entered, Quiet, managers

(* A session that waits stays out of everything.                           *)
LEMMA WaiterIsQuietInv ==
  ASSUME AdmissionInv, AdmissionStep
  PROVE  WaiterIsQuiet'
<1>1. CASE Nothing
  BY <1>1 DEF Nothing, Quiet, managers, AdmissionInv, WaiterIsQuiet, Waits
<1>2. ASSUME NEW s \in Sessions, Effect(s), NEW t \in Sessions, Waits(t)'
      PROVE  /\ handler'[t] \in {"wait", "full", "idle"}
             /\ state'[t] = "Disconnected" /\ io'[t] = "none"
  <2>1. CASE Queued(s) /\ t = s
    BY <2>1 DEF Queued, Go, AdmissionInv, TypeOK, EarlyIsQuiet, Early
  <2>2. CASE Waits(t)
    <3>1. TypeOK /\ handler[t] \in {"wait", "full", "idle"}
          /\ state[t] = "Disconnected" /\ io[t] = "none"
      BY <2>2 DEF AdmissionInv, WaiterIsQuiet
    <3>2. CASE Moved(s)
      BY <3>1, <3>2 DEF Moved, Moves, Go, Quiet, TypeOK
    <3>3. CASE Seated(s)
      BY <3>1, <3>3 DEF Seated, Go, Quiet, TypeOK
    <3>4. CASE Joined(s)
      BY <3>1, <3>4 DEF Joined, Go, Tell, Quiet, TypeOK
    <3>5. CASE Queued(s)
      BY <3>1, <3>5 DEF Queued, Go, Quiet, TypeOK
    <3>6. CASE Awaited(s)
      BY <3>1, <3>6 DEF Awaited, Go, Tell, Quiet, TypeOK
    <3>7. CASE Removed(s)
      BY <3>1, <3>7 DEF Removed, Go, Quiet, TypeOK
    <3>8. CASE Dequeued(s)
      BY <3>1, <3>8 DEF Dequeued, Go, Quiet, TypeOK
    <3>9. CASE Taken(s)
      BY <3>1, <3>9 DEF Taken, Go, Quiet, TypeOK
    <3>10. CASE Undone(s)
      BY <3>1, <3>10 DEF Undone, Return, Go, Quiet, TypeOK
    <3>11. CASE Released(s)
      BY <3>1, <3>11 DEF Released, Return, Go, Quiet, TypeOK
    <3>12. CASE Left(s)
      BY <3>1, <3>12 DEF Left, Tell, Quiet, TypeOK
    <3>13. CASE Departed(s)
      BY <3>1, <3>13 DEF Departed, Go, Tell, Quiet, TypeOK
    <3>14. CASE Entered(s)
      BY <3>1, <3>14 DEF Entered, Quiet, TypeOK
    <3> QED
      BY <3>2, <3>3, <3>4, <3>5, <3>6, <3>7, <3>8, <3>9, <3>10, <3>11, <3>12,
         <3>13, <3>14, <1>2
         DEF Effect
  <2> QED
    BY <1>2, <2>1, <2>2, OnlyQueuedWaits
<1> QED
  BY <1>1, <1>2, StepHasEffect DEF WaiterIsQuiet

(* A ticket is given out at the end and called up at the front.            *)
LEMMA TicketsInLineInv ==
  ASSUME AdmissionInv, AdmissionStep
  PROVE  TicketsInLine'
<1>0. TypeOK /\ TicketsInLine /\ UNCHANGED maxWaitSize /\ maxWaitSize \in Nat
  BY StepHasEffect, AdmissionAssumption DEF AdmissionInv, TypeOK, Rest
<1>1. CASE UNCHANGED <<line, issued, called, ticket>>
  BY <1>0, <1>1 DEF Quiet, managers, TypeOK, TicketsInLine
<1>2. ASSUME NEW s \in Sessions, Queued(s) PROVE TicketsInLine'
  <2>1. ASSUME NEW i \in 1..Len(line) PROVE line[i] # s
    <3>1. Waits(line[i])
      BY DEF Waits
    <3>2. line[i] \in Sessions
      BY <1>0, LineFacts DEF TypeOK
    <3> QED
      BY <1>2, <3>1, <3>2 DEF AdmissionInv, WaiterIsQuiet, Queued, Go
  <2>2. /\ Len(line) \in Nat /\ Len(line') = Len(line) + 1
        /\ line'[Len(line) + 1] = s
        /\ \A i \in 1..Len(line) : line'[i] = line[i] /\ line[i] \in Sessions
    BY <1>0, <1>2, LineFacts DEF TypeOK, Queued
  <2>3. ASSUME NEW i \in 1..Len(line') PROVE ticket'[line'[i]] = called' + i - 1
    <3>1. CASE i = Len(line) + 1
      BY <1>0, <1>2, <2>2, <3>1 DEF Queued, TypeOK, TicketsInLine
    <3>2. CASE i \in 1..Len(line)
      BY <1>0, <1>2, <2>1, <2>2, <3>2 DEF Queued, TypeOK, TicketsInLine
    <3> QED
      BY <2>2, <3>1, <3>2
  <2>4. issued' = called' + Len(line') /\ Len(line') <= maxWaitSize'
    BY <1>0, <1>2, <2>2, AdmissionAssumption DEF Queued, TypeOK, TicketsInLine
  <2> QED
    BY <2>3, <2>4 DEF TicketsInLine
<1>3. ASSUME NEW s \in Sessions, Dequeued(s) PROVE TicketsInLine'
  <2>1. /\ Len(line) \in Nat /\ Len(line') = Len(line) - 1
        /\ \A i \in 1..(Len(line) - 1) : line'[i] = line[i + 1]
    BY <1>0, <1>3, LineFacts DEF TypeOK, Dequeued
  <2>2. ASSUME NEW i \in 1..Len(line') PROVE ticket'[line'[i]] = called' + i - 1
    <3>1. i \in 1..(Len(line) - 1) /\ i + 1 \in 1..Len(line)
      BY <2>1
    <3>2. ticket[line[i + 1]] = called + (i + 1) - 1
      BY <1>0, <3>1 DEF TicketsInLine
    <3> QED
      BY <1>0, <1>3, <2>1, <3>1, <3>2 DEF Dequeued, Quiet, TypeOK
  <2>3. issued' = called' + Len(line') /\ Len(line') <= maxWaitSize'
    BY <1>0, <1>3, <2>1, AdmissionAssumption DEF Dequeued, TypeOK,
       TicketsInLine
  <2> QED
    BY <2>2, <2>3 DEF TicketsInLine
<1> QED
  BY <1>1, <1>2, <1>3, StepHasEffect
     DEF Effect, Nothing, Quiet, managers, Moved, Seated, Joined, Awaited,
         Removed, Taken, Undone, Released, Left, Departed, Entered

-----------------------------------------------------------------------------
(* The seats.                                                              *)
LEMMA CountsChange ==
  ASSUME NEW S, IsFiniteSet(S), NEW x
  PROVE  /\ Cardinality(S) \in Nat
         /\ x \notin S => Cardinality(S \cup {x}) = Cardinality(S) + 1
         /\ x \in S => Cardinality(S \ {x}) = Cardinality(S) - 1
         /\ x \notin S => S \ {x} = S
BY FS_CardinalityType, FS_AddElement, FS_RemoveElement

(* Seats move between members and kept seats; only AddSession takes a new  *)
(* one, and only if there is room.                                         *)
LEMMA SeatsAreAccountedInv ==
  ASSUME AdmissionInv, AdmissionStep
  PROVE  SeatsAreAccounted'
<1> DEFINE c == Cardinality(members)
           d == Cardinality(KeptSeats)
<1>0. /\ TypeOK /\ LeavingIsMember
      /\ IsFiniteSet(members) /\ IsFiniteSet(KeptSeats) /\ c \in Nat /\ d \in Nat
      /\ seats = c + d /\ seats <= MaxSessions /\ MaxSessions \in Nat
  BY SeatsCount, AdmissionAssumption DEF AdmissionInv, SeatsAreAccounted
<1> HIDE DEF c, d
<1>1. (\A s \in Sessions : state[s] # "Disconnected" => s \in members)'
  BY ActiveIsMemberInv DEF ActiveIsMember
<1>2. ASSUME UNCHANGED <<members, seats>>, KeptSeats' = KeptSeats
      PROVE  SeatsAreAccounted'
  BY <1>0, <1>1, <1>2 DEF SeatsAreAccounted, c, d
<1>3. CASE Nothing
  BY <1>2, <1>3 DEF Nothing, managers, KeptSeats
<1>4. ASSUME NEW s \in Sessions, Moved(s) PROVE SeatsAreAccounted'
  <2>1. KeptSeats' = KeptSeats
    BY <1>0, <1>4 DEF Moved, Moves, Go, KeptSeats, TypeOK
  <2> QED
    BY <1>2, <1>4, <2>1 DEF Moved, managers
<1>5. ASSUME NEW s \in Sessions, Joined(s) PROVE SeatsAreAccounted'
  <2>1. KeptSeats' = KeptSeats
    BY <1>0, <1>5 DEF Joined, Go, Tell, KeptSeats, TypeOK
  <2> QED
    BY <1>2, <1>5, <2>1 DEF Joined, managers
<1>6. ASSUME NEW s \in Sessions, Queued(s) PROVE SeatsAreAccounted'
  <2>1. KeptSeats' = KeptSeats
    BY <1>0, <1>6 DEF Queued, Go, KeptSeats, TypeOK
  <2> QED
    BY <1>2, <1>6, <2>1 DEF Queued, managers
<1>7. ASSUME NEW s \in Sessions, Awaited(s) PROVE SeatsAreAccounted'
  <2>1. KeptSeats' = KeptSeats
    BY <1>0, <1>7 DEF Awaited, Go, Tell, KeptSeats, TypeOK
  <2> QED
    BY <1>2, <1>7, <2>1 DEF Awaited, managers
<1>8. ASSUME NEW s \in Sessions, Dequeued(s) PROVE SeatsAreAccounted'
  <2>1. KeptSeats' = KeptSeats
    BY <1>0, <1>8 DEF Dequeued, Go, KeptSeats, TypeOK
  <2> QED
    BY <1>2, <1>8, <2>1 DEF Dequeued, managers
<1>9. ASSUME NEW s \in Sessions, Left(s) PROVE SeatsAreAccounted'
  <2>1. KeptSeats' = KeptSeats
    BY <1>0, <1>9 DEF Left, Tell, KeptSeats, TypeOK
  <2> QED
    BY <1>2, <1>9, <2>1 DEF Left, managers
<1>10. ASSUME NEW s \in Sessions, Departed(s) PROVE SeatsAreAccounted'
  <2>1. KeptSeats' = KeptSeats
    BY <1>0, <1>10 DEF Departed, Go, Tell, KeptSeats, TypeOK
  <2> QED
    BY <1>2, <1>10, <2>1 DEF Departed, managers
<1>11. ASSUME NEW s \in Sessions, Entered(s) PROVE SeatsAreAccounted'
  <2>1. KeptSeats' = KeptSeats
    BY <1>0, <1>11 DEF Entered, KeptSeats, TypeOK
  <2> QED
    BY <1>2, <1>11, <2>1 DEF Entered, managers
<1>12. ASSUME NEW s \in Sessions, Seated(s) PROVE SeatsAreAccounted'
  <2>1. KeptSeats' = KeptSeats
    BY <1>0, <1>12 DEF Seated, Go, KeptSeats, TypeOK
  <2>2. Cardinality(members') = c + 1
    BY <1>0, <1>12, CountsChange DEF Seated, c
  <2> QED
    BY <1>0, <1>1, <1>12, <2>1, <2>2 DEF Seated, SeatsAreAccounted, d
<1>13. ASSUME NEW s \in Sessions, Removed(s) PROVE SeatsAreAccounted'
  <2>1. KeptSeats' = KeptSeats \cup {s} /\ s \notin KeptSeats
    BY <1>0, <1>13 DEF Removed, Go, KeptSeats, TypeOK
  <2>2. Cardinality(KeptSeats') = d + 1
    BY <1>0, <2>1, CountsChange DEF d
  <2>3. s \in members
    BY <1>0, <1>13 DEF Removed, Go, LeavingIsMember
  <2>4. Cardinality(members') = c - 1
    BY <1>0, <1>13, <2>3, CountsChange DEF Removed, c
  <2> QED
    BY <1>0, <1>1, <1>13, <2>2, <2>4 DEF Removed, SeatsAreAccounted
<1>14. ASSUME NEW s \in Sessions, Taken(s) PROVE SeatsAreAccounted'
  <2>1. KeptSeats' = KeptSeats \ {s} /\ s \in KeptSeats
    BY <1>0, <1>14 DEF Taken, Go, KeptSeats, TypeOK
  <2>2. Cardinality(KeptSeats') = d - 1
    BY <1>0, <2>1, CountsChange DEF d
  <2>3. Cardinality(members') = c + 1
    BY <1>0, <1>14, CountsChange DEF Taken, c
  <2> QED
    BY <1>0, <1>1, <1>14, <2>2, <2>3 DEF Taken, SeatsAreAccounted
<1>15. ASSUME NEW s \in Sessions, Undone(s) PROVE SeatsAreAccounted'
  <2>1. after[s] \in {"idle", "full"}
    BY <1>0 DEF TypeOK
  <2>2. KeptSeats' = KeptSeats
    BY <1>0, <1>15, <2>1 DEF Undone, Return, Go, KeptSeats, TypeOK
  <2>3. CASE chosen[s] \in members
    <3>1. Cardinality(members') = c - 1
      BY <1>0, <1>15, <2>3, CountsChange DEF Undone, c
    <3> QED
      BY <1>0, <1>1, <1>15, <2>2, <2>3, <3>1 DEF Undone, SeatsAreAccounted, d
  <2>4. CASE chosen[s] \notin members
    BY <1>0, <1>2, <1>15, <2>2, <2>4, CountsChange DEF Undone
  <2> QED
    BY <2>3, <2>4
<1>16. ASSUME NEW s \in Sessions, Released(s) PROVE SeatsAreAccounted'
  <2>1. after[s] \in {"idle", "full"}
    BY <1>0 DEF TypeOK
  <2>2. KeptSeats' = KeptSeats \ {s} /\ s \in KeptSeats
    BY <1>0, <1>16, <2>1 DEF Released, Return, Go, KeptSeats, TypeOK
  <2>3. Cardinality(KeptSeats') = d - 1
    BY <1>0, <2>2, CountsChange DEF d
  <2> QED
    BY <1>0, <1>1, <1>16, <2>3 DEF Released, SeatsAreAccounted, c
<1> QED
  BY <1>3, <1>4, <1>5, <1>6, <1>7, <1>8, <1>9, <1>10, <1>11, <1>12, <1>13,
     <1>14, <1>15, <1>16, StepHasEffect
     DEF Effect

(* A member that is disconnected keeps the handler that will remove it.    *)
LEMMA SeatIsOwedInv ==
  ASSUME AdmissionInv, AdmissionStep
  PROVE  SeatIsOwed'
<1> DEFINE Owed(u) ==
      \/ handler[u] \in {"connect", "undo", "remove"}
      \/ \E h \in Sessions : chosen[h] = u /\ handler[h] \in {"promote", "demote"}
      \/ io[u] \in {"pending", "failed"}
<1>0. /\ TypeOK /\ ChosenInHand /\ ActiveIsMember /\ LeavingIsMember
      /\ WaiterIsQuiet
      /\ \A t \in members : t \in Sessions
      /\ \A t \in members : state[t] = "Disconnected" => Owed(t)
  BY DEF AdmissionInv, SeatIsOwed, TypeOK
<1>1. CASE Nothing
  BY <1>1 DEF Nothing, Quiet, managers, AdmissionInv, SeatIsOwed
<1>2. ASSUME NEW s \in Sessions, Effect(s),
             NEW t \in members', state'[t] = "Disconnected"
      PROVE  Owed(t)'
  <2>1. CASE Moved(s)
    <3>1. t \in members /\ Owed(t)
      BY <1>0, <1>2, <2>1 DEF Moved, Quiet, managers
    <3> QED
      BY <1>0, <2>1, <3>1 DEF Moved, Moves, Go, Quiet, TypeOK
  <2>2. CASE Joined(s)
    <3>1. t # s /\ t \in members /\ Owed(t)
      BY <1>0, <1>2, <2>2 DEF Joined, managers, TypeOK
    <3> QED
      BY <1>0, <2>2, <3>1 DEF Joined, Go, TypeOK
  <2>3. CASE Queued(s)
    <3>1. t \in members /\ Owed(t)
      BY <1>0, <1>2, <2>3 DEF Queued, Quiet, managers
    <3> QED
      BY <1>0, <2>3, <3>1 DEF Queued, Go, Quiet, TypeOK
  <2>4. CASE Awaited(s)
    <3>1. t \in members /\ Owed(t)
      BY <1>0, <1>2, <2>4 DEF Awaited, Quiet, managers
    <3> QED
      BY <1>0, <2>4, <3>1 DEF Awaited, Go, Tell, Quiet, TypeOK
  <2>5. CASE Departed(s)
    <3>1. t \in members /\ Owed(t)
      BY <1>0, <1>2, <2>5 DEF Departed, Quiet, managers
    <3> QED
      BY <1>0, <2>5, <3>1 DEF Departed, Go, Tell, Quiet, TypeOK
  <2>6. CASE Entered(s)
    <3>1. t \in members /\ Owed(t)
      BY <1>0, <1>2, <2>6 DEF Entered, managers, TypeOK
    <3> QED
      BY <1>0, <2>6, <3>1 DEF Entered, TypeOK
  <2>7. CASE Left(s)
    <3>1. CASE t = s
      BY <1>0, <2>7, <3>1 DEF Left, TypeOK
    <3>2. CASE t # s
      <4>1. t \in members /\ Owed(t)
        BY <1>0, <1>2, <2>7, <3>2 DEF Left, managers, TypeOK
      <4> QED
        BY <1>0, <2>7, <3>2, <4>1 DEF Left, TypeOK
    <3> QED
      BY <3>1, <3>2
  <2>8. CASE Seated(s)
    <3>1. CASE t = s
      BY <1>0, <2>8, <3>1 DEF Seated, Go, TypeOK
    <3>2. CASE t # s
      <4>1. t \in members /\ Owed(t)
        BY <1>0, <1>2, <2>8, <3>2 DEF Seated, Quiet
      <4> QED
        BY <1>0, <2>8, <4>1 DEF Seated, Go, Quiet, TypeOK
    <3> QED
      BY <3>1, <3>2
  <2>9. CASE Dequeued(s)
    <3>1. t \in members /\ Owed(t)
      BY <1>0, <1>2, <2>9 DEF Dequeued, Quiet
    <3>2. Head(line) \in Sessions
      BY <1>0, <2>9 DEF Dequeued, TypeOK
    <3> QED
      BY <1>0, <2>9, <3>1, <3>2 DEF Dequeued, Go, Quiet, TypeOK
  <2>10. CASE Removed(s)
    <3>1. t # s /\ t \in members /\ Owed(t)
      BY <1>0, <1>2, <2>10 DEF Removed, Quiet
    <3> QED
      BY <1>0, <2>10, <3>1 DEF Removed, Go, Quiet, TypeOK
  <2>11. CASE Taken(s)
    <3>1. CASE t = chosen[s]
      BY <1>0, <2>11, <3>1 DEF Taken, Go, Quiet, TypeOK
    <3>2. CASE t # chosen[s]
      <4>1. t \in members /\ Owed(t)
        BY <1>0, <1>2, <2>11, <3>2 DEF Taken, Quiet
      <4> QED
        BY <1>0, <2>11, <4>1 DEF Taken, Go, Quiet, TypeOK
    <3> QED
      BY <3>1, <3>2
  <2>12. CASE Undone(s)
    <3>1. t # chosen[s] /\ t \in members /\ Owed(t)
      BY <1>0, <1>2, <2>12 DEF Undone, Quiet
    <3> QED
      BY <1>0, <2>12, <3>1 DEF Undone, Return, Go, Quiet, TypeOK
  <2>13. CASE Released(s)
    <3>1. t \in members /\ Owed(t)
      BY <1>0, <1>2, <2>13 DEF Released, Quiet
    <3> QED
      BY <1>0, <2>13, <3>1 DEF Released, Return, Go, Quiet, TypeOK
  <2> QED
    BY <1>2, <2>1, <2>2, <2>3, <2>4, <2>5, <2>6, <2>7, <2>8, <2>9, <2>10,
       <2>11, <2>12, <2>13
       DEF Effect
<1> QED
  BY <1>1, <1>2, StepHasEffect DEF SeatIsOwed

LEMMA AdmissionInvHolds ==
  ASSUME AdmissionInv, AdmissionStep
  PROVE  AdmissionInv'
BY TypeInv, ChosenInHandInv, EarlyIsQuietInv, ActiveIsMemberInv,
   LeavingIsMemberInv, HistoriesInv, WaiterIsQuietInv, TicketsInLineInv,
   SeatsAreAccountedInv, SeatIsOwedInv DEF AdmissionInv

-----------------------------------------------------------------------------
(* The object around the handlers.                                         *)
LEMMA AdmissionGoesOn ==
  ASSUME ConnectionInv, [ConnectionNext]_cvars
  PROVE  AdmissionStep /\ AdmissionInv'
BY StepOfAdmission, AdmissionInvHolds DEF ConnectionInv

(* A handler's step leaves DisconnectEx alone, so its session holds on to  *)
(* its parts.                                                              *)
LEMMA HandleHasEffect ==
  ASSUME ConnectionInv, NEW s \in Sessions, Handle(s)
  PROVE  /\ \/ Moved(s)   \/ Seated(s)   \/ Joined(s) \/ Queued(s) \/ Awaited(s)
            \/ Removed(s) \/ Dequeued(s) \/ Taken(s)  \/ Undone(s) \/ Released(s)
         /\ handler[s] \notin {"unborn", "idle"} /\ state[s] = "Disconnected"
         /\ io' = io /\ self' = self
<1>1. AdmissionInv /\ HandlerStep(s)
  BY DEF ConnectionInv, Handle
<1>2. Effect(s)
  BY <1>1, EffectOfHandler
<1>3. handler[s] \notin {"unborn", "idle"}
  BY <1>1
     DEF HandlerStep, AddSession, SetSessionConnected, ConnectFails,
         EnterWaitQueue, SetSessionWaiting, WaitFails, ServerFull, RemoveSession,
         DequeueWaitQueue, AddWaitingSession, SetWaitingToConnected,
         RemoveAdmitted, ReleaseKeepTicket, Cas, CasFails, Return, Go
<1>4. state[s] = "Disconnected"
  BY <1>1, <1>3 DEF AdmissionInv, ActiveIsMember
<1>5. ~Left(s) /\ ~Departed(s) /\ ~Entered(s)
  BY <1>3, <1>4 DEF Left, Departed, Entered, Go
<1>6. \/ Moved(s)   \/ Seated(s)   \/ Joined(s) \/ Queued(s) \/ Awaited(s)
      \/ Removed(s) \/ Dequeued(s) \/ Taken(s)  \/ Undone(s) \/ Released(s)
  BY <1>2, <1>5 DEF Effect
<1>7. io' = io
  BY <1>6 DEF Moved, Seated, Joined, Queued, Awaited, Removed, Dequeued, Taken,
              Undone, Released, Quiet
<1>8. self' = self
  <2>1. self \in [Sessions -> SUBSET Parts]
    BY DEF ConnectionInv, ConnectionTypeOK
  <2> QED
    BY <1>7, <2>1 DEF Handle, LetGo
<1> QED
  BY <1>3, <1>4, <1>6, <1>7, <1>8

(* It is a step of the handler of one session that has entered.            *)
LEMMA HandleKeepsOthers ==
  ASSUME ConnectionInv, NEW s \in Sessions, Handle(s)
  PROVE  /\ handler'[s] # "unborn"
         /\ \A t \in Sessions : t # s => handler'[t] = handler[t]
<1>1. TypeOK
  BY DEF ConnectionInv, AdmissionInv
<1>2. CASE Undone(s) \/ Released(s)
  <2>1. after[s] \in {"idle", "full"}
    BY <1>1 DEF TypeOK
  <2> QED
    BY <1>1, <1>2, <2>1 DEF Undone, Released, Return, Go, TypeOK
<1>3. CASE Moved(s)
  BY <1>1, <1>3 DEF Moved, Moves, Go, TypeOK
<1> QED
  BY <1>1, <1>2, <1>3, HandleHasEffect
     DEF Seated, Joined, Queued, Awaited, Removed, Dequeued, Taken, Go, TypeOK

(* Disconnect by anybody else.                                             *)
LEMMA EffectOfLeave ==
  ASSUME NEW s \in Sessions, Leave(s)
  PROVE  Left(s)
BY DEF Leave, Disconnect, Left

(* Whoever is turned away was created.                                     *)
LEMMA TurnedAwayIsBorn ==
  ASSUME ConnectionInv, NEW s \in Sessions
  PROVE  TurnedAway(s) \subseteq born
<1>1. AdmissionInv /\ BornFirst
  BY DEF ConnectionInv
<1>2. CASE handler[s] = "full"
  BY <1>1, <1>2 DEF TurnedAway, BornFirst
<1>3. CASE handler[s] \in {"demote", "release"} /\ chosen[s] # None
  <2>1. chosen[s] \in Sessions /\ handler[chosen[s]] # "unborn"
    BY <1>1, <1>3, ChosenWaits
  <2> QED
    BY <1>1, <1>3, <2>1 DEF TurnedAway, BornFirst
<1> QED
  BY <1>2, <1>3 DEF TurnedAway

(* Types.                                                                  *)
LEMMA ConnectionTypeInv ==
  ASSUME ConnectionInv, [ConnectionNext]_cvars
  PROVE  ConnectionTypeOK'
<1>0. /\ TypeOK' /\ ConnectionTypeOK /\ SlotsHoldGuests
      /\ AcceptFails \in Nat /\ InGameMoves \in Nat
  BY AdmissionGoesOn, ConnectionAssumption DEF ConnectionInv, AdmissionInv
<1>1. CASE UNCHANGED cvars
  BY <1>0, <1>1 DEF cvars, objects, ConnectionTypeOK
<1>2. ASSUME NEW a \in Slots, NEW s \in Sessions, RegisterAccept(a, s)
      PROVE ConnectionTypeOK'
  BY <1>0, <1>2 DEF RegisterAccept, Create, ConnectionTypeOK
<1>3. ASSUME NEW a \in Slots, NEW s \in Sessions, RegisterAcceptFails(a, s)
      PROVE ConnectionTypeOK'
  BY <1>0, <1>3 DEF RegisterAcceptFails, CreateFails, Fail, ConnectionTypeOK
<1>4. ASSUME NEW a \in Slots, AcceptCompletes(a) PROVE ConnectionTypeOK'
  <2>1. guest[a] \in Sessions
    BY <1>0, <1>4 DEF AcceptCompletes, ConnectionTypeOK, SlotsHoldGuests
  <2> QED
    BY <1>0, <1>4, <2>1 DEF AcceptCompletes, ConnectionTypeOK
<1>5. ASSUME NEW a \in Slots, AcceptIsLost(a) PROVE ConnectionTypeOK'
  <2>1. guest[a] \in born
    BY <1>0, <1>5 DEF AcceptIsLost, ConnectionTypeOK, SlotsHoldGuests
  <2> QED
    BY <1>0, <1>5, <2>1 DEF AcceptIsLost, Fail, ConnectionTypeOK
<1>6. ASSUME NEW a \in Slots, Rearm(a) PROVE ConnectionTypeOK'
  BY <1>0, <1>6 DEF Rearm, ConnectionTypeOK
<1>7. ASSUME NEW s \in Sessions, Dial(s) PROVE ConnectionTypeOK'
  BY <1>0, <1>7 DEF Dial, Create, ConnectionTypeOK
<1>8. ASSUME NEW s \in Sessions, DialFails(s) PROVE ConnectionTypeOK'
  BY <1>0, <1>8 DEF DialFails, CreateFails, Fail, ConnectionTypeOK
<1>9. ASSUME NEW s \in Sessions, ConnectIsLost(s) PROVE ConnectionTypeOK'
  BY <1>0, <1>9 DEF ConnectIsLost, Fail, ConnectionTypeOK
<1>10. ASSUME NEW s \in Sessions, ConnectCompletes(s) PROVE ConnectionTypeOK'
  BY <1>0, <1>10 DEF ConnectCompletes, ConnectionTypeOK
<1>11. ASSUME NEW s \in Sessions, Handle(s) PROVE ConnectionTypeOK'
  BY <1>0, <1>11, HandleHasEffect, TurnedAwayIsBorn
     DEF Handle, ConnectionTypeOK
<1>12. ASSUME NEW s \in Sessions, OpenReap(s) PROVE ConnectionTypeOK'
  BY <1>0, <1>12 DEF OpenReap, RegisterReap, ConnectionTypeOK
<1>13. ASSUME NEW s \in Sessions, OpenReceive(s) PROVE ConnectionTypeOK'
  BY <1>0, <1>13 DEF OpenReceive, ConnectionTypeOK
<1>14. ASSUME NEW s \in Sessions, Clear(s) PROVE ConnectionTypeOK'
  BY <1>0, <1>14 DEF Clear, ConnectionTypeOK
<1>15. ASSUME NEW s \in Sessions, NotExpired(s) PROVE ConnectionTypeOK'
  BY <1>0, <1>15 DEF NotExpired, ConnectionTypeOK
<1>16. ASSUME NEW s \in Sessions, Expired(s) PROVE ConnectionTypeOK'
  <2>1. LetGo \in [Sessions -> SUBSET Parts]
    BY <1>0 DEF LetGo, ConnectionTypeOK
  <2> QED
    BY <1>0, <1>16, <2>1 DEF Expired, ConnectionTypeOK
<1>17. ASSUME NEW s \in Sessions, ReapAgain(s) PROVE ConnectionTypeOK'
  BY <1>0, <1>17 DEF ReapAgain, RegisterReap, ConnectionTypeOK
<1>18. ASSUME NEW s \in Sessions, Close(s) PROVE ConnectionTypeOK'
  <2>1. LetGo \in [Sessions -> SUBSET Parts]
    BY <1>0 DEF LetGo, ConnectionTypeOK
  <2> QED
    BY <1>0, <1>18, <2>1 DEF Close, ConnectionTypeOK
<1>19. ASSUME NEW s \in Sessions, SetSessionInGame(s) PROVE ConnectionTypeOK'
  BY <1>0, <1>19 DEF SetSessionInGame, ConnectionTypeOK
<1>20. ASSUME NEW s \in Sessions, DisconnectArrives(s) PROVE ConnectionTypeOK'
  BY <1>0, <1>20 DEF DisconnectArrives, ConnectionTypeOK
<1>21. ASSUME NEW s \in Sessions, TimerFires(s) PROVE ConnectionTypeOK'
  BY <1>0, <1>21 DEF TimerFires, ConnectionTypeOK
<1>22. CASE StartReturns
  BY <1>0, <1>22 DEF StartReturns, ConnectionTypeOK
<1>23. CASE CompletionIsLost
  BY <1>0, <1>23 DEF CompletionIsLost, ConnectionTypeOK
<1>24. ASSUME NEW s \in Sessions, RunReapJob(s) PROVE ConnectionTypeOK'
  BY <1>0, <1>24 DEF RunReapJob, ConnectionTypeOK
<1> QED
  BY <1>1, <1>2, <1>3, <1>4, <1>5, <1>6, <1>7, <1>8, <1>9, <1>10, <1>11,
     <1>12, <1>13, <1>14, <1>15, <1>16, <1>17, <1>18, <1>19, <1>20, <1>21,
     <1>22, <1>23, <1>24
     DEF ConnectionNext, SessionStep

-----------------------------------------------------------------------------
(* The slots keep track of their sessions.                                 *)
LEMMA SlotsHoldGuestsInv ==
  ASSUME ConnectionInv, [ConnectionNext]_cvars
  PROVE  SlotsHoldGuests'
<1>0. TypeOK /\ ConnectionTypeOK /\ SlotsHoldGuests
  BY DEF ConnectionInv, AdmissionInv
<1>1. ASSUME UNCHANGED <<slot, guest, born, handler>> PROVE SlotsHoldGuests'
  BY <1>0, <1>1 DEF TypeOK, ConnectionTypeOK, SlotsHoldGuests
<1>2. ASSUME NEW a \in Slots, NEW s \in Sessions, RegisterAccept(a, s)
      PROVE SlotsHoldGuests'
  BY <1>0, <1>2, AdmissionAssumption
     DEF RegisterAccept, Create, vars, managers, TypeOK, ConnectionTypeOK,
         SlotsHoldGuests
<1>3. ASSUME NEW a \in Slots, NEW s \in Sessions, RegisterAcceptFails(a, s)
      PROVE SlotsHoldGuests'
  BY <1>0, <1>3
     DEF RegisterAcceptFails, CreateFails, Fail, vars, managers, TypeOK,
         ConnectionTypeOK, SlotsHoldGuests
<1>4. ASSUME NEW a \in Slots, AcceptCompletes(a) PROVE SlotsHoldGuests'
  <2>1. guest[a] \in Sessions
    BY <1>0, <1>4 DEF AcceptCompletes, ConnectionTypeOK, SlotsHoldGuests
  <2> QED
    BY <1>0, <1>4, <2>1
       DEF AcceptCompletes, Accept, Go, TypeOK, ConnectionTypeOK,
           SlotsHoldGuests
<1>5. ASSUME NEW a \in Slots, AcceptIsLost(a) PROVE SlotsHoldGuests'
  BY <1>0, <1>5
     DEF AcceptIsLost, Fail, vars, managers, TypeOK, ConnectionTypeOK,
         SlotsHoldGuests
<1>6. ASSUME NEW a \in Slots, Rearm(a) PROVE SlotsHoldGuests'
  BY <1>0, <1>6
     DEF Rearm, vars, managers, TypeOK, ConnectionTypeOK, SlotsHoldGuests
<1>7. ASSUME NEW s \in Sessions, Dial(s) PROVE SlotsHoldGuests'
  BY <1>0, <1>7
     DEF Dial, Create, vars, managers, TypeOK, ConnectionTypeOK,
         SlotsHoldGuests
<1>8. ASSUME NEW s \in Sessions, DialFails(s) PROVE SlotsHoldGuests'
  BY <1>0, <1>8
     DEF DialFails, CreateFails, Fail, vars, managers, TypeOK,
         ConnectionTypeOK, SlotsHoldGuests
<1>9. ASSUME NEW s \in Sessions, ConnectIsLost(s) PROVE SlotsHoldGuests'
  BY <1>0, <1>9
     DEF ConnectIsLost, Fail, vars, managers, TypeOK, ConnectionTypeOK,
         SlotsHoldGuests
<1>10. ASSUME NEW s \in Sessions, ConnectCompletes(s) PROVE SlotsHoldGuests'
  BY <1>0, <1>10
     DEF ConnectCompletes, Accept, Go, vars, managers, TypeOK,
         ConnectionTypeOK, SlotsHoldGuests
<1>11. ASSUME NEW s \in Sessions, Handle(s) PROVE SlotsHoldGuests'
  <2>1. \A t \in Sessions : handler'[t] = "unborn" <=> handler[t] = "unborn"
    BY <1>11, HandleKeepsOthers, HandleHasEffect
  <2> QED
    BY <1>0, <1>11, <2>1, HandleHasEffect
       DEF Handle, TypeOK, ConnectionTypeOK, SlotsHoldGuests
<1>12. ASSUME NEW s \in Sessions, DisconnectArrives(s) PROVE SlotsHoldGuests'
  BY <1>0, <1>12
     DEF DisconnectArrives, DisconnectCompletes, Go, Tell, vars, managers,
         TypeOK, ConnectionTypeOK, SlotsHoldGuests
<1> QED
  BY <1>1, <1>2, <1>3, <1>4, <1>5, <1>6, <1>7, <1>8, <1>9, <1>10, <1>11, <1>12
     DEF ConnectionNext, SessionStep, cvars, vars, objects, managers,
         OpenReap, RegisterReap, OpenReceive, Clear, NotExpired, Expired,
         Leave, ReapAgain, Close, SetSessionInGame, Cas, TimerFires, RunReapJob, CompletionIsLost,
         StartReturns

(* Nothing happens to a session before it is created.                      *)
LEMMA BornFirstInv ==
  ASSUME ConnectionInv, [ConnectionNext]_cvars
  PROVE  BornFirst'
<1>0. TypeOK /\ ConnectionTypeOK /\ SlotsHoldGuests /\ BornFirst
  BY DEF ConnectionInv, AdmissionInv
<1>1. ASSUME UNCHANGED <<handler, born, self>> PROVE BornFirst'
  BY <1>0, <1>1 DEF TypeOK, ConnectionTypeOK, SlotsHoldGuests, BornFirst
<1>2. ASSUME NEW a \in Slots, NEW s \in Sessions, RegisterAccept(a, s)
      PROVE BornFirst'
  BY <1>0, <1>2
     DEF RegisterAccept, Create, vars, managers, TypeOK, ConnectionTypeOK,
         SlotsHoldGuests, BornFirst
<1>3. ASSUME NEW a \in Slots, NEW s \in Sessions, RegisterAcceptFails(a, s)
      PROVE BornFirst'
  BY <1>0, <1>3
     DEF RegisterAcceptFails, CreateFails, Fail, vars, managers, TypeOK,
         ConnectionTypeOK, SlotsHoldGuests, BornFirst
<1>4. ASSUME NEW a \in Slots, AcceptCompletes(a) PROVE BornFirst'
  <2>1. guest[a] \in Sessions
    BY <1>0, <1>4 DEF AcceptCompletes, ConnectionTypeOK, SlotsHoldGuests
  <2> QED
    BY <1>0, <1>4, <2>1
       DEF AcceptCompletes, Accept, Go, TypeOK, ConnectionTypeOK,
           SlotsHoldGuests, BornFirst
<1>5. ASSUME NEW s \in Sessions, Dial(s) PROVE BornFirst'
  BY <1>0, <1>5
     DEF Dial, Create, vars, managers, TypeOK, ConnectionTypeOK,
         SlotsHoldGuests, BornFirst
<1>6. ASSUME NEW s \in Sessions, DialFails(s) PROVE BornFirst'
  BY <1>0, <1>6
     DEF DialFails, CreateFails, Fail, vars, managers, TypeOK,
         ConnectionTypeOK, SlotsHoldGuests, BornFirst
<1>7. ASSUME NEW s \in Sessions, ConnectIsLost(s) PROVE BornFirst'
  BY <1>0, <1>7
     DEF ConnectIsLost, Fail, vars, managers, TypeOK, ConnectionTypeOK,
         SlotsHoldGuests, BornFirst
<1>8. ASSUME NEW s \in Sessions, ConnectCompletes(s) PROVE BornFirst'
  BY <1>0, <1>8
     DEF ConnectCompletes, Accept, Go, vars, managers, TypeOK,
         ConnectionTypeOK, SlotsHoldGuests, BornFirst
<1>9. ASSUME NEW s \in Sessions, Handle(s) PROVE BornFirst'
  <2>1. \A t \in Sessions : handler'[t] = "unborn" <=> handler[t] = "unborn"
    BY <1>9, HandleKeepsOthers, HandleHasEffect
  <2> QED
    BY <1>0, <1>9, <2>1, HandleHasEffect
       DEF Handle, TypeOK, ConnectionTypeOK, SlotsHoldGuests, BornFirst
<1>10. ASSUME NEW s \in Sessions, OpenReceive(s) PROVE BornFirst'
  BY <1>0, <1>10
     DEF OpenReceive, vars, managers, TypeOK, ConnectionTypeOK,
         SlotsHoldGuests, BornFirst
<1>11. ASSUME NEW s \in Sessions, Clear(s) PROVE BornFirst'
  BY <1>0, <1>11
     DEF Clear, vars, managers, TypeOK, ConnectionTypeOK, SlotsHoldGuests,
         BornFirst
<1>12. ASSUME NEW s \in Sessions, Expired(s) PROVE BornFirst'
  <2>1. \A t \in Sessions : self'[t] \subseteq self[t]
    BY <1>0, <1>12 DEF Expired, LetGo, ConnectionTypeOK
  <2>2. UNCHANGED <<handler, born>>
    BY <1>12 DEF Expired, Leave, vars
  <2> QED
    BY <1>0, <2>1, <2>2 DEF BornFirst
<1>13. ASSUME NEW s \in Sessions, Close(s) PROVE BornFirst'
  <2>1. \A t \in Sessions : self'[t] \subseteq self[t]
    BY <1>0, <1>13 DEF Close, LetGo, ConnectionTypeOK
  <2>2. UNCHANGED <<handler, born>>
    BY <1>13 DEF Close, Leave, vars
  <2> QED
    BY <1>0, <2>1, <2>2 DEF BornFirst
<1>14. ASSUME NEW s \in Sessions, DisconnectArrives(s) PROVE BornFirst'
  BY <1>0, <1>14
     DEF DisconnectArrives, DisconnectCompletes, Go, Tell, vars, managers,
         TypeOK, ConnectionTypeOK, SlotsHoldGuests, BornFirst
<1> QED
  BY <1>1, <1>2, <1>3, <1>4, <1>5, <1>6, <1>7, <1>8, <1>9, <1>10, <1>11,
     <1>12, <1>13, <1>14
     DEF ConnectionNext, SessionStep, cvars, vars, objects, managers,
         AcceptIsLost, Fail, Rearm, OpenReap, RegisterReap, NotExpired,
         ReapAgain, SetSessionInGame, Cas, TimerFires, RunReapJob, CompletionIsLost, StartReturns

(* The reaper does not lose sight of a connected session, unless its queue *)
(* is full.                                                                *)
LEMMA InSightInv ==
  ASSUME ConnectionInv, [ConnectionNext]_cvars
  PROVE  InSight'
<1>0. /\ TypeOK /\ ConnectionTypeOK /\ ActiveIsMember /\ PhasesAgree
      /\ EarlyIsQuiet      /\ SlotsHoldGuests /\ InSight
  BY DEF ConnectionInv, AdmissionInv
<1>1. ASSUME UNCHANGED <<watch, state, crashed, opening>> PROVE InSight'
  BY <1>0, <1>1 DEF TypeOK, ConnectionTypeOK, InSight
<1>2. ASSUME NEW a \in Slots, AcceptCompletes(a) PROVE InSight'
  <2>1. guest[a] \in Sessions
    BY <1>0, <1>2 DEF AcceptCompletes, ConnectionTypeOK, SlotsHoldGuests
  <2> QED
    BY <1>0, <1>2, <2>1
       DEF AcceptCompletes, Accept, Go, TypeOK, ConnectionTypeOK,
           InSight, EarlyIsQuiet, Early
<1>3. ASSUME NEW s \in Sessions, DialFails(s) PROVE InSight'
  BY <1>0, <1>3
     DEF DialFails, CreateFails, Fail, vars, managers, TypeOK,
         ConnectionTypeOK, InSight
<1>4. ASSUME NEW s \in Sessions, ConnectCompletes(s) PROVE InSight'
  BY <1>0, <1>4
     DEF ConnectCompletes, Accept, Go, TypeOK, ConnectionTypeOK,
         InSight, EarlyIsQuiet, Early
<1>5. ASSUME NEW s \in Sessions, Handle(s) PROVE InSight'
  <2>1. CASE Joined(s)
    <3>1. handler[s] = "connect" /\ handler'[s] = "idle" /\ opening[s] = "admit"
      BY <1>0, <1>5, <2>1 DEF Joined, Go, TypeOK, PhasesAgree, Early
    <3>2. opening'[s] = "reap"
      BY <1>0, <1>5, <3>1 DEF Handle, ConnectionTypeOK
    <3>3. \A t \in Sessions : t # s => state'[t] = state[t] /\ opening'[t] = opening[t]
      BY <1>0, <1>5, <2>1 DEF Joined, Handle, TypeOK, ConnectionTypeOK
    <3> QED
      BY <1>0, <1>5, <3>2, <3>3 DEF Handle, InSight
  <2>2. CASE state' = state
    <3>1. opening[s] = "reap" => opening'[s] = "reap"
      BY <1>0, <1>5 DEF Handle, ConnectionTypeOK
    <3>2. \A t \in Sessions : t # s => opening'[t] = opening[t]
      BY <1>0, <1>5 DEF Handle, ConnectionTypeOK
    <3> QED
      BY <1>0, <1>5, <2>2, <3>1, <3>2 DEF Handle, InSight
  <2> QED
    BY <1>5, <2>1, <2>2, HandleHasEffect
       DEF Moved, Seated, Queued, Awaited, Removed, Dequeued, Taken, Undone,
           Released, Quiet
<1>6. ASSUME NEW s \in Sessions, OpenReap(s) PROVE InSight'
  BY <1>0, <1>6
     DEF OpenReap, RegisterReap, vars, managers, TypeOK, ConnectionTypeOK,
         InSight
<1>7. ASSUME NEW s \in Sessions, OpenReceive(s) PROVE InSight'
  BY <1>0, <1>7
     DEF OpenReceive, vars, managers, TypeOK, ConnectionTypeOK,
         InSight
<1>8. ASSUME NEW s \in Sessions, NotExpired(s) PROVE InSight'
  BY <1>0, <1>8
     DEF NotExpired, vars, managers, TypeOK, ConnectionTypeOK,
         InSight
<1>9. ASSUME NEW s \in Sessions, Expired(s) PROVE InSight'
  <2>1. \A t \in Sessions : state'[t] # "Disconnected" => state[t] = state'[t] /\ t # s
    BY <1>0, <1>9, EffectOfLeave DEF Expired, Left, TypeOK, vars
  <2> QED
    BY <1>0, <1>9, <2>1 DEF Expired, ConnectionTypeOK, InSight
<1>10. ASSUME NEW s \in Sessions, ReapAgain(s) PROVE InSight'
  BY <1>0, <1>10
     DEF ReapAgain, RegisterReap, vars, managers, TypeOK, ConnectionTypeOK,
         InSight
<1>11. ASSUME NEW s \in Sessions, Close(s) PROVE InSight'
  <2>1. \A t \in Sessions : state'[t] # "Disconnected" => state[t] = state'[t]
    BY <1>0, <1>11, EffectOfLeave DEF Close, Left, TypeOK, vars
  <2> QED
    BY <1>0, <1>11, <2>1 DEF Close, ConnectionTypeOK, InSight
<1>12. ASSUME NEW s \in Sessions, SetSessionInGame(s) PROVE InSight'
  BY <1>0, <1>12
     DEF SetSessionInGame, Cas, vars, managers, TypeOK, ConnectionTypeOK,
         InSight
<1>13. ASSUME NEW s \in Sessions, TimerFires(s) PROVE InSight'
  BY <1>0, <1>13 DEF TimerFires, vars, InSight
<1>14. ASSUME NEW s \in Sessions, RunReapJob(s) PROVE InSight'
  <2>1. state[s] # "Disconnected" => Exists(s)
    BY <1>0 DEF ActiveIsMember, Exists, Used
  <2> QED
    BY <1>0, <1>14, <2>1 DEF RunReapJob, vars, ConnectionTypeOK, InSight
<1>15. CASE CompletionIsLost
  BY <1>0, <1>15 DEF CompletionIsLost, vars, InSight
<1> QED
  BY <1>1, <1>2, <1>3, <1>4, <1>5, <1>6, <1>7, <1>8, <1>9, <1>10, <1>11,
     <1>12, <1>13, <1>14, <1>15
     DEF ConnectionNext, SessionStep, cvars, vars, objects, managers,
         RegisterAccept, Create, RegisterAcceptFails, CreateFails, Fail,
         AcceptIsLost, Rearm, Dial, ConnectIsLost, Clear, DisconnectArrives,
         DisconnectCompletes, Go, Tell, StartReturns

(* The way of a session to the reaper never forks: it is about to start    *)
(* its timer, timed, posted, looked at or lost, and never two of these.    *)
LEMMA OnePlaceInv ==
  ASSUME ConnectionInv, [ConnectionNext]_cvars
  PROVE  OnePlace'
<1>0. TypeOK /\ ConnectionTypeOK /\ SlotsHoldGuests /\ OnePlace
  BY DEF ConnectionInv, AdmissionInv
<1>1. ASSUME UNCHANGED <<timer, posted, unposted, reaping, handler, opening>>
      PROVE  OnePlace'
  BY <1>0, <1>1 DEF OnePlace
<1>2. ASSUME NEW a \in Slots, AcceptCompletes(a) PROVE OnePlace'
  <2>1. guest[a] \in Sessions
    BY <1>0, <1>2 DEF AcceptCompletes, ConnectionTypeOK, SlotsHoldGuests
  <2> QED
    BY <1>0, <1>2, <2>1
       DEF AcceptCompletes, Accept, Go, TypeOK, ConnectionTypeOK, OnePlace
<1>3. ASSUME NEW s \in Sessions, ConnectCompletes(s) PROVE OnePlace'
  BY <1>0, <1>3
     DEF ConnectCompletes, Accept, Go, TypeOK, ConnectionTypeOK, OnePlace
<1>4. ASSUME NEW s \in Sessions, Handle(s) PROVE OnePlace'
  <2>1. \A t \in Sessions : handler'[t] = "unborn" => handler[t] = "unborn"
    BY <1>4, HandleKeepsOthers
  <2>2. \A t \in Sessions :
          /\ opening'[t] \in {"admit", "reap"} => opening[t] \in {"admit", "reap"}
          /\ opening'[t] # "no" => opening[t] # "no"
    BY <1>0, <1>4 DEF Handle, ConnectionTypeOK
  <2>3. watch' = watch
    BY <1>4 DEF Handle
  <2> QED
    BY <1>0, <2>1, <2>2, <2>3 DEF OnePlace
<1>5. ASSUME NEW s \in Sessions, OpenReap(s) PROVE OnePlace'
  <2>1. handler[s] # "unborn"
    BY <1>0, <1>5 DEF OpenReap, OnePlace
  <2> QED
    BY <1>0, <1>5, <2>1
       DEF OpenReap, RegisterReap, vars, ConnectionTypeOK, OnePlace
<1>6. ASSUME NEW s \in Sessions, OpenReceive(s) PROVE OnePlace'
  BY <1>0, <1>6 DEF OpenReceive, vars, ConnectionTypeOK, OnePlace
<1>7. ASSUME NEW s \in Sessions, Expired(s) \/ NotExpired(s) PROVE OnePlace'
  BY <1>0, <1>7 DEF Expired, NotExpired, Leave, vars, ConnectionTypeOK, OnePlace
<1>8. ASSUME NEW s \in Sessions, ReapAgain(s) PROVE OnePlace'
  BY <1>0, <1>8
     DEF ReapAgain, RegisterReap, vars, ConnectionTypeOK, OnePlace
<1>9. ASSUME NEW s \in Sessions, TimerFires(s) PROVE OnePlace'
  BY <1>0, <1>9 DEF TimerFires, vars, ConnectionTypeOK, OnePlace
<1>10. ASSUME NEW s \in Sessions, RunReapJob(s) PROVE OnePlace'
  BY <1>0, <1>10 DEF RunReapJob, vars, ConnectionTypeOK, OnePlace
<1>11. ASSUME NEW s \in Sessions, DisconnectArrives(s) PROVE OnePlace'
  BY <1>0, <1>11
     DEF DisconnectArrives, DisconnectCompletes, Go, TypeOK, OnePlace
<1> QED
  BY <1>1, <1>2, <1>3, <1>4, <1>5, <1>6, <1>7, <1>8, <1>9, <1>10, <1>11
     DEF ConnectionNext, SessionStep, cvars, vars, objects, RegisterAccept,
         RegisterAcceptFails, AcceptIsLost, Rearm, Dial, DialFails,
         ConnectIsLost, Clear, Close, Leave, SetSessionInGame,
         CompletionIsLost, StartReturns

-----------------------------------------------------------------------------
(* What a step of the handler does to the phases of its own session, and   *)
(* that it does nothing to those of others.                                *)
LEMMA HandlePhases ==
  ASSUME ConnectionInv, NEW s \in Sessions, Handle(s)
  PROVE  /\ opening'[s] = IF opening[s] = "admit" /\ handler'[s] = "idle"
                            THEN IF handler[s] = "full" THEN "no" ELSE "reap"
                            ELSE opening[s]
         /\ closing'[s] = IF closing[s] = "remove" /\ handler'[s] = "idle"
                            THEN "clear" ELSE closing[s]
         /\ \A t \in Sessions : t # s =>
              /\ opening'[t] = opening[t] /\ closing'[t] = closing[t]
              /\ after'[t] = after[t]
<1>1. TypeOK /\ ConnectionTypeOK
  BY DEF ConnectionInv, AdmissionInv
<1>2. /\ opening'[s] = IF opening[s] = "admit" /\ handler'[s] = "idle"
                         THEN IF handler[s] = "full" THEN "no" ELSE "reap"
                         ELSE opening[s]
      /\ closing'[s] = IF closing[s] = "remove" /\ handler'[s] = "idle"
                         THEN "clear" ELSE closing[s]
      /\ \A t \in Sessions : t # s =>
           opening'[t] = opening[t] /\ closing'[t] = closing[t]
  BY <1>1 DEF Handle, ConnectionTypeOK
<1>3. \A t \in Sessions : t # s => after'[t] = after[t]
  BY <1>1, HandleHasEffect
     DEF Moved, Seated, Joined, Queued, Awaited, Removed, Dequeued, Taken,
         Undone, Released, Return, TypeOK
<1> QED
  BY <1>2, <1>3

(* Each handler runs in its phase.                                         *)
LEMMA PhasesAgreeInv ==
  ASSUME ConnectionInv, [ConnectionNext]_cvars
  PROVE  PhasesAgree'
<1> DEFINE Agree(u) ==
      /\ handler[u] \in (Early \cup {"full"}) \ {"unborn"} => opening[u] = "admit"
      /\ handler[u] = "remove" => closing[u] = "remove"
      /\ handler[u] \in Admitting =>
           \/ after[u] = "full" /\ opening[u] = "admit"
           \/ after[u] = "idle" /\ closing[u] = "remove"
      /\ opening[u] = "admit" =>
           \/ handler[u] \in (Early \cup {"full"}) \ {"unborn"}
           \/ handler[u] \in Admitting /\ after[u] = "full"
      /\ closing[u] # "no" => io[u] = "done"
<1>0. /\ TypeOK /\ ConnectionTypeOK /\ ActiveIsMember /\ ChosenInHand
      /\ EarlyIsQuiet /\ LeavingIsMember /\ SlotsHoldGuests
      /\ \A t \in Sessions : Agree(t)
  BY DEF ConnectionInv, AdmissionInv, PhasesAgree
<1> USE DEF Early, Admitting
<1>1. ASSUME UNCHANGED <<handler, after, opening, closing, io>>
      PROVE  PhasesAgree'
  BY <1>0, <1>1 DEF PhasesAgree
<1>2. ASSUME NEW s \in Sessions, Handle(s)
      PROVE  PhasesAgree'
  <2>1. ASSUME NEW t \in Sessions, t # s PROVE Agree(t)'
    BY <1>0, <1>2, <2>1, HandlePhases, HandleKeepsOthers, HandleHasEffect
  <2>2. Agree(s)'
    <3>1. /\ Agree(s) /\ io' = io
          /\ opening'[s] = IF opening[s] = "admit" /\ handler'[s] = "idle"
                             THEN IF handler[s] = "full" THEN "no" ELSE "reap"
                             ELSE opening[s]
          /\ closing'[s] = IF closing[s] = "remove" /\ handler'[s] = "idle"
                             THEN "clear" ELSE closing[s]
          /\ handler[s] # "unborn" /\ after[s] \in {"idle", "full"}
          /\ after[s] # "idle" => handler[s] \in Admitting
      BY <1>0, <1>2, HandlePhases, HandleHasEffect DEF TypeOK, ChosenInHand
    <3>2. CASE Moved(s)
      BY <1>0, <3>2, <3>1 DEF Moved, Moves, Go, TypeOK
    <3>3. CASE Seated(s)
      BY <1>0, <3>3, <3>1 DEF Seated, Go, TypeOK
    <3>4. CASE Joined(s)
      BY <1>0, <3>4, <3>1 DEF Joined, Go, TypeOK
    <3>5. CASE Queued(s)
      BY <1>0, <3>5, <3>1 DEF Queued, Go, TypeOK
    <3>6. CASE Awaited(s)
      BY <1>0, <3>6, <3>1 DEF Awaited, Go, TypeOK
    <3>7. CASE Removed(s)
      BY <1>0, <3>7, <3>1 DEF Removed, Go, TypeOK
    <3>8. CASE Dequeued(s)
      BY <1>0, <3>8, <3>1 DEF Dequeued, Go, TypeOK
    <3>9. CASE Taken(s)
      BY <1>0, <3>9, <3>1 DEF Taken, Go, TypeOK
    <3>10. CASE Undone(s)
      BY <1>0, <3>10, <3>1 DEF Undone, Return, Go, TypeOK
    <3>11. CASE Released(s)
      BY <1>0, <3>11, <3>1 DEF Released, Return, Go, TypeOK
    <3> QED
      BY <3>2, <3>3, <3>4, <3>5, <3>6, <3>7, <3>8, <3>9, <3>10, <3>11, <1>2,
         HandleHasEffect
  <2> QED
    BY <2>1, <2>2 DEF PhasesAgree
<1>3. ASSUME NEW a \in Slots, AcceptCompletes(a) PROVE PhasesAgree'
  <2>1. guest[a] \in Sessions
    BY <1>0, <1>3 DEF AcceptCompletes, ConnectionTypeOK, SlotsHoldGuests
  <2> QED
    BY <1>0, <1>3, <2>1
       DEF AcceptCompletes, Accept, Go, TypeOK, ConnectionTypeOK, PhasesAgree
<1>4. ASSUME NEW s \in Sessions, ConnectCompletes(s) PROVE PhasesAgree'
  BY <1>0, <1>4
     DEF ConnectCompletes, Accept, Go, TypeOK, ConnectionTypeOK, PhasesAgree
<1>5. ASSUME NEW s \in Sessions, OpenReap(s) \/ OpenReceive(s)
      PROVE  PhasesAgree'
  BY <1>0, <1>5
     DEF OpenReap, OpenReceive, vars, ConnectionTypeOK, PhasesAgree
<1>6. ASSUME NEW s \in Sessions, Clear(s) PROVE PhasesAgree'
  BY <1>0, <1>6 DEF Clear, vars, ConnectionTypeOK, PhasesAgree
<1>7. ASSUME NEW s \in Sessions, Close(s) \/ Expired(s) PROVE PhasesAgree'
  <2>1. CASE Leave(s)
    <3>1. Left(s) /\ io[s] = "none"
      BY <1>0, <2>1, EffectOfLeave DEF Left, ActiveIsMember
    <3>2. \A t \in Sessions : closing[t] # "no" => io'[t] = "done"
      BY <1>0, <3>1 DEF Left, TypeOK
    <3> QED
      BY <1>0, <1>7, <3>1, <3>2 DEF Close, Expired, Left, PhasesAgree
  <2>2. CASE UNCHANGED vars
    BY <1>1, <1>7, <2>2 DEF Close, Expired, vars
  <2> QED
    BY <1>7, <2>1, <2>2 DEF Close, Expired
<1>8. ASSUME NEW s \in Sessions, DisconnectArrives(s) PROVE PhasesAgree'
  BY <1>0, <1>8
     DEF DisconnectArrives, DisconnectCompletes, Go, TypeOK, ConnectionTypeOK,
         PhasesAgree
<1> QED
  BY <1>1, <1>2, <1>3, <1>4, <1>5, <1>6, <1>7, <1>8
     DEF ConnectionNext, SessionStep, cvars, vars, objects, RegisterAccept,
         RegisterAcceptFails, AcceptIsLost, Rearm, Dial, DialFails,
         ConnectIsLost, NotExpired, ReapAgain, SetSessionInGame, TimerFires, RunReapJob, CompletionIsLost,
         StartReturns

-----------------------------------------------------------------------------
(* A session that may still be disconnected has its disconnector.          *)
LEMMA DisconnectorHoldsInv ==
  ASSUME ConnectionInv, [ConnectionNext]_cvars
  PROVE  DisconnectorHolds'
<1> DEFINE Needed(u) ==
      \/ handler[u] \in {"add", "connect"}
      \/ state[u] # "Disconnected"
      \/ io[u] = "pending"
      \/ u \in dialing /\ handler[u] = "unborn"
      \/ \E b \in Slots : slot[b] = "armed" /\ guest[b] = u /\ handler[u] = "unborn"
<1>0. /\ TypeOK /\ ConnectionTypeOK /\ ActiveIsMember /\ EarlyIsQuiet
      /\ LeavingIsMember /\ SlotsHoldGuests /\ BornFirst /\ PhasesAgree
      /\ ConnectionTypeOK' /\ SlotsHoldGuests'
      /\ \A t \in Sessions : Needed(t) => "disconnector" \in self[t]
  BY AdmissionGoesOn, ConnectionTypeInv, SlotsHoldGuestsInv
     DEF ConnectionInv, AdmissionInv, DisconnectorHolds
<1>1. ASSUME \A t \in Sessions : Needed(t)' => "disconnector" \in self'[t]
      PROVE  DisconnectorHolds'
  <2>1. ASSUME NEW a \in Slots, slot'[a] = "armed"
        PROVE  guest'[a] \in Sessions
    BY <1>0, <2>1 DEF SlotsHoldGuests, ConnectionTypeOK
  <2> QED
    BY <1>1, <2>1 DEF DisconnectorHolds
<1>2. ASSUME UNCHANGED <<handler, state, io, dialing, self, slot, guest>>
      PROVE  DisconnectorHolds'
  BY <1>0, <1>1, <1>2
<1>3. ASSUME NEW a \in Slots, NEW s \in Sessions, RegisterAccept(a, s)
      PROVE  DisconnectorHolds'
  BY <1>0, <1>1, <1>3
     DEF RegisterAccept, Create, Parts, vars, ConnectionTypeOK
<1>4. ASSUME NEW a \in Slots, NEW s \in Sessions, RegisterAcceptFails(a, s)
      PROVE  DisconnectorHolds'
  BY <1>0, <1>1, <1>4
     DEF RegisterAcceptFails, CreateFails, vars, ConnectionTypeOK
<1>5. ASSUME NEW a \in Slots, AcceptCompletes(a) PROVE DisconnectorHolds'
  <2>1. guest[a] \in Sessions /\ handler[guest[a]] = "unborn"
    BY <1>0, <1>5
       DEF AcceptCompletes, Accept, Go, ConnectionTypeOK, SlotsHoldGuests
  <2>2. "disconnector" \in self[guest[a]]
    BY <1>0, <1>5, <2>1 DEF AcceptCompletes
  <2> QED
    BY <1>0, <1>1, <1>5, <2>1, <2>2
       DEF AcceptCompletes, Accept, Go, TypeOK, ConnectionTypeOK
<1>6. ASSUME NEW a \in Slots, AcceptIsLost(a) \/ Rearm(a)
      PROVE  DisconnectorHolds'
  BY <1>0, <1>1, <1>6 DEF AcceptIsLost, Rearm, vars, ConnectionTypeOK
<1>7. ASSUME NEW s \in Sessions, Dial(s) PROVE DisconnectorHolds'
  BY <1>0, <1>1, <1>7 DEF Dial, Create, Parts, vars, ConnectionTypeOK
<1>8. ASSUME NEW s \in Sessions, ConnectIsLost(s) PROVE DisconnectorHolds'
  BY <1>0, <1>1, <1>8 DEF ConnectIsLost, Parts, vars, ConnectionTypeOK
<1>9. ASSUME NEW s \in Sessions, ConnectCompletes(s) PROVE DisconnectorHolds'
  <2>1. "disconnector" \in self[s]
    BY <1>0, <1>9 DEF ConnectCompletes, Accept, Go
  <2> QED
    BY <1>0, <1>1, <1>9, <2>1
       DEF ConnectCompletes, Accept, Go, TypeOK, ConnectionTypeOK
<1>10. ASSUME NEW s \in Sessions, Handle(s) PROVE DisconnectorHolds'
  <2>1. UNCHANGED <<self, io, dialing, slot, guest>>
    BY <1>10, HandleHasEffect DEF Handle
  <2>2. \A t \in Sessions : handler'[t] = "unborn" => handler[t] = "unborn"
    BY <1>10, HandleKeepsOthers
  <2>3. \A t \in Sessions :
          handler'[t] \in {"add", "connect"} => handler[t] \in {"add", "connect"}
    <3>1. CASE Moved(s)
      <4>1. handler[s] # "unborn"
        BY <1>10, HandleHasEffect
      <4> QED
        BY <1>0, <3>1, <4>1 DEF Moved, Moves, Go, TypeOK
    <3>2. CASE Seated(s)
      BY <1>0, <3>2 DEF Seated, Go, TypeOK
    <3>3. CASE Joined(s)
      BY <1>0, <3>3 DEF Joined, Go, TypeOK
    <3>4. CASE Queued(s)
      BY <1>0, <3>4 DEF Queued, Go, TypeOK
    <3>5. CASE Awaited(s)
      BY <1>0, <3>5 DEF Awaited, Go, TypeOK
    <3>6. CASE Removed(s)
      BY <1>0, <3>6 DEF Removed, Go, TypeOK
    <3>7. CASE Dequeued(s)
      BY <1>0, <3>7 DEF Dequeued, Go, TypeOK
    <3>8. CASE Taken(s)
      BY <1>0, <3>8 DEF Taken, Go, TypeOK
    <3>9. CASE Undone(s)
      <4>1. after[s] \in {"idle", "full"}
        BY <1>0 DEF TypeOK
      <4> QED
        BY <1>0, <3>9, <4>1 DEF Undone, Return, Go, TypeOK
    <3>10. CASE Released(s)
      <4>1. after[s] \in {"idle", "full"}
        BY <1>0 DEF TypeOK
      <4> QED
        BY <1>0, <3>10, <4>1 DEF Released, Return, Go, TypeOK
    <3> QED
      BY <1>10, <3>1, <3>2, <3>3, <3>4, <3>5, <3>6, <3>7, <3>8, <3>9, <3>10,
         HandleHasEffect
  <2>4. \A t \in Sessions :
          state'[t] # "Disconnected" =>
            state[t] # "Disconnected" \/ handler[t] = "connect"
    BY <1>0, <1>10, HandleHasEffect
       DEF Moved, Seated, Joined, Queued, Awaited, Removed, Dequeued, Taken,
           Undone, Released, Quiet, Go, TypeOK
  <2> QED
    BY <1>0, <1>1, <2>1, <2>2, <2>3, <2>4
<1>11. ASSUME NEW s \in Sessions, OpenReceive(s) PROVE DisconnectorHolds'
  BY <1>0, <1>1, <1>11 DEF OpenReceive, vars, ConnectionTypeOK
<1>12. ASSUME NEW s \in Sessions, Clear(s) PROVE DisconnectorHolds'
  <2>1. io[s] = "done"
    BY <1>0, <1>12 DEF Clear, PhasesAgree
  <2>2. ~Needed(s)
    BY <1>0, <2>1 DEF EarlyIsQuiet, Early, ActiveIsMember
  <2> QED
    BY <1>0, <1>1, <1>12, <2>2 DEF Clear, vars, ConnectionTypeOK
<1>13. ASSUME NEW s \in Sessions, Close(s) \/ Expired(s)
       PROVE  DisconnectorHolds'
  <2>1. CASE Leave(s)
    <3>1. Left(s) /\ UNCHANGED <<dialing, slot, guest>> /\ self' = LetGo
      BY <1>13, <2>1, EffectOfLeave DEF Close, Expired
    <3>2. \A t \in Sessions : t # s => self'[t] = self[t] /\ io'[t] = io[t]
                                       /\ state'[t] = state[t]
      BY <1>0, <3>1 DEF LetGo, Left, TypeOK, ConnectionTypeOK
    <3>3. Needed(s)' => "disconnector" \in self'[s]
      BY <1>0, <3>1 DEF LetGo, Left, TypeOK, ConnectionTypeOK
    <3> QED
      BY <1>0, <1>1, <3>1, <3>2, <3>3 DEF Left
  <2>2. CASE UNCHANGED vars
    <3>1. self' = self
      BY <1>0, <1>13, <2>2 DEF Close, Expired, LetGo, vars, ConnectionTypeOK
    <3> QED
      BY <1>2, <1>13, <2>2, <3>1 DEF Close, Expired, vars
  <2> QED
    BY <1>13, <2>1, <2>2 DEF Close, Expired
<1>14. ASSUME NEW s \in Sessions, SetSessionInGame(s) PROVE DisconnectorHolds'
  BY <1>0, <1>1, <1>14 DEF SetSessionInGame, Cas, TypeOK
<1>15. ASSUME NEW s \in Sessions, DisconnectArrives(s) PROVE DisconnectorHolds'
  <2>1. ~Needed(s)'
    BY <1>0, <1>15
       DEF DisconnectArrives, DisconnectCompletes, Go, TypeOK, LeavingIsMember
  <2> QED
    BY <1>0, <1>1, <1>15, <2>1
       DEF DisconnectArrives, DisconnectCompletes, Go, TypeOK, ConnectionTypeOK
<1> QED
  BY <1>2, <1>3, <1>4, <1>5, <1>6, <1>7, <1>8, <1>9, <1>10, <1>11, <1>12,
     <1>13, <1>14, <1>15
     DEF ConnectionNext, SessionStep, cvars, vars, objects, DialFails,
         CreateFails, OpenReap, NotExpired, ReapAgain, TimerFires, RunReapJob, CompletionIsLost,
         StartReturns

-----------------------------------------------------------------------------
(* A handler lets go of a session that waits only by turning it away.      *)
LEMMA WaitsOrRefused ==
  ASSUME ConnectionInv, NEW s \in Sessions, Handle(s),
         NEW t \in Sessions, Waits(t)
  PROVE  Waits(t)' \/ t \in refused'
<1>1. /\ TypeOK /\ ChosenInHand /\ line \in Seq(Sessions)
      /\ t # None
  BY AdmissionAssumption DEF ConnectionInv, AdmissionInv, TypeOK
<1>2. CASE UNCHANGED <<line, chosen>>
  BY <1>2 DEF Waits
<1>3. CASE Queued(s)
  <2>1. CASE \E h \in Sessions : chosen[h] = t
    BY <1>3, <2>1 DEF Queued, Waits
  <2>2. CASE \E i \in 1..Len(line) : line[i] = t
    <3>1. PICK i \in 1..Len(line) : line[i] = t
      BY <2>2
    <3>2. i \in 1..Len(line') /\ line'[i] = t
      BY <1>1, <1>3, <3>1, LineFacts DEF Queued
    <3> QED
      BY <3>2 DEF Waits
  <2> QED
    BY <2>1, <2>2 DEF Waits
<1>4. CASE Dequeued(s)
  <2>1. CASE \E h \in Sessions : chosen[h] = t
    <3>1. PICK h \in Sessions : chosen[h] = t
      BY <2>1
    <3>2. h # s
      BY <1>1, <1>4, <3>1 DEF Dequeued, Go, ChosenInHand, InHand
    <3>3. chosen'[h] = t
      BY <1>1, <1>4, <3>1, <3>2 DEF Dequeued, TypeOK
    <3> QED
      BY <3>3 DEF Waits
  <2>2. CASE \E i \in 1..Len(line) : line[i] = t
    <3>1. PICK i \in 1..Len(line) : line[i] = t
      BY <2>2
    <3>2. CASE i = 1
      <4>1. chosen'[s] = t
        BY <1>1, <1>4, <3>1, <3>2, LineFacts DEF Dequeued, TypeOK
      <4> QED
        BY <4>1 DEF Waits
    <3>3. CASE i # 1
      <4>1. Len(line) \in Nat /\ Len(line') = Len(line) - 1
        BY <1>1, <1>4, LineFacts DEF Dequeued
      <4>2. i - 1 \in 1..Len(line') /\ i - 1 \in 1..(Len(line) - 1)
        BY <3>1, <3>3, <4>1
      <4>3. line'[i - 1] = line[i - 1 + 1] /\ i - 1 + 1 = i
        BY <1>1, <1>4, <4>2, LineFacts DEF Dequeued
      <4>4. line'[i - 1] = t
        BY <3>1, <4>3
      <4> QED
        BY <4>2, <4>4 DEF Waits
    <3> QED
      BY <3>2, <3>3
  <2> QED
    BY <2>1, <2>2 DEF Waits
<1>5. CASE Undone(s) \/ Released(s)
  <2>1. handler[s] \in {"demote", "release"} /\ line' = line
        /\ chosen' = [chosen EXCEPT ![s] = None]
    BY <1>5 DEF Undone, Released, Return, Go
  <2>2. CASE chosen[s] = t
    BY <1>1, <2>1, <2>2 DEF Handle, TurnedAway
  <2>3. CASE chosen[s] # t
    BY <1>1, <2>1, <2>3 DEF Waits, TypeOK
  <2> QED
    BY <2>2, <2>3
<1> QED
  BY <1>2, <1>3, <1>4, <1>5, HandleHasEffect
     DEF Moved, Seated, Joined, Awaited, Removed, Taken, Quiet, managers

(* A member loses its seat only to the handler that disconnects it, or     *)
(* because it is turned away.                                              *)
LEMMA MemberOrLeaving ==
  ASSUME ConnectionInv, NEW s \in Sessions, Handle(s), NEW t \in members
  PROVE  \/ t \in members' \/ t \in refused'
         \/ t = s /\ (closing'[t] # "no" \/ opening'[t] = "admit")
<1>1. /\ TypeOK /\ ConnectionTypeOK /\ ChosenInHand /\ PhasesAgree
      /\ t \in Sessions
  BY DEF ConnectionInv, AdmissionInv, TypeOK
<1>2. CASE Removed(s)
  <2>1. CASE t = s
    <3>1. handler[s] \in {"remove", "undo"} /\ handler'[s] = "dequeue"
      BY <1>1, <1>2 DEF Removed, Go, TypeOK
    <3>2. closing[s] = "remove" \/ opening[s] = "admit"
      BY <1>1, <3>1 DEF PhasesAgree, Early
    <3>3. closing'[s] = closing[s] /\ opening'[s] = opening[s]
      BY <3>1, HandlePhases
    <3> QED
      BY <2>1, <3>2, <3>3
  <2>2. CASE t # s
    BY <1>2, <2>2 DEF Removed
  <2> QED
    BY <2>1, <2>2
<1>3. CASE Undone(s)
  <2>1. chosen[s] # None /\ handler[s] = "demote"
    BY <1>1, <1>3 DEF Undone, Return, Go, ChosenInHand, InHand
  <2> QED
    BY <1>3, <2>1 DEF Undone, Handle, TurnedAway
<1> QED
  BY <1>2, <1>3, HandleHasEffect
     DEF Moved, Seated, Joined, Queued, Awaited, Dequeued, Taken, Released,
         managers

(* processConnect ends with a seat, in the line, or turned away.           *)
LEMMA AdmitEndsSettled ==
  ASSUME ConnectionInv, NEW s \in Sessions, Handle(s), opening[s] = "admit"
  PROVE  opening'[s] = "admit" \/ Settled(s)'
<1>1. /\ TypeOK /\ LeavingIsMember /\ PhasesAgree /\ Accounted
  BY DEF ConnectionInv, AdmissionInv
<1>2. CASE handler'[s] # "idle"
  BY <1>2, HandlePhases
<1>3. CASE handler'[s] = "idle"
  <2>1. CASE handler[s] = "full"
    BY <2>1 DEF Handle, TurnedAway, Settled
  <2>2. CASE Joined(s)
    BY <1>1, <2>2 DEF Joined, Go, managers, LeavingIsMember, Settled
  <2>3. CASE Awaited(s)
    <3>1. Waits(s) \/ s \in refused
      BY <1>1, <2>3 DEF Awaited, Go, Accounted
    <3> QED
      BY <3>1, WaitsOrRefused DEF Handle, Settled
  <2>4. CASE Undone(s) \/ Released(s)
    <3>1. handler[s] \in {"demote", "release"} /\ handler'[s] = after[s]
      BY <1>1, <2>4 DEF Undone, Released, Return, Go, TypeOK
    <3>2. after[s] = "full"
      BY <1>1, <3>1 DEF PhasesAgree, Early
    <3> QED
      BY <1>3, <3>1, <3>2
  <2>5. CASE Moved(s)
    BY <1>1, <1>3, <2>1, <2>5 DEF Moved, Moves, Go, TypeOK
  <2> QED
    BY <1>1, <1>3, <2>2, <2>3, <2>4, <2>5, HandleHasEffect
       DEF Seated, Queued, Removed, Dequeued, Taken, Go, TypeOK
<1> QED
  BY <1>2, <1>3

(* So a session that holds itself is accounted for.                        *)
LEMMA AccountedInv ==
  ASSUME ConnectionInv, [ConnectionNext]_cvars
  PROVE  Accounted'
<1> DEFINE Known(u) ==
      /\ handler[u] = "wait" => Waits(u) \/ u \in refused
      /\ self[u] # {} =>
           IF handler[u] = "unborn"
             THEN u \in dialing \/ u \in dropped \/ \E b \in Slots : guest[b] = u
             ELSE opening[u] = "admit" \/ Settled(u)
<1>0. /\ TypeOK /\ ConnectionTypeOK /\ SlotsHoldGuests /\ BornFirst
      /\ EarlyIsQuiet /\ LeavingIsMember /\ PhasesAgree
      /\ \A t \in Sessions : Known(t)
  BY DEF ConnectionInv, AdmissionInv, Accounted
<1>1. ASSUME \A t \in Sessions : Known(t)'
      PROVE  Accounted'
  BY <1>1 DEF Accounted
<1>2. ASSUME UNCHANGED <<handler, members, line, chosen, refused, self, dialing,
                         dropped, guest, opening, closing>>
      PROVE  Accounted'
  BY <1>0, <1>2 DEF Accounted, Settled, Waits
<1>3. ASSUME NEW a \in Slots, NEW s \in Sessions,
             RegisterAccept(a, s) \/ RegisterAcceptFails(a, s)
      PROVE  Accounted'
  <2>1. /\ UNCHANGED <<handler, members, line, chosen, refused, dialing, dropped,
                       opening, closing>>
        /\ handler[s] = "unborn" /\ self[s] = {} /\ guest[a] = None
    BY <1>0, <1>3
       DEF RegisterAccept, RegisterAcceptFails, Create, CreateFails, BornFirst,
           SlotsHoldGuests, vars, managers
  <2>2. \A b \in Slots : b # a => guest'[b] = guest[b]
    BY <1>0, <1>3 DEF RegisterAccept, RegisterAcceptFails, ConnectionTypeOK
  <2>3. \/ self' = self
        \/ /\ guest'[a] = s
           /\ \A t \in Sessions : t # s => self'[t] = self[t]
    BY <1>0, <1>3
       DEF RegisterAccept, RegisterAcceptFails, Create, CreateFails,
           ConnectionTypeOK
  <2> QED
    BY <1>0, <1>1, <2>1, <2>2, <2>3, AdmissionAssumption DEF Settled, Waits
<1>4. ASSUME NEW a \in Slots, AcceptCompletes(a) PROVE Accounted'
  <2>1. guest[a] \in Sessions
    BY <1>0, <1>4 DEF AcceptCompletes, ConnectionTypeOK, SlotsHoldGuests
  <2> QED
    BY <1>0, <1>1, <1>4, <2>1
       DEF AcceptCompletes, Accept, Go, managers, TypeOK, ConnectionTypeOK,
           Settled, Waits
<1>5. ASSUME NEW a \in Slots, AcceptIsLost(a) \/ Rearm(a)
      PROVE  Accounted'
  <2>1. slot[a] = "opening" => handler[guest[a]] # "unborn"
    BY <1>0 DEF SlotsHoldGuests
  <2> QED
    BY <1>0, <1>1, <1>5, <2>1
       DEF AcceptIsLost, Rearm, vars, managers, ConnectionTypeOK, Settled, Waits
<1>6. ASSUME NEW s \in Sessions, Dial(s) \/ ConnectIsLost(s)
      PROVE  Accounted'
  <2>1. handler[s] = "unborn"
    BY <1>0, <1>6 DEF Dial, Create, ConnectIsLost, BornFirst
  <2> QED
    BY <1>0, <1>1, <1>6, <2>1
       DEF Dial, Create, ConnectIsLost, vars, managers, ConnectionTypeOK,
           Settled, Waits
<1>7. ASSUME NEW s \in Sessions, ConnectCompletes(s) PROVE Accounted'
  BY <1>0, <1>1, <1>7
     DEF ConnectCompletes, Accept, Go, managers, TypeOK, ConnectionTypeOK,
         Settled, Waits
<1>8. ASSUME NEW s \in Sessions, Handle(s) PROVE Accounted'
  <2>1. /\ UNCHANGED <<self, dialing, dropped, guest>>
        /\ refused \subseteq refused'
        /\ handler[s] # "unborn"
        /\ \A t \in Sessions : handler'[t] = "unborn" <=> handler[t] = "unborn"
        /\ \A t \in Sessions : t # s => handler'[t] = handler[t]
    BY <1>8, HandleHasEffect, HandleKeepsOthers DEF Handle
  <2>2. ASSUME NEW t \in Sessions, handler'[t] = "wait"
        PROVE  Waits(t)' \/ t \in refused'
    <3>1. CASE handler[t] = "wait"
      BY <1>0, <1>8, <2>1, <3>1, WaitsOrRefused
    <3>2. CASE handler[t] # "wait"
      <4>1. t = s
        BY <2>1, <2>2, <3>2
      <4>2. Queued(s)
        <5>1. ~Undone(s) /\ ~Released(s)
          BY <1>0, <2>2, <4>1 DEF Undone, Released, Return, Go, TypeOK
        <5>2. ~Moved(s)
          BY <1>0, <2>2, <4>1 DEF Moved, Moves, Go, TypeOK
        <5> QED
          BY <1>0, <1>8, <2>2, <4>1, <5>1, <5>2, HandleHasEffect
             DEF Seated, Joined, Awaited, Removed, Dequeued, Taken, Go, TypeOK
      <4>3. Len(line) + 1 \in 1..Len(line') /\ line'[Len(line) + 1] = s
        BY <1>0, <4>2, LineFacts DEF Queued, TypeOK
      <4> QED
        BY <4>1, <4>3 DEF Waits
    <3> QED
      BY <3>1, <3>2
  <2>3. ASSUME NEW t \in Sessions, Settled(t)
        PROVE  opening'[t] = "admit" \/ Settled(t)'
    <3>1. CASE t \in members
      BY <1>8, <3>1, MemberOrLeaving DEF Settled
    <3>2. CASE Waits(t)
      BY <1>8, <3>2, WaitsOrRefused DEF Settled
    <3>3. CASE closing[t] # "no"
      <4>1. closing'[t] # "no"
        BY <1>8, <3>3, HandlePhases
      <4> QED
        BY <4>1 DEF Settled
    <3>4. CASE t \in refused
      BY <2>1, <3>4 DEF Settled
    <3> QED
      BY <2>3, <3>1, <3>2, <3>3, <3>4 DEF Settled
  <2>4. ASSUME NEW t \in Sessions, opening[t] = "admit"
        PROVE  opening'[t] = "admit" \/ Settled(t)'
    <3>1. CASE t = s
      BY <1>8, <2>4, <3>1, AdmitEndsSettled
    <3>2. CASE t # s
      BY <1>8, <2>4, <3>2, HandlePhases
    <3> QED
      BY <3>1, <3>2
  <2> QED
    BY <1>0, <1>1, <2>1, <2>2, <2>3, <2>4
<1>9. ASSUME NEW s \in Sessions, OpenReap(s) \/ OpenReceive(s)
      PROVE  Accounted'
  BY <1>0, <1>1, <1>9
     DEF OpenReap, OpenReceive, vars, managers, ConnectionTypeOK, Settled, Waits
<1>10. ASSUME NEW s \in Sessions, Clear(s) PROVE Accounted'
  BY <1>0, <1>1, <1>10
     DEF Clear, vars, managers, ConnectionTypeOK, Settled, Waits
<1>11. ASSUME NEW s \in Sessions, Close(s) \/ Expired(s)
       PROVE  Accounted'
  <2>1. /\ UNCHANGED <<handler, members, line, chosen, refused, dialing, dropped,
                       guest, opening, closing>>
        /\ self' = LetGo
    BY <1>11 DEF Close, Expired, Leave, vars, managers
  <2>2. \A t \in Sessions : self'[t] \subseteq self[t]
    BY <2>1 DEF LetGo
  <2> QED
    BY <1>0, <1>1, <2>1, <2>2 DEF Settled, Waits
<1>12. ASSUME NEW s \in Sessions, DisconnectArrives(s) PROVE Accounted'
  <2>1. /\ UNCHANGED <<members, line, chosen, refused, dialing, dropped, guest,
                       opening>>
        /\ handler'[s] = "remove" /\ closing'[s] = "remove"
        /\ \A t \in Sessions : t # s =>
             /\ handler'[t] = handler[t] /\ closing'[t] = closing[t]
             /\ self'[t] = self[t]
    BY <1>0, <1>12
       DEF DisconnectArrives, DisconnectCompletes, Go, managers, TypeOK,
           ConnectionTypeOK
  <2>2. Known(s)'
    BY <2>1 DEF Settled
  <2>3. ASSUME NEW t \in Sessions, t # s PROVE Known(t)'
    BY <1>0, <2>1, <2>3 DEF Settled, Waits
  <2> QED
    BY <1>1, <2>2, <2>3
<1> QED
  BY <1>2, <1>3, <1>4, <1>5, <1>6, <1>7, <1>8, <1>9, <1>10, <1>11, <1>12
     DEF ConnectionNext, SessionStep, cvars, vars, objects, managers, DialFails,
         CreateFails, NotExpired, ReapAgain, SetSessionInGame, TimerFires, RunReapJob, CompletionIsLost,
         StartReturns

-----------------------------------------------------------------------------
(* The invariant, and what it says.                                        *)
LEMMA InitiallyAdmission ==
  ASSUME Init
  PROVE  AdmissionInv
<1>1. TypeOK
  BY AdmissionAssumption DEF Init, TypeOK, States, Steps
<1>2. ChosenInHand /\ EarlyIsQuiet /\ ActiveIsMember /\ LeavingIsMember
  BY DEF Init, ChosenInHand, InHand, EarlyIsQuiet, ActiveIsMember,
         LeavingIsMember
<1>3. Histories
  BY DEF Init, Histories, Stories
<1>4. WaiterIsQuiet /\ TicketsInLine
  <2>1. Len(line) = 0 /\ 1..Len(line) = {}
    BY DEF Init
  <2>2. ASSUME NEW s \in Sessions PROVE ~Waits(s)
    BY <2>1, AdmissionAssumption DEF Init, Waits
  <2> QED
    BY <2>1, <2>2, AdmissionAssumption DEF Init, WaiterIsQuiet, TicketsInLine
<1>5. SeatsAreAccounted
  <2>1. members = {} /\ KeptSeats = {} /\ seats = 0
    BY DEF Init, KeptSeats
  <2>2. Cardinality(members) = 0 /\ Cardinality(KeptSeats) = 0
    BY <2>1, FS_EmptySet
  <2> QED
    BY <2>1, <2>2, AdmissionAssumption DEF Init, SeatsAreAccounted
<1>6. SeatIsOwed
  BY DEF Init, SeatIsOwed
<1> QED
  BY <1>1, <1>2, <1>3, <1>4, <1>5, <1>6 DEF AdmissionInv

LEMMA InitiallyConnection ==
  ASSUME ConnectionInit
  PROVE  ConnectionInv
<1>1. AdmissionInv
  BY InitiallyAdmission DEF ConnectionInit
<1>2. ConnectionTypeOK
  <2>1. TypeOK /\ 0 \in 0..AcceptFails /\ 0 \in 0..InGameMoves
    BY <1>1, ConnectionAssumption DEF AdmissionInv
  <2>2. slot \in [Slots -> {"register", "armed", "opening", "dead"}]
    BY DEF ConnectionInit
  <2>3. self \in [Sessions -> SUBSET Parts] /\ kind \in {"server", "client"}
        /\ start \in {"running", "done", "failed"}
    BY DEF ConnectionInit
  <2> QED
    BY <2>1, <2>2, <2>3 DEF ConnectionInit, ConnectionTypeOK
<1>3. SlotsHoldGuests /\ BornFirst
  BY DEF ConnectionInit, Init, SlotsHoldGuests, BornFirst
<1>4. PhasesAgree
  BY DEF ConnectionInit, Init, PhasesAgree, Early, Admitting
<1>5. DisconnectorHolds /\ Accounted
  BY DEF ConnectionInit, Init, DisconnectorHolds, Accounted
<1>6. InSight /\ OnePlace
  BY DEF ConnectionInit, Init, InSight, OnePlace
<1> QED
  BY <1>1, <1>2, <1>3, <1>4, <1>5, <1>6 DEF ConnectionInv

LEMMA ConnectionInvHolds ==
  ASSUME ConnectionInv, [ConnectionNext]_cvars
  PROVE  ConnectionInv'
BY AdmissionGoesOn, ConnectionTypeInv, SlotsHoldGuestsInv, BornFirstInv,
   PhasesAgreeInv, DisconnectorHoldsInv, AccountedInv, InSightInv, OnePlaceInv
   DEF ConnectionInv

LEMMA Invariance == ConnectionSpec => []ConnectionInv
<1>1. ConnectionInit => ConnectionInv
  BY InitiallyConnection
<1>2. ConnectionInv /\ [ConnectionNext]_cvars => ConnectionInv'
  BY ConnectionInvHolds
<1> QED
  BY <1>1, <1>2, PTL DEF ConnectionSpec

LEMMA StoriesAreInOrder ==
  ASSUME Histories
  PROVE  CallbacksInOrder
<1>1. ASSUME NEW s \in Sessions, NEW i \in 1..(Len(told[s]) - 1)
      PROVE  Rank(told[s][i]) < Rank(told[s][i + 1])
  <2>1. told[s] \in Stories
    BY DEF Histories
  <2>2. CASE told[s] \in {<< >>, <<"OnEnterWaitQueue">>, <<"OnConnected">>}
    BY <2>2
  <2>3. CASE \E r \in Reasons : told[s] = <<"OnConnected", r>>
    BY <2>3 DEF Reasons, Rank
  <2>4. CASE \E r \in Reasons : told[s] = <<"OnConnected", r, "OnDisconnected">>
    <3>1. PICK r \in Reasons : told[s] = <<"OnConnected", r, "OnDisconnected">>
      BY <2>4
    <3>2. i = 1 \/ i = 2
      BY <3>1
    <3>3. Rank("OnConnected") = 2 /\ Rank(r) = 3 /\ Rank("OnDisconnected") = 4
      BY DEF Rank, Reasons
    <3> QED
      BY <3>1, <3>2, <3>3
  <2> QED
    BY <2>1, <2>2, <2>3, <2>4 DEF Stories
<1> QED
  BY <1>1 DEF CallbacksInOrder

LEMMA TicketsArePlaces ==
  ASSUME TypeOK, TicketsInLine
  PROVE  TicketTellsPlace
<1>1. ASSUME NEW i \in 1..Len(line)
      PROVE  GetWaitCount(ticket[line[i]]) = i - 1
  BY DEF TypeOK, TicketsInLine, GetWaitCount
<1> QED
  BY <1>1 DEF TicketsInLine, TicketTellsPlace

LEMMA InvAccountsForSessions ==
  ASSUME ConnectionInv
  PROVE  SessionsAreAccounted
<1>1. ASSUME NEW s \in Sessions, self[s] # {}
      PROVE  Used(s) \/ s \in dialing \/ s \in refused \/ s \in dropped
  <2>1. CASE handler[s] = "unborn"
    BY <1>1, <2>1 DEF ConnectionInv, Accounted, Used
  <2>2. CASE opening[s] = "admit" \/ s \in members \/ closing[s] # "no"
    BY <2>2 DEF Used
  <2>3. CASE Waits(s)
    <3>1. DOMAIN line = 1..Len(line)
      BY DEF ConnectionInv, AdmissionInv, TypeOK
    <3> QED
      BY <2>3, <3>1 DEF Waits, Used
  <2> QED
    BY <1>1, <2>1, <2>2, <2>3 DEF ConnectionInv, Accounted, Settled
<1>2. ASSUME NEW s \in Sessions, io[s] = "pending"
      PROVE  "disconnector" \in self[s]
  BY <1>2 DEF ConnectionInv, DisconnectorHolds
<1> QED
  BY <1>1, <1>2 DEF SessionsAreAccounted

-----------------------------------------------------------------------------
(* Theorems.                                                               *)

(* The variables keep the types of the fields they stand for: in           *)
(* particular a seat is never given back that was not taken (the count of  *)
(* SessionManager never wraps), and only created sessions are dialled,     *)
(* timed, turned away or dropped.                                          *)
THEOREM Types == ConnectionSpec => []ConnectionTypeOK
<1>1. ConnectionInv => ConnectionTypeOK
  BY DEF ConnectionInv
<1> QED
  BY <1>1, Invariance, PTL

(* SessionManager and Service::admitWaitingSession: the count is members   *)
(* plus kept seats, never above mMaxSessionCount, and whoever is connected *)
(* has a seat.                                                             *)
THEOREM Seats == ConnectionSpec => []SeatsAreAccounted
<1>1. ConnectionInv => SeatsAreAccounted
  BY DEF ConnectionInv, AdmissionInv
<1> QED
  BY <1>1, Invariance, PTL

(* WaitQueueManager: what GetWaitCount makes of a ticket is the place in   *)
(* the line, which is never longer than mMaxWaitSize.                      *)
THEOREM Places == ConnectionSpec => []TicketTellsPlace
<1>1. ConnectionInv => TicketTellsPlace
  BY TicketsArePlaces DEF ConnectionInv, AdmissionInv
<1> QED
  BY <1>1, Invariance, PTL

(* Session: the callbacks of a session come in their order, each at most   *)
(* once, whatever the handlers of other sessions do to it.                 *)
THEOREM Callbacks == ConnectionSpec => []CallbacksInOrder
<1>1. ConnectionInv => CallbacksInOrder
  BY StoriesAreInOrder DEF ConnectionInv, AdmissionInv
<1> QED
  BY <1>1, Invariance, PTL

(* Session::processDisconnect and the failed admissions: a disconnected    *)
(* member has somebody who will give its seat up, or a DisconnectEx.       *)
THEOREM Owed == ConnectionSpec => []SeatIsOwed
<1>1. ConnectionInv => SeatIsOwed
  BY DEF ConnectionInv, AdmissionInv
<1> QED
  BY <1>1, Invariance, PTL

(* Session::setSessionEvent and Session::Clear: a session that holds       *)
(* itself is in use, in the line, being closed, turned away or dropped,    *)
(* and a pending DisconnectEx finds its owner.                             *)
THEOREM NobodyIsForgotten == ConnectionSpec => []SessionsAreAccounted
<1>1. ConnectionInv => SessionsAreAccounted
  BY InvAccountsForSessions
<1> QED
  BY <1>1, Invariance, PTL

(* Session::registerReap, the timer's JobDispatcher::Post and              *)
(* SessionReaper::ReapSession: where there is a reaper, a connected        *)
(* session is about to start its timer, in the timing wheel, in the        *)
(* reaper's queue or in its hands, in one of these places only; and it is  *)
(* lost to the reaper only when the queue was full.                        *)
THEOREM Watched == ConnectionSpec => []ConnectedIsWatched
<1>1. ConnectionInv => ConnectedIsWatched
  BY DEF ConnectionInv, InSight, OnePlace, ConnectedIsWatched
<1> QED
  BY <1>1, Invariance, PTL

-----------------------------------------------------------------------------
(* When the reaper takes a session.                                        *)

(* What is recorded after a packet is at most a second older than the      *)
(* packet (SessionTimeoutTracker::UpdateActivity).                         *)
LEMMA ActivityIsRecorded ==
  ASSUME NEW last \in Int, NEW packet \in Int, NEW later \in Int, packet <= later
  PROVE  packet - UpdateActivity(last, packet, later) <= ONE_SECOND_MS
  BY SMT DEF UpdateActivity, ONE_SECOND_MS

(* Whoever is disconnected with Timeout has been silent for the timeout    *)
(* less a second: the reaper never takes a session whose packets come more *)
(* often than that.  With a timeout below a second it says nothing.        *)
THEOREM ReapedWasSilent ==
  ASSUME NEW timeout \in Nat, NEW last \in Int, NEW packet \in Int,
         NEW later \in Int, NEW look \in Int, packet <= later,
         isExpired(timeout, UpdateActivity(last, packet, later), look)
  PROVE  look - packet > timeout - ONE_SECOND_MS
<1>1. packet - UpdateActivity(last, packet, later) <= ONE_SECOND_MS
  BY ActivityIsRecorded
<1>2. UpdateActivity(last, packet, later) \in Int
  BY DEF UpdateActivity
<1>3. look - UpdateActivity(last, packet, later) > timeout
  BY DEF isExpired
<1>4. QED
  BY <1>1, <1>2, <1>3, SMT DEF ONE_SECOND_MS

(* A session whose last record is not after a look, and which stays        *)
(* silent, is expired at the next look, if that comes more than the        *)
(* timeout later; so it is gone two timeouts and the delays of the second  *)
(* look after its record at the latest.  A next look exactly the timeout   *)
(* later may find it not expired and looks a third time.                   *)
THEOREM SilentIsReaped ==
  ASSUME NEW timeout \in Nat, NEW delay \in Nat, NEW last \in Int,
         NEW look \in Int, NEW next \in Int,
         last <= look, ~isExpired(timeout, last, look),
         look + timeout < next, next <= look + timeout + delay
  PROVE  /\ isExpired(timeout, last, next)
         /\ next - last <= 2 * timeout + delay
<1>1. look - last <= timeout
  BY SMT DEF isExpired
<1>2. isExpired(timeout, last, next)
  BY SMT DEF isExpired
<1>3. next - last <= 2 * timeout + delay
  BY <1>1, SMT
<1>4. QED
  BY <1>2, <1>3
===============================================================================

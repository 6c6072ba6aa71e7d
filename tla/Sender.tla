-------------------------------- MODULE Sender --------------------------------
(***************************************************************************)
(* Sender: the send side of one session.  Any thread may call Send; it     *)
(* queues the buffer and calls Register, where the winner of               *)
(* mbSendRegistered gathers up to MAX_SEND_WSABUF_SIZE buffers into one    *)
(* overlapped WSASend.  The completion, handled by any worker, lowers the  *)
(* flag and registers again when buffers were queued meanwhile.            *)
(*                                                                         *)
(* Every step is one access to shared memory or one system call; a test of *)
(* mpOwner and of the session state is one step.  Buffers are numbered in  *)
(* the order in which they are linked into the queue.  A null mpOwner that *)
(* is dereferenced stops the process (fault).  Clear deletes the nodes of  *)
(* the queue and leaves its head, tail and count as they are: a thread     *)
(* that uses the queue afterwards finds what was there, or faults.         *)
(***************************************************************************)
EXTENDS Integers, Sequences, FiniteSets, SequencesExt

CONSTANTS
  Threads,      \* the threads that send and the workers
  MaxSends,     \* bound: calls of Send that queue a buffer
  MaxBuffers,   \* MAX_SEND_WSABUF_SIZE
  MaxCount      \* mMaxCount of the queue

ASSUME SenderAssumption ==
  /\ IsFiniteSet(Threads)
  /\ MaxSends \in Nat
  /\ MaxBuffers \in Nat \ {0}
  /\ MaxCount \in Nat \ {0}

VARIABLES
  connected,  \* the session's state is not Disconnected
  disconnect, \* the DisconnectEx of the session: "none", "posted", "done"
  owner,      \* mpOwner, and with it the owner of mSendEvent, is set
  registered, \* mbSendRegistered
  queue,      \* the nodes of mSendQueue behind its dummy
  count,      \* mSendQueue.mCount
  freed,      \* mSendQueue.Clear has deleted the nodes
  pending,    \* mSendEvent's mSendPendingBuffer
  flight,     \* outstanding WSASend calls, oldest first: the buffers of each
  fault,      \* a null pointer was dereferenced
  pc,         \* where the thread is
  batch,      \* batch[t]: wsabufs of the Register in progress
  bytes,      \* bytes[t]: the send of the Process in progress moved bytes
  full,       \* threads whose Send found the queue full
  linked,     \* history: number of buffers linked
  issued      \* history: the buffers handed to WSASend, in order

session == <<connected, disconnect>>
vars == <<session, owner, registered, queue, count, freed, pending, flight,
          fault, pc, batch, bytes, full, linked, issued>>

Init ==
  /\ connected = TRUE
  /\ disconnect = "none"
  /\ owner = TRUE
  /\ registered = FALSE
  /\ queue = << >>
  /\ count = 0
  /\ freed = FALSE
  /\ pending = << >>
  /\ flight = << >>
  /\ fault = FALSE
  /\ pc = [t \in Threads |-> "idle"]
  /\ batch = [t \in Threads |-> << >>]
  /\ bytes = [t \in Threads |-> FALSE]
  /\ full = {}
  /\ linked = 0
  /\ issued = << >>

Go(t, from, to) == ~fault /\ pc[t] = from /\ pc' = [pc EXCEPT ![t] = to]

Usable == owner /\ connected

(* Session::Disconnect; the first caller starts DisconnectEx.              *)
Close ==
  /\ connected' = FALSE
  /\ disconnect' = IF connected THEN "posted" ELSE disconnect

Fault == fault' = TRUE

-----------------------------------------------------------------------------
(* Send.                                                                   *)
SendBegin(t) ==
  /\ linked + Cardinality({u \in Threads : pc[u] = "link"}) < MaxSends
  /\ Go(t, "idle", IF Usable /\ count < MaxCount THEN "link" ELSE "clear")
  /\ full' = IF Usable /\ count >= MaxCount THEN full \cup {t} ELSE full
  /\ UNCHANGED <<session, owner, registered, queue, count, freed, pending,
                 flight, fault, batch, bytes, linked, issued>>

Link(t) ==
  /\ Go(t, "link", "count")
  /\ linked' = linked + 1
  /\ queue' = Append(queue, linked')
  /\ UNCHANGED <<session, owner, registered, count, freed, pending, flight,
                 fault, batch, bytes, full, issued>>

(* Wrong on purpose: the buffer is queued and nobody registers.            *)
AddCountNoRegister(t) ==
  /\ Go(t, "count", "idle")
  /\ count' = count + 1
  /\ UNCHANGED <<session, owner, registered, queue, freed, pending, flight,
                 fault, batch, bytes, full, linked, issued>>

AddCount(t) ==
  /\ Go(t, "count", "register")
  /\ count' = count + 1
  /\ UNCHANGED <<session, owner, registered, queue, freed, pending, flight,
                 fault, batch, bytes, full, linked, issued>>

-----------------------------------------------------------------------------
(* Register.                                                               *)
RegisterBegin(t) ==
  /\ Go(t, "register", IF Usable THEN "raise" ELSE "clear")
  /\ UNCHANGED <<session, owner, registered, queue, count, freed, pending,
                 flight, fault, batch, bytes, full, linked, issued>>

(* Wrong on purpose: the flag is not looked at.                            *)
RaiseAlways(t) ==
  /\ Go(t, "raise", "take")
  /\ registered' = TRUE
  /\ batch' = [batch EXCEPT ![t] = << >>]
  /\ UNCHANGED <<session, owner, queue, count, freed, pending, flight, fault,
                 bytes, full, linked, issued>>

Raise(t) ==
  /\ Go(t, "raise", IF registered THEN "idle" ELSE "take")
  /\ registered' = TRUE
  /\ batch' = [batch EXCEPT ![t] = << >>]
  /\ UNCHANGED <<session, owner, queue, count, freed, pending, flight, fault,
                 bytes, full, linked, issued>>

(* Wrong on purpose: one element more than the array has.                  *)
TakeTooMany(t) ==
  /\ IF count > 0
       THEN /\ Go(t, "take", IF Len(batch[t]) = MaxBuffers THEN "issue" ELSE "take")
            /\ queue' = Tail(queue)
            /\ pending' = Append(pending, Head(queue))
            /\ batch' = [batch EXCEPT ![t] = Append(@, Head(queue))]
       ELSE /\ Go(t, "take", "restore")
            /\ UNCHANGED <<queue, pending, batch>>
  /\ count' = count - 1
  /\ UNCHANGED <<session, owner, registered, freed, flight, fault, bytes, full,
                 linked, issued>>

(* Wrong on purpose: a buffer is dequeued before the room is tested.       *)
TakeThenTest(t) ==
  /\ IF count > 0
       THEN /\ Go(t, "take", IF Len(batch[t]) = MaxBuffers THEN "issue" ELSE "take")
            /\ queue' = Tail(queue)
            /\ IF Len(batch[t]) = MaxBuffers
                 THEN UNCHANGED <<pending, batch>>
                 ELSE /\ pending' = Append(pending, Head(queue))
                      /\ batch' = [batch EXCEPT ![t] = Append(@, Head(queue))]
       ELSE /\ Go(t, "take", "restore")
            /\ UNCHANGED <<queue, pending, batch>>
  /\ count' = count - 1
  /\ UNCHANGED <<session, owner, registered, freed, flight, fault, bytes, full,
                 linked, issued>>

(* TryDequeue: the counter is lowered first; on success the head is taken. *)
Take(t) ==
  /\ IF count > 0
       THEN /\ Go(t, "take", IF Len(batch[t]) + 1 = MaxBuffers THEN "issue" ELSE "take")
            /\ queue' = Tail(queue)
            /\ pending' = Append(pending, Head(queue))
            /\ batch' = [batch EXCEPT ![t] = Append(@, Head(queue))]
       ELSE /\ Go(t, "take", "restore")
            /\ UNCHANGED <<queue, pending, batch>>
  /\ count' = count - 1
  /\ UNCHANGED <<session, owner, registered, freed, flight, fault, bytes, full,
                 linked, issued>>

Restore(t) ==
  /\ Go(t, "restore", IF batch[t] = << >> THEN "lower" ELSE "issue")
  /\ count' = count + 1
  /\ UNCHANGED <<session, owner, registered, queue, freed, pending, flight,
                 fault, batch, bytes, full, linked, issued>>

Lower(t) ==
  /\ Go(t, "lower", "recheck")
  /\ registered' = FALSE
  /\ UNCHANGED <<session, owner, queue, count, freed, pending, flight, fault,
                 batch, bytes, full, linked, issued>>

(* A buffer may have been queued while the flag was still up.              *)
Recheck(t) ==
  /\ Go(t, "recheck", IF count # 0 THEN "register" ELSE "idle")
  /\ UNCHANGED <<session, owner, registered, queue, count, freed, pending,
                 flight, fault, batch, bytes, full, linked, issued>>

(* WSASend is accepted, or fails at once.                                  *)
Issue(t) ==
  \/ /\ owner
     /\ Go(t, "issue", "idle")
     /\ flight' = Append(flight, batch[t])
     /\ issued' = issued \o batch[t]
     /\ batch' = [batch EXCEPT ![t] = << >>]
     /\ UNCHANGED <<fault, bytes>>
  \/ /\ owner
     /\ Go(t, "issue", "answer")
     /\ bytes' = [bytes EXCEPT ![t] = FALSE]
     /\ UNCHANGED <<fault, flight, issued, batch>>
  \/ /\ ~owner
     /\ Go(t, "issue", "idle")
     /\ Fault
     /\ UNCHANGED <<flight, issued, batch, bytes>>

IssueStep(t) ==
  /\ Issue(t)
  /\ UNCHANGED <<session, owner, registered, queue, count, freed, pending,
                 full, linked>>

-----------------------------------------------------------------------------
(* The completion of a send.                                               *)

(* IocpCore::Dispatch drops it when the event has no owner; Process drops  *)
(* the buffers first.  No bytes: the peer has gone or the call failed.     *)
Complete(t) ==
  /\ flight # << >>
  /\ \E b \in BOOLEAN :
       /\ Go(t, "idle", IF owner THEN "process" ELSE "idle")
       /\ bytes' = [bytes EXCEPT ![t] = b]
  /\ flight' = Tail(flight)
  /\ pending' = IF owner THEN << >> ELSE pending
  /\ UNCHANGED <<session, owner, registered, queue, count, freed, fault, batch,
                 full, linked, issued>>

Process(t) ==
  \/ /\ ~Usable
     /\ Go(t, "process", "clear")
     /\ UNCHANGED session
  \/ /\ Usable
     /\ Go(t, "process", "answer")
     /\ UNCHANGED session

(* OnSend, or Disconnect for a send that failed, through mpOwner.          *)
Answer(t) ==
  \/ /\ owner /\ bytes[t]
     /\ Go(t, "answer", "lower")
     /\ UNCHANGED <<session, fault>>
  \/ /\ owner /\ ~bytes[t]
     /\ Go(t, "answer", "clear")
     /\ Close
     /\ UNCHANGED fault
  \/ /\ ~owner
     /\ Go(t, "answer", "idle")
     /\ Fault
     /\ UNCHANGED session

ProcessStep(t) ==
  /\ \/ Process(t) /\ UNCHANGED fault
     \/ Answer(t)
  /\ UNCHANGED <<owner, registered, queue, count, freed, pending, flight,
                 batch, bytes, full, linked, issued>>

-----------------------------------------------------------------------------
(* Clear, called by Send, Register, Process and the session.               *)

ClearOwner(t) ==
  /\ Go(t, "clear", "clearPending")
  /\ owner' = FALSE
  /\ UNCHANGED <<session, registered, queue, count, freed, pending, flight,
                 fault, batch, bytes, full, linked, issued>>

ClearPending(t) ==
  /\ Go(t, "clearPending", "clearFlag")
  /\ pending' = << >>
  /\ UNCHANGED <<session, owner, registered, queue, count, freed, flight,
                 fault, batch, bytes, full, linked, issued>>

ClearFlag(t) ==
  /\ Go(t, "clearFlag", "clearQueue")
  /\ registered' = FALSE
  /\ UNCHANGED <<session, owner, queue, count, freed, pending, flight, fault,
                 batch, bytes, full, linked, issued>>

ClearQueue(t) ==
  /\ Go(t, "clearQueue", IF t \in full THEN "null" ELSE "idle")
  /\ freed' = TRUE
  /\ UNCHANGED <<session, owner, registered, queue, count, pending, flight,
                 fault, batch, bytes, full, linked, issued>>

(* Send, queue full: Disconnect through the owner Clear has reset.         *)
NullOwner(t) ==
  /\ Go(t, "null", "idle")
  /\ Fault
  /\ UNCHANGED <<session, owner, registered, queue, count, freed, pending,
                 flight, batch, bytes, full, linked, issued>>

(* The other outcome of using or deleting the nodes once more.             *)
UseFreed(t) ==
  /\ freed
  /\ \E l \in {"link", "take", "clearQueue"} : Go(t, l, "idle")
  /\ Fault
  /\ UNCHANGED <<session, owner, registered, queue, count, freed, pending,
                 flight, batch, bytes, full, linked, issued>>

-----------------------------------------------------------------------------
(* The rest of the session.                                                *)
Disconnect ==
  /\ ~fault
  /\ connected
  /\ Close
  /\ UNCHANGED <<owner, registered, queue, count, freed, pending, flight,
                 fault, pc, batch, bytes, full, linked, issued>>

(* Session::processDisconnect ends in Session::Clear.                      *)
ProcessDisconnect(t) ==
  /\ disconnect = "posted"
  /\ Go(t, "idle", "clear")
  /\ disconnect' = "done"
  /\ UNCHANGED <<connected, owner, registered, queue, count, freed, pending,
                 flight, fault, batch, bytes, full, linked, issued>>

-----------------------------------------------------------------------------
(* The steps of a thread that is inside the sender.                        *)
Step(t) == \/ Link(t) \/ AddCount(t)
           \/ RegisterBegin(t) \/ Raise(t) \/ Take(t) \/ Restore(t)
           \/ Lower(t) \/ Recheck(t) \/ IssueStep(t)
           \/ ProcessStep(t)
           \/ ClearOwner(t) \/ ClearPending(t) \/ ClearFlag(t)
           \/ ClearQueue(t) \/ NullOwner(t) \/ UseFreed(t)

Next == \/ \E t \in Threads : \/ SendBegin(t) \/ Complete(t)
                              \/ ProcessDisconnect(t) \/ Step(t)
        \/ Disconnect

Spec == Init /\ [][Next]_vars

(* Threads run; an outstanding send completes, with or without bytes, and  *)
(* a worker takes the completion.                                          *)
Fairness == /\ \A t \in Threads : WF_vars(Step(t))
            /\ WF_vars(\E t \in Threads : Complete(t))

FairSpec == Spec /\ Fairness

-----------------------------------------------------------------------------
(* Properties.                                                             *)

Labels == {"idle", "link", "count", "register", "raise", "take", "restore",
           "lower", "recheck", "issue", "process", "answer", "null",
           "clear", "clearPending", "clearFlag", "clearQueue"}

Buffers == 1..MaxSends

TypeOK ==
  /\ {connected, owner, registered, freed, fault} \subseteq BOOLEAN
  /\ disconnect \in {"none", "posted", "done"}
  /\ (disconnect = "none") = connected
  /\ queue \in Seq(Buffers)
  /\ count \in Int
  /\ pending \in Seq(Buffers)
  /\ flight \in Seq(Seq(Buffers))
  /\ pc \in [Threads -> Labels]
  /\ batch \in [Threads -> Seq(Buffers)]
  /\ \A t \in Threads : Len(batch[t]) <= MaxBuffers
  /\ bytes \in [Threads -> BOOLEAN]
  /\ full \subseteq Threads
  /\ linked \in 0..MaxSends
  /\ issued \in Seq(Buffers)

(* Nobody has begun to tear the sender down.                               *)
Open == Usable /\ ~fault

(* Registering: gathering, sending, or lowering the flag.                  *)
Registering == {t \in Threads : pc[t] \in {"take", "restore", "issue", "lower",
                                           "process", "answer"}}

(* mbSendRegistered is up exactly while one thread gathers buffers, one    *)
(* send is outstanding, or one completion is being processed.              *)
OneSendAtATime ==
  Open => Cardinality(Registering) + Len(flight) = IF registered THEN 1 ELSE 0

Gathered == {t \in Threads : batch[t] # << >>}

(* Whatever the interleaving of senders and workers, the buffers go to the *)
(* socket once, in the order in which they were queued.                    *)
SentInOrder ==
  Open => LET InHand == IF Gathered = {} THEN << >>
                        ELSE batch[CHOOSE t \in Gathered : TRUE]
          IN  /\ Cardinality(Gathered) <= 1
              /\ issued \o InHand \o queue = [i \in 1..linked |-> i]

(* Every queued buffer is handed to the socket, unless the sender closes.  *)
SentOrClosed ==
  \A b \in Buffers : linked >= b ~> (Contains(issued, b) \/ ~Open)

(* IocpEvent.h:83: mSendPendingBuffer holds the buffers that are being     *)
(* sent.                                                                   *)
PendingHoldsFlight ==
  ~fault => \A i \in 1..Len(flight) : \A b \in ToSet(flight[i]) :
              Contains(pending, b)
===============================================================================

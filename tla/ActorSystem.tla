----------------------------- MODULE ActorSystem -----------------------------
(***************************************************************************)
(* The actor executor: Actor, ActorOverlapped, JobDispatcher and           *)
(* ActorScheduler.  A job is posted by linking it into the actor's         *)
(* lock-free queue and scheduling the actor: whoever wins the actor's      *)
(* mbAcquire flag queues a completion on the scheduler's port and frees    *)
(* the flag.  A dispatcher thread takes a completion, must win the flag    *)
(* again, runs a batch of jobs, frees the flag and schedules the actor     *)
(* once more when jobs are left.  A completion whose taker finds no owner  *)
(* in the overlapped, or loses the race for the flag, is discarded.        *)
(*                                                                         *)
(* Every step is one access to shared memory or one system call.  The      *)
(* order of completions inside the port is not kept (any of them may be    *)
(* taken), which allows more than the FIFO port does.                      *)
(***************************************************************************)
EXTENDS Integers, Sequences, FiniteSets

CONSTANTS
  Actors,            \* the actors
  Posters,           \* threads that only post (workers, main)
  Dispatchers,       \* threads that call ActorScheduler::Dispatch in a loop
  Jobs,              \* all jobs that are ever posted
  Target,            \* Target[j]: the actor job j is for
  Seeded,            \* jobs handed to PostDelay before the threads start
  ExecuteJobCount,   \* mExecuteJobCount, the batch limit
  QueueLimit,        \* mMaxCount of the job queue
  PostFailures,      \* bound: how many PostQueuedCompletionStatus calls fail
  None               \* "no actor" / "no job"

Threads == Posters \cup Dispatchers

ASSUME ConstantsAssumption ==
  /\ Posters \cap Dispatchers = {}
  /\ IsFiniteSet(Threads)
  /\ Target \in [Jobs -> Actors]
  /\ Seeded \subseteq Jobs
  /\ ExecuteJobCount \in Nat \ {0}
  /\ QueueLimit \in Nat \ {0}
  /\ PostFailures \in Nat
  /\ None \notin Actors \cup Jobs

VARIABLES
  \* shared memory
  queue,      \* queue[a]: nodes linked behind the head of mJobQueue
  count,      \* count[a]: mJobQueue.mCount
  acquired,   \* acquired[a]: Actor::mbAcquire
  owned,      \* owned[a]: ActorOverlapped::mpOwner is set
  port,       \* port[a]: completions of a inside the I/O completion port
  fresh,      \* jobs not posted yet
  delayed,    \* jobs inside the timing wheel
  failures,   \* failed PostQueuedCompletionStatus calls so far
  \* per thread
  pc,         \* where the thread is
  tgt,        \* tgt[t]: pActor of the Post / Register / Schedule in progress
  ret,        \* ret[t]: where that Post / Register returns to
  self,       \* self[t]: pActor of the Dispatch in progress
  left,       \* left[t]: loop iterations left in Dispatch
  job,        \* job[t]: the job being executed
  \* history
  lost        \* lost[a]: the latest completion of a was discarded or not queued

shared == <<queue, count, acquired, owned, port, fresh, delayed, failures>>
local  == <<pc, tgt, ret, self, left, job>>
vars   == <<shared, local, lost>>

ScheduleSteps == {"count", "register", "own", "acquire", "post", "release"}
DispatchSteps == {"owner", "lock", "batch", "exec", "run", "clear", "unlock"}
Labels        == ScheduleSteps \cup DispatchSteps \cup {"idle", "tick"}

Init ==
  /\ queue    = [a \in Actors |-> << >>]
  /\ count    = [a \in Actors |-> 0]
  /\ acquired = [a \in Actors |-> FALSE]
  /\ owned    = [a \in Actors |-> FALSE]
  /\ port     = [a \in Actors |-> 0]
  /\ fresh    = Jobs \ Seeded
  /\ delayed  = Seeded
  /\ failures = 0
  /\ pc       = [t \in Threads |-> "idle"]
  /\ tgt      = [t \in Threads |-> None]
  /\ ret      = [t \in Threads |-> "idle"]
  /\ self     = [t \in Threads |-> None]
  /\ left     = [t \in Threads |-> 0]
  /\ job      = [t \in Threads |-> None]
  /\ lost     = [a \in Actors |-> FALSE]

Go(t, from, to) == pc[t] = from /\ pc' = [pc EXCEPT ![t] = to]

(* A step inside Post / Register / Schedule, and the return to the caller. *)
Stay(t, from, to) == Go(t, from, to) /\ UNCHANGED <<tgt, ret>>

Return(t, from) == /\ Go(t, from, ret[t])
                   /\ tgt' = [tgt EXCEPT ![t] = None]
                   /\ ret' = [ret EXCEPT ![t] = "idle"]

-----------------------------------------------------------------------------
(* JobDispatcher::Post.                                                    *)

(* User code runs on a poster between two posts and on a dispatcher inside *)
(* a job; a due timer runs on a dispatcher inside TimingWheel::Tick.       *)
UserCode(t) == \/ t \in Posters /\ pc[t] = "idle"
               \/ pc[t] = "run"

CanPost(t, j) == \/ UserCode(t) /\ j \in fresh
                 \/ pc[t] = "tick" /\ j \in delayed

(* LockFreeQueue::TryEnqueue up to the link of the new node.               *)
PushJob(t, j) ==
  LET a == Target[j] IN
  /\ CanPost(t, j)
  /\ count[a] < QueueLimit
  /\ queue' = [queue EXCEPT ![a] = Append(@, j)]
  /\ fresh' = fresh \ {j}
  /\ delayed' = delayed \ {j}
  /\ tgt' = [tgt EXCEPT ![t] = a]
  /\ ret' = [ret EXCEPT ![t] = pc[t]]
  /\ pc' = [pc EXCEPT ![t] = "count"]
  /\ UNCHANGED <<count, acquired, owned, port, failures, self, left, job, lost>>

(* TryEnqueue refuses: Post logs and the job is gone.                      *)
RefuseJob(t, j) ==
  /\ CanPost(t, j)
  /\ count[Target[j]] >= QueueLimit
  /\ fresh' = fresh \ {j}
  /\ delayed' = delayed \ {j}
  /\ UNCHANGED <<queue, count, acquired, owned, port, failures, local, lost>>

(* The fetch_add that ends TryEnqueue.                                     *)
CountJob(t) ==
  /\ Go(t, "count", "register")
  /\ count' = [count EXCEPT ![tgt[t]] = @ + 1]
  /\ UNCHANGED <<queue, acquired, owned, port, fresh, delayed, failures,
                 tgt, ret, self, left, job, lost>>

(* PostDelay hands the job to the timing wheel.                            *)
PostDelay(t, j) ==
  /\ UserCode(t)
  /\ j \in fresh
  /\ fresh' = fresh \ {j}
  /\ delayed' = delayed \cup {j}
  /\ UNCHANGED <<queue, count, acquired, owned, port, failures, local, lost>>

-----------------------------------------------------------------------------
(* Actor::Register and ActorScheduler::Schedule.                           *)

(* Wrong on purpose: "more than one job left" instead of "any job left".   *)
RegisterOffByOne(t) ==
  /\ pc[t] = "register"
  /\ IF count[tgt[t]] > 1 THEN Stay(t, "register", "own") ELSE Return(t, "register")
  /\ UNCHANGED <<shared, self, left, job, lost>>

Register(t) ==
  /\ pc[t] = "register"
  /\ IF count[tgt[t]] > 0 THEN Stay(t, "register", "own") ELSE Return(t, "register")
  /\ UNCHANGED <<shared, self, left, job, lost>>

SetOwner(t) ==
  /\ Stay(t, "own", "acquire")
  /\ owned' = [owned EXCEPT ![tgt[t]] = TRUE]
  /\ UNCHANGED <<queue, count, acquired, port, fresh, delayed, failures,
                 self, left, job, lost>>

ScheduleAcquire(t) ==
  /\ pc[t] = "acquire"
  /\ IF acquired[tgt[t]] THEN Return(t, "acquire") ELSE Stay(t, "acquire", "post")
  /\ acquired' = [acquired EXCEPT ![tgt[t]] = TRUE]
  /\ UNCHANGED <<queue, count, owned, port, fresh, delayed, failures,
                 self, left, job, lost>>

PostCompletion(t) ==
  /\ Go(t, "post", "release")
  /\ port' = [port EXCEPT ![tgt[t]] = @ + 1]
  /\ lost' = [lost EXCEPT ![tgt[t]] = FALSE]
  /\ UNCHANGED <<queue, count, acquired, owned, fresh, delayed, failures,
                 tgt, ret, self, left, job>>

(* PostQueuedCompletionStatus fails: Schedule logs and goes on.            *)
PostCompletionFails(t) ==
  /\ failures < PostFailures
  /\ Go(t, "post", "release")
  /\ failures' = failures + 1
  /\ lost' = [lost EXCEPT ![tgt[t]] = TRUE]
  /\ UNCHANGED <<queue, count, acquired, owned, port, fresh, delayed,
                 tgt, ret, self, left, job>>

ScheduleRelease(t) ==
  /\ Return(t, "release")
  /\ acquired' = [acquired EXCEPT ![tgt[t]] = FALSE]
  /\ UNCHANGED <<queue, count, owned, port, fresh, delayed, failures,
                 self, left, job, lost>>

-----------------------------------------------------------------------------
(* ActorScheduler::Dispatch.                                               *)

(* Wrong on purpose: does not wait for a completion.                       *)
TakeNothing(t, a) ==
  /\ t \in Dispatchers
  /\ Go(t, "idle", "owner")
  /\ port' = [port EXCEPT ![a] = @ - 1]
  /\ self' = [self EXCEPT ![t] = a]
  /\ UNCHANGED <<queue, count, acquired, owned, fresh, delayed, failures,
                 tgt, ret, left, job, lost>>

TakeCompletion(t, a) ==
  /\ t \in Dispatchers
  /\ port[a] > 0
  /\ Go(t, "idle", "owner")
  /\ port' = [port EXCEPT ![a] = @ - 1]
  /\ self' = [self EXCEPT ![t] = a]
  /\ UNCHANGED <<queue, count, acquired, owned, fresh, delayed, failures,
                 tgt, ret, left, job, lost>>

(* GetQueuedCompletionStatus times out on an empty port; only the wheel is *)
(* served.                                                                 *)
TimeSlice(t) ==
  /\ t \in Dispatchers
  /\ \A a \in Actors : port[a] = 0
  /\ Go(t, "idle", "tick")
  /\ UNCHANGED <<shared, tgt, ret, self, left, job, lost>>

GetOwner(t) ==
  /\ pc[t] = "owner"
  /\ IF owned[self[t]]
       THEN Go(t, "owner", "lock") /\ UNCHANGED lost
       ELSE Go(t, "owner", "tick") /\ lost' = [lost EXCEPT ![self[t]] = TRUE]
  /\ UNCHANGED <<shared, tgt, ret, self, left, job>>

(* Wrong on purpose: the result of TryAcquire is not looked at.            *)
DispatchIgnoresFlag(t) ==
  /\ pc[t] = "lock"
  /\ Go(t, "lock", "batch")
  /\ acquired' = [acquired EXCEPT ![self[t]] = TRUE]
  /\ UNCHANGED <<queue, count, owned, port, fresh, delayed, failures,
                 tgt, ret, self, left, job, lost>>

DispatchAcquire(t) ==
  /\ pc[t] = "lock"
  /\ IF acquired[self[t]]
       THEN Go(t, "lock", "tick") /\ lost' = [lost EXCEPT ![self[t]] = TRUE]
       ELSE Go(t, "lock", "batch") /\ UNCHANGED lost
  /\ acquired' = [acquired EXCEPT ![self[t]] = TRUE]
  /\ UNCHANGED <<queue, count, owned, port, fresh, delayed, failures,
                 tgt, ret, self, left, job>>

(* Wrong on purpose: always a full batch.                                  *)
FullBatch(n) == ExecuteJobCount

BatchSize(n) == IF ExecuteJobCount < n THEN ExecuteJobCount ELSE n

ReadBatch(t) ==
  /\ Go(t, "batch", "exec")
  /\ left' = [left EXCEPT ![t] = BatchSize(count[self[t]])]
  /\ UNCHANGED <<shared, tgt, ret, self, job, lost>>

(* Actor::Execute reserves a job, takes it and enters it, or finds none to *)
(* reserve.                                                                *)
Execute(t) ==
  LET a == self[t] IN
  /\ pc[t] = "exec"
  /\ left[t] > 0
  /\ left' = [left EXCEPT ![t] = @ - 1]
  /\ IF count[a] > 0
       THEN /\ Go(t, "exec", "run")
            /\ count' = [count EXCEPT ![a] = @ - 1]
            /\ queue' = [queue EXCEPT ![a] = Tail(@)]
            /\ job' = [job EXCEPT ![t] = Head(queue[a])]
       ELSE Go(t, "exec", "exec") /\ UNCHANGED <<count, queue, job>>
  /\ UNCHANGED <<acquired, owned, port, fresh, delayed, failures,
                 tgt, ret, self, lost>>

FinishJob(t) ==
  /\ Go(t, "run", "exec")
  /\ job' = [job EXCEPT ![t] = None]
  /\ UNCHANGED <<shared, tgt, ret, self, left, lost>>

EndBatch(t) ==
  /\ left[t] = 0
  /\ Go(t, "exec", "clear")
  /\ UNCHANGED <<shared, tgt, ret, self, left, job, lost>>

ClearActorOverlapped(t) ==
  /\ Go(t, "clear", "unlock")
  /\ owned' = [owned EXCEPT ![self[t]] = FALSE]
  /\ UNCHANGED <<queue, count, acquired, port, fresh, delayed, failures,
                 tgt, ret, self, left, job, lost>>

(* Wrong on purpose: Release without the Register that follows it.         *)
ReleaseOnly(t) ==
  /\ Go(t, "unlock", "tick")
  /\ acquired' = [acquired EXCEPT ![self[t]] = FALSE]
  /\ UNCHANGED <<queue, count, owned, port, fresh, delayed, failures,
                 tgt, ret, self, left, job, lost>>

(* Release, then call Register with the wheel as the next thing to do.     *)
DispatchRelease(t) ==
  /\ Go(t, "unlock", "register")
  /\ acquired' = [acquired EXCEPT ![self[t]] = FALSE]
  /\ tgt' = [tgt EXCEPT ![t] = self[t]]
  /\ ret' = [ret EXCEPT ![t] = "tick"]
  /\ UNCHANGED <<queue, count, owned, port, fresh, delayed, failures,
                 self, left, job, lost>>

(* TimingWheel::Tick has run the callbacks it found due.                   *)
EndTick(t) ==
  /\ Go(t, "tick", "idle")
  /\ self' = [self EXCEPT ![t] = None]
  /\ UNCHANGED <<shared, tgt, ret, left, job, lost>>

-----------------------------------------------------------------------------
ScheduleStep(t) == \/ CountJob(t)       \/ Register(t)
                   \/ SetOwner(t)       \/ ScheduleAcquire(t)
                   \/ PostCompletion(t) \/ PostCompletionFails(t)
                   \/ ScheduleRelease(t)

DispatchStep(t) == \/ GetOwner(t)   \/ DispatchAcquire(t) \/ ReadBatch(t)
                   \/ Execute(t)    \/ FinishJob(t)       \/ EndBatch(t)
                   \/ ClearActorOverlapped(t)
                   \/ DispatchRelease(t) \/ EndTick(t)

Next == \E t \in Threads :
          \/ \E j \in Jobs : PushJob(t, j) \/ RefuseJob(t, j) \/ PostDelay(t, j)
          \/ ScheduleStep(t)
          \/ DispatchStep(t)
          \/ TimeSlice(t)
          \/ \E a \in Actors : TakeCompletion(t, a)

Spec == Init /\ [][Next]_vars

(* Threads keep running and jobs return; the port hands completions out in *)
(* order, so each is taken at last; a delayed job is posted by some tick.  *)
(* Nobody is obliged to post.                                              *)
Fire(j) == \E t \in Dispatchers :
             pc[t] = "tick" /\ (PushJob(t, j) \/ RefuseJob(t, j))

Fairness ==
  /\ \A t \in Threads : WF_vars(ScheduleStep(t)) /\ WF_vars(DispatchStep(t))
  /\ \A t \in Dispatchers : WF_vars(TimeSlice(t))
  /\ \A a \in Actors : SF_vars(\E t \in Dispatchers : TakeCompletion(t, a))
  /\ \A j \in Jobs : SF_vars(Fire(j))

FairSpec == Spec /\ Fairness

-----------------------------------------------------------------------------
(* Properties.                                                             *)

TypeOK ==
  /\ queue \in [Actors -> Seq(Jobs)]
  /\ count \in [Actors -> Int]
  /\ acquired \in [Actors -> BOOLEAN]
  /\ owned \in [Actors -> BOOLEAN]
  /\ port \in [Actors -> Nat]
  /\ fresh \subseteq Jobs
  /\ delayed \subseteq Jobs
  /\ failures \in Nat
  /\ pc \in [Threads -> Labels]
  /\ tgt \in [Threads -> Actors \cup {None}]
  /\ ret \in [Threads -> {"idle", "run", "tick"}]
  /\ self \in [Threads -> Actors \cup {None}]
  /\ left \in [Threads -> Nat]
  /\ job \in [Threads -> Jobs \cup {None}]
  /\ lost \in [Actors -> BOOLEAN]

(* t is between the two exchanges on a.mbAcquire in Dispatch, possibly     *)
(* inside a Post made by the job it runs; t is between them in Schedule.   *)
DispatchHolds(t, a) ==
  /\ self[t] = a
  /\ \/ pc[t] \in {"batch", "exec", "run", "clear", "unlock"}
     \/ pc[t] \in ScheduleSteps /\ ret[t] = "run"

ScheduleHolds(t, a) == tgt[t] = a /\ pc[t] \in {"post", "release"}

Holds(t, a) == DispatchHolds(t, a) \/ ScheduleHolds(t, a)

(* The jobs of a that some thread is inside of.                            *)
Executing(a) == {job[t] : t \in {u \in Threads : self[u] = a /\ job[u] # None}}

(* The batch size read at the top of the loop stays backed by the queue:   *)
(* as long as the flag is held nobody else takes jobs, so no call of       *)
(* Execute inside the loop finds the queue empty (ActorScheduler.cpp:82).  *)
BatchBacked ==
  \A t \in Threads : left[t] > 0 => left[t] <= count[self[t]]

(* The flag taken by exchange(true) in Dispatch and in Schedule is held by *)
(* one of them at a time, and it is taken only while a holder is there.    *)
FlagHasOneHolder ==
  \A a \in Actors :
    /\ \A t, u \in Threads : Holds(t, a) /\ Holds(u, a) => t = u
    /\ \A t \in Threads : ~(DispatchHolds(t, a) /\ ScheduleHolds(t, a))
    /\ acquired[a] <=> \E t \in Threads : Holds(t, a)

(* Somebody will still look at the queue of a: a thread is on the way to   *)
(* scheduling it, has its completion in hand, or is inside its batch.      *)
InHand(a) == \E t \in Threads : self[t] = a /\ pc[t] \in {"owner", "lock"}

Attended(a) ==
  \/ port[a] > 0
  \/ InHand(a)
  \/ \E t \in Threads : \/ DispatchHolds(t, a)
                        \/ /\ tgt[t] = a
                           /\ pc[t] \in {"register", "own", "acquire", "post"}

(* A job is left behind in the queue with nobody attending to it only when *)
(* the last completion of the actor was thrown away by Dispatch (no owner, *)
(* or the flag was still held by the Schedule that posted it) or could not *)
(* be queued; a Schedule that loses the race for the flag never does it.   *)
StrandedOnlyIfLost ==
  \A a \in Actors : count[a] > 0 => Attended(a) \/ lost[a]

(* Whatever an actor accepts is executed, or a completion was lost.        *)
WorkIsDoneOrLost ==
  \A a \in Actors : (queue[a] # << >>) ~> (queue[a] = << >> \/ lost[a])

(* The executor is a set of serial mailboxes.                              *)
Mailbox == INSTANCE SerialMailbox
             WITH mailbox <- queue,
                  running <- [a \in Actors |-> Executing(a)]

ImplementsMailbox == Mailbox!Spec
=============================================================================

----------------------------- MODULE ScopedActor -----------------------------
(***************************************************************************)
(* ScopedActor: an actor whose jobs run while the flags of several plain   *)
(* actors, its members, are held.  Its own Schedule bypasses the flag, so  *)
(* every Register queues a completion; a dispatcher that takes one spins   *)
(* for the flags of the members in the order of their seeds, gives all of  *)
(* them back when it fails on one, and discards the completion.            *)
(*                                                                         *)
(* The members are the actors of ActorSystem, whose steps go on between    *)
(* the steps of this module: the two contend for acquired[a].  Jobs of the *)
(* scoped actor are counted, not named.  mAcquireIndex is one variable for *)
(* all dispatchers of a scoped actor: as soon as two of them are inside    *)
(* TryAcquire .. Release (overlapped) each works on the other's index, and *)
(* nothing is promised any more; the model stops there.                    *)
(***************************************************************************)
EXTENDS ActorSystem

CONSTANTS
  Scopes,      \* the scoped actors
  Args,        \* Args[s]: the actors given to the constructor
  Seed,        \* Seed[a]: Actor::mSeed
  ScopedPosts  \* bound: how many jobs are posted to scoped actors

ASSUME ScopedAssumption ==
  /\ Args \in [Scopes -> Seq(Actors) \ {<< >>}]
  /\ Seed \in [Actors -> Nat]
  /\ \A a, b \in Actors : Seed[a] = Seed[b] => a = b
  /\ ScopedPosts \in Nat
  /\ None \notin Scopes

VARIABLES
  jobs,       \* jobs[s]: mJobQueue.mCount
  index,      \* index[s]: mAcquireIndex + 1, so 0 is "none"
  sowned,     \* sowned[s]: the overlapped of s has its owner
  sport,      \* sport[s]: completions of s inside the port
  posts,      \* jobs posted to scoped actors so far
  at,         \* at[t]: where the thread is in code of a scoped actor
  scope,      \* scope[t]: the scoped actor it dispatches
  goal, back, \* the scoped actor it schedules, and where that returns to
  i,          \* the loop index of tryAcquireAll and Release
  todo,       \* loop iterations left in Dispatch
  slost,      \* history: as lost, for scoped actors
  starved,    \* history: the latest Schedule of a lost the flag to a scope
  overlapped  \* history: two dispatchers were inside one scoped actor

svars  == <<jobs, index, sowned, sport, posts, at, scope, goal, back, i, todo,
            slost, starved, overlapped>>
allvars == <<vars, svars>>

(* The constructor: std::unique drops equal neighbours only, and is called *)
(* before std::sort.  Of equal actors that are left, either may be first.  *)
Unique(args) == {k \in DOMAIN args : k > 1 => args[k - 1] # args[k]}

Before(args, j, k) == \/ Seed[args[j]] < Seed[args[k]]
                      \/ args[j] = args[k] /\ j < k

Place(args, k) == 1 + Cardinality({j \in Unique(args) : Before(args, j, k)})

Members ==
  [s \in Scopes |->
     [n \in 1..Cardinality(Unique(Args[s])) |->
        Args[s][CHOOSE k \in Unique(Args[s]) : Place(Args[s], k) = n]]]

ScopedInit ==
  /\ Init
  /\ jobs   = [s \in Scopes |-> 0]
  /\ index  = [s \in Scopes |-> 0]
  /\ sowned = [s \in Scopes |-> FALSE]
  /\ sport  = [s \in Scopes |-> 0]
  /\ posts  = 0
  /\ at     = [t \in Threads |-> "no"]
  /\ scope  = [t \in Threads |-> None]
  /\ goal   = [t \in Threads |-> None]
  /\ back   = [t \in Threads |-> "no"]
  /\ i      = [t \in Threads |-> 0]
  /\ todo   = [t \in Threads |-> 0]
  /\ slost  = [s \in Scopes |-> FALSE]
  /\ starved = [a \in Actors |-> FALSE]
  /\ overlapped = FALSE

At(t, from, to) == at[t] = from /\ at' = [at EXCEPT ![t] = to]

-----------------------------------------------------------------------------
(* Post, Register, and Schedule with bBypassAcquire.                       *)

ScopedReturn(t, from) ==
  /\ At(t, from, back[t])
  /\ goal' = [goal EXCEPT ![t] = None]
  /\ back' = [back EXCEPT ![t] = "no"]

ScopedPost(t, s) ==
  /\ UserCode(t)
  /\ at[t] \in {"no", "run"}
  /\ posts < ScopedPosts
  /\ posts' = posts + 1
  /\ jobs' = [jobs EXCEPT ![s] = @ + 1]
  /\ at' = [at EXCEPT ![t] = "register"]
  /\ back' = [back EXCEPT ![t] = at[t]]
  /\ goal' = [goal EXCEPT ![t] = s]
  /\ UNCHANGED <<vars, index, sowned, sport, scope, i, todo,
                 slost, starved, overlapped>>

(* Wrong on purpose: "more than one job left" instead of "any job left".   *)
ScopedRegisterOffByOne(t) ==
  /\ at[t] = "register"
  /\ IF jobs[goal[t]] > 1
       THEN At(t, "register", "own") /\ UNCHANGED <<goal, back>>
       ELSE ScopedReturn(t, "register")
  /\ UNCHANGED <<vars, jobs, index, sowned, sport, posts, scope, i, todo,
                 slost, starved, overlapped>>

ScopedRegister(t) ==
  /\ at[t] = "register"
  /\ IF jobs[goal[t]] > 0
       THEN At(t, "register", "own") /\ UNCHANGED <<goal, back>>
       ELSE ScopedReturn(t, "register")
  /\ UNCHANGED <<vars, jobs, index, sowned, sport, posts, scope, i, todo,
                 slost, starved, overlapped>>

ScopedSetOwner(t) ==
  /\ At(t, "own", "post")
  /\ sowned' = [sowned EXCEPT ![goal[t]] = TRUE]
  /\ UNCHANGED <<vars, jobs, index, sport, posts, scope, goal, back, i, todo,
                 slost, starved, overlapped>>

ScopedPostCompletion(t) ==
  /\ ScopedReturn(t, "post")
  /\ sport' = [sport EXCEPT ![goal[t]] = @ + 1]
  /\ slost' = [slost EXCEPT ![goal[t]] = FALSE]
  /\ UNCHANGED <<vars, jobs, index, sowned, posts, scope, i, todo,
                 starved, overlapped>>

ScopedPostFails(t) ==
  /\ failures < PostFailures
  /\ failures' = failures + 1
  /\ ScopedReturn(t, "post")
  /\ slost' = [slost EXCEPT ![goal[t]] = TRUE]
  /\ UNCHANGED <<queue, count, acquired, owned, port, fresh, delayed, local,
                 lost, jobs, index, sowned, sport, posts, scope, i, todo,
                 starved, overlapped>>

-----------------------------------------------------------------------------
(* ActorScheduler::Dispatch on a scoped actor.                             *)

TakeScopedCompletion(t, s) ==
  /\ t \in Dispatchers
  /\ pc[t] = "idle"
  /\ sport[s] > 0
  /\ At(t, "no", "owner")
  /\ sport' = [sport EXCEPT ![s] = @ - 1]
  /\ scope' = [scope EXCEPT ![t] = s]
  /\ UNCHANGED <<vars, jobs, index, sowned, posts, goal, back, i, todo,
                 slost, starved, overlapped>>

(* u is between the call of TryAcquire and the end of Release on s.        *)
Inside(u, s) ==
  /\ scope[u] = s
  /\ \/ at[u] \in {"try", "undo", "batch", "exec", "run", "clear", "unlock"}
     \/ at[u] \in {"register", "own", "post"} /\ back[u] = "run"

(* The completion is discarded; Dispatch goes on to the wheel.             *)
Discard(t, from) ==
  /\ At(t, from, "no")
  /\ pc' = [pc EXCEPT ![t] = "tick"]
  /\ scope' = [scope EXCEPT ![t] = None]
  /\ slost' = [slost EXCEPT ![scope[t]] = TRUE]

ScopedGetOwner(t) ==
  /\ at[t] = "owner"
  /\ IF sowned[scope[t]]
       THEN /\ At(t, "owner", "try")
            /\ i' = [i EXCEPT ![t] = 1]
            /\ overlapped' = (\E u \in Threads : Inside(u, scope[t]))
            /\ UNCHANGED <<pc, scope, slost>>
       ELSE Discard(t, "owner") /\ UNCHANGED <<i, overlapped>>
  /\ UNCHANGED <<shared, tgt, ret, self, left, job, lost, jobs, index, sowned,
                 sport, posts, goal, back, todo, starved>>

(* One round of tryAcquireAll on member i: the flag is won, or SpinCount   *)
(* attempts have failed and mAcquireIndex tells whether i is held.  (Going *)
(* on to spin changes nothing.)                                            *)
TryMember(t) ==
  LET s == scope[t]  a == Members[s][i[t]]
      reached == IF acquired[a] THEN index[s] ELSE i[t]
  IN
  /\ at[t] = "try"
  /\ acquired' = [acquired EXCEPT ![a] = TRUE]
  /\ index' = [index EXCEPT ![s] = reached]
  /\ \/ /\ reached # i[t]
        /\ at' = [at EXCEPT ![t] = "undo"]
        /\ i' = [i EXCEPT ![t] = reached]
     \/ /\ reached = i[t]
        /\ i[t] < Len(Members[s])
        /\ i' = [i EXCEPT ![t] = @ + 1]
        /\ UNCHANGED at
     \/ /\ reached = i[t]
        /\ i[t] = Len(Members[s])
        /\ at' = [at EXCEPT ![t] = "batch"]
        /\ UNCHANGED i
  /\ UNCHANGED <<queue, count, owned, port, fresh, delayed, failures, local,
                 lost, jobs, sowned, sport, posts, scope, goal, back, todo,
                 slost, starved, overlapped>>

(* Wrong on purpose: the first member is not given back.                   *)
ReleaseAllButFirst(t) ==
  /\ at[t] \in {"undo", "unlock"}
  /\ i[t] > 0
  /\ acquired' = IF i[t] = 1 THEN acquired
                 ELSE [acquired EXCEPT ![Members[scope[t]][i[t]]] = FALSE]
  /\ i' = [i EXCEPT ![t] = @ - 1]
  /\ UNCHANGED <<queue, count, owned, port, fresh, delayed, failures, local,
                 lost, jobs, index, sowned, sport, posts, at, scope, goal, back,
                 todo, slost, starved, overlapped>>

(* One round of the loop of Release, from the last member to the first.    *)
ReleaseMember(t) ==
  /\ at[t] \in {"undo", "unlock"}
  /\ i[t] > 0
  /\ acquired' = [acquired EXCEPT ![Members[scope[t]][i[t]]] = FALSE]
  /\ i' = [i EXCEPT ![t] = @ - 1]
  /\ UNCHANGED <<queue, count, owned, port, fresh, delayed, failures, local,
                 lost, jobs, index, sowned, sport, posts, at, scope, goal, back,
                 todo, slost, starved, overlapped>>

(* The end of Release: TryAcquire has failed, or Dispatch calls Register.  *)
ReleaseEnds(t) ==
  /\ at[t] \in {"undo", "unlock"}
  /\ i[t] = 0
  /\ index' = [index EXCEPT ![scope[t]] = 0]
  /\ \/ Discard(t, "undo") /\ UNCHANGED <<goal, back>>
     \/ /\ At(t, "unlock", "register")
        /\ pc' = [pc EXCEPT ![t] = "tick"]
        /\ goal' = [goal EXCEPT ![t] = scope[t]]
        /\ scope' = [scope EXCEPT ![t] = None]
        /\ UNCHANGED <<back, slost>>
  /\ UNCHANGED <<shared, tgt, ret, self, left, job, lost, jobs, sowned, sport,
                 posts, i, todo, starved, overlapped>>

ScopedBatch(t) ==
  /\ At(t, "batch", "exec")
  /\ todo' = [todo EXCEPT ![t] = BatchSize(jobs[scope[t]])]
  /\ UNCHANGED <<vars, jobs, index, sowned, sport, posts, scope, goal, back, i,
                 slost, starved, overlapped>>

(* While the job runs the thread may Post, to members and to others.       *)
ScopedExecute(t) ==
  /\ todo[t] > 0
  /\ At(t, "exec", "run")
  /\ todo' = [todo EXCEPT ![t] = @ - 1]
  /\ jobs' = [jobs EXCEPT ![scope[t]] = @ - 1]
  /\ pc' = [pc EXCEPT ![t] = "run"]
  /\ UNCHANGED <<shared, tgt, ret, self, left, job, lost, index, sowned, sport,
                 posts, scope, goal, back, i, slost, starved, overlapped>>

ScopedFinish(t) ==
  /\ pc[t] = "run"
  /\ At(t, "run", "exec")
  /\ pc' = [pc EXCEPT ![t] = "idle"]
  /\ UNCHANGED <<shared, tgt, ret, self, left, job, lost, jobs, index, sowned,
                 sport, posts, scope, goal, back, i, todo, slost, starved,
                 overlapped>>

ScopedEndBatch(t) ==
  /\ todo[t] = 0
  /\ At(t, "exec", "clear")
  /\ UNCHANGED <<vars, jobs, index, sowned, sport, posts, scope, goal, back, i,
                 todo, slost, starved, overlapped>>

ScopedClearOverlapped(t) ==
  /\ At(t, "clear", "unlock")
  /\ sowned' = [sowned EXCEPT ![scope[t]] = FALSE]
  /\ i' = [i EXCEPT ![t] = index[scope[t]]]
  /\ UNCHANGED <<vars, jobs, index, sport, posts, scope, goal, back, todo,
                 slost, starved, overlapped>>

-----------------------------------------------------------------------------
ScopedStep(t) ==
  \/ ScopedRegister(t)       \/ ScopedSetOwner(t)
  \/ ScopedPostCompletion(t) \/ ScopedPostFails(t)
  \/ ScopedGetOwner(t)       \/ TryMember(t)
  \/ ReleaseMember(t)        \/ ReleaseEnds(t)
  \/ ScopedBatch(t)          \/ ScopedExecute(t)
  \/ ScopedFinish(t)         \/ ScopedEndBatch(t)
  \/ ScopedClearOverlapped(t)

(* t dispatches a scoped actor and has won the flag of its member a.       *)
ScopeHolds(t, a) ==
  \E s \in Scopes :
    /\ Inside(t, s)
    /\ \E k \in DOMAIN Members[s] :
         /\ Members[s][k] = a
         /\ k <= IF at[t] \in {"undo", "unlock"} THEN i[t] ELSE index[s]

(* The steps of ActorSystem; a job of a scoped actor may post.             *)
ActorStep(t) ==
  /\ \/ /\ at[t] \in {"no", "run"}
        /\ \/ \E j \in Jobs : PushJob(t, j) \/ RefuseJob(t, j) \/ PostDelay(t, j)
           \/ ScheduleStep(t)
     \/ /\ at[t] = "no"
        /\ \/ DispatchStep(t)
           \/ \E a \in Actors : TakeCompletion(t, a)
           \/ TimeSlice(t) /\ \A s \in Scopes : sport[s] = 0
  /\ starved' = [a \in Actors |->
       /\ port'[a] <= port[a]
       /\ \/ starved[a]
          \/ /\ pc[t] = "acquire" /\ tgt[t] = a
             /\ \E u \in Threads : ScopeHolds(u, a)]
  /\ UNCHANGED <<jobs, index, sowned, sport, posts, at, scope, goal, back, i,
                 todo, slost, overlapped>>

ScopedNext ==
  \/ /\ ~overlapped
     /\ \E t \in Threads :
          \/ ActorStep(t)
          \/ ScopedStep(t)
          \/ \E s \in Scopes : ScopedPost(t, s) \/ TakeScopedCompletion(t, s)
  \/ overlapped /\ UNCHANGED allvars

ScopedSpec == ScopedInit /\ [][ScopedNext]_allvars

-----------------------------------------------------------------------------
(* Properties, as long as the dispatches of a scoped actor do not overlap. *)

(* The flag of an actor is held by one Dispatch, one Schedule or one scope *)
(* at a time and is taken only while a holder is there: a scope that gives *)
(* up half way returns every flag it won and no other, and while a job of  *)
(* a scope runs, the scope holds every member.                             *)
Owns(t, a) == Holds(t, a) \/ ScopeHolds(t, a)

MembersExclusive ==
  ~overlapped =>
    /\ \A a \in Actors :
         /\ \A t, u \in Threads : Owns(t, a) /\ Owns(u, a) => t = u
         /\ \A t \in Threads : ~(Holds(t, a) /\ ScopeHolds(t, a))
         /\ acquired[a] <=> \E t \in Threads : Owns(t, a)
    /\ \A t \in Threads : \A s \in Scopes :
         at[t] = "run" /\ scope[t] = s =>
           \A k \in DOMAIN Members[s] : ScopeHolds(t, Members[s][k])

(* Nobody who lost a flag is forgotten without one of the known reasons: a *)
(* completion was discarded or not queued, or a Schedule of a member lost  *)
(* its flag to a scope, whose Release does not call the member's Register. *)
ScopeAttended(s) ==
  \/ sport[s] > 0
  \/ \E t \in Threads : \/ scope[t] = s
                        \/ goal[t] = s

StrandedOnlyIfLostOrHeld ==
  ~overlapped =>
    /\ \A a \in Actors : count[a] > 0 => Attended(a) \/ lost[a] \/ starved[a]
    /\ \A s \in Scopes : jobs[s] > 0 => ScopeAttended(s) \/ slost[s]
==============================================================================

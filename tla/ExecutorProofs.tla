---------------------------- MODULE ExecutorProofs ----------------------------
(***************************************************************************)
(* Theorems about the executor, for any number of actors, threads and      *)
(* jobs, any batch limit, any queue limit and any number of failed         *)
(* PostQueuedCompletionStatus calls; and about its scoped actors, for any  *)
(* scopes and seeds: what the constructor makes of its arguments, who      *)
(* holds a flag, and whose work is forgotten.  The last part is about the  *)
(* timing wheel that the threads of the executor turn: for levels of any   *)
(* sizes and any delays a timer is handed out at its tick, once, and a     *)
(* cancelled one never runs.                                               *)
(***************************************************************************)
EXTENDS ScopedActor, TimingWheel, FiniteSetTheorems, TLAPS

(* A thread inside Post, Register or Schedule knows its actor; a thread    *)
(* inside a Dispatch, or with loop iterations left, knows the actor it     *)
(* dispatches; only a batch being executed has iterations left.            *)
Located ==
  \A t \in Threads :
    /\ pc[t] \in ScheduleSteps => tgt[t] \in Actors
    /\ pc[t] \in DispatchSteps => self[t] \in Actors
    /\ pc[t] \in ScheduleSteps /\ ret[t] = "run" => self[t] \in Actors
    /\ left[t] > 0 => \/ pc[t] \in {"exec", "run"}
                      \/ pc[t] \in ScheduleSteps /\ ret[t] = "run"

(* Enqueuers between the link of their node and their fetch_add.           *)
Uncounted(a) == {t \in Threads : pc[t] = "count" /\ tgt[t] = a}

(* mCount trails the linked nodes by exactly the enqueuers not done yet.   *)
CountTrailsLinks ==
  \A a \in Actors : /\ count[a] \in Nat
                    /\ Len(queue[a]) = count[a] + Cardinality(Uncounted(a))

IInv == TypeOK /\ Located /\ CountTrailsLinks /\ FlagHasOneHolder /\ BatchBacked

-----------------------------------------------------------------------------
LEMMA InitIInv == Init => IInv
<1> SUFFICES ASSUME Init PROVE IInv
  OBVIOUS
<1> USE DEF Init
<1>1. TypeOK
  BY ConstantsAssumption DEF TypeOK, Labels
<1>2. Located
  BY DEF Located, ScheduleSteps, DispatchSteps
<1>3. CountTrailsLinks
  <2> SUFFICES ASSUME NEW a \in Actors
               PROVE  /\ count[a] \in Nat
                      /\ Len(queue[a]) = count[a] + Cardinality(Uncounted(a))
    BY DEF CountTrailsLinks
  <2>1. Uncounted(a) = {}
    BY DEF Uncounted
  <2>2. Cardinality(Uncounted(a)) = 0
    BY <2>1, FS_EmptySet
  <2>3. count[a] = 0 /\ Len(queue[a]) = 0
    OBVIOUS
  <2> QED
    BY <2>2, <2>3
<1>4. FlagHasOneHolder
  BY DEF FlagHasOneHolder, Holds, DispatchHolds, ScheduleHolds, ScheduleSteps
<1>5. BatchBacked
  BY DEF BatchBacked
<1> QED
  BY <1>1, <1>2, <1>3, <1>4, <1>5 DEF IInv

-----------------------------------------------------------------------------
(* The labels, one by one.                                                 *)
LEMMA LabelFacts ==
  /\ "count" \in Labels
  /\ "register" \in Labels
  /\ "own" \in Labels
  /\ "acquire" \in Labels
  /\ "post" \in Labels
  /\ "release" \in Labels
  /\ "owner" \in Labels
  /\ "lock" \in Labels
  /\ "batch" \in Labels
  /\ "exec" \in Labels
  /\ "run" \in Labels
  /\ "clear" \in Labels
  /\ "unlock" \in Labels
  /\ "idle" \in Labels
  /\ "tick" \in Labels
<1>1. ScheduleSteps \subseteq Labels /\ DispatchSteps \subseteq Labels
  BY DEF Labels
<1>2. "idle" \in Labels /\ "tick" \in Labels
  BY DEF Labels
<1> QED
  BY <1>1, <1>2 DEF ScheduleSteps, DispatchSteps

(* Whoever sees a positive count finds a node, although counts trail.      *)
LEMMA CountedJobIsLinked ==
  ASSUME TypeOK, CountTrailsLinks
  PROVE  \A a \in Actors : /\ count[a] \in Nat
                           /\ count[a] > 0 => queue[a] # << >>
<1> SUFFICES ASSUME NEW a \in Actors
             PROVE  /\ count[a] \in Nat
                    /\ count[a] > 0 => queue[a] # << >>
  OBVIOUS
<1>1. IsFiniteSet(Uncounted(a))
  BY ConstantsAssumption, FS_Subset DEF Uncounted
<1>2. Cardinality(Uncounted(a)) \in Nat
  BY <1>1, FS_CardinalityType
<1>3. count[a] \in Nat /\ Len(queue[a]) = count[a] + Cardinality(Uncounted(a))
  BY DEF CountTrailsLinks
<1>4. queue[a] = << >> => Len(queue[a]) = 0
  OBVIOUS
<1> QED
  BY <1>2, <1>3, <1>4

(* A function stays in its type when a value is replaced.                  *)
LEMMA ExceptTyped ==
  ASSUME NEW S, NEW T, NEW f \in [S -> T], NEW x, NEW y \in T
  PROVE  [f EXCEPT ![x] = y] \in [S -> T]
  OBVIOUS

LEMMA TypeInv == IInv /\ [Next]_vars => TypeOK'
<1> SUFFICES ASSUME IInv, [Next]_vars PROVE TypeOK'
  OBVIOUS
<1> USE ConstantsAssumption DEF IInv, TypeOK, Go
<1>0. CASE UNCHANGED vars
  BY <1>0, LabelFacts DEF vars, shared, local
<1>1. ASSUME NEW t \in Threads, NEW j \in Jobs, PushJob(t, j) PROVE TypeOK'
  BY <1>1, LabelFacts DEF PushJob, CanPost, UserCode, shared, local
<1>2. ASSUME NEW t \in Threads, NEW j \in Jobs, RefuseJob(t, j) PROVE TypeOK'
  BY <1>2, LabelFacts DEF RefuseJob, CanPost, UserCode, shared, local
<1>3. ASSUME NEW t \in Threads, NEW j \in Jobs, PostDelay(t, j) PROVE TypeOK'
  BY <1>3, LabelFacts DEF PostDelay, UserCode, shared, local
<1>4. ASSUME NEW t \in Threads, CountJob(t) PROVE TypeOK'
  <2>1. tgt[t] \in Actors /\ pc' \in [Threads -> Labels]
    BY <1>4, LabelFacts DEF CountJob, Located, ScheduleSteps
  <2> QED
    BY <1>4, <2>1 DEF CountJob
<1>5. ASSUME NEW t \in Threads, Register(t) PROVE TypeOK'
  <2>1. pc' \in [Threads -> Labels]
    <3>1. \/ pc' = [pc EXCEPT ![t] = ret[t]]
          \/ pc' = [pc EXCEPT ![t] = "own"]
      BY <1>5 DEF Register, Stay, Return
    <3>2. ret[t] \in Labels
      BY LabelFacts
    <3>3. pc \in [Threads -> Labels]
      OBVIOUS
    <3> HIDE DEF IInv, TypeOK
    <3> QED
      BY <3>1, <3>2, <3>3, LabelFacts, ExceptTyped
  <2> QED
    BY <1>5, <2>1 DEF Register, Stay, Return, shared
<1>6. ASSUME NEW t \in Threads, SetOwner(t) PROVE TypeOK'
  BY <1>6, LabelFacts DEF SetOwner, Stay, shared, local
<1>7. ASSUME NEW t \in Threads, ScheduleAcquire(t) PROVE TypeOK'
  <2>1. pc' \in [Threads -> Labels]
    <3>1. \/ pc' = [pc EXCEPT ![t] = ret[t]]
          \/ pc' = [pc EXCEPT ![t] = "post"]
      BY <1>7 DEF ScheduleAcquire, Stay, Return
    <3>2. ret[t] \in Labels
      BY LabelFacts
    <3>3. pc \in [Threads -> Labels]
      OBVIOUS
    <3> HIDE DEF IInv, TypeOK
    <3> QED
      BY <3>1, <3>2, <3>3, LabelFacts, ExceptTyped
  <2>2. acquired' \in [Actors -> BOOLEAN]
    BY <1>7 DEF ScheduleAcquire
  <2>3. tgt' \in [Threads -> Actors \cup {None}] /\ ret' \in [Threads -> {"idle", "run", "tick"}]
    <3>1. \/ UNCHANGED <<tgt, ret>>
          \/ tgt' = [tgt EXCEPT ![t] = None] /\ ret' = [ret EXCEPT ![t] = "idle"]
      BY <1>7 DEF ScheduleAcquire, Stay, Return
    <3>2. /\ tgt \in [Threads -> Actors \cup {None}]
          /\ ret \in [Threads -> {"idle", "run", "tick"}]
      OBVIOUS
    <3> HIDE DEF IInv, TypeOK
    <3> QED
      BY <3>1, <3>2, ExceptTyped
  <2> QED
    BY <1>7, <2>1, <2>2, <2>3 DEF ScheduleAcquire
<1>8. ASSUME NEW t \in Threads, PostCompletion(t) PROVE TypeOK'
  <2>1. tgt[t] \in Actors /\ pc' \in [Threads -> Labels]
    BY <1>8, LabelFacts DEF PostCompletion, Located, ScheduleSteps
  <2> QED
    BY <1>8, <2>1 DEF PostCompletion
<1>9. ASSUME NEW t \in Threads, PostCompletionFails(t) PROVE TypeOK'
  <2>1. tgt[t] \in Actors /\ pc' \in [Threads -> Labels]
    BY <1>9, LabelFacts DEF PostCompletionFails, Located, ScheduleSteps
  <2> QED
    BY <1>9, <2>1 DEF PostCompletionFails
<1>10. ASSUME NEW t \in Threads, ScheduleRelease(t) PROVE TypeOK'
  BY <1>10, LabelFacts DEF ScheduleRelease, Return, shared, local
<1>11. ASSUME NEW t \in Threads, NEW a \in Actors, TakeCompletion(t, a) PROVE TypeOK'
  BY <1>11, LabelFacts DEF TakeCompletion, shared, local
<1>12. ASSUME NEW t \in Threads, TimeSlice(t) PROVE TypeOK'
  BY <1>12, LabelFacts DEF TimeSlice, shared, local
<1>13. ASSUME NEW t \in Threads, GetOwner(t) PROVE TypeOK'
  <2>1. pc' \in [Threads -> Labels]
    BY <1>13, LabelFacts DEF GetOwner
  <2> QED
    BY <1>13, <2>1 DEF GetOwner, shared
<1>14. ASSUME NEW t \in Threads, DispatchAcquire(t) PROVE TypeOK'
  <2>1. pc' \in [Threads -> Labels]
    BY <1>14, LabelFacts DEF DispatchAcquire
  <2>2. acquired' \in [Actors -> BOOLEAN] /\ lost' \in [Actors -> BOOLEAN]
    BY <1>14 DEF DispatchAcquire
  <2> QED
    BY <1>14, <2>1, <2>2 DEF DispatchAcquire
<1>15. ASSUME NEW t \in Threads, ReadBatch(t) PROVE TypeOK'
  <2>1. self[t] \in Actors /\ count[self[t]] \in Nat
    BY <1>15, CountedJobIsLinked DEF ReadBatch, Located, DispatchSteps
  <2> QED
    BY <1>15, <2>1, LabelFacts DEF ReadBatch, BatchSize, shared
<1>16. ASSUME NEW t \in Threads, Execute(t) PROVE TypeOK'
  <2> PICK a \in Actors : a = self[t]
    BY <1>16, SMTT(30) DEF Execute, Located, DispatchSteps
  <2>1. left[t] \in Nat /\ left[t] - 1 \in Nat
    BY <1>16, SMTT(30) DEF Execute
  <2>2. pc' \in [Threads -> Labels]
    <3>1. \E l \in {"run", "exec"} : pc' = [pc EXCEPT ![t] = l]
      BY <1>16 DEF Execute
    <3>2. pc \in [Threads -> Labels]
      OBVIOUS
    <3> HIDE DEF IInv, TypeOK
    <3> QED
      BY <3>1, <3>2, LabelFacts, ExceptTyped
  <2>3. CASE count[a] > 0
    <3>1. queue[a] \in Seq(Jobs) /\ queue[a] # << >>
      BY <2>1, <2>3, CountedJobIsLinked
    <3>2. Head(queue[a]) \in Jobs /\ Tail(queue[a]) \in Seq(Jobs)
      BY <3>1
    <3>3. /\ queue' = [queue EXCEPT ![a] = Tail(queue[a])]
          /\ job' = [job EXCEPT ![t] = Head(queue[a])]
          /\ left' = [left EXCEPT ![t] = left[t] - 1]
          /\ count' = [count EXCEPT ![a] = count[a] - 1]
          /\ UNCHANGED <<acquired, owned, port, fresh, delayed, failures,
                         tgt, ret, self, lost>>
      BY <1>16, <2>3 DEF Execute
    <3>4. queue' \in [Actors -> Seq(Jobs)] /\ count' \in [Actors -> Int]
      <4>1. /\ queue \in [Actors -> Seq(Jobs)]
            /\ count \in [Actors -> Int]
            /\ count[a] - 1 \in Int
        OBVIOUS
      <4> HIDE DEF IInv, TypeOK
      <4> QED
        BY <3>2, <3>3, <4>1, ExceptTyped
    <3>5. job' \in [Threads -> Jobs \cup {None}] /\ left' \in [Threads -> Nat]
      BY <2>1, <3>2, <3>3
    <3> QED
      BY <2>2, <3>3, <3>4, <3>5
  <2>4. CASE ~(count[a] > 0)
    BY <1>16, <2>1, <2>2, <2>4 DEF Execute
  <2> QED
    BY <2>3, <2>4
<1>17. ASSUME NEW t \in Threads, FinishJob(t) PROVE TypeOK'
  BY <1>17, LabelFacts DEF FinishJob, shared, local
<1>18. ASSUME NEW t \in Threads, EndBatch(t) PROVE TypeOK'
  BY <1>18, LabelFacts DEF EndBatch, shared, local
<1>19. ASSUME NEW t \in Threads, ClearActorOverlapped(t) PROVE TypeOK'
  BY <1>19, LabelFacts DEF ClearActorOverlapped, shared, local
<1>20. ASSUME NEW t \in Threads, DispatchRelease(t) PROVE TypeOK'
  BY <1>20, LabelFacts DEF DispatchRelease, shared, local
<1>21. ASSUME NEW t \in Threads, EndTick(t) PROVE TypeOK'
  BY <1>21, LabelFacts DEF EndTick, shared, local
<1> QED
  BY <1>0, <1>1, <1>2, <1>3, <1>4, <1>5, <1>6, <1>7, <1>8, <1>9, <1>10, <1>11,
     <1>12, <1>13, <1>14, <1>15, <1>16, <1>17, <1>18, <1>19, <1>20, <1>21
  DEF Next, ScheduleStep, DispatchStep

LEMMA LocatedInv == IInv /\ [Next]_vars => Located'
<1> SUFFICES ASSUME IInv, [Next]_vars PROVE Located'
  OBVIOUS
<1> USE ConstantsAssumption DEF IInv, TypeOK, Located, ScheduleSteps, DispatchSteps, Go
<1>0. CASE UNCHANGED vars
  BY <1>0 DEF vars, shared, local
<1>1. ASSUME NEW t \in Threads, NEW j \in Jobs, PushJob(t, j) PROVE Located'
  BY <1>1 DEF PushJob, CanPost, UserCode, shared, local
<1>2. ASSUME NEW t \in Threads, NEW j \in Jobs, RefuseJob(t, j) PROVE Located'
  BY <1>2 DEF RefuseJob, CanPost, UserCode, shared, local
<1>3. ASSUME NEW t \in Threads, NEW j \in Jobs, PostDelay(t, j) PROVE Located'
  BY <1>3 DEF PostDelay, UserCode, shared, local
<1>4. ASSUME NEW t \in Threads, CountJob(t) PROVE Located'
  BY <1>4 DEF CountJob, shared, local
<1>5. ASSUME NEW t \in Threads, Register(t) PROVE Located'
  BY <1>5 DEF Register, Stay, Return, shared, local
<1>6. ASSUME NEW t \in Threads, SetOwner(t) PROVE Located'
  BY <1>6 DEF SetOwner, Stay, shared, local
<1>7. ASSUME NEW t \in Threads, ScheduleAcquire(t) PROVE Located'
  BY <1>7 DEF ScheduleAcquire, Stay, Return, shared, local
<1>8. ASSUME NEW t \in Threads, PostCompletion(t) PROVE Located'
  BY <1>8 DEF PostCompletion, shared, local
<1>9. ASSUME NEW t \in Threads, PostCompletionFails(t) PROVE Located'
  BY <1>9 DEF PostCompletionFails, shared, local
<1>10. ASSUME NEW t \in Threads, ScheduleRelease(t) PROVE Located'
  BY <1>10 DEF ScheduleRelease, Return, shared, local
<1>11. ASSUME NEW t \in Threads, NEW a \in Actors, TakeCompletion(t, a) PROVE Located'
  BY <1>11 DEF TakeCompletion, shared, local
<1>12. ASSUME NEW t \in Threads, TimeSlice(t) PROVE Located'
  BY <1>12 DEF TimeSlice, shared, local
<1>13. ASSUME NEW t \in Threads, GetOwner(t) PROVE Located'
  BY <1>13 DEF GetOwner, shared, local
<1>14. ASSUME NEW t \in Threads, DispatchAcquire(t) PROVE Located'
  BY <1>14 DEF DispatchAcquire, shared, local
<1>15. ASSUME NEW t \in Threads, ReadBatch(t) PROVE Located'
  BY <1>15 DEF ReadBatch, BatchSize, shared, local
<1>16. ASSUME NEW t \in Threads, Execute(t) PROVE Located'
  BY <1>16, SMTT(30) DEF Execute, shared, local
<1>17. ASSUME NEW t \in Threads, FinishJob(t) PROVE Located'
  BY <1>17 DEF FinishJob, shared, local
<1>18. ASSUME NEW t \in Threads, EndBatch(t) PROVE Located'
  BY <1>18 DEF EndBatch, shared, local
<1>19. ASSUME NEW t \in Threads, ClearActorOverlapped(t) PROVE Located'
  BY <1>19 DEF ClearActorOverlapped, shared, local
<1>20. ASSUME NEW t \in Threads, DispatchRelease(t) PROVE Located'
  BY <1>20 DEF DispatchRelease, shared, local
<1>21. ASSUME NEW t \in Threads, EndTick(t) PROVE Located'
  BY <1>21 DEF EndTick, shared, local
<1> QED
  BY <1>0, <1>1, <1>2, <1>3, <1>4, <1>5, <1>6, <1>7, <1>8, <1>9, <1>10, <1>11,
     <1>12, <1>13, <1>14, <1>15, <1>16, <1>17, <1>18, <1>19, <1>20, <1>21
  DEF Next, ScheduleStep, DispatchStep

LEMMA BatchInv == IInv /\ [Next]_vars => BatchBacked'
<1> SUFFICES ASSUME IInv, [Next]_vars PROVE BatchBacked'
  OBVIOUS
<1> USE ConstantsAssumption DEF IInv, TypeOK, Located, BatchBacked, ScheduleSteps, DispatchSteps, Go
<1>0. CASE UNCHANGED vars
  BY <1>0 DEF vars, shared, local
<1>1. ASSUME NEW t \in Threads, NEW j \in Jobs, PushJob(t, j) PROVE BatchBacked'
  BY <1>1 DEF PushJob, CanPost, UserCode, shared, local
<1>2. ASSUME NEW t \in Threads, NEW j \in Jobs, RefuseJob(t, j) PROVE BatchBacked'
  BY <1>2 DEF RefuseJob, CanPost, UserCode, shared, local
<1>3. ASSUME NEW t \in Threads, NEW j \in Jobs, PostDelay(t, j) PROVE BatchBacked'
  BY <1>3 DEF PostDelay, UserCode, shared, local
<1>4. ASSUME NEW t \in Threads, CountJob(t) PROVE BatchBacked'
  BY <1>4 DEF CountJob, shared, local
<1>5. ASSUME NEW t \in Threads, Register(t) PROVE BatchBacked'
  BY <1>5 DEF Register, Stay, Return, shared, local
<1>6. ASSUME NEW t \in Threads, SetOwner(t) PROVE BatchBacked'
  BY <1>6 DEF SetOwner, Stay, shared, local
<1>7. ASSUME NEW t \in Threads, ScheduleAcquire(t) PROVE BatchBacked'
  BY <1>7 DEF ScheduleAcquire, Stay, Return, shared, local
<1>8. ASSUME NEW t \in Threads, PostCompletion(t) PROVE BatchBacked'
  BY <1>8 DEF PostCompletion, shared, local
<1>9. ASSUME NEW t \in Threads, PostCompletionFails(t) PROVE BatchBacked'
  BY <1>9 DEF PostCompletionFails, shared, local
<1>10. ASSUME NEW t \in Threads, ScheduleRelease(t) PROVE BatchBacked'
  BY <1>10 DEF ScheduleRelease, Return, shared, local
<1>11. ASSUME NEW t \in Threads, NEW a \in Actors, TakeCompletion(t, a) PROVE BatchBacked'
  BY <1>11 DEF TakeCompletion, shared, local
<1>12. ASSUME NEW t \in Threads, TimeSlice(t) PROVE BatchBacked'
  BY <1>12 DEF TimeSlice, shared, local
<1>13. ASSUME NEW t \in Threads, GetOwner(t) PROVE BatchBacked'
  BY <1>13 DEF GetOwner, shared, local
<1>14. ASSUME NEW t \in Threads, DispatchAcquire(t) PROVE BatchBacked'
  BY <1>14 DEF DispatchAcquire, shared, local
<1>15. ASSUME NEW t \in Threads, ReadBatch(t) PROVE BatchBacked'
  BY <1>15 DEF ReadBatch, BatchSize, shared, local
<1>16. ASSUME NEW t \in Threads, Execute(t) PROVE BatchBacked'
  <2> DEFINE a == self[t]
  <2>1. a \in Actors /\ left[t] - 1 \in Nat /\ count[a] > 0
    BY <1>16, SMTT(30) DEF Execute
  <2>2. \A u \in Threads : left[u] > 0 /\ self[u] = a => u = t
    BY <1>16, <2>1 DEF Execute, FlagHasOneHolder, Holds, DispatchHolds
  <2>3. /\ count' = [count EXCEPT ![a] = @ - 1]
        /\ left' = [left EXCEPT ![t] = @ - 1]
        /\ self' = self
    BY <1>16, <2>1 DEF Execute
  <2> QED
    BY <2>1, <2>2, <2>3
<1>17. ASSUME NEW t \in Threads, FinishJob(t) PROVE BatchBacked'
  BY <1>17 DEF FinishJob, shared, local
<1>18. ASSUME NEW t \in Threads, EndBatch(t) PROVE BatchBacked'
  BY <1>18 DEF EndBatch, shared, local
<1>19. ASSUME NEW t \in Threads, ClearActorOverlapped(t) PROVE BatchBacked'
  BY <1>19 DEF ClearActorOverlapped, shared, local
<1>20. ASSUME NEW t \in Threads, DispatchRelease(t) PROVE BatchBacked'
  BY <1>20 DEF DispatchRelease, shared, local
<1>21. ASSUME NEW t \in Threads, EndTick(t) PROVE BatchBacked'
  BY <1>21 DEF EndTick, shared, local
<1> QED
  BY <1>0, <1>1, <1>2, <1>3, <1>4, <1>5, <1>6, <1>7, <1>8, <1>9, <1>10, <1>11,
     <1>12, <1>13, <1>14, <1>15, <1>16, <1>17, <1>18, <1>19, <1>20, <1>21
  DEF Next, ScheduleStep, DispatchStep

LEMMA CountInv == IInv /\ [Next]_vars => CountTrailsLinks'
<1> SUFFICES ASSUME IInv, [Next]_vars PROVE CountTrailsLinks'
  OBVIOUS
<1> USE ConstantsAssumption DEF IInv, TypeOK, Located, CountTrailsLinks, ScheduleSteps, DispatchSteps, Go
<1>0. CASE UNCHANGED vars
  <2>1. \A a \in Actors : Uncounted(a)' = Uncounted(a)
    BY <1>0 DEF Uncounted, vars, local
  <2> QED
    BY <1>0, <2>1 DEF vars, shared
<1>1. ASSUME NEW t \in Threads, NEW j \in Jobs, PushJob(t, j) PROVE CountTrailsLinks'
  <2> PICK b \in Actors : b = Target[j]
    OBVIOUS
  <2>1. t \notin Uncounted(b) /\ IsFiniteSet(Uncounted(b))
    BY <1>1, FS_Subset DEF PushJob, CanPost, UserCode, Uncounted
  <2>2. \A a \in Actors : Uncounted(a)' = IF a = b THEN Uncounted(b) \cup {t} ELSE Uncounted(a)
    BY <1>1 DEF PushJob, CanPost, UserCode, Uncounted
  <2>3. /\ Cardinality(Uncounted(b)) \in Nat
        /\ Cardinality(Uncounted(b)') = Cardinality(Uncounted(b)) + 1
    <3>1. Uncounted(b)' = Uncounted(b) \cup {t}
      BY <2>2
    <3>2. Cardinality(Uncounted(b) \cup {t}) = Cardinality(Uncounted(b)) + 1
      BY <2>1, FS_AddElement
    <3> QED
      BY <2>1, <3>1, <3>2, FS_CardinalityType
  <2>4. \A a \in Actors : Len(queue'[a]) = IF a = b THEN Len(queue[b]) + 1 ELSE Len(queue[a])
    BY <1>1, <2>1 DEF PushJob
  <2> QED
    BY <1>1, <2>2, <2>3, <2>4 DEF PushJob
<1>2. ASSUME NEW t \in Threads, NEW j \in Jobs, RefuseJob(t, j) PROVE CountTrailsLinks'
  <2>1. \A a \in Actors : Uncounted(a)' = Uncounted(a)
    BY <1>2 DEF Uncounted, RefuseJob, CanPost, UserCode, shared, local
  <2> QED
    BY <1>2, <2>1 DEF RefuseJob, CanPost, UserCode, shared, local
<1>3. ASSUME NEW t \in Threads, NEW j \in Jobs, PostDelay(t, j) PROVE CountTrailsLinks'
  <2>1. \A a \in Actors : Uncounted(a)' = Uncounted(a)
    BY <1>3 DEF Uncounted, PostDelay, UserCode, shared, local
  <2> QED
    BY <1>3, <2>1 DEF PostDelay, UserCode, shared, local
<1>4. ASSUME NEW t \in Threads, CountJob(t) PROVE CountTrailsLinks'
  <2> PICK b \in Actors : b = tgt[t]
    BY <1>4 DEF CountJob
  <2>1. t \in Uncounted(b) /\ IsFiniteSet(Uncounted(b))
    BY <1>4, FS_Subset DEF CountJob, Uncounted
  <2>2. \A a \in Actors : Uncounted(a)' = IF a = b THEN Uncounted(b) \ {t} ELSE Uncounted(a)
    BY <1>4 DEF CountJob, Uncounted
  <2>3. /\ Cardinality(Uncounted(b)) \in Nat
        /\ Cardinality(Uncounted(b)') = Cardinality(Uncounted(b)) - 1
    <3>1. Uncounted(b)' = Uncounted(b) \ {t}
      BY <2>2
    <3>2. Cardinality(Uncounted(b) \ {t}) = Cardinality(Uncounted(b)) - 1
      BY <2>1, FS_RemoveElement
    <3> QED
      BY <2>1, <3>1, <3>2, FS_CardinalityType
  <2> QED
    BY <1>4, <2>1, <2>2, <2>3, SMTT(30) DEF CountJob
<1>5. ASSUME NEW t \in Threads, Register(t) PROVE CountTrailsLinks'
  <2>1. \A a \in Actors : Uncounted(a)' = Uncounted(a)
    BY <1>5 DEF Uncounted, Register, Stay, Return, shared, local
  <2> QED
    BY <1>5, <2>1 DEF Register, Stay, Return, shared, local
<1>6. ASSUME NEW t \in Threads, SetOwner(t) PROVE CountTrailsLinks'
  <2>1. \A a \in Actors : Uncounted(a)' = Uncounted(a)
    BY <1>6 DEF Uncounted, SetOwner, Stay, shared, local
  <2> QED
    BY <1>6, <2>1 DEF SetOwner, Stay, shared, local
<1>7. ASSUME NEW t \in Threads, ScheduleAcquire(t) PROVE CountTrailsLinks'
  <2>1. \A a \in Actors : Uncounted(a)' = Uncounted(a)
    BY <1>7 DEF Uncounted, ScheduleAcquire, Stay, Return, shared, local
  <2> QED
    BY <1>7, <2>1 DEF ScheduleAcquire, Stay, Return, shared, local
<1>8. ASSUME NEW t \in Threads, PostCompletion(t) PROVE CountTrailsLinks'
  <2>1. \A a \in Actors : Uncounted(a)' = Uncounted(a)
    BY <1>8 DEF Uncounted, PostCompletion, shared, local
  <2> QED
    BY <1>8, <2>1 DEF PostCompletion, shared, local
<1>9. ASSUME NEW t \in Threads, PostCompletionFails(t) PROVE CountTrailsLinks'
  <2>1. \A a \in Actors : Uncounted(a)' = Uncounted(a)
    BY <1>9 DEF Uncounted, PostCompletionFails, shared, local
  <2> QED
    BY <1>9, <2>1 DEF PostCompletionFails, shared, local
<1>10. ASSUME NEW t \in Threads, ScheduleRelease(t) PROVE CountTrailsLinks'
  <2>1. \A a \in Actors : Uncounted(a)' = Uncounted(a)
    BY <1>10 DEF Uncounted, ScheduleRelease, Return, shared, local
  <2> QED
    BY <1>10, <2>1 DEF ScheduleRelease, Return, shared, local
<1>11. ASSUME NEW t \in Threads, NEW a \in Actors, TakeCompletion(t, a) PROVE CountTrailsLinks'
  <2>1. \A b \in Actors : Uncounted(b)' = Uncounted(b)
    BY <1>11 DEF Uncounted, TakeCompletion, shared, local
  <2> QED
    BY <1>11, <2>1 DEF TakeCompletion, shared, local
<1>12. ASSUME NEW t \in Threads, TimeSlice(t) PROVE CountTrailsLinks'
  <2>1. \A a \in Actors : Uncounted(a)' = Uncounted(a)
    BY <1>12 DEF Uncounted, TimeSlice, shared, local
  <2> QED
    BY <1>12, <2>1 DEF TimeSlice, shared, local
<1>13. ASSUME NEW t \in Threads, GetOwner(t) PROVE CountTrailsLinks'
  <2>1. \A a \in Actors : Uncounted(a)' = Uncounted(a)
    BY <1>13 DEF Uncounted, GetOwner, shared, local
  <2> QED
    BY <1>13, <2>1 DEF GetOwner, shared, local
<1>14. ASSUME NEW t \in Threads, DispatchAcquire(t) PROVE CountTrailsLinks'
  <2>1. \A a \in Actors : Uncounted(a)' = Uncounted(a)
    BY <1>14 DEF Uncounted, DispatchAcquire, shared, local
  <2> QED
    BY <1>14, <2>1 DEF DispatchAcquire, shared, local
<1>15. ASSUME NEW t \in Threads, ReadBatch(t) PROVE CountTrailsLinks'
  <2>1. \A a \in Actors : Uncounted(a)' = Uncounted(a)
    BY <1>15 DEF Uncounted, ReadBatch, BatchSize, shared, local
  <2> QED
    BY <1>15, <2>1 DEF ReadBatch, BatchSize, shared, local
<1>16. ASSUME NEW t \in Threads, Execute(t) PROVE CountTrailsLinks'
  <2> PICK b \in Actors : b = self[t]
    BY <1>16 DEF Execute
  <2>1. pc' \in {[pc EXCEPT ![t] = "run"], pc} /\ tgt' = tgt /\ pc[t] = "exec"
    BY <1>16 DEF Execute
  <2>2. \A a \in Actors : Uncounted(a)' = Uncounted(a)
    BY <2>1 DEF Uncounted
  <2>3. CASE count[b] > 0
    <3>1. queue[b] \in Seq(Jobs) /\ queue[b] # << >>
      BY <2>3, CountedJobIsLinked
    <3>2. Len(Tail(queue[b])) = Len(queue[b]) - 1
      BY <3>1
    <3>3. Cardinality(Uncounted(b)) \in Nat
      BY FS_Subset, FS_CardinalityType DEF Uncounted
    <3>4. /\ queue' = [queue EXCEPT ![b] = Tail(queue[b])]
          /\ count' = [count EXCEPT ![b] = count[b] - 1]
      BY <1>16, <2>3 DEF Execute
    <3> SUFFICES ASSUME NEW a \in Actors
                 PROVE  /\ count'[a] \in Nat
                        /\ Len(queue'[a]) = count'[a] + Cardinality(Uncounted(a)')
      BY DEF CountTrailsLinks
    <3>5. Uncounted(a)' = Uncounted(a)
      BY <2>2
    <3>6. CASE a = b
      <4>1. queue'[a] = Tail(queue[b]) /\ count'[a] = count[b] - 1
        BY <3>4, <3>6
      <4>2. count[b] \in Nat /\ Len(queue[b]) = count[b] + Cardinality(Uncounted(b))
        OBVIOUS
      <4>3. Cardinality(Uncounted(a)') = Cardinality(Uncounted(b))
        BY <3>5, <3>6
      <4>4. count'[a] \in Nat
        BY <2>3, <4>1, <4>2, SMTT(30)
      <4>5. Len(queue'[a]) = Len(queue[b]) - 1
        BY <3>2, <4>1
      <4> QED
        BY <3>3, <4>1, <4>2, <4>3, <4>4, <4>5, SMTT(30)
    <3>7. CASE a # b
      <4>1. queue'[a] = queue[a] /\ count'[a] = count[a]
        BY <3>4, <3>7
      <4> QED
        BY <3>5, <4>1
    <3> QED
      BY <3>6, <3>7
  <2>4. CASE ~(count[b] > 0)
    BY <1>16, <2>2, <2>4 DEF Execute
  <2> QED
    BY <2>3, <2>4
<1>17. ASSUME NEW t \in Threads, FinishJob(t) PROVE CountTrailsLinks'
  <2>1. \A a \in Actors : Uncounted(a)' = Uncounted(a)
    BY <1>17 DEF Uncounted, FinishJob, shared, local
  <2> QED
    BY <1>17, <2>1 DEF FinishJob, shared, local
<1>18. ASSUME NEW t \in Threads, EndBatch(t) PROVE CountTrailsLinks'
  <2>1. \A a \in Actors : Uncounted(a)' = Uncounted(a)
    BY <1>18 DEF Uncounted, EndBatch, shared, local
  <2> QED
    BY <1>18, <2>1 DEF EndBatch, shared, local
<1>19. ASSUME NEW t \in Threads, ClearActorOverlapped(t) PROVE CountTrailsLinks'
  <2>1. \A a \in Actors : Uncounted(a)' = Uncounted(a)
    BY <1>19 DEF Uncounted, ClearActorOverlapped, shared, local
  <2> QED
    BY <1>19, <2>1 DEF ClearActorOverlapped, shared, local
<1>20. ASSUME NEW t \in Threads, DispatchRelease(t) PROVE CountTrailsLinks'
  <2>1. \A a \in Actors : Uncounted(a)' = Uncounted(a)
    BY <1>20 DEF Uncounted, DispatchRelease, shared, local
  <2> QED
    BY <1>20, <2>1 DEF DispatchRelease, shared, local
<1>21. ASSUME NEW t \in Threads, EndTick(t) PROVE CountTrailsLinks'
  <2>1. \A a \in Actors : Uncounted(a)' = Uncounted(a)
    BY <1>21 DEF Uncounted, EndTick, shared, local
  <2> QED
    BY <1>21, <2>1 DEF EndTick, shared, local
<1> QED
  BY <1>0, <1>1, <1>2, <1>3, <1>4, <1>5, <1>6, <1>7, <1>8, <1>9, <1>10, <1>11,
     <1>12, <1>13, <1>14, <1>15, <1>16, <1>17, <1>18, <1>19, <1>20, <1>21
  DEF Next, ScheduleStep, DispatchStep

(* Steps that neither touch mbAcquire nor let a thread pass one of its two *)
(* exchanges, and the steps that take the flag or free it.                 *)
LEMMA FlagKept ==
  ASSUME FlagHasOneHolder, acquired' = acquired,
         \A u \in Threads, a \in Actors :
           /\ DispatchHolds(u, a)' <=> DispatchHolds(u, a)
           /\ ScheduleHolds(u, a)' <=> ScheduleHolds(u, a)
  PROVE  FlagHasOneHolder'
BY DEF FlagHasOneHolder, Holds

LocksFlag(t, b) ==
  /\ ~acquired[b]
  /\ acquired' = [acquired EXCEPT ![b] = TRUE]
  /\ \A u \in Threads, a \in Actors :
       /\ Holds(u, a)' <=> Holds(u, a) \/ (u = t /\ a = b)
       /\ ~Holds(u, a) => ~(DispatchHolds(u, a)' /\ ScheduleHolds(u, a)')
       /\ Holds(u, a) => /\ DispatchHolds(u, a)' <=> DispatchHolds(u, a)
                         /\ ScheduleHolds(u, a)' <=> ScheduleHolds(u, a)

UnlocksFlag(t, b) ==
  /\ Holds(t, b)
  /\ acquired' = [acquired EXCEPT ![b] = FALSE]
  /\ \A u \in Threads, a \in Actors :
       /\ Holds(u, a)' <=> Holds(u, a) /\ ~(u = t /\ a = b)
       /\ ~(u = t /\ a = b) => /\ DispatchHolds(u, a)' <=> DispatchHolds(u, a)
                              /\ ScheduleHolds(u, a)' <=> ScheduleHolds(u, a)

LEMMA FlagTaken ==
  ASSUME FlagHasOneHolder, TypeOK,
         NEW t \in Threads, NEW b \in Actors, LocksFlag(t, b)
  PROVE  FlagHasOneHolder'
<1> USE DEF LocksFlag, TypeOK
<1> SUFFICES ASSUME NEW a \in Actors
             PROVE  /\ \A u, v \in Threads : Holds(u, a)' /\ Holds(v, a)' => u = v
                    /\ \A u \in Threads : ~(DispatchHolds(u, a)' /\ ScheduleHolds(u, a)')
                    /\ acquired'[a] <=> \E u \in Threads : Holds(u, a)'
  BY DEF FlagHasOneHolder
<1>1. \A u \in Threads : a = b => ~Holds(u, a)
  BY DEF FlagHasOneHolder
<1>2. \A u, v \in Threads : Holds(u, a)' /\ Holds(v, a)' => u = v
  BY <1>1 DEF FlagHasOneHolder
<1>3. \A u \in Threads : ~(DispatchHolds(u, a)' /\ ScheduleHolds(u, a)')
  BY DEF FlagHasOneHolder
<1>4. acquired'[a] <=> \E u \in Threads : Holds(u, a)'
  <2>1. CASE a = b
    BY <2>1
  <2>2. CASE a # b
    BY <2>2 DEF FlagHasOneHolder
  <2> QED
    BY <2>1, <2>2
<1> QED
  BY <1>2, <1>3, <1>4

LEMMA FlagFreed ==
  ASSUME FlagHasOneHolder, TypeOK,
         NEW t \in Threads, NEW b \in Actors, UnlocksFlag(t, b)
  PROVE  FlagHasOneHolder'
<1> USE DEF UnlocksFlag, TypeOK
<1> SUFFICES ASSUME NEW a \in Actors
             PROVE  /\ \A u, v \in Threads : Holds(u, a)' /\ Holds(v, a)' => u = v
                    /\ \A u \in Threads : ~(DispatchHolds(u, a)' /\ ScheduleHolds(u, a)')
                    /\ acquired'[a] <=> \E u \in Threads : Holds(u, a)'
  BY DEF FlagHasOneHolder
<1>1. \A u \in Threads : Holds(u, b) => u = t
  BY DEF FlagHasOneHolder
<1>2. \A u, v \in Threads : Holds(u, a)' /\ Holds(v, a)' => u = v
  BY DEF FlagHasOneHolder
<1>3. \A u \in Threads : ~(DispatchHolds(u, a)' /\ ScheduleHolds(u, a)')
  BY DEF FlagHasOneHolder, Holds
<1>4. acquired'[a] <=> \E u \in Threads : Holds(u, a)'
  <2>1. CASE a = b
    BY <1>1, <2>1
  <2>2. CASE a # b
    BY <2>2 DEF FlagHasOneHolder
  <2> QED
    BY <2>1, <2>2
<1> QED
  BY <1>2, <1>3, <1>4

LEMMA FlagInv == IInv /\ [Next]_vars => FlagHasOneHolder'
<1> SUFFICES ASSUME IInv, [Next]_vars PROVE FlagHasOneHolder'
  OBVIOUS
<1> USE ConstantsAssumption DEF IInv, TypeOK, Located, ScheduleSteps, DispatchSteps, Go
<1>0. CASE UNCHANGED vars
  BY <1>0, FlagKept DEF vars, shared, local, DispatchHolds, ScheduleHolds
<1>1. ASSUME NEW t \in Threads, NEW j \in Jobs, PushJob(t, j) PROVE FlagHasOneHolder'
  <2>1. \A u \in Threads, a \in Actors :
          /\ DispatchHolds(u, a)' <=> DispatchHolds(u, a)
          /\ ScheduleHolds(u, a)' <=> ScheduleHolds(u, a)
    BY <1>1, SMTT(30) DEF PushJob, CanPost, UserCode, shared, local,
       DispatchHolds, ScheduleHolds
  <2> QED
    BY <1>1, <2>1, FlagKept DEF PushJob, shared
<1>2. ASSUME NEW t \in Threads, NEW j \in Jobs, RefuseJob(t, j) PROVE FlagHasOneHolder'
  <2>1. \A u \in Threads, a \in Actors :
          /\ DispatchHolds(u, a)' <=> DispatchHolds(u, a)
          /\ ScheduleHolds(u, a)' <=> ScheduleHolds(u, a)
    BY <1>2 DEF RefuseJob, CanPost, UserCode, shared, local, DispatchHolds,
       ScheduleHolds
  <2> QED
    BY <1>2, <2>1, FlagKept DEF RefuseJob, shared
<1>3. ASSUME NEW t \in Threads, NEW j \in Jobs, PostDelay(t, j) PROVE FlagHasOneHolder'
  <2>1. \A u \in Threads, a \in Actors :
          /\ DispatchHolds(u, a)' <=> DispatchHolds(u, a)
          /\ ScheduleHolds(u, a)' <=> ScheduleHolds(u, a)
    BY <1>3 DEF PostDelay, UserCode, shared, local, DispatchHolds,
       ScheduleHolds
  <2> QED
    BY <1>3, <2>1, FlagKept DEF PostDelay, shared
<1>4. ASSUME NEW t \in Threads, CountJob(t) PROVE FlagHasOneHolder'
  <2>1. \A u \in Threads, a \in Actors :
          /\ DispatchHolds(u, a)' <=> DispatchHolds(u, a)
          /\ ScheduleHolds(u, a)' <=> ScheduleHolds(u, a)
    BY <1>4 DEF CountJob, shared, local, DispatchHolds, ScheduleHolds
  <2> QED
    BY <1>4, <2>1, FlagKept DEF CountJob, shared
<1>5. ASSUME NEW t \in Threads, Register(t) PROVE FlagHasOneHolder'
  <2>1. /\ pc[t] = "register"
        /\ \/ pc' = [pc EXCEPT ![t] = "own"] /\ UNCHANGED <<tgt, ret>>
           \/ /\ pc' = [pc EXCEPT ![t] = ret[t]]
              /\ tgt' = [tgt EXCEPT ![t] = None]
              /\ ret' = [ret EXCEPT ![t] = "idle"]
        /\ UNCHANGED <<self, acquired>>
    BY <1>5 DEF Register, Stay, Return, shared
  <2>2. \A u \in Threads, a \in Actors :
          /\ DispatchHolds(u, a)' <=> DispatchHolds(u, a)
          /\ ScheduleHolds(u, a)' <=> ScheduleHolds(u, a)
    BY <2>1, SMTT(30) DEF DispatchHolds, ScheduleHolds
  <2> QED
    BY <2>1, <2>2, FlagKept
<1>6. ASSUME NEW t \in Threads, SetOwner(t) PROVE FlagHasOneHolder'
  <2>1. \A u \in Threads, a \in Actors :
          /\ DispatchHolds(u, a)' <=> DispatchHolds(u, a)
          /\ ScheduleHolds(u, a)' <=> ScheduleHolds(u, a)
    BY <1>6 DEF SetOwner, Stay, shared, local, DispatchHolds, ScheduleHolds
  <2> QED
    BY <1>6, <2>1, FlagKept DEF SetOwner, shared
<1>7. ASSUME NEW t \in Threads, ScheduleAcquire(t) PROVE FlagHasOneHolder'
  <2> PICK b \in Actors : b = tgt[t]
    BY <1>7 DEF ScheduleAcquire
  <2>1. CASE acquired[b]
    <3>1. /\ pc[t] = "acquire"
          /\ pc' = [pc EXCEPT ![t] = ret[t]]
          /\ tgt' = [tgt EXCEPT ![t] = None]
          /\ ret' = [ret EXCEPT ![t] = "idle"]
          /\ self' = self /\ acquired' = acquired
      BY <1>7, <2>1 DEF ScheduleAcquire, Return
    <3>2. \A u \in Threads, a \in Actors :
          /\ DispatchHolds(u, a)' <=> DispatchHolds(u, a)
          /\ ScheduleHolds(u, a)' <=> ScheduleHolds(u, a)
      BY <3>1 DEF DispatchHolds, ScheduleHolds
    <3> QED
      BY <3>1, <3>2, FlagKept
  <2>2. CASE ~acquired[b]
    <3>1. /\ pc[t] = "acquire"
          /\ pc' = [pc EXCEPT ![t] = "post"]
          /\ UNCHANGED <<tgt, ret, self>>
          /\ acquired' = [acquired EXCEPT ![b] = TRUE]
      BY <1>7, <2>2 DEF ScheduleAcquire, Stay
    <3>2. \A u \in Threads, a \in Actors :
            /\ DispatchHolds(u, a)' <=> DispatchHolds(u, a)
            /\ ScheduleHolds(u, a)' <=> ScheduleHolds(u, a) \/ (u = t /\ a = b)
      BY <3>1 DEF DispatchHolds, ScheduleHolds
    <3>3. \A u \in Threads : ~Holds(u, b)
      BY <2>2 DEF FlagHasOneHolder
    <3>4. \A u \in Threads, a \in Actors :
            Holds(u, a)' <=> Holds(u, a) \/ (u = t /\ a = b)
      BY <3>2 DEF Holds
    <3>5. \A u \in Threads, a \in Actors :
            ~Holds(u, a) => ~(DispatchHolds(u, a)' /\ ScheduleHolds(u, a)')
      BY <3>2 DEF Holds
    <3>6. \A u \in Threads, a \in Actors : Holds(u, a) =>
            /\ DispatchHolds(u, a)' <=> DispatchHolds(u, a)
            /\ ScheduleHolds(u, a)' <=> ScheduleHolds(u, a)
      BY <3>2, <3>3
    <3>7. LocksFlag(t, b)
      BY <2>2, <3>1, <3>4, <3>5, <3>6 DEF LocksFlag
    <3> QED
      BY <3>7, FlagTaken
  <2> QED
    BY <2>1, <2>2
<1>8. ASSUME NEW t \in Threads, PostCompletion(t) PROVE FlagHasOneHolder'
  <2>1. \A u \in Threads, a \in Actors :
          /\ DispatchHolds(u, a)' <=> DispatchHolds(u, a)
          /\ ScheduleHolds(u, a)' <=> ScheduleHolds(u, a)
    BY <1>8 DEF PostCompletion, shared, local, DispatchHolds, ScheduleHolds
  <2> QED
    BY <1>8, <2>1, FlagKept DEF PostCompletion, shared
<1>9. ASSUME NEW t \in Threads, PostCompletionFails(t) PROVE FlagHasOneHolder'
  <2>1. \A u \in Threads, a \in Actors :
          /\ DispatchHolds(u, a)' <=> DispatchHolds(u, a)
          /\ ScheduleHolds(u, a)' <=> ScheduleHolds(u, a)
    BY <1>9 DEF PostCompletionFails, shared, local, DispatchHolds,
       ScheduleHolds
  <2> QED
    BY <1>9, <2>1, FlagKept DEF PostCompletionFails, shared
<1>10. ASSUME NEW t \in Threads, ScheduleRelease(t) PROVE FlagHasOneHolder'
  <2> PICK b \in Actors : b = tgt[t]
    BY <1>10 DEF ScheduleRelease, Return
  <2>1. /\ pc[t] = "release"
        /\ pc' = [pc EXCEPT ![t] = ret[t]]
        /\ tgt' = [tgt EXCEPT ![t] = None]
        /\ ret' = [ret EXCEPT ![t] = "idle"]
        /\ self' = self
        /\ acquired' = [acquired EXCEPT ![b] = FALSE]
    BY <1>10 DEF ScheduleRelease, Return
  <2>2. ScheduleHolds(t, b) /\ ~DispatchHolds(t, b)
    BY <2>1 DEF FlagHasOneHolder, ScheduleHolds
  <2>3. \A u \in Threads, a \in Actors :
          /\ DispatchHolds(u, a)' <=> DispatchHolds(u, a)
          /\ ScheduleHolds(u, a)' <=> ScheduleHolds(u, a) /\ ~(u = t /\ a = b)
    BY <2>1 DEF DispatchHolds, ScheduleHolds
  <2>4. Holds(t, b)
    BY <2>2 DEF Holds
  <2>5. \A u \in Threads, a \in Actors :
          Holds(u, a)' <=> Holds(u, a) /\ ~(u = t /\ a = b)
    BY <2>2, <2>3 DEF Holds
  <2>6. \A u \in Threads, a \in Actors : ~(u = t /\ a = b) =>
          /\ DispatchHolds(u, a)' <=> DispatchHolds(u, a)
          /\ ScheduleHolds(u, a)' <=> ScheduleHolds(u, a)
    BY <2>3
  <2>7. UnlocksFlag(t, b)
    BY <2>1, <2>4, <2>5, <2>6 DEF UnlocksFlag
  <2> QED
    BY <2>7, FlagFreed
<1>11. ASSUME NEW t \in Threads, NEW a \in Actors, TakeCompletion(t, a) PROVE FlagHasOneHolder'
  <2>1. \A u \in Threads, c \in Actors :
          /\ DispatchHolds(u, c)' <=> DispatchHolds(u, c)
          /\ ScheduleHolds(u, c)' <=> ScheduleHolds(u, c)
    BY <1>11 DEF TakeCompletion, shared, local, DispatchHolds, ScheduleHolds
  <2> QED
    BY <1>11, <2>1, FlagKept DEF TakeCompletion, shared
<1>12. ASSUME NEW t \in Threads, TimeSlice(t) PROVE FlagHasOneHolder'
  <2>1. \A u \in Threads, a \in Actors :
          /\ DispatchHolds(u, a)' <=> DispatchHolds(u, a)
          /\ ScheduleHolds(u, a)' <=> ScheduleHolds(u, a)
    BY <1>12 DEF TimeSlice, shared, local, DispatchHolds, ScheduleHolds
  <2> QED
    BY <1>12, <2>1, FlagKept DEF TimeSlice, shared
<1>13. ASSUME NEW t \in Threads, GetOwner(t) PROVE FlagHasOneHolder'
  <2>1. \A u \in Threads, a \in Actors :
          /\ DispatchHolds(u, a)' <=> DispatchHolds(u, a)
          /\ ScheduleHolds(u, a)' <=> ScheduleHolds(u, a)
    BY <1>13, SMTT(30) DEF GetOwner, shared, local, DispatchHolds,
       ScheduleHolds
  <2> QED
    BY <1>13, <2>1, FlagKept DEF GetOwner, shared
<1>14. ASSUME NEW t \in Threads, DispatchAcquire(t) PROVE FlagHasOneHolder'
  <2> PICK b \in Actors : b = self[t]
    BY <1>14 DEF DispatchAcquire
  <2>1. CASE acquired[b]
    <3>1. /\ pc[t] = "lock"
          /\ pc' = [pc EXCEPT ![t] = "tick"]
          /\ UNCHANGED <<tgt, ret, self>> /\ acquired' = acquired
      BY <1>14, <2>1 DEF DispatchAcquire
    <3>2. \A u \in Threads, a \in Actors :
          /\ DispatchHolds(u, a)' <=> DispatchHolds(u, a)
          /\ ScheduleHolds(u, a)' <=> ScheduleHolds(u, a)
      BY <3>1 DEF DispatchHolds, ScheduleHolds
    <3> QED
      BY <3>1, <3>2, FlagKept
  <2>2. CASE ~acquired[b]
    <3>1. /\ pc[t] = "lock"
          /\ pc' = [pc EXCEPT ![t] = "batch"]
          /\ UNCHANGED <<tgt, ret, self>>
          /\ acquired' = [acquired EXCEPT ![b] = TRUE]
      BY <1>14, <2>2 DEF DispatchAcquire
    <3>2. \A u \in Threads, a \in Actors :
            /\ DispatchHolds(u, a)' <=> DispatchHolds(u, a) \/ (u = t /\ a = b)
            /\ ScheduleHolds(u, a)' <=> ScheduleHolds(u, a)
      BY <3>1 DEF DispatchHolds, ScheduleHolds
    <3>3. \A u \in Threads : ~Holds(u, b)
      BY <2>2 DEF FlagHasOneHolder
    <3>4. \A u \in Threads, a \in Actors :
            Holds(u, a)' <=> Holds(u, a) \/ (u = t /\ a = b)
      BY <3>2 DEF Holds
    <3>5. \A u \in Threads, a \in Actors :
            ~Holds(u, a) => ~(DispatchHolds(u, a)' /\ ScheduleHolds(u, a)')
      BY <3>2 DEF Holds
    <3>6. \A u \in Threads, a \in Actors : Holds(u, a) =>
            /\ DispatchHolds(u, a)' <=> DispatchHolds(u, a)
            /\ ScheduleHolds(u, a)' <=> ScheduleHolds(u, a)
      BY <3>2, <3>3
    <3>7. LocksFlag(t, b)
      BY <2>2, <3>1, <3>4, <3>5, <3>6 DEF LocksFlag
    <3> QED
      BY <3>7, FlagTaken
  <2> QED
    BY <2>1, <2>2
<1>15. ASSUME NEW t \in Threads, ReadBatch(t) PROVE FlagHasOneHolder'
  <2>1. \A u \in Threads, a \in Actors :
          /\ DispatchHolds(u, a)' <=> DispatchHolds(u, a)
          /\ ScheduleHolds(u, a)' <=> ScheduleHolds(u, a)
    BY <1>15 DEF ReadBatch, BatchSize, shared, local, DispatchHolds,
       ScheduleHolds
  <2> QED
    BY <1>15, <2>1, FlagKept DEF ReadBatch, shared
<1>16. ASSUME NEW t \in Threads, Execute(t) PROVE FlagHasOneHolder'
  <2>1. /\ pc[t] = "exec"
        /\ pc' = [pc EXCEPT ![t] = "run"] \/ pc' = [pc EXCEPT ![t] = "exec"]
        /\ UNCHANGED <<tgt, ret, self, acquired>>
    BY <1>16 DEF Execute
  <2>2. \A u \in Threads, a \in Actors :
          /\ DispatchHolds(u, a)' <=> DispatchHolds(u, a)
          /\ ScheduleHolds(u, a)' <=> ScheduleHolds(u, a)
    BY <2>1 DEF DispatchHolds, ScheduleHolds
  <2> QED
    BY <2>1, <2>2, FlagKept
<1>17. ASSUME NEW t \in Threads, FinishJob(t) PROVE FlagHasOneHolder'
  <2>1. \A u \in Threads, a \in Actors :
          /\ DispatchHolds(u, a)' <=> DispatchHolds(u, a)
          /\ ScheduleHolds(u, a)' <=> ScheduleHolds(u, a)
    BY <1>17 DEF FinishJob, shared, local, DispatchHolds, ScheduleHolds
  <2> QED
    BY <1>17, <2>1, FlagKept DEF FinishJob, shared
<1>18. ASSUME NEW t \in Threads, EndBatch(t) PROVE FlagHasOneHolder'
  <2>1. \A u \in Threads, a \in Actors :
          /\ DispatchHolds(u, a)' <=> DispatchHolds(u, a)
          /\ ScheduleHolds(u, a)' <=> ScheduleHolds(u, a)
    BY <1>18 DEF EndBatch, shared, local, DispatchHolds, ScheduleHolds
  <2> QED
    BY <1>18, <2>1, FlagKept DEF EndBatch, shared
<1>19. ASSUME NEW t \in Threads, ClearActorOverlapped(t) PROVE FlagHasOneHolder'
  <2>1. \A u \in Threads, a \in Actors :
          /\ DispatchHolds(u, a)' <=> DispatchHolds(u, a)
          /\ ScheduleHolds(u, a)' <=> ScheduleHolds(u, a)
    BY <1>19 DEF ClearActorOverlapped, shared, local, DispatchHolds,
       ScheduleHolds
  <2> QED
    BY <1>19, <2>1, FlagKept DEF ClearActorOverlapped, shared
<1>20. ASSUME NEW t \in Threads, DispatchRelease(t) PROVE FlagHasOneHolder'
  <2> PICK b \in Actors : b = self[t]
    BY <1>20 DEF DispatchRelease
  <2>1. /\ pc[t] = "unlock"
        /\ pc' = [pc EXCEPT ![t] = "register"]
        /\ tgt' = [tgt EXCEPT ![t] = b]
        /\ ret' = [ret EXCEPT ![t] = "tick"]
        /\ self' = self
        /\ acquired' = [acquired EXCEPT ![b] = FALSE]
    BY <1>20 DEF DispatchRelease
  <2>2. DispatchHolds(t, b) /\ ~ScheduleHolds(t, b)
    BY <2>1 DEF FlagHasOneHolder, DispatchHolds
  <2>3. \A u \in Threads, a \in Actors :
          /\ DispatchHolds(u, a)' <=> DispatchHolds(u, a) /\ ~(u = t /\ a = b)
          /\ ScheduleHolds(u, a)' <=> ScheduleHolds(u, a)
    BY <2>1 DEF DispatchHolds, ScheduleHolds
  <2>4. Holds(t, b)
    BY <2>2 DEF Holds
  <2>5. \A u \in Threads, a \in Actors :
          Holds(u, a)' <=> Holds(u, a) /\ ~(u = t /\ a = b)
    BY <2>2, <2>3 DEF Holds
  <2>6. \A u \in Threads, a \in Actors : ~(u = t /\ a = b) =>
          /\ DispatchHolds(u, a)' <=> DispatchHolds(u, a)
          /\ ScheduleHolds(u, a)' <=> ScheduleHolds(u, a)
    BY <2>3
  <2>7. UnlocksFlag(t, b)
    BY <2>1, <2>4, <2>5, <2>6 DEF UnlocksFlag
  <2> QED
    BY <2>7, FlagFreed
<1>21. ASSUME NEW t \in Threads, EndTick(t) PROVE FlagHasOneHolder'
  <2>1. \A u \in Threads, a \in Actors :
          /\ DispatchHolds(u, a)' <=> DispatchHolds(u, a)
          /\ ScheduleHolds(u, a)' <=> ScheduleHolds(u, a)
    BY <1>21 DEF EndTick, shared, local, DispatchHolds, ScheduleHolds
  <2> QED
    BY <1>21, <2>1, FlagKept DEF EndTick, shared
<1> QED
  BY <1>0, <1>1, <1>2, <1>3, <1>4, <1>5, <1>6, <1>7, <1>8, <1>9, <1>10, <1>11,
     <1>12, <1>13, <1>14, <1>15, <1>16, <1>17, <1>18, <1>19, <1>20, <1>21
  DEF Next, ScheduleStep, DispatchStep

-----------------------------------------------------------------------------
(* The inductive invariant, and the theorems it gives.                     *)

LEMMA Inductive == Spec => []IInv
<1>1. IInv /\ [Next]_vars => IInv'
  BY TypeInv, LocatedInv, CountInv, FlagInv, BatchInv DEF IInv
<1> QED
  BY InitIInv, <1>1, PTL DEF Spec

(* Every variable keeps its type; in particular no dequeue is attempted on *)
(* an empty list of nodes.                                                 *)
THEOREM TypeCorrect == Spec => []TypeOK
<1>1. IInv => TypeOK
  BY DEF IInv
<1> QED
  BY Inductive, <1>1, PTL

(* mbAcquire is a lock: Dispatch and Schedule never hold it together, on   *)
(* one thread or on several.                                               *)
THEOREM FlagIsALock == Spec => []FlagHasOneHolder
<1>1. IInv => FlagHasOneHolder
  BY DEF IInv
<1> QED
  BY Inductive, <1>1, PTL

(* The batch size Dispatch computed never exceeds what is left to dequeue. *)
THEOREM BatchIsBacked == Spec => []BatchBacked
<1>1. IInv => BatchBacked
  BY DEF IInv
<1> QED
  BY Inductive, <1>1, PTL

-----------------------------------------------------------------------------
(* Nobody leaves a job behind without losing a completion.  The invariant  *)
(* is inductive together with what a Schedule that has not released the    *)
(* flag yet has done: the Schedule that loses the race against it relies   *)
(* on that.                                                                *)

ReleaseBacked ==
  \A u \in Threads : pc[u] = "release" =>
    port[tgt[u]] > 0 \/ InHand(tgt[u]) \/ lost[tgt[u]]

LEMMA StrandInv == IInv /\ ReleaseBacked /\ StrandedOnlyIfLost /\ [Next]_vars => StrandedOnlyIfLost'
<1> SUFFICES ASSUME IInv, ReleaseBacked, StrandedOnlyIfLost, [Next]_vars PROVE StrandedOnlyIfLost'
  OBVIOUS
<1> USE ConstantsAssumption DEF IInv, TypeOK, Located, StrandedOnlyIfLost, ScheduleSteps, DispatchSteps, Go
<1>0. CASE UNCHANGED vars
  <2>1. \A a \in Actors : Attended(a)' <=> Attended(a)
    BY <1>0 DEF vars, shared, local, Attended, InHand, DispatchHolds
  <2>2. count' = count /\ lost' = lost
    BY <1>0 DEF vars, shared
  <2> HIDE DEF IInv, TypeOK, Located
  <2> QED
    BY <2>1, <2>2
<1>1. ASSUME NEW t \in Threads, NEW j \in Jobs, PushJob(t, j) PROVE StrandedOnlyIfLost'
  <2> SUFFICES ASSUME NEW a \in Actors, count'[a] > 0
               PROVE  Attended(a)' \/ lost'[a]
    BY DEF StrandedOnlyIfLost
  <2> QED
    BY <1>1 DEF PushJob, CanPost, UserCode, shared, local, Attended, InHand,
       DispatchHolds, ScheduleHolds, Holds
<1>2. ASSUME NEW t \in Threads, NEW j \in Jobs, RefuseJob(t, j) PROVE StrandedOnlyIfLost'
  <2>1. \A a \in Actors : Attended(a)' <=> Attended(a)
    BY <1>2 DEF RefuseJob, local, Attended, InHand, DispatchHolds
  <2>2. count' = count /\ lost' = lost
    BY <1>2 DEF RefuseJob
  <2> HIDE DEF IInv, TypeOK, Located
  <2> QED
    BY <2>1, <2>2
<1>3. ASSUME NEW t \in Threads, NEW j \in Jobs, PostDelay(t, j) PROVE StrandedOnlyIfLost'
  <2>1. \A a \in Actors : Attended(a)' <=> Attended(a)
    BY <1>3 DEF PostDelay, local, Attended, InHand, DispatchHolds
  <2>2. count' = count /\ lost' = lost
    BY <1>3 DEF PostDelay
  <2> HIDE DEF IInv, TypeOK, Located
  <2> QED
    BY <2>1, <2>2
<1>4. ASSUME NEW t \in Threads, CountJob(t) PROVE StrandedOnlyIfLost'
  <2> SUFFICES ASSUME NEW a \in Actors, count'[a] > 0
               PROVE  Attended(a)' \/ lost'[a]
    BY DEF StrandedOnlyIfLost
  <2> QED
    BY <1>4 DEF CountJob, shared, local, Attended, InHand, DispatchHolds,
       ScheduleHolds, Holds
<1>5. ASSUME NEW t \in Threads, Register(t) PROVE StrandedOnlyIfLost'
  <2>1. /\ pc[t] = "register" /\ tgt[t] \in Actors
        /\ \/ count[tgt[t]] > 0 /\ pc' = [pc EXCEPT ![t] = "own"] /\ UNCHANGED <<tgt, ret>>
           \/ /\ ~(count[tgt[t]] > 0)
              /\ pc' = [pc EXCEPT ![t] = ret[t]]
              /\ tgt' = [tgt EXCEPT ![t] = None]
              /\ ret' = [ret EXCEPT ![t] = "idle"]
        /\ UNCHANGED <<count, port, lost, self, acquired>>
    BY <1>5 DEF Register, Stay, Return, shared
  <2> SUFFICES ASSUME NEW a \in Actors, count'[a] > 0
               PROVE  Attended(a)' \/ lost'[a]
    BY DEF StrandedOnlyIfLost
  <2>2. count[a] > 0 => Attended(a) \/ lost[a]
    OBVIOUS
  <2>3. /\ pc \in [Threads -> Labels]
        /\ tgt \in [Threads -> Actors \cup {None}]
        /\ ret \in [Threads -> {"idle", "run", "tick"}]
        /\ port \in [Actors -> Nat] /\ count \in [Actors -> Int]
        /\ lost \in [Actors -> BOOLEAN]
    OBVIOUS
  <2> HIDE DEF IInv, TypeOK, Located, StrandedOnlyIfLost
  <2> QED
    BY <2>1, <2>2, <2>3, SMTT(30) DEF Attended, InHand, DispatchHolds,
       ScheduleHolds, Holds
<1>6. ASSUME NEW t \in Threads, SetOwner(t) PROVE StrandedOnlyIfLost'
  <2> SUFFICES ASSUME NEW a \in Actors, count'[a] > 0
               PROVE  Attended(a)' \/ lost'[a]
    BY DEF StrandedOnlyIfLost
  <2> QED
    BY <1>6 DEF SetOwner, Stay, shared, local, Attended, InHand,
       DispatchHolds, ScheduleHolds, Holds
<1>7. ASSUME NEW t \in Threads, ScheduleAcquire(t) PROVE StrandedOnlyIfLost'
  <2> SUFFICES ASSUME NEW a \in Actors, count'[a] > 0
               PROVE  Attended(a)' \/ lost'[a]
    BY DEF StrandedOnlyIfLost
  <2>1. Attended(a) \/ lost[a]
    BY <1>7 DEF ScheduleAcquire
  <2>2. CASE acquired[tgt[t]]
    <3>1. /\ pc[t] = "acquire" /\ tgt[t] \in Actors
          /\ pc' = [pc EXCEPT ![t] = ret[t]]
          /\ tgt' = [tgt EXCEPT ![t] = None]
          /\ ret' = [ret EXCEPT ![t] = "idle"]
          /\ UNCHANGED <<count, port, lost, self>>
      BY <1>7, <2>2 DEF ScheduleAcquire, Return
    <3>2. CASE a = tgt[t]
      <4>1. PICK u \in Threads : Holds(u, a)
        BY <2>2, <3>2 DEF FlagHasOneHolder
      <4>2. CASE DispatchHolds(u, a)
        BY <3>1, <4>2 DEF Attended, DispatchHolds
      <4>3. CASE ScheduleHolds(u, a)
        <5>1. u # t /\ tgt[u] = a /\ pc[u] \in {"post", "release"}
          BY <3>1, <4>3 DEF ScheduleHolds
        <5>2. CASE pc[u] = "post"
          BY <3>1, <5>1, <5>2 DEF Attended
        <5>3. CASE pc[u] = "release"
          BY <3>1, <5>1, <5>3 DEF ReleaseBacked, Attended, InHand
        <5> QED
          BY <5>1, <5>2, <5>3
      <4> QED
        BY <4>1, <4>2, <4>3 DEF Holds
    <3>3. CASE a # tgt[t]
      BY <2>1, <3>1, <3>3 DEF Attended, InHand, DispatchHolds
    <3> QED
      BY <3>2, <3>3
  <2>3. CASE ~acquired[tgt[t]]
    <3>1. /\ pc[t] = "acquire"
          /\ pc' = [pc EXCEPT ![t] = "post"]
          /\ UNCHANGED <<tgt, ret, count, port, lost, self>>
      BY <1>7, <2>3 DEF ScheduleAcquire, Stay
    <3> QED
      BY <2>1, <3>1 DEF Attended, InHand, DispatchHolds
  <2> QED
    BY <2>2, <2>3
<1>8. ASSUME NEW t \in Threads, PostCompletion(t) PROVE StrandedOnlyIfLost'
  <2>1. /\ pc[t] = "post" /\ tgt[t] \in Actors
        /\ pc' = [pc EXCEPT ![t] = "release"]
        /\ port' = [port EXCEPT ![tgt[t]] = @ + 1]
        /\ lost' = [lost EXCEPT ![tgt[t]] = FALSE]
        /\ UNCHANGED <<tgt, ret, count, self, acquired>>
    BY <1>8 DEF PostCompletion
  <2> SUFFICES ASSUME NEW a \in Actors, count'[a] > 0
               PROVE  Attended(a)' \/ lost'[a]
    BY DEF StrandedOnlyIfLost
  <2>2. count[a] > 0 => Attended(a) \/ lost[a]
    OBVIOUS
  <2>3. /\ pc \in [Threads -> Labels]
        /\ tgt \in [Threads -> Actors \cup {None}]
        /\ ret \in [Threads -> {"idle", "run", "tick"}]
        /\ port \in [Actors -> Nat] /\ count \in [Actors -> Int]
        /\ lost \in [Actors -> BOOLEAN]
    OBVIOUS
  <2> HIDE DEF IInv, TypeOK, Located, StrandedOnlyIfLost
  <2> QED
    BY <2>1, <2>2, <2>3, SMTT(30) DEF Attended, InHand, DispatchHolds,
       ScheduleHolds, Holds
<1>9. ASSUME NEW t \in Threads, PostCompletionFails(t) PROVE StrandedOnlyIfLost'
  <2> SUFFICES ASSUME NEW a \in Actors, count'[a] > 0
               PROVE  Attended(a)' \/ lost'[a]
    BY DEF StrandedOnlyIfLost
  <2> QED
    BY <1>9 DEF PostCompletionFails, shared, local, Attended, InHand,
       DispatchHolds, ScheduleHolds, Holds
<1>10. ASSUME NEW t \in Threads, ScheduleRelease(t) PROVE StrandedOnlyIfLost'
  <2> SUFFICES ASSUME NEW a \in Actors, count'[a] > 0
               PROVE  Attended(a)' \/ lost'[a]
    BY DEF StrandedOnlyIfLost
  <2> QED
    BY <1>10 DEF ScheduleRelease, Return, shared, local, Attended, InHand,
       DispatchHolds, ScheduleHolds, Holds
<1>11. ASSUME NEW t \in Threads, NEW a \in Actors, TakeCompletion(t, a) PROVE StrandedOnlyIfLost'
  <2> SUFFICES ASSUME NEW c \in Actors, count'[c] > 0
               PROVE  Attended(c)' \/ lost'[c]
    BY DEF StrandedOnlyIfLost
  <2> QED
    BY <1>11 DEF TakeCompletion, shared, local, Attended, InHand,
       DispatchHolds, ScheduleHolds, Holds
<1>12. ASSUME NEW t \in Threads, TimeSlice(t) PROVE StrandedOnlyIfLost'
  <2> SUFFICES ASSUME NEW a \in Actors, count'[a] > 0
               PROVE  Attended(a)' \/ lost'[a]
    BY DEF StrandedOnlyIfLost
  <2> QED
    BY <1>12 DEF TimeSlice, shared, local, Attended, InHand, DispatchHolds,
       ScheduleHolds, Holds
<1>13. ASSUME NEW t \in Threads, GetOwner(t) PROVE StrandedOnlyIfLost'
  <2>1. /\ pc[t] = "owner" /\ self[t] \in Actors
        /\ \/ pc' = [pc EXCEPT ![t] = "lock"] /\ lost' = lost
           \/ pc' = [pc EXCEPT ![t] = "tick"] /\ lost' = [lost EXCEPT ![self[t]] = TRUE]
        /\ UNCHANGED <<tgt, ret, count, port, self, acquired>>
    BY <1>13 DEF GetOwner, shared
  <2> SUFFICES ASSUME NEW a \in Actors, count'[a] > 0
               PROVE  Attended(a)' \/ lost'[a]
    BY DEF StrandedOnlyIfLost
  <2>2. count[a] > 0 => Attended(a) \/ lost[a]
    OBVIOUS
  <2>3. /\ pc \in [Threads -> Labels]
        /\ tgt \in [Threads -> Actors \cup {None}]
        /\ ret \in [Threads -> {"idle", "run", "tick"}]
        /\ port \in [Actors -> Nat] /\ count \in [Actors -> Int]
        /\ lost \in [Actors -> BOOLEAN]
    OBVIOUS
  <2> HIDE DEF IInv, TypeOK, Located, StrandedOnlyIfLost
  <2> QED
    BY <2>1, <2>2, <2>3, SMTT(30) DEF Attended, InHand, DispatchHolds,
       ScheduleHolds, Holds
<1>14. ASSUME NEW t \in Threads, DispatchAcquire(t) PROVE StrandedOnlyIfLost'
  <2>1. /\ pc[t] = "lock" /\ self[t] \in Actors
        /\ \/ /\ ~acquired[self[t]]
              /\ pc' = [pc EXCEPT ![t] = "batch"] /\ lost' = lost
           \/ pc' = [pc EXCEPT ![t] = "tick"] /\ lost' = [lost EXCEPT ![self[t]] = TRUE]
        /\ UNCHANGED <<tgt, ret, count, port, self>>
    BY <1>14 DEF DispatchAcquire
  <2> SUFFICES ASSUME NEW a \in Actors, count'[a] > 0
               PROVE  Attended(a)' \/ lost'[a]
    BY DEF StrandedOnlyIfLost
  <2>2. count[a] > 0 => Attended(a) \/ lost[a]
    OBVIOUS
  <2>3. /\ pc \in [Threads -> Labels]
        /\ tgt \in [Threads -> Actors \cup {None}]
        /\ ret \in [Threads -> {"idle", "run", "tick"}]
        /\ port \in [Actors -> Nat] /\ count \in [Actors -> Int]
        /\ lost \in [Actors -> BOOLEAN]
    OBVIOUS
  <2> HIDE DEF IInv, TypeOK, Located, StrandedOnlyIfLost
  <2> QED
    BY <2>1, <2>2, <2>3, SMTT(30) DEF Attended, InHand, DispatchHolds,
       ScheduleHolds, Holds
<1>15. ASSUME NEW t \in Threads, ReadBatch(t) PROVE StrandedOnlyIfLost'
  <2> SUFFICES ASSUME NEW a \in Actors, count'[a] > 0
               PROVE  Attended(a)' \/ lost'[a]
    BY DEF StrandedOnlyIfLost
  <2> QED
    BY <1>15 DEF ReadBatch, BatchSize, shared, local, Attended, InHand,
       DispatchHolds, ScheduleHolds, Holds
<1>16. ASSUME NEW t \in Threads, Execute(t) PROVE StrandedOnlyIfLost'
  <2>1. /\ pc[t] = "exec" /\ self[t] \in Actors
        /\ \/ /\ pc' = [pc EXCEPT ![t] = "run"]
              /\ count' = [count EXCEPT ![self[t]] = @ - 1]
           \/ pc' = pc /\ count' = count
        /\ UNCHANGED <<tgt, ret, port, self, lost, acquired>>
    BY <1>16, SMTT(30) DEF Execute
  <2> SUFFICES ASSUME NEW a \in Actors, count'[a] > 0
               PROVE  Attended(a)' \/ lost'[a]
    BY DEF StrandedOnlyIfLost
  <2>2. count[a] > 0 => Attended(a) \/ lost[a]
    OBVIOUS
  <2>3. /\ pc \in [Threads -> Labels]
        /\ tgt \in [Threads -> Actors \cup {None}]
        /\ ret \in [Threads -> {"idle", "run", "tick"}]
        /\ port \in [Actors -> Nat] /\ count \in [Actors -> Int]
        /\ lost \in [Actors -> BOOLEAN]
    OBVIOUS
  <2> HIDE DEF IInv, TypeOK, Located, StrandedOnlyIfLost
  <2> QED
    BY <2>1, <2>2, <2>3, SMTT(30) DEF Attended, InHand, DispatchHolds,
       ScheduleHolds, Holds
<1>17. ASSUME NEW t \in Threads, FinishJob(t) PROVE StrandedOnlyIfLost'
  <2> SUFFICES ASSUME NEW a \in Actors, count'[a] > 0
               PROVE  Attended(a)' \/ lost'[a]
    BY DEF StrandedOnlyIfLost
  <2> QED
    BY <1>17 DEF FinishJob, shared, local, Attended, InHand, DispatchHolds,
       ScheduleHolds, Holds
<1>18. ASSUME NEW t \in Threads, EndBatch(t) PROVE StrandedOnlyIfLost'
  <2> SUFFICES ASSUME NEW a \in Actors, count'[a] > 0
               PROVE  Attended(a)' \/ lost'[a]
    BY DEF StrandedOnlyIfLost
  <2> QED
    BY <1>18 DEF EndBatch, shared, local, Attended, InHand, DispatchHolds,
       ScheduleHolds, Holds
<1>19. ASSUME NEW t \in Threads, ClearActorOverlapped(t) PROVE StrandedOnlyIfLost'
  <2> SUFFICES ASSUME NEW a \in Actors, count'[a] > 0
               PROVE  Attended(a)' \/ lost'[a]
    BY DEF StrandedOnlyIfLost
  <2> QED
    BY <1>19 DEF ClearActorOverlapped, shared, local, Attended, InHand,
       DispatchHolds, ScheduleHolds, Holds
<1>20. ASSUME NEW t \in Threads, DispatchRelease(t) PROVE StrandedOnlyIfLost'
  <2> SUFFICES ASSUME NEW a \in Actors, count'[a] > 0
               PROVE  Attended(a)' \/ lost'[a]
    BY DEF StrandedOnlyIfLost
  <2> QED
    BY <1>20 DEF DispatchRelease, shared, local, Attended, InHand,
       DispatchHolds, ScheduleHolds, Holds
<1>21. ASSUME NEW t \in Threads, EndTick(t) PROVE StrandedOnlyIfLost'
  <2> SUFFICES ASSUME NEW a \in Actors, count'[a] > 0
               PROVE  Attended(a)' \/ lost'[a]
    BY DEF StrandedOnlyIfLost
  <2> QED
    BY <1>21 DEF EndTick, shared, local, Attended, InHand, DispatchHolds,
       ScheduleHolds, Holds
<1> QED
  BY <1>0, <1>1, <1>2, <1>3, <1>4, <1>5, <1>6, <1>7, <1>8, <1>9, <1>10, <1>11,
     <1>12, <1>13, <1>14, <1>15, <1>16, <1>17, <1>18, <1>19, <1>20, <1>21
  DEF Next, ScheduleStep, DispatchStep

LEMMA ReleaseInv == IInv /\ ReleaseBacked /\ StrandedOnlyIfLost /\ [Next]_vars => ReleaseBacked'
<1> SUFFICES ASSUME IInv, ReleaseBacked, StrandedOnlyIfLost, [Next]_vars PROVE ReleaseBacked'
  OBVIOUS
<1> USE ConstantsAssumption DEF IInv, TypeOK, Located, ScheduleSteps, DispatchSteps, Go
<1>0. CASE UNCHANGED vars
  BY <1>0 DEF vars, shared, local, ReleaseBacked, InHand
<1>1. ASSUME NEW t \in Threads, NEW j \in Jobs, PushJob(t, j) PROVE ReleaseBacked'
  <2> SUFFICES ASSUME NEW u \in Threads, pc'[u] = "release"
               PROVE  port'[tgt'[u]] > 0 \/ InHand(tgt[u])' \/ lost'[tgt'[u]]
    BY DEF ReleaseBacked
  <2> QED
    BY <1>1 DEF PushJob, CanPost, UserCode, shared, local, InHand,
       ReleaseBacked
<1>2. ASSUME NEW t \in Threads, NEW j \in Jobs, RefuseJob(t, j) PROVE ReleaseBacked'
  <2> SUFFICES ASSUME NEW u \in Threads, pc'[u] = "release"
               PROVE  port'[tgt'[u]] > 0 \/ InHand(tgt[u])' \/ lost'[tgt'[u]]
    BY DEF ReleaseBacked
  <2> QED
    BY <1>2 DEF RefuseJob, CanPost, UserCode, shared, local, InHand,
       ReleaseBacked
<1>3. ASSUME NEW t \in Threads, NEW j \in Jobs, PostDelay(t, j) PROVE ReleaseBacked'
  <2> SUFFICES ASSUME NEW u \in Threads, pc'[u] = "release"
               PROVE  port'[tgt'[u]] > 0 \/ InHand(tgt[u])' \/ lost'[tgt'[u]]
    BY DEF ReleaseBacked
  <2> QED
    BY <1>3 DEF PostDelay, UserCode, shared, local, InHand, ReleaseBacked
<1>4. ASSUME NEW t \in Threads, CountJob(t) PROVE ReleaseBacked'
  <2> SUFFICES ASSUME NEW u \in Threads, pc'[u] = "release"
               PROVE  port'[tgt'[u]] > 0 \/ InHand(tgt[u])' \/ lost'[tgt'[u]]
    BY DEF ReleaseBacked
  <2> QED
    BY <1>4 DEF CountJob, shared, local, InHand, ReleaseBacked
<1>5. ASSUME NEW t \in Threads, Register(t) PROVE ReleaseBacked'
  <2>1. /\ pc[t] = "register" /\ tgt[t] \in Actors
        /\ \/ count[tgt[t]] > 0 /\ pc' = [pc EXCEPT ![t] = "own"] /\ UNCHANGED <<tgt, ret>>
           \/ /\ ~(count[tgt[t]] > 0)
              /\ pc' = [pc EXCEPT ![t] = ret[t]]
              /\ tgt' = [tgt EXCEPT ![t] = None]
              /\ ret' = [ret EXCEPT ![t] = "idle"]
        /\ UNCHANGED <<count, port, lost, self, acquired>>
    BY <1>5 DEF Register, Stay, Return, shared
  <2>3. /\ pc \in [Threads -> Labels]
        /\ tgt \in [Threads -> Actors \cup {None}]
        /\ ret \in [Threads -> {"idle", "run", "tick"}]
        /\ port \in [Actors -> Nat]
        /\ lost \in [Actors -> BOOLEAN]
        /\ \A u \in Threads : pc[u] \in {"post", "release"} => tgt[u] \in Actors
    OBVIOUS
  <2> SUFFICES ASSUME NEW u \in Threads, pc'[u] = "release"
               PROVE  port'[tgt'[u]] > 0 \/ InHand(tgt[u])' \/ lost'[tgt'[u]]
    BY DEF ReleaseBacked
  <2> HIDE DEF IInv, TypeOK, Located
  <2> QED
    BY <2>1, <2>3, SMTT(30) DEF InHand, ReleaseBacked
<1>6. ASSUME NEW t \in Threads, SetOwner(t) PROVE ReleaseBacked'
  <2> SUFFICES ASSUME NEW u \in Threads, pc'[u] = "release"
               PROVE  port'[tgt'[u]] > 0 \/ InHand(tgt[u])' \/ lost'[tgt'[u]]
    BY DEF ReleaseBacked
  <2> QED
    BY <1>6 DEF SetOwner, Stay, shared, local, InHand, ReleaseBacked
<1>7. ASSUME NEW t \in Threads, ScheduleAcquire(t) PROVE ReleaseBacked'
  <2>1. /\ pc[t] = "acquire"
        /\ \/ pc' = [pc EXCEPT ![t] = "post"] /\ tgt' = tgt
           \/ pc' = [pc EXCEPT ![t] = ret[t]] /\ tgt' = [tgt EXCEPT ![t] = None]
        /\ UNCHANGED <<count, port, lost, self>>
    BY <1>7 DEF ScheduleAcquire, Stay, Return
  <2>3. /\ pc \in [Threads -> Labels]
        /\ tgt \in [Threads -> Actors \cup {None}]
        /\ ret \in [Threads -> {"idle", "run", "tick"}]
        /\ port \in [Actors -> Nat]
        /\ lost \in [Actors -> BOOLEAN]
        /\ \A u \in Threads : pc[u] \in {"post", "release"} => tgt[u] \in Actors
    OBVIOUS
  <2> SUFFICES ASSUME NEW u \in Threads, pc'[u] = "release"
               PROVE  port'[tgt'[u]] > 0 \/ InHand(tgt[u])' \/ lost'[tgt'[u]]
    BY DEF ReleaseBacked
  <2> HIDE DEF IInv, TypeOK, Located
  <2> QED
    BY <2>1, <2>3, SMTT(30) DEF InHand, ReleaseBacked
<1>8. ASSUME NEW t \in Threads, PostCompletion(t) PROVE ReleaseBacked'
  <2>1. /\ pc[t] = "post" /\ tgt[t] \in Actors
        /\ pc' = [pc EXCEPT ![t] = "release"]
        /\ port' = [port EXCEPT ![tgt[t]] = @ + 1]
        /\ lost' = [lost EXCEPT ![tgt[t]] = FALSE]
        /\ UNCHANGED <<tgt, ret, count, self, acquired>>
    BY <1>8 DEF PostCompletion
  <2>3. /\ pc \in [Threads -> Labels]
        /\ tgt \in [Threads -> Actors \cup {None}]
        /\ ret \in [Threads -> {"idle", "run", "tick"}]
        /\ port \in [Actors -> Nat]
        /\ lost \in [Actors -> BOOLEAN]
        /\ \A u \in Threads : pc[u] \in {"post", "release"} => tgt[u] \in Actors
    OBVIOUS
  <2> SUFFICES ASSUME NEW u \in Threads, pc'[u] = "release"
               PROVE  port'[tgt'[u]] > 0 \/ InHand(tgt[u])' \/ lost'[tgt'[u]]
    BY DEF ReleaseBacked
  <2> HIDE DEF IInv, TypeOK, Located
  <2> QED
    BY <2>1, <2>3, SMTT(30) DEF InHand, ReleaseBacked
<1>9. ASSUME NEW t \in Threads, PostCompletionFails(t) PROVE ReleaseBacked'
  <2> SUFFICES ASSUME NEW u \in Threads, pc'[u] = "release"
               PROVE  port'[tgt'[u]] > 0 \/ InHand(tgt[u])' \/ lost'[tgt'[u]]
    BY DEF ReleaseBacked
  <2> QED
    BY <1>9 DEF PostCompletionFails, shared, local, InHand, ReleaseBacked
<1>10. ASSUME NEW t \in Threads, ScheduleRelease(t) PROVE ReleaseBacked'
  <2> SUFFICES ASSUME NEW u \in Threads, pc'[u] = "release"
               PROVE  port'[tgt'[u]] > 0 \/ InHand(tgt[u])' \/ lost'[tgt'[u]]
    BY DEF ReleaseBacked
  <2> QED
    BY <1>10 DEF ScheduleRelease, Return, shared, local, InHand, ReleaseBacked
<1>11. ASSUME NEW t \in Threads, NEW a \in Actors, TakeCompletion(t, a) PROVE ReleaseBacked'
  <2> SUFFICES ASSUME NEW u \in Threads, pc'[u] = "release"
               PROVE  port'[tgt'[u]] > 0 \/ InHand(tgt[u])' \/ lost'[tgt'[u]]
    BY DEF ReleaseBacked
  <2> QED
    BY <1>11 DEF TakeCompletion, shared, local, InHand, ReleaseBacked
<1>12. ASSUME NEW t \in Threads, TimeSlice(t) PROVE ReleaseBacked'
  <2> SUFFICES ASSUME NEW u \in Threads, pc'[u] = "release"
               PROVE  port'[tgt'[u]] > 0 \/ InHand(tgt[u])' \/ lost'[tgt'[u]]
    BY DEF ReleaseBacked
  <2> QED
    BY <1>12 DEF TimeSlice, shared, local, InHand, ReleaseBacked
<1>13. ASSUME NEW t \in Threads, GetOwner(t) PROVE ReleaseBacked'
  <2>1. /\ pc[t] = "owner" /\ self[t] \in Actors
        /\ \/ pc' = [pc EXCEPT ![t] = "lock"] /\ lost' = lost
           \/ pc' = [pc EXCEPT ![t] = "tick"] /\ lost' = [lost EXCEPT ![self[t]] = TRUE]
        /\ UNCHANGED <<tgt, ret, count, port, self, acquired>>
    BY <1>13 DEF GetOwner, shared
  <2>3. /\ pc \in [Threads -> Labels]
        /\ tgt \in [Threads -> Actors \cup {None}]
        /\ ret \in [Threads -> {"idle", "run", "tick"}]
        /\ port \in [Actors -> Nat]
        /\ lost \in [Actors -> BOOLEAN]
        /\ \A u \in Threads : pc[u] \in {"post", "release"} => tgt[u] \in Actors
    OBVIOUS
  <2> SUFFICES ASSUME NEW u \in Threads, pc'[u] = "release"
               PROVE  port'[tgt'[u]] > 0 \/ InHand(tgt[u])' \/ lost'[tgt'[u]]
    BY DEF ReleaseBacked
  <2> HIDE DEF IInv, TypeOK, Located
  <2> QED
    BY <2>1, <2>3, SMTT(30) DEF InHand, ReleaseBacked
<1>14. ASSUME NEW t \in Threads, DispatchAcquire(t) PROVE ReleaseBacked'
  <2>1. /\ pc[t] = "lock" /\ self[t] \in Actors
        /\ \/ /\ ~acquired[self[t]]
              /\ pc' = [pc EXCEPT ![t] = "batch"] /\ lost' = lost
           \/ pc' = [pc EXCEPT ![t] = "tick"] /\ lost' = [lost EXCEPT ![self[t]] = TRUE]
        /\ UNCHANGED <<tgt, ret, count, port, self>>
    BY <1>14 DEF DispatchAcquire
  <2>2. \A u \in Threads : pc[u] = "release" => acquired[tgt[u]]
    BY DEF FlagHasOneHolder, Holds, ScheduleHolds
  <2>3. /\ pc \in [Threads -> Labels]
        /\ tgt \in [Threads -> Actors \cup {None}]
        /\ ret \in [Threads -> {"idle", "run", "tick"}]
        /\ port \in [Actors -> Nat]
        /\ lost \in [Actors -> BOOLEAN]
        /\ \A u \in Threads : pc[u] \in {"post", "release"} => tgt[u] \in Actors
    OBVIOUS
  <2> SUFFICES ASSUME NEW u \in Threads, pc'[u] = "release"
               PROVE  port'[tgt'[u]] > 0 \/ InHand(tgt[u])' \/ lost'[tgt'[u]]
    BY DEF ReleaseBacked
  <2> HIDE DEF IInv, TypeOK, Located
  <2> QED
    BY <2>1, <2>2, <2>3, SMTT(30) DEF InHand, ReleaseBacked
<1>15. ASSUME NEW t \in Threads, ReadBatch(t) PROVE ReleaseBacked'
  <2> SUFFICES ASSUME NEW u \in Threads, pc'[u] = "release"
               PROVE  port'[tgt'[u]] > 0 \/ InHand(tgt[u])' \/ lost'[tgt'[u]]
    BY DEF ReleaseBacked
  <2> QED
    BY <1>15 DEF ReadBatch, BatchSize, shared, local, InHand, ReleaseBacked
<1>16. ASSUME NEW t \in Threads, Execute(t) PROVE ReleaseBacked'
  <2> SUFFICES ASSUME NEW u \in Threads, pc'[u] = "release"
               PROVE  port'[tgt'[u]] > 0 \/ InHand(tgt[u])' \/ lost'[tgt'[u]]
    BY DEF ReleaseBacked
  <2>1. /\ pc[t] = "exec"
        /\ \E l \in {"run", "exec"} : pc' = [pc EXCEPT ![t] = l]
        /\ UNCHANGED <<port, tgt, self, lost>>
    BY <1>16 DEF Execute
  <2>2. pc \in [Threads -> Labels]
    OBVIOUS
  <2> HIDE DEF IInv, TypeOK, Located
  <2> QED
    BY <2>1, <2>2, SMTT(30) DEF InHand, ReleaseBacked
<1>17. ASSUME NEW t \in Threads, FinishJob(t) PROVE ReleaseBacked'
  <2> SUFFICES ASSUME NEW u \in Threads, pc'[u] = "release"
               PROVE  port'[tgt'[u]] > 0 \/ InHand(tgt[u])' \/ lost'[tgt'[u]]
    BY DEF ReleaseBacked
  <2> QED
    BY <1>17 DEF FinishJob, shared, local, InHand, ReleaseBacked
<1>18. ASSUME NEW t \in Threads, EndBatch(t) PROVE ReleaseBacked'
  <2> SUFFICES ASSUME NEW u \in Threads, pc'[u] = "release"
               PROVE  port'[tgt'[u]] > 0 \/ InHand(tgt[u])' \/ lost'[tgt'[u]]
    BY DEF ReleaseBacked
  <2> QED
    BY <1>18 DEF EndBatch, shared, local, InHand, ReleaseBacked
<1>19. ASSUME NEW t \in Threads, ClearActorOverlapped(t) PROVE ReleaseBacked'
  <2> SUFFICES ASSUME NEW u \in Threads, pc'[u] = "release"
               PROVE  port'[tgt'[u]] > 0 \/ InHand(tgt[u])' \/ lost'[tgt'[u]]
    BY DEF ReleaseBacked
  <2> QED
    BY <1>19 DEF ClearActorOverlapped, shared, local, InHand, ReleaseBacked
<1>20. ASSUME NEW t \in Threads, DispatchRelease(t) PROVE ReleaseBacked'
  <2> SUFFICES ASSUME NEW u \in Threads, pc'[u] = "release"
               PROVE  port'[tgt'[u]] > 0 \/ InHand(tgt[u])' \/ lost'[tgt'[u]]
    BY DEF ReleaseBacked
  <2> QED
    BY <1>20 DEF DispatchRelease, shared, local, InHand, ReleaseBacked
<1>21. ASSUME NEW t \in Threads, EndTick(t) PROVE ReleaseBacked'
  <2> SUFFICES ASSUME NEW u \in Threads, pc'[u] = "release"
               PROVE  port'[tgt'[u]] > 0 \/ InHand(tgt[u])' \/ lost'[tgt'[u]]
    BY DEF ReleaseBacked
  <2> QED
    BY <1>21 DEF EndTick, shared, local, InHand, ReleaseBacked
<1> QED
  BY <1>0, <1>1, <1>2, <1>3, <1>4, <1>5, <1>6, <1>7, <1>8, <1>9, <1>10, <1>11,
     <1>12, <1>13, <1>14, <1>15, <1>16, <1>17, <1>18, <1>19, <1>20, <1>21
  DEF Next, ScheduleStep, DispatchStep

(* ActorScheduler.cpp:30-48 and 61-99: work is left behind only by losing a  *)
(* completion, never by losing the race for the flag.                      *)
THEOREM StrandingNeedsALoss == Spec => []StrandedOnlyIfLost
<1>1. Init => StrandedOnlyIfLost /\ ReleaseBacked
  BY DEF Init, StrandedOnlyIfLost, ReleaseBacked
<1>2. IInv /\ ReleaseBacked /\ StrandedOnlyIfLost /\ [Next]_vars
        => (ReleaseBacked /\ StrandedOnlyIfLost)'
  BY StrandInv, ReleaseInv
<1> QED
  BY Inductive, <1>1, <1>2, PTL DEF Spec

-----------------------------------------------------------------------------
(* The executor implements SerialMailbox.  A thread has a job just while it *)
(* runs it, or is inside a Post that the job makes.                        *)

RunsJob(t) == pc[t] = "run" \/ (pc[t] \in ScheduleSteps /\ ret[t] = "run")

JobIsRun == \A t \in Threads : job[t] # None <=> RunsJob(t)

LEMMA JobInv == IInv /\ JobIsRun /\ [Next]_vars => JobIsRun'
<1> SUFFICES ASSUME IInv, JobIsRun, [Next]_vars PROVE JobIsRun'
  OBVIOUS
<1> USE ConstantsAssumption DEF IInv, TypeOK, JobIsRun, RunsJob, ScheduleSteps, Go
<1>0. CASE UNCHANGED vars
  BY <1>0 DEF vars, shared, local
<1>1. ASSUME NEW t \in Threads, NEW j \in Jobs, PushJob(t, j) PROVE JobIsRun'
  BY <1>1 DEF PushJob, CanPost, UserCode, shared, local
<1>2. ASSUME NEW t \in Threads, NEW j \in Jobs, RefuseJob(t, j) PROVE JobIsRun'
  BY <1>2 DEF RefuseJob, CanPost, UserCode, shared, local
<1>3. ASSUME NEW t \in Threads, NEW j \in Jobs, PostDelay(t, j) PROVE JobIsRun'
  BY <1>3 DEF PostDelay, UserCode, shared, local
<1>4. ASSUME NEW t \in Threads, CountJob(t) PROVE JobIsRun'
  BY <1>4 DEF CountJob, shared, local
<1>5. ASSUME NEW t \in Threads, Register(t) PROVE JobIsRun'
  BY <1>5 DEF Register, Stay, Return, shared, local
<1>6. ASSUME NEW t \in Threads, SetOwner(t) PROVE JobIsRun'
  BY <1>6 DEF SetOwner, Stay, shared, local
<1>7. ASSUME NEW t \in Threads, ScheduleAcquire(t) PROVE JobIsRun'
  <2>1. job' = job /\ pc[t] = "acquire"
    BY <1>7 DEF ScheduleAcquire, shared
  <2>2. CASE acquired[tgt[t]]
    <3>1. pc'[t] = ret[t] /\ ret[t] \in {"idle", "run", "tick"}
      BY <1>7, <2>2 DEF ScheduleAcquire, Return
    <3>2. \A u \in Threads \ {t} : pc'[u] = pc[u] /\ ret'[u] = ret[u]
      BY <1>7, <2>2 DEF ScheduleAcquire, Return
    <3> QED
      BY <2>1, <3>1, <3>2
  <2>3. CASE ~acquired[tgt[t]]
    BY <1>7, <2>1, <2>3 DEF ScheduleAcquire, Stay
  <2> QED
    BY <2>2, <2>3
<1>8. ASSUME NEW t \in Threads, PostCompletion(t) PROVE JobIsRun'
  BY <1>8 DEF PostCompletion, shared, local
<1>9. ASSUME NEW t \in Threads, PostCompletionFails(t) PROVE JobIsRun'
  BY <1>9 DEF PostCompletionFails, shared, local
<1>10. ASSUME NEW t \in Threads, ScheduleRelease(t) PROVE JobIsRun'
  BY <1>10 DEF ScheduleRelease, Return, shared, local
<1>11. ASSUME NEW t \in Threads, NEW a \in Actors, TakeCompletion(t, a) PROVE JobIsRun'
  BY <1>11 DEF TakeCompletion, shared, local
<1>12. ASSUME NEW t \in Threads, TimeSlice(t) PROVE JobIsRun'
  BY <1>12 DEF TimeSlice, shared, local
<1>13. ASSUME NEW t \in Threads, GetOwner(t) PROVE JobIsRun'
  <2>1. job' = job /\ ret' = ret /\ pc[t] = "owner"
    BY <1>13 DEF GetOwner, shared
  <2>2. PICK l \in {"lock", "tick"} : pc' = [pc EXCEPT ![t] = l]
    BY <1>13 DEF GetOwner
  <2> QED
    BY <2>1, <2>2
<1>14. ASSUME NEW t \in Threads, DispatchAcquire(t) PROVE JobIsRun'
  BY <1>14 DEF DispatchAcquire, shared, local
<1>15. ASSUME NEW t \in Threads, ReadBatch(t) PROVE JobIsRun'
  BY <1>15 DEF ReadBatch, BatchSize, shared, local
<1>16. ASSUME NEW t \in Threads, Execute(t) PROVE JobIsRun'
  <2>1. self[t] \in Actors
    BY <1>16 DEF Execute, Located, DispatchSteps
  <2>2. CASE count[self[t]] > 0
    <3>1. Head(queue[self[t]]) \in Jobs
      BY <2>1, <2>2, CountedJobIsLinked
    <3>2. job' = [job EXCEPT ![t] = Head(queue[self[t]])] /\ ret' = ret
      BY <1>16, <2>2 DEF Execute
    <3>3. pc[t] = "exec" /\ pc' = [pc EXCEPT ![t] = "run"]
      BY <1>16, <2>2 DEF Execute
    <3> QED
      BY <3>1, <3>2, <3>3
  <2>3. CASE ~(count[self[t]] > 0)
    BY <1>16, <2>3 DEF Execute, shared, local
  <2> QED
    BY <2>2, <2>3
<1>17. ASSUME NEW t \in Threads, FinishJob(t) PROVE JobIsRun'
  BY <1>17 DEF FinishJob, shared, local
<1>18. ASSUME NEW t \in Threads, EndBatch(t) PROVE JobIsRun'
  BY <1>18 DEF EndBatch, shared, local
<1>19. ASSUME NEW t \in Threads, ClearActorOverlapped(t) PROVE JobIsRun'
  BY <1>19 DEF ClearActorOverlapped, shared, local
<1>20. ASSUME NEW t \in Threads, DispatchRelease(t) PROVE JobIsRun'
  BY <1>20 DEF DispatchRelease, shared, local
<1>21. ASSUME NEW t \in Threads, EndTick(t) PROVE JobIsRun'
  BY <1>21 DEF EndTick, shared, local
<1> QED
  BY <1>0, <1>1, <1>2, <1>3, <1>4, <1>5, <1>6, <1>7, <1>8, <1>9, <1>10, <1>11,
     <1>12, <1>13, <1>14, <1>15, <1>16, <1>17, <1>18, <1>19, <1>20, <1>21
  DEF Next, ScheduleStep, DispatchStep

(* Whoever is in the batch of an actor is the only one with a job of it.   *)
LEMMA OthersRunNothing ==
  ASSUME IInv, JobIsRun, NEW t \in Threads, pc[t] \in {"exec", "run"},
         NEW u \in Threads \ {t}, job[u] # None
  PROVE  self[u] # self[t]
<1>1. DispatchHolds(t, self[t]) /\ self[t] \in Actors
  BY DEF IInv, Located, DispatchHolds, DispatchSteps
<1>2. DispatchHolds(u, self[u])
  BY DEF JobIsRun, RunsJob, DispatchHolds
<1> QED
  BY <1>1, <1>2 DEF IInv, FlagHasOneHolder, Holds

(* Execute starts the first job of a mailbox in which none runs.           *)
LEMMA ExecuteStarts ==
  ASSUME IInv, JobIsRun, NEW t \in Threads, Execute(t)
  PROVE  [Mailbox!Next]_(Mailbox!mboxVars)
<1> DEFINE a == self[t]
<1>1. a \in Actors /\ job[t] = None /\ pc[t] = "exec"
  BY DEF Execute, IInv, Located, DispatchSteps, JobIsRun, RunsJob,
     ScheduleSteps
<1>2. CASE count[a] > 0
  <2>1. queue[a] # << >> /\ queue[a] \in Seq(Jobs)
    BY <1>1, <1>2, CountedJobIsLinked DEF IInv, TypeOK
  <2>2. Head(queue[a]) \in Jobs /\ Head(queue[a]) # None
    BY <2>1, ConstantsAssumption
  <2>3. /\ queue' = [queue EXCEPT ![a] = Tail(@)]
        /\ job' = [job EXCEPT ![t] = Head(queue[a])]
        /\ self' = self
    BY <1>2 DEF Execute
  <2>4. /\ job'[t] = Head(queue[a])
        /\ \A u \in Threads \ {t} : job'[u] = job[u]
    BY <2>3 DEF IInv, TypeOK
  <2>5. Executing(a) = {}
    BY <1>1, OthersRunNothing DEF Executing
  <2>6. Executing(a)' = {Head(queue[a])}
    <3>1. {u \in Threads : self'[u] = a /\ job'[u] # None} = {t}
      BY <1>1, <2>2, <2>3, <2>4, OthersRunNothing
    <3>2. Executing(a)' = {job'[u] : u \in {t}}
      BY <2>3, <3>1 DEF Executing
    <3> QED
      BY <2>4, <3>2
  <2>7. \A b \in Actors \ {a} : Executing(b)' = Executing(b)
    <3>1. ASSUME NEW b \in Actors \ {a}
          PROVE  {u \in Threads : self'[u] = b /\ job'[u] # None}
                   = {u \in Threads \ {t} : self[u] = b /\ job[u] # None}
      BY <2>3, <2>4, <1>1
    <3>2. ASSUME NEW b \in Actors \ {a}
          PROVE  {u \in Threads : self[u] = b /\ job[u] # None}
                   = {u \in Threads \ {t} : self[u] = b /\ job[u] # None}
      BY <1>1
    <3> QED
      BY <2>4, <3>1, <3>2 DEF Executing
  <2>8. [b \in Actors |-> Executing(b)]'
          = [[b \in Actors |-> Executing(b)] EXCEPT ![a] = {Head(queue[a])}]
    BY <1>1, <2>3, <2>6, <2>7
  <2>9. Mailbox!Start(a)
    BY <1>1, <2>1, <2>3, <2>5, <2>8 DEF Mailbox!Start
  <2> QED
    BY <1>1, <2>9 DEF Mailbox!Next
<1>3. CASE ~(count[a] > 0)
  BY <1>3 DEF Execute, Mailbox!mboxVars, Executing
<1> QED
  BY <1>2, <1>3

(* The end of a job is the end of what its mailbox runs.                   *)
LEMMA FinishJobFinishes ==
  ASSUME IInv, JobIsRun, NEW t \in Threads, FinishJob(t)
  PROVE  Mailbox!Next
<1> DEFINE a == self[t]
<1>1. a \in Actors /\ job[t] # None /\ pc[t] = "run"
  BY DEF FinishJob, Go, IInv, Located, DispatchSteps, JobIsRun, RunsJob
<1>2. queue' = queue /\ self' = self /\ job' = [job EXCEPT ![t] = None]
  BY DEF FinishJob, shared
<1>3. job'[t] = None /\ \A u \in Threads \ {t} : job'[u] = job[u]
  BY <1>2 DEF IInv, TypeOK
<1>4. Executing(a) # {}
  BY <1>1 DEF Executing
<1>5. Executing(a)' = {}
  BY <1>1, <1>2, <1>3, OthersRunNothing DEF Executing
<1>6. \A b \in Actors \ {a} : Executing(b)' = Executing(b)
  <2>1. ASSUME NEW b \in Actors \ {a}
        PROVE  {u \in Threads : self'[u] = b /\ job'[u] # None}
                 = {u \in Threads \ {t} : self[u] = b /\ job[u] # None}
    BY <1>2, <1>3
  <2>2. ASSUME NEW b \in Actors \ {a}
        PROVE  {u \in Threads : self[u] = b /\ job[u] # None}
                 = {u \in Threads \ {t} : self[u] = b /\ job[u] # None}
    OBVIOUS
  <2> QED
    BY <1>3, <2>1, <2>2 DEF Executing
<1>7. [b \in Actors |-> Executing(b)]'
        = [[b \in Actors |-> Executing(b)] EXCEPT ![a] = {}]
  BY <1>1, <1>2, <1>5, <1>6
<1>8. Mailbox!Finish(a)
  BY <1>1, <1>2, <1>4, <1>7 DEF Mailbox!Finish
<1> QED
  BY <1>1, <1>8 DEF Mailbox!Next

(* The actors are serial mailboxes: of an actor one job runs at a time,    *)
(* each runs once, in the order in which they were linked into its queue   *)
(* (Actor::Post, Actor::Execute, the two exchanges on mbAcquire).          *)
THEOREM ExecutorIsSerial == Spec => ImplementsMailbox
<1>1. Init => Mailbox!Init /\ JobIsRun
  <2> SUFFICES ASSUME Init PROVE Mailbox!Init /\ JobIsRun
    OBVIOUS
  <2>1. \A a \in Actors : Executing(a) = {}
    BY DEF Init, Executing
  <2>2. JobIsRun
    BY DEF Init, JobIsRun, RunsJob, ScheduleSteps
  <2> QED
    BY <2>1, <2>2 DEF Init, Mailbox!Init
<1>2. IInv /\ JobIsRun /\ [Next]_vars => [Mailbox!Next]_(Mailbox!mboxVars)
  <2> SUFFICES ASSUME IInv, JobIsRun, [Next]_vars
               PROVE  [Mailbox!Next]_(Mailbox!mboxVars)
    OBVIOUS
  <2>1. ASSUME UNCHANGED <<queue, job, self>>
        PROVE  UNCHANGED Mailbox!mboxVars
    BY <2>1 DEF Mailbox!mboxVars, Executing
  <2>2. ASSUME NEW t \in Threads, job[t] = None, UNCHANGED <<queue, job>>,
               \A u \in Threads \ {t} : self'[u] = self[u]
        PROVE  UNCHANGED Mailbox!mboxVars
    <3>1. \A a \in Actors : {u \in Threads : self'[u] = a /\ job'[u] # None}
                              = {u \in Threads : self[u] = a /\ job[u] # None}
      BY <2>2
    <3> QED
      BY <2>2, <3>1 DEF Mailbox!mboxVars, Executing
  <2>3. ASSUME NEW t \in Threads, NEW j \in Jobs, PushJob(t, j) PROVE Mailbox!Next
    <3>1. Target[j] \in Actors
      BY ConstantsAssumption
    <3>2. /\ queue' = [queue EXCEPT ![Target[j]] = Append(@, j)]
          /\ UNCHANGED <<job, self>>
      BY <2>3 DEF PushJob
    <3>3. Mailbox!Accept(Target[j], j)
      BY <3>2 DEF Mailbox!Accept, Executing
    <3> QED
      BY <3>1, <3>3 DEF Mailbox!Next
  <2>4. ASSUME NEW t \in Threads, NEW a \in Actors, TakeCompletion(t, a)
        PROVE  UNCHANGED Mailbox!mboxVars
    <3>1. job[t] = None
      BY <2>4 DEF TakeCompletion, Go, JobIsRun, RunsJob, ScheduleSteps
    <3> QED
      BY <2>2, <2>4, <3>1 DEF TakeCompletion, IInv, TypeOK
  <2>5. ASSUME NEW t \in Threads, EndTick(t) PROVE UNCHANGED Mailbox!mboxVars
    <3>1. job[t] = None
      BY <2>5 DEF EndTick, Go, JobIsRun, RunsJob, ScheduleSteps
    <3> QED
      BY <2>2, <2>5, <3>1 DEF EndTick, IInv, TypeOK, shared
  <2>6. ASSUME NEW t \in Threads,
               \/ \E j \in Jobs : RefuseJob(t, j) \/ PostDelay(t, j)
               \/ ScheduleStep(t)
               \/ GetOwner(t) \/ DispatchAcquire(t) \/ ReadBatch(t)
               \/ EndBatch(t) \/ ClearActorOverlapped(t) \/ DispatchRelease(t)
               \/ TimeSlice(t)
        PROVE  UNCHANGED <<queue, job, self>>
    BY <2>6 DEF RefuseJob, PostDelay, ScheduleStep, CountJob, Register,
       SetOwner,
       ScheduleAcquire, PostCompletion, PostCompletionFails, ScheduleRelease,
       GetOwner, DispatchAcquire, ReadBatch, EndBatch, ClearActorOverlapped,
       DispatchRelease, TimeSlice, shared, local
  <2>7. CASE UNCHANGED vars
    BY <2>1, <2>7 DEF vars, shared, local
  <2> QED
    BY <2>1, <2>3, <2>4, <2>5, <2>6, <2>7, ExecuteStarts, FinishJobFinishes
    DEF Next, DispatchStep
<1> QED
  BY <1>1, <1>2, Inductive, JobInv, PTL DEF Spec, ImplementsMailbox,
     Mailbox!Spec

-----------------------------------------------------------------------------
(* Scoped actors.                                                          *)

(* Where a thread may be in code of a scoped actor, and the types.         *)
ScopedLabels == {"no", "register", "own", "post", "owner", "try", "undo",
                 "batch", "exec", "run", "clear", "unlock"}

ScopedTypes ==
  /\ acquired \in [Actors -> BOOLEAN]
  /\ pc \in [Threads -> Labels]
  /\ tgt \in [Threads -> Actors \cup {None}]
  /\ ret \in [Threads -> {"idle", "run", "tick"}]
  /\ self \in [Threads -> Actors \cup {None}]
  /\ at \in [Threads -> ScopedLabels]
  /\ scope \in [Threads -> Scopes \cup {None}]
  /\ goal \in [Threads -> Scopes \cup {None}]
  /\ back \in [Threads -> {"no", "run"}]
  /\ i \in [Threads -> Nat]
  /\ index \in [Scopes -> Nat]

(* Where a thread is in code of a scoped actor, and where in the code of   *)
(* plain actors: only a job of the scoped actor enters the latter, and a   *)
(* thread dispatches one or the other.                                     *)
LocatedAt(t) ==
  /\ pc[t] \in ScheduleSteps => tgt[t] \in Actors
  /\ pc[t] \in DispatchSteps \ {"run"} => self[t] \in Actors
  /\ RunsJob(t) => self[t] \in Actors \/ scope[t] \in Scopes
  /\ pc[t] = "idle" => self[t] = None
  /\ pc[t] \in ScheduleSteps /\ ret[t] = "idle" => self[t] = None
  /\ scope[t] # None => self[t] = None
  /\ at[t] \notin {"register", "own", "post"} =>
       /\ back[t] = "no"
       /\ scope[t] = None <=> at[t] = "no"
  /\ at[t] \in {"register", "own", "post"} =>
       /\ goal[t] \in Scopes
       /\ back[t] = "no" => scope[t] = None
       /\ back[t] = "run" => scope[t] # None /\ pc[t] = "run"
  /\ at[t] \notin {"no", "register", "own", "post", "run"} => pc[t] = "idle"
  /\ at[t] = "run" => RunsJob(t)

ScopedLocated == \A t \in Threads : LocatedAt(t)

OneInside ==
  \A t, u \in Threads : \A s \in Scopes : Inside(t, s) /\ Inside(u, s) => t = u

(* mAcquireIndex is about the members of whoever is inside.                *)
Fits(t, s) ==
  /\ at[t] = "try" => i[t] \in 1..Len(Members[s]) /\ index[s] = i[t] - 1
  /\ at[t] \in {"undo", "unlock"} => i[t] \in 0..Len(Members[s])
  /\ at[t] \notin {"try", "undo", "unlock"} => index[s] = Len(Members[s])

IndexFits ==
  \A s \in Scopes :
    /\ (\A t \in Threads : ~Inside(t, s)) => index[s] = 0
    /\ \A t \in Threads : Inside(t, s) => Fits(t, s)

(* The ways to hold the flag of a: in a Dispatch, in a Schedule, or as the *)
(* k-th member of the scoped actor that is dispatched.                     *)
Held(t, s) == IF at[t] \in {"undo", "unlock"} THEN i[t] ELSE index[s]

Way(t, k, a) ==
  \/ k = -1 /\ DispatchHolds(t, a)
  \/ k = 0 /\ ScheduleHolds(t, a)
  \/ /\ k > 0
     /\ \E s \in Scopes :
          /\ Inside(t, s)
          /\ k <= Len(Members[s])
          /\ Members[s][k] = a
          /\ k <= Held(t, s)

OneWay ==
  \A a \in Actors :
    /\ acquired[a] <=> \E t \in Threads : \E k \in Int : Way(t, k, a)
    /\ \A t, u \in Threads : \A k, l \in Int :
         Way(t, k, a) /\ Way(u, l, a) => t = u /\ k = l

Apart == /\ ScopedTypes /\ ScopedLocated
         /\ OneInside /\ IndexFits /\ OneWay

ScopedInv == ~overlapped => Apart

-----------------------------------------------------------------------------
(* The arguments of the constructor that are kept have places of their     *)
(* own, the first ones there are.                                          *)
LEMMA PlaceIsOwn ==
  ASSUME NEW args \in Seq(Actors), args # << >>
  PROVE  LET n == Cardinality(Unique(args))
         IN  /\ n \in Nat \ {0}
             /\ \A m \in 1..n : \E k \in Unique(args) : Place(args, k) = m
             /\ \A j, k \in Unique(args) : Place(args, j) < Place(args, k)
                  => Before(args, j, k)
<1> DEFINE kept == Unique(args)
           down(k) == {j \in kept : Before(args, j, k)}
           n == Cardinality(kept)
           f == [k \in kept |-> Place(args, k)]
<1>1. kept \subseteq 1..Len(args) /\ 1 \in kept
  BY DEF Unique
<1>2. IsFiniteSet(kept) /\ n \in Nat \ {0}
  <2>1. IsFiniteSet(1..Len(args))
    BY FS_Interval
  <2>2. IsFiniteSet(kept)
    BY <1>1, <2>1, FS_Subset
  <2> QED
    BY <1>1, <2>2, FS_CardinalityType, FS_EmptySet
<1>3. ASSUME NEW k \in kept
      PROVE  IsFiniteSet(down(k)) /\ Cardinality(down(k)) \in Nat /\ Place(args, k) \in 1..n
  <2>1. args[k] \in Actors /\ k \notin down(k)
    BY <1>1, ScopedAssumption DEF Before
  <2>2. down(k) \subseteq kept \ {k}
    BY <2>1
  <2>3. IsFiniteSet(kept \ {k}) /\ Cardinality(kept \ {k}) = n - 1
    BY <1>2, FS_RemoveElement
  <2>4. IsFiniteSet(down(k)) /\ Cardinality(down(k)) <= n - 1
    BY <2>2, <2>3, FS_Subset
  <2>5. Cardinality(down(k)) \in Nat
    BY <2>4, FS_CardinalityType
  <2> QED
    BY <1>2, <2>4, <2>5 DEF Place
<1>11. ASSUME NEW k \in kept PROVE Place(args, k) \in Nat
  <2>1. Place(args, k) \in 1..n
    BY <1>3
  <2> HIDE DEF n
  <2> QED
    BY <1>2, <2>1
<1>10. \A k \in kept : Place(args, k) = 1 + Cardinality(down(k))
  BY DEF Place
<1>4. ASSUME NEW j \in kept, NEW k \in kept, Before(args, j, k)
      PROVE  Place(args, j) < Place(args, k)
  <2>1. args[j] \in Actors /\ args[k] \in Actors /\ Seed[args[j]] \in Nat /\ Seed[args[k]] \in Nat
    BY <1>1, ScopedAssumption
  <2>2. down(j) \subseteq down(k)
    <3> SUFFICES ASSUME NEW x \in kept, Before(args, x, j) PROVE Before(args, x, k)
      OBVIOUS
    <3>1. args[x] \in Actors /\ Seed[args[x]] \in Nat
      BY <1>1, ScopedAssumption
    <3> QED
      BY <1>1, <1>4, <2>1, <3>1 DEF Before
  <2>3. j \in down(k) /\ j \notin down(j)
    BY <1>1, <1>4, <2>1 DEF Before
  <2>4. Cardinality(down(j)) # Cardinality(down(k))
    BY <1>3, <2>2, <2>3, FS_Subset
  <2>5. Cardinality(down(j)) <= Cardinality(down(k))
    BY <1>3, <2>2, FS_Subset
  <2> HIDE DEF kept, down
  <2> QED
    BY <1>3, <1>10, <2>4, <2>5
<1>5. ASSUME NEW j \in kept, NEW k \in kept, j # k
      PROVE  Before(args, j, k) \/ Before(args, k, j)
  <2>1. args[j] \in Actors /\ args[k] \in Actors /\ Seed[args[j]] \in Nat /\ Seed[args[k]] \in Nat
    BY <1>1, ScopedAssumption
  <2>2. Seed[args[j]] = Seed[args[k]] => args[j] = args[k]
    BY <2>1, ScopedAssumption
  <2> QED
    BY <1>1, <1>5, <2>1, <2>2 DEF Before
<1>6. f \in Injection(kept, 1..n)
  <2>1. f \in [kept -> 1..n]
    BY <1>3
  <2>2. ASSUME NEW j \in kept, NEW k \in kept, j # k PROVE f[j] # f[k]
    <3>1. Place(args, j) \in Int /\ Place(args, k) \in Int
      BY <1>11
    <3>2. Place(args, j) # Place(args, k)
      BY <1>4, <1>5, <2>2, <3>1
    <3> QED
      BY <3>2
  <2> HIDE DEF f, kept, n
  <2> QED
    BY <2>1, <2>2 DEF Injection, IsInjective
<1>7. f \in Surjection(kept, 1..n)
  <2>1. IsFiniteSet(1..n) /\ Cardinality(1..n) = n
    BY <1>2, FS_Interval
  <2> HIDE DEF f, kept
  <2> QED
    BY <1>6, <2>1, FS_Injection
<1>8. \A m \in 1..n : \E k \in kept : Place(args, k) = m
  BY <1>7 DEF Surjection
<1>9. ASSUME NEW j \in kept, NEW k \in kept, Place(args, j) < Place(args, k)
      PROVE  Before(args, j, k)
  <2>1. Place(args, j) \in Int /\ Place(args, k) \in Int
    BY <1>11
  <2> QED
    BY <1>4, <1>5, <1>9, <2>1
<1> QED
  BY <1>2, <1>8, <1>9

(* The constructor leaves a sequence of members, one at least, in the      *)
(* order of their seeds: every dispatcher of every scoped actor spins for  *)
(* the flags of two actors in the same order.                              *)
THEOREM MembersAreSorted ==
  ASSUME NEW s \in Scopes
  PROVE  /\ Members[s] \in Seq(Actors)
         /\ Len(Members[s]) \in Nat \ {0}
         /\ \A m, n \in DOMAIN Members[s] :
              m < n => Seed[Members[s][m]] <= Seed[Members[s][n]]
<1> DEFINE args == Args[s]
           size == Cardinality(Unique(args))
           pick(m) == CHOOSE k \in Unique(args) : Place(args, k) = m
<1>1. args \in Seq(Actors) /\ args # << >>
  BY ScopedAssumption
<1>2. /\ size \in Nat \ {0}
      /\ \A m \in 1..size : \E k \in Unique(args) : Place(args, k) = m
      /\ \A j, k \in Unique(args) : Place(args, j) < Place(args, k) => Before(args, j, k)
  BY <1>1, PlaceIsOwn
<1>3. Members[s] = [m \in 1..size |-> args[pick(m)]]
  BY DEF Members
<1>4. \A m \in 1..size : pick(m) \in Unique(args) /\ Place(args, pick(m)) = m
  BY <1>2
<1>5. \A m \in 1..size : args[pick(m)] \in Actors
  <2>1. \A k \in Unique(args) : args[k] \in Actors
    BY <1>1 DEF Unique
  <2> HIDE DEF args, size, pick
  <2> QED
    BY <1>4, <2>1
<1> HIDE DEF args, size, pick
<1>6. Members[s] \in Seq(Actors) /\ Len(Members[s]) = size /\ DOMAIN Members[s] = 1..size
  <2>1. Members[s] \in [1..size -> Actors]
    BY <1>3, <1>5
  <2> QED
    BY <1>2, <2>1
<1>7. ASSUME NEW m \in 1..size, NEW n \in 1..size, m < n
      PROVE  Seed[Members[s][m]] <= Seed[Members[s][n]]
  <2>1. Before(args, pick(m), pick(n))
    BY <1>2, <1>4, <1>7
  <2>2. Seed[args[pick(m)]] \in Nat
    BY <1>5, ScopedAssumption
  <2>3. Seed[args[pick(n)]] \in Nat
    BY <1>5, ScopedAssumption
  <2> QED
    BY <1>3, <2>1, <2>2, <2>3 DEF Before
<1> QED
  BY <1>2, <1>6, <1>7

-----------------------------------------------------------------------------
LEMMA InitApart == ScopedInit => ScopedInv
<1> SUFFICES ASSUME ScopedInit PROVE Apart
  BY DEF ScopedInv
<1> USE DEF ScopedInit, Init
<1>1. ScopedTypes
  BY LabelFacts DEF ScopedTypes, ScopedLabels
<1>2. ScopedLocated
  BY ScopedAssumption DEF ScopedLocated, LocatedAt, RunsJob, ScheduleSteps,
     DispatchSteps
<1>3. \A t \in Threads : \A s \in Scopes : ~Inside(t, s)
  BY DEF Inside
<1>4. OneInside /\ IndexFits
  BY <1>3 DEF OneInside, IndexFits
<1>5. \A t \in Threads : \A a \in Actors : ~DispatchHolds(t, a) /\ ~ScheduleHolds(t, a)
  BY DEF DispatchHolds, ScheduleHolds, ScheduleSteps
<1>6. OneWay
  BY <1>3, <1>5 DEF OneWay, Way
<1> QED
  BY <1>1, <1>2, <1>4, <1>6 DEF Apart

-----------------------------------------------------------------------------
(* A step that leaves the flags and their holders alone, one that takes a  *)
(* free flag, and one that gives a flag back.                              *)
LEMMA WaysKept ==
  ASSUME OneWay, acquired' = acquired,
         \A u \in Threads : \A k \in Int : \A a \in Actors :
           Way(u, k, a)' <=> Way(u, k, a)
  PROVE  OneWay'
  BY DEF OneWay

LEMMA WayTaken ==
  ASSUME OneWay, acquired \in [Actors -> BOOLEAN],
         NEW t \in Threads, NEW m \in Int, NEW b \in Actors,
         ~acquired[b], acquired' = [acquired EXCEPT ![b] = TRUE],
         \A u \in Threads : \A k \in Int : \A a \in Actors :
           Way(u, k, a)' <=> Way(u, k, a) \/ (u = t /\ k = m /\ a = b)
  PROVE  OneWay'
<1> SUFFICES ASSUME NEW a \in Actors
             PROVE  /\ (acquired[a])' <=> \E u \in Threads : \E k \in Int : Way(u, k, a)'
                    /\ \A u, v \in Threads : \A k, l \in Int :
                         Way(u, k, a)' /\ Way(v, l, a)' => u = v /\ k = l
  BY DEF OneWay
<1>1. CASE a = b
  BY <1>1 DEF OneWay
<1>2. CASE a # b
  <2>1. acquired'[a] = acquired[a]
    BY <1>2
  <2>2. \A u \in Threads : \A k \in Int : Way(u, k, a)' <=> Way(u, k, a)
    BY <1>2
  <2> QED
    BY <2>1, <2>2 DEF OneWay
<1> QED
  BY <1>1, <1>2

LEMMA WayFreed ==
  ASSUME OneWay, acquired \in [Actors -> BOOLEAN],
         NEW t \in Threads, NEW m \in Int, NEW b \in Actors,
         Way(t, m, b), acquired' = [acquired EXCEPT ![b] = FALSE],
         \A u \in Threads : \A k \in Int : \A a \in Actors :
           Way(u, k, a)' <=> Way(u, k, a) /\ <<u, k, a>> # <<t, m, b>>
  PROVE  OneWay'
<1> SUFFICES ASSUME NEW a \in Actors
             PROVE  /\ (acquired[a])' <=> \E u \in Threads : \E k \in Int : Way(u, k, a)'
                    /\ \A u, v \in Threads : \A k, l \in Int :
                         Way(u, k, a)' /\ Way(v, l, a)' => u = v /\ k = l
  BY DEF OneWay
<1>1. CASE a = b
  BY <1>1 DEF OneWay
<1>2. CASE a # b
  <2>1. acquired'[a] = acquired[a]
    BY <1>2
  <2>2. \A u \in Threads : \A k \in Int : Way(u, k, a)' <=> Way(u, k, a)
    BY <1>2
  <2> QED
    BY <2>1, <2>2 DEF OneWay
<1> QED
  BY <1>1, <1>2

-----------------------------------------------------------------------------
(* What a step of a plain actor by t does to the state of t and the flags. *)
ActorTypes ==
  /\ acquired \in [Actors -> BOOLEAN]
  /\ pc \in [Threads -> Labels]
  /\ tgt \in [Threads -> Actors \cup {None}]
  /\ ret \in [Threads -> {"idle", "run", "tick"}]
  /\ self \in [Threads -> Actors \cup {None}]

OthersRest(t) ==
  \A u \in Threads \ {t} : /\ pc'[u] = pc[u] /\ tgt'[u] = tgt[u]
                            /\ ret'[u] = ret[u] /\ self'[u] = self[u]

KeepsFlags(t) ==
  /\ acquired' = acquired
  /\ \A a \in Actors : /\ DispatchHolds(t, a)' <=> DispatchHolds(t, a)
                       /\ ScheduleHolds(t, a)' <=> ScheduleHolds(t, a)

TakesFlag(t) ==
  \E b \in Actors : \E m \in {-1, 0} :
    /\ ~acquired[b]
    /\ acquired' = [acquired EXCEPT ![b] = TRUE]
    /\ \A a \in Actors :
         /\ DispatchHolds(t, a)' <=> DispatchHolds(t, a) \/ (m = -1 /\ a = b)
         /\ ScheduleHolds(t, a)' <=> ScheduleHolds(t, a) \/ (m = 0 /\ a = b)

FreesFlag(t) ==
  \E b \in Actors : \E m \in {-1, 0} :
    /\ m = -1 => DispatchHolds(t, b)
    /\ m = 0 => ScheduleHolds(t, b)
    /\ acquired' = [acquired EXCEPT ![b] = FALSE]
    /\ \A a \in Actors :
         /\ DispatchHolds(t, a)' <=> DispatchHolds(t, a) /\ ~(m = -1 /\ a = b)
         /\ ScheduleHolds(t, a)' <=> ScheduleHolds(t, a) /\ ~(m = 0 /\ a = b)

Moves(t) == /\ ActorTypes' /\ OthersRest(t) /\ LocatedAt(t)'
            /\ KeepsFlags(t) \/ TakesFlag(t) \/ FreesFlag(t)

LEMMA ActorMoves ==
  ASSUME ScopedTypes, ScopedLocated, NEW t \in Threads, ActorStep(t)
  PROVE  Moves(t)
<1> USE ConstantsAssumption DEF ScopedTypes, Go, Stay, Return
<1> DEFINE Steady == UNCHANGED <<at, scope, goal, back, i, index>>
<1>1. LocatedAt(t) /\ Steady
  BY DEF ScopedLocated, ActorStep
<1>2. ASSUME NEW j \in Jobs, PushJob(t, j), at[t] \in {"no", "run"} PROVE Moves(t)
  <2>1. ActorTypes'
    BY <1>1, <1>2, LabelFacts DEF PushJob, CanPost, UserCode, ActorTypes,
       LocatedAt, ScheduleSteps, DispatchSteps
  <2>2. OthersRest(t)
    BY <1>2 DEF PushJob, CanPost, UserCode, OthersRest
  <2>3. LocatedAt(t)'
    BY <1>1, <1>2 DEF PushJob, CanPost, UserCode, LocatedAt, RunsJob,
       ScheduleSteps, DispatchSteps
  <2>4. KeepsFlags(t)
    BY <1>1, <1>2 DEF PushJob, CanPost, UserCode, KeepsFlags, LocatedAt,
       RunsJob, DispatchHolds, ScheduleHolds, ScheduleSteps
  <2> QED
    BY <2>1, <2>2, <2>3, <2>4 DEF Moves
<1>3. ASSUME NEW j \in Jobs, RefuseJob(t, j), at[t] \in {"no", "run"} PROVE Moves(t)
  <2>1. /\ acquired' = acquired /\ pc' = pc /\ tgt' = tgt /\ ret' = ret /\ self' = self
        /\ ActorTypes'
    BY <1>3 DEF RefuseJob, local, ActorTypes
  <2>2. OthersRest(t) /\ KeepsFlags(t)
    BY <2>1 DEF OthersRest, KeepsFlags, DispatchHolds, ScheduleHolds
  <2>3. LocatedAt(t)'
    BY <1>1, <2>1 DEF LocatedAt, RunsJob
  <2> QED
    BY <2>1, <2>2, <2>3 DEF Moves
<1>4. ASSUME NEW j \in Jobs, PostDelay(t, j), at[t] \in {"no", "run"} PROVE Moves(t)
  <2>1. /\ acquired' = acquired /\ pc' = pc /\ tgt' = tgt /\ ret' = ret /\ self' = self
        /\ ActorTypes'
    BY <1>4 DEF PostDelay, local, ActorTypes
  <2>2. OthersRest(t) /\ KeepsFlags(t)
    BY <2>1 DEF OthersRest, KeepsFlags, DispatchHolds, ScheduleHolds
  <2>3. LocatedAt(t)'
    BY <1>1, <2>1 DEF LocatedAt, RunsJob
  <2> QED
    BY <2>1, <2>2, <2>3 DEF Moves
<1>5. ASSUME CountJob(t), at[t] \in {"no", "run"} PROVE Moves(t)
  <2>1. ActorTypes'
    BY <1>1, <1>5, LabelFacts DEF CountJob, ActorTypes, LocatedAt,
       ScheduleSteps, DispatchSteps
  <2>2. OthersRest(t)
    BY <1>5 DEF CountJob, OthersRest
  <2>3. LocatedAt(t)'
    BY <1>1, <1>5 DEF CountJob, LocatedAt, RunsJob, ScheduleSteps,
       DispatchSteps
  <2>4. KeepsFlags(t)
    BY <1>1, <1>5 DEF CountJob, KeepsFlags, LocatedAt, RunsJob, DispatchHolds,
       ScheduleHolds, ScheduleSteps
  <2> QED
    BY <2>1, <2>2, <2>3, <2>4 DEF Moves
<1>6. ASSUME Register(t), at[t] \in {"no", "run"} PROVE Moves(t)
  <2>1. ActorTypes'
    BY <1>1, <1>6, LabelFacts DEF Register, shared, ActorTypes, LocatedAt,
       ScheduleSteps, DispatchSteps
  <2>2. OthersRest(t)
    BY <1>6 DEF Register, shared, OthersRest
  <2>3. LocatedAt(t)'
    BY <1>1, <1>6 DEF Register, shared, LocatedAt, RunsJob, ScheduleSteps,
       DispatchSteps
  <2>4. KeepsFlags(t)
    BY <1>1, <1>6 DEF Register, shared, KeepsFlags, LocatedAt, RunsJob,
       DispatchHolds, ScheduleHolds, ScheduleSteps
  <2> QED
    BY <2>1, <2>2, <2>3, <2>4 DEF Moves
<1>7. ASSUME SetOwner(t), at[t] \in {"no", "run"} PROVE Moves(t)
  <2>1. ActorTypes'
    BY <1>1, <1>7, LabelFacts DEF SetOwner, ActorTypes, LocatedAt,
       ScheduleSteps, DispatchSteps
  <2>2. OthersRest(t)
    BY <1>7 DEF SetOwner, OthersRest
  <2>3. LocatedAt(t)'
    BY <1>1, <1>7 DEF SetOwner, LocatedAt, RunsJob, ScheduleSteps,
       DispatchSteps
  <2>4. KeepsFlags(t)
    BY <1>1, <1>7 DEF SetOwner, KeepsFlags, LocatedAt, RunsJob, DispatchHolds,
       ScheduleHolds, ScheduleSteps
  <2> QED
    BY <2>1, <2>2, <2>3, <2>4 DEF Moves
<1>8. ASSUME ScheduleAcquire(t), at[t] \in {"no", "run"} PROVE Moves(t)
  <2>1. ActorTypes'
    BY <1>1, <1>8, LabelFacts DEF ScheduleAcquire, ActorTypes, LocatedAt,
       ScheduleSteps, DispatchSteps
  <2>2. OthersRest(t)
    BY <1>8 DEF ScheduleAcquire, OthersRest
  <2>3. LocatedAt(t)'
    BY <1>1, <1>8 DEF ScheduleAcquire, LocatedAt, RunsJob, ScheduleSteps,
       DispatchSteps
  <2>4. tgt[t] \in Actors
    BY <1>1, <1>8 DEF ScheduleAcquire, LocatedAt, ScheduleSteps, DispatchSteps
  <2>5. CASE acquired[tgt[t]]
    <3>1. KeepsFlags(t)
      BY <1>1, <1>8, <2>4, <2>5 DEF ScheduleAcquire, KeepsFlags, LocatedAt,
         RunsJob, DispatchHolds, ScheduleHolds, ScheduleSteps
    <3> QED
      BY <2>1, <2>2, <2>3, <3>1 DEF Moves
  <2>6. CASE ~acquired[tgt[t]]
    <3>1. \A a \in Actors :
            /\ DispatchHolds(t, a)' <=> DispatchHolds(t, a) \/ (0 = -1 /\ a = tgt[t])
            /\ ScheduleHolds(t, a)' <=> ScheduleHolds(t, a) \/ (0 = 0 /\ a = tgt[t])
      BY <1>1, <1>8, <2>4, <2>6 DEF ScheduleAcquire, LocatedAt, RunsJob,
         DispatchHolds, ScheduleHolds, ScheduleSteps
    <3>2. acquired' = [acquired EXCEPT ![tgt[t]] = TRUE]
      BY <1>8 DEF ScheduleAcquire
    <3>3. TakesFlag(t)
      BY <2>4, <2>6, <3>1, <3>2 DEF TakesFlag
    <3> QED
      BY <2>1, <2>2, <2>3, <3>3 DEF Moves
  <2> QED
    BY <2>5, <2>6
<1>9. ASSUME PostCompletion(t), at[t] \in {"no", "run"} PROVE Moves(t)
  <2>1. ActorTypes'
    BY <1>1, <1>9, LabelFacts DEF PostCompletion, ActorTypes, LocatedAt,
       ScheduleSteps, DispatchSteps
  <2>2. OthersRest(t)
    BY <1>9 DEF PostCompletion, OthersRest
  <2>3. LocatedAt(t)'
    BY <1>1, <1>9 DEF PostCompletion, LocatedAt, RunsJob, ScheduleSteps,
       DispatchSteps
  <2>4. KeepsFlags(t)
    BY <1>1, <1>9 DEF PostCompletion, KeepsFlags, LocatedAt, RunsJob,
       DispatchHolds, ScheduleHolds, ScheduleSteps
  <2> QED
    BY <2>1, <2>2, <2>3, <2>4 DEF Moves
<1>10. ASSUME PostCompletionFails(t), at[t] \in {"no", "run"} PROVE Moves(t)
  <2>1. ActorTypes'
    BY <1>1, <1>10, LabelFacts DEF PostCompletionFails, ActorTypes, LocatedAt,
       ScheduleSteps, DispatchSteps
  <2>2. OthersRest(t)
    BY <1>10 DEF PostCompletionFails, OthersRest
  <2>3. LocatedAt(t)'
    BY <1>1, <1>10 DEF PostCompletionFails, LocatedAt, RunsJob, ScheduleSteps,
       DispatchSteps
  <2>4. KeepsFlags(t)
    BY <1>1, <1>10 DEF PostCompletionFails, KeepsFlags, LocatedAt, RunsJob,
       DispatchHolds, ScheduleHolds, ScheduleSteps
  <2> QED
    BY <2>1, <2>2, <2>3, <2>4 DEF Moves
<1>11. ASSUME ScheduleRelease(t), at[t] \in {"no", "run"} PROVE Moves(t)
  <2>1. ActorTypes'
    BY <1>1, <1>11, LabelFacts DEF ScheduleRelease, ActorTypes, LocatedAt,
       ScheduleSteps, DispatchSteps
  <2>2. OthersRest(t)
    BY <1>11 DEF ScheduleRelease, OthersRest
  <2>3. LocatedAt(t)'
    BY <1>1, <1>11 DEF ScheduleRelease, LocatedAt, RunsJob, ScheduleSteps,
       DispatchSteps
  <2>4. tgt[t] \in Actors /\ ScheduleHolds(t, tgt[t])
    BY <1>1, <1>11 DEF ScheduleRelease, LocatedAt, DispatchHolds,
       ScheduleHolds, ScheduleSteps, DispatchSteps
  <2>5. \A a \in Actors :
          /\ DispatchHolds(t, a)' <=> DispatchHolds(t, a) /\ ~(0 = -1 /\ a = tgt[t])
          /\ ScheduleHolds(t, a)' <=> ScheduleHolds(t, a) /\ ~(0 = 0 /\ a = tgt[t])
    BY <1>1, <1>11, <2>4 DEF ScheduleRelease, LocatedAt, RunsJob,
       DispatchHolds, ScheduleHolds, ScheduleSteps
  <2>6. acquired' = [acquired EXCEPT ![tgt[t]] = FALSE]
    BY <1>11 DEF ScheduleRelease
  <2>7. FreesFlag(t)
    <3>1. /\ 0 = -1 => DispatchHolds(t, tgt[t])
          /\ 0 = 0 => ScheduleHolds(t, tgt[t])
      BY <2>4
    <3>2. tgt[t] \in Actors /\ 0 \in {-1, 0}
      BY <2>4
    <3> HIDE DEF ScopedTypes, Go, Stay, Return
    <3> QED
      BY <2>5, <2>6, <3>1, <3>2, Zenon DEF FreesFlag
  <2> QED
    BY <2>1, <2>2, <2>3, <2>7 DEF Moves
<1>12. ASSUME GetOwner(t), at[t] \in {"no"} PROVE Moves(t)
  <2>1. ActorTypes'
    BY <1>1, <1>12, LabelFacts DEF GetOwner, shared, ActorTypes, LocatedAt,
       ScheduleSteps, DispatchSteps
  <2>2. OthersRest(t)
    BY <1>12 DEF GetOwner, shared, OthersRest
  <2>3. LocatedAt(t)'
    BY <1>1, <1>12 DEF GetOwner, shared, LocatedAt, RunsJob, ScheduleSteps,
       DispatchSteps
  <2>4. KeepsFlags(t)
    BY <1>1, <1>12 DEF GetOwner, shared, KeepsFlags, LocatedAt, RunsJob,
       DispatchHolds, ScheduleHolds, ScheduleSteps
  <2> QED
    BY <2>1, <2>2, <2>3, <2>4 DEF Moves
<1>13. ASSUME DispatchAcquire(t), at[t] \in {"no"} PROVE Moves(t)
  <2>1. ActorTypes'
    BY <1>1, <1>13, LabelFacts DEF DispatchAcquire, ActorTypes, LocatedAt,
       ScheduleSteps, DispatchSteps
  <2>2. OthersRest(t)
    BY <1>13 DEF DispatchAcquire, OthersRest
  <2>3. LocatedAt(t)'
    BY <1>1, <1>13 DEF DispatchAcquire, LocatedAt, RunsJob, ScheduleSteps,
       DispatchSteps
  <2>4. self[t] \in Actors
    BY <1>1, <1>13 DEF DispatchAcquire, LocatedAt, ScheduleSteps, DispatchSteps
  <2>5. CASE acquired[self[t]]
    <3>1. KeepsFlags(t)
      BY <1>1, <1>13, <2>4, <2>5 DEF DispatchAcquire, KeepsFlags, LocatedAt,
         RunsJob, DispatchHolds, ScheduleHolds, ScheduleSteps
    <3> QED
      BY <2>1, <2>2, <2>3, <3>1 DEF Moves
  <2>6. CASE ~acquired[self[t]]
    <3>1. \A a \in Actors :
            /\ DispatchHolds(t, a)' <=> DispatchHolds(t, a) \/ (-1 = -1 /\ a = self[t])
            /\ ScheduleHolds(t, a)' <=> ScheduleHolds(t, a) \/ (-1 = 0 /\ a = self[t])
      BY <1>1, <1>13, <2>4, <2>6 DEF DispatchAcquire, LocatedAt, RunsJob,
         DispatchHolds, ScheduleHolds, ScheduleSteps
    <3>2. acquired' = [acquired EXCEPT ![self[t]] = TRUE]
      BY <1>13 DEF DispatchAcquire
    <3>3. TakesFlag(t)
      BY <2>4, <2>6, <3>1, <3>2 DEF TakesFlag
    <3> QED
      BY <2>1, <2>2, <2>3, <3>3 DEF Moves
  <2> QED
    BY <2>5, <2>6
<1>14. ASSUME ReadBatch(t), at[t] \in {"no"} PROVE Moves(t)
  <2>1. ActorTypes'
    BY <1>1, <1>14, LabelFacts DEF ReadBatch, shared, ActorTypes, LocatedAt,
       ScheduleSteps, DispatchSteps
  <2>2. OthersRest(t)
    BY <1>14 DEF ReadBatch, shared, OthersRest
  <2>3. LocatedAt(t)'
    BY <1>1, <1>14 DEF ReadBatch, shared, LocatedAt, RunsJob, ScheduleSteps,
       DispatchSteps
  <2>4. KeepsFlags(t)
    BY <1>1, <1>14 DEF ReadBatch, shared, KeepsFlags, LocatedAt, RunsJob,
       DispatchHolds, ScheduleHolds, ScheduleSteps
  <2> QED
    BY <2>1, <2>2, <2>3, <2>4 DEF Moves
<1>15. ASSUME Execute(t), at[t] \in {"no"} PROVE Moves(t)
  <2>1. ActorTypes'
    BY <1>1, <1>15, LabelFacts DEF Execute, ActorTypes, LocatedAt,
       ScheduleSteps, DispatchSteps
  <2>2. OthersRest(t)
    BY <1>15 DEF Execute, OthersRest
  <2>3. LocatedAt(t)'
    BY <1>1, <1>15 DEF Execute, LocatedAt, RunsJob, ScheduleSteps,
       DispatchSteps
  <2>4. KeepsFlags(t)
    BY <1>1, <1>15 DEF Execute, KeepsFlags, LocatedAt, RunsJob, DispatchHolds,
       ScheduleHolds, ScheduleSteps
  <2> QED
    BY <2>1, <2>2, <2>3, <2>4 DEF Moves
<1>16. ASSUME FinishJob(t), at[t] \in {"no"} PROVE Moves(t)
  <2>1. ActorTypes'
    BY <1>1, <1>16, LabelFacts DEF FinishJob, shared, ActorTypes, LocatedAt,
       ScheduleSteps, DispatchSteps
  <2>2. OthersRest(t)
    BY <1>16 DEF FinishJob, shared, OthersRest
  <2>3. LocatedAt(t)'
    BY <1>1, <1>16, ScopedAssumption DEF FinishJob, shared, LocatedAt,
       RunsJob, ScheduleSteps, DispatchSteps
  <2>4. KeepsFlags(t)
    BY <1>1, <1>16 DEF FinishJob, shared, KeepsFlags, LocatedAt, RunsJob,
       DispatchHolds, ScheduleHolds, ScheduleSteps
  <2> QED
    BY <2>1, <2>2, <2>3, <2>4 DEF Moves
<1>17. ASSUME EndBatch(t), at[t] \in {"no"} PROVE Moves(t)
  <2>1. ActorTypes'
    BY <1>1, <1>17, LabelFacts DEF EndBatch, shared, ActorTypes, LocatedAt,
       ScheduleSteps, DispatchSteps
  <2>2. OthersRest(t)
    BY <1>17 DEF EndBatch, shared, OthersRest
  <2>3. LocatedAt(t)'
    BY <1>1, <1>17 DEF EndBatch, shared, LocatedAt, RunsJob, ScheduleSteps,
       DispatchSteps
  <2>4. KeepsFlags(t)
    BY <1>1, <1>17 DEF EndBatch, shared, KeepsFlags, LocatedAt, RunsJob,
       DispatchHolds, ScheduleHolds, ScheduleSteps
  <2> QED
    BY <2>1, <2>2, <2>3, <2>4 DEF Moves
<1>18. ASSUME ClearActorOverlapped(t), at[t] \in {"no"} PROVE Moves(t)
  <2>1. ActorTypes'
    BY <1>1, <1>18, LabelFacts DEF ClearActorOverlapped, ActorTypes,
       LocatedAt, ScheduleSteps, DispatchSteps
  <2>2. OthersRest(t)
    BY <1>18 DEF ClearActorOverlapped, OthersRest
  <2>3. LocatedAt(t)'
    BY <1>1, <1>18 DEF ClearActorOverlapped, LocatedAt, RunsJob,
       ScheduleSteps, DispatchSteps
  <2>4. KeepsFlags(t)
    BY <1>1, <1>18 DEF ClearActorOverlapped, KeepsFlags, LocatedAt, RunsJob,
       DispatchHolds, ScheduleHolds, ScheduleSteps
  <2> QED
    BY <2>1, <2>2, <2>3, <2>4 DEF Moves
<1>19. ASSUME DispatchRelease(t), at[t] \in {"no"} PROVE Moves(t)
  <2>1. ActorTypes'
    BY <1>1, <1>19, LabelFacts DEF DispatchRelease, ActorTypes, LocatedAt,
       ScheduleSteps, DispatchSteps
  <2>2. OthersRest(t)
    BY <1>19 DEF DispatchRelease, OthersRest
  <2>3. LocatedAt(t)'
    BY <1>1, <1>19 DEF DispatchRelease, LocatedAt, RunsJob, ScheduleSteps,
       DispatchSteps
  <2>4. self[t] \in Actors /\ DispatchHolds(t, self[t])
    BY <1>1, <1>19 DEF DispatchRelease, LocatedAt, DispatchHolds,
       ScheduleHolds, ScheduleSteps, DispatchSteps
  <2>5. \A a \in Actors :
          /\ DispatchHolds(t, a)' <=> DispatchHolds(t, a) /\ ~(-1 = -1 /\ a = self[t])
          /\ ScheduleHolds(t, a)' <=> ScheduleHolds(t, a) /\ ~(-1 = 0 /\ a = self[t])
    BY <1>1, <1>19, <2>4 DEF DispatchRelease, LocatedAt, RunsJob,
       DispatchHolds, ScheduleHolds, ScheduleSteps
  <2>6. acquired' = [acquired EXCEPT ![self[t]] = FALSE]
    BY <1>19 DEF DispatchRelease
  <2>7. FreesFlag(t)
    <3>1. /\ -1 = -1 => DispatchHolds(t, self[t])
          /\ -1 = 0 => ScheduleHolds(t, self[t])
      BY <2>4
    <3>2. self[t] \in Actors /\ -1 \in {-1, 0}
      BY <2>4
    <3> HIDE DEF ScopedTypes, Go, Stay, Return
    <3> QED
      BY <2>5, <2>6, <3>1, <3>2, Zenon DEF FreesFlag
  <2> QED
    BY <2>1, <2>2, <2>3, <2>7 DEF Moves
<1>20. ASSUME EndTick(t), at[t] \in {"no"} PROVE Moves(t)
  <2>1. ActorTypes'
    BY <1>1, <1>20, LabelFacts DEF EndTick, shared, ActorTypes, LocatedAt,
       ScheduleSteps, DispatchSteps
  <2>2. OthersRest(t)
    BY <1>20 DEF EndTick, shared, OthersRest
  <2>3. LocatedAt(t)'
    BY <1>1, <1>20 DEF EndTick, shared, LocatedAt, RunsJob, ScheduleSteps,
       DispatchSteps
  <2>4. KeepsFlags(t)
    BY <1>1, <1>20 DEF EndTick, shared, KeepsFlags, LocatedAt, RunsJob,
       DispatchHolds, ScheduleHolds, ScheduleSteps
  <2> QED
    BY <2>1, <2>2, <2>3, <2>4 DEF Moves
<1>21. ASSUME TimeSlice(t), at[t] \in {"no"} PROVE Moves(t)
  <2>1. ActorTypes'
    BY <1>1, <1>21, LabelFacts DEF TimeSlice, shared, ActorTypes, LocatedAt,
       ScheduleSteps, DispatchSteps
  <2>2. OthersRest(t)
    BY <1>21 DEF TimeSlice, shared, OthersRest
  <2>3. LocatedAt(t)'
    BY <1>1, <1>21 DEF TimeSlice, shared, LocatedAt, RunsJob, ScheduleSteps,
       DispatchSteps
  <2>4. KeepsFlags(t)
    BY <1>1, <1>21 DEF TimeSlice, shared, KeepsFlags, LocatedAt, RunsJob,
       DispatchHolds, ScheduleHolds, ScheduleSteps
  <2> QED
    BY <2>1, <2>2, <2>3, <2>4 DEF Moves
<1>22. ASSUME NEW a \in Actors, TakeCompletion(t, a), at[t] \in {"no"} PROVE Moves(t)
  <2>1. ActorTypes'
    BY <1>1, <1>22, LabelFacts DEF TakeCompletion, ActorTypes, LocatedAt,
       ScheduleSteps, DispatchSteps
  <2>2. OthersRest(t)
    BY <1>22 DEF TakeCompletion, OthersRest
  <2>3. LocatedAt(t)'
    BY <1>1, <1>22 DEF TakeCompletion, LocatedAt, RunsJob, ScheduleSteps,
       DispatchSteps
  <2>4. KeepsFlags(t)
    BY <1>1, <1>22 DEF TakeCompletion, KeepsFlags, LocatedAt, RunsJob,
       DispatchHolds, ScheduleHolds, ScheduleSteps
  <2> QED
    BY <2>1, <2>2, <2>3, <2>4 DEF Moves
<1> QED
  BY <1>2, <1>3, <1>4, <1>5, <1>6, <1>7, <1>8, <1>9, <1>10, <1>11, <1>12,
     <1>13, <1>14, <1>15, <1>16, <1>17, <1>18, <1>19, <1>20, <1>21, <1>22
     DEF ActorStep, ScheduleStep, DispatchStep

-----------------------------------------------------------------------------
(* The threads that are inside a scoped actor, and how far they hold it.   *)
SameInside ==
  \A u \in Threads : \A s \in Scopes :
    /\ Inside(u, s)' <=> Inside(u, s)
    /\ Inside(u, s) => Held(u, s)' = Held(u, s)

ScopedRest(t) ==
  \A u \in Threads \ {t} : /\ at'[u] = at[u] /\ scope'[u] = scope[u]
                            /\ goal'[u] = goal[u] /\ back'[u] = back[u]
                            /\ i'[u] = i[u]

LEMMA OthersLocated ==
  ASSUME ScopedLocated, NEW t \in Threads, OthersRest(t), ScopedRest(t), LocatedAt(t)'
  PROVE  ScopedLocated'
<1> SUFFICES ASSUME NEW u \in Threads PROVE LocatedAt(u)'
  BY DEF ScopedLocated
<1>1. CASE u # t
  BY <1>1 DEF ScopedLocated, LocatedAt, RunsJob, OthersRest, ScopedRest
<1> QED
  BY <1>1

LEMMA OthersInside ==
  ASSUME NEW t \in Threads, ScopedRest(t), NEW u \in Threads \ {t}, NEW s \in Scopes
  PROVE  /\ Inside(u, s)' <=> Inside(u, s)
         /\ index'[s] = index[s] => Held(u, s)' = Held(u, s) /\ (Fits(u, s)' <=> Fits(u, s))
  BY DEF ScopedRest, Inside, Held, Fits

LEMMA WaysMove ==
  ASSUME OneWay, acquired \in [Actors -> BOOLEAN], NEW t \in Threads, OthersRest(t),
         SameInside, KeepsFlags(t) \/ TakesFlag(t) \/ FreesFlag(t)
  PROVE  OneWay'
<1>1. ASSUME NEW u \in Threads \ {t}, NEW a \in Actors
      PROVE  /\ DispatchHolds(u, a)' <=> DispatchHolds(u, a)
             /\ ScheduleHolds(u, a)' <=> ScheduleHolds(u, a)
  BY DEF OthersRest, DispatchHolds, ScheduleHolds
<1> DEFINE Scoped(u, k, a) == \E s \in Scopes :
             /\ Inside(u, s) /\ k <= Len(Members[s])
             /\ Members[s][k] = a /\ k <= Held(u, s)
<1>2. \A u \in Threads : \A k \in Int : \A a \in Actors :
        Way(u, k, a) <=> \/ k = -1 /\ DispatchHolds(u, a)
                         \/ k = 0 /\ ScheduleHolds(u, a)
                         \/ k > 0 /\ Scoped(u, k, a)
  BY DEF Way
<1>3. \A u \in Threads : \A k \in Int : \A a \in Actors :
        Way(u, k, a)' <=> \/ k = -1 /\ DispatchHolds(u, a)'
                          \/ k = 0 /\ ScheduleHolds(u, a)'
                          \/ k > 0 /\ Scoped(u, k, a)'
  BY DEF Way
<1>4. \A u \in Threads : \A k \in Int : \A a \in Actors :
        Scoped(u, k, a)' <=> Scoped(u, k, a)
  BY DEF SameInside
<1> HIDE DEF Scoped
<1>5. CASE KeepsFlags(t)
  <2>1. \A u \in Threads : \A a \in Actors :
          /\ DispatchHolds(u, a)' <=> DispatchHolds(u, a)
          /\ ScheduleHolds(u, a)' <=> ScheduleHolds(u, a)
    BY <1>1, <1>5 DEF KeepsFlags
  <2>2. \A u \in Threads : \A k \in Int : \A a \in Actors : Way(u, k, a)' <=> Way(u, k, a)
    BY <1>2, <1>3, <1>4, <2>1
  <2> QED
    BY <1>5, <2>2, WaysKept DEF KeepsFlags
<1>6. CASE TakesFlag(t)
  <2>1. PICK b \in Actors, m \in {-1, 0} :
          /\ ~acquired[b]
          /\ acquired' = [acquired EXCEPT ![b] = TRUE]
          /\ \A a \in Actors :
               /\ DispatchHolds(t, a)' <=> DispatchHolds(t, a) \/ (m = -1 /\ a = b)
               /\ ScheduleHolds(t, a)' <=> ScheduleHolds(t, a) \/ (m = 0 /\ a = b)
    BY <1>6 DEF TakesFlag
  <2>2. \A u \in Threads : \A k \in Int : \A a \in Actors :
          Way(u, k, a)' <=> Way(u, k, a) \/ (u = t /\ k = m /\ a = b)
    <3> SUFFICES ASSUME NEW u \in Threads, NEW k \in Int, NEW a \in Actors
                 PROVE  Way(u, k, a)' <=> Way(u, k, a) \/ (u = t /\ k = m /\ a = b)
      OBVIOUS
    <3>1. CASE u # t
      BY <1>1, <1>2, <1>3, <1>4, <3>1
    <3>2. CASE u = t
      BY <1>2, <1>3, <1>4, <2>1, <3>2
    <3> QED
      BY <3>1, <3>2
  <2>3. m \in Int
    OBVIOUS
  <2>4. ~acquired[b] /\ acquired' = [acquired EXCEPT ![b] = TRUE]
    BY <2>1
  <2> QED
    BY <2>1, <2>2, <2>3, <2>4, WayTaken, Zenon
<1>7. CASE FreesFlag(t)
  <2>1. PICK b \in Actors, m \in {-1, 0} :
          /\ m = -1 => DispatchHolds(t, b)
          /\ m = 0 => ScheduleHolds(t, b)
          /\ acquired' = [acquired EXCEPT ![b] = FALSE]
          /\ \A a \in Actors :
               /\ DispatchHolds(t, a)' <=> DispatchHolds(t, a) /\ ~(m = -1 /\ a = b)
               /\ ScheduleHolds(t, a)' <=> ScheduleHolds(t, a) /\ ~(m = 0 /\ a = b)
    BY <1>7 DEF FreesFlag
  <2>2. \A u \in Threads : \A k \in Int : \A a \in Actors :
          Way(u, k, a)' <=> Way(u, k, a) /\ <<u, k, a>> # <<t, m, b>>
    <3> SUFFICES ASSUME NEW u \in Threads, NEW k \in Int, NEW a \in Actors
                 PROVE  Way(u, k, a)' <=> Way(u, k, a) /\ <<u, k, a>> # <<t, m, b>>
      OBVIOUS
    <3>1. CASE u # t
      BY <1>1, <1>2, <1>3, <1>4, <3>1
    <3>2. CASE u = t
      BY <1>2, <1>3, <1>4, <2>1, <3>2
    <3> QED
      BY <3>1, <3>2
  <2>3. m \in Int /\ Way(t, m, b)
    BY <1>2, <2>1
  <2>4. b \in Actors /\ acquired' = [acquired EXCEPT ![b] = FALSE]
    BY <2>1
  <2>5. Way(t, m, b)
    BY <2>3
  <2>6. m \in Int
    BY <2>3
  <2> QED
    BY <2>2, <2>4, <2>5, <2>6, WayFreed, Zenon
<1> QED
  BY <1>5, <1>6, <1>7

LEMMA ActorApart ==
  ASSUME Apart, NEW t \in Threads, ActorStep(t)
  PROVE  Apart'
<1> USE DEF Apart
<1>1. UNCHANGED <<at, scope, goal, back, i, index>>
  BY DEF ActorStep
<1>2. Moves(t)
  BY ActorMoves
<1>3. ScopedRest(t)
  BY <1>1 DEF ScopedRest
<1>4. ScopedTypes'
  BY <1>1, <1>2 DEF Moves, ActorTypes, ScopedTypes
<1>5. ScopedLocated'
  BY <1>2, <1>3, OthersLocated DEF Moves
<1>6. \A u \in Threads : \A s \in Scopes :
        /\ Inside(u, s)' <=> Inside(u, s)
        /\ Held(u, s)' = Held(u, s)
        /\ Fits(u, s)' <=> Fits(u, s)
  BY <1>1 DEF Inside, Held, Fits
<1>7. OneInside'
  BY <1>6 DEF OneInside
<1>8. IndexFits'
  BY <1>1, <1>6 DEF IndexFits
<1>9. OneWay'
  BY <1>2, <1>6, WaysMove DEF SameInside, Moves, ScopedTypes
<1> QED
  BY <1>4, <1>5, <1>7, <1>8, <1>9

-----------------------------------------------------------------------------
(* A step of t that changes neither a flag nor who is inside what.         *)
Quiet(t) ==
  /\ ScopedTypes' /\ OthersRest(t) /\ ScopedRest(t) /\ LocatedAt(t)'
  /\ index' = index
  /\ \A s \in Scopes : /\ Inside(t, s)' <=> Inside(t, s)
                       /\ Inside(t, s) => Held(t, s)' = Held(t, s) /\ Fits(t, s)'
  /\ KeepsFlags(t)

LEMMA QuietApart ==
  ASSUME Apart, NEW t \in Threads, Quiet(t)
  PROVE  Apart'
<1> USE DEF Apart, Quiet
<1>1. \A u \in Threads : \A s \in Scopes :
        /\ Inside(u, s)' <=> Inside(u, s)
        /\ Inside(u, s) => Held(u, s)' = Held(u, s)
  <2> SUFFICES ASSUME NEW u \in Threads, NEW s \in Scopes
               PROVE  /\ Inside(u, s)' <=> Inside(u, s)
                      /\ Inside(u, s) => Held(u, s)' = Held(u, s)
    OBVIOUS
  <2>1. CASE u # t
    BY <2>1, OthersInside
  <2>2. CASE u = t
    BY <2>2
  <2> QED
    BY <2>1, <2>2
<1>2. ASSUME NEW u \in Threads, NEW s \in Scopes, Inside(u, s)'
      PROVE  Fits(u, s)'
  <2>1. CASE u # t
    BY <1>1, <1>2, <2>1, OthersInside DEF IndexFits
  <2>2. CASE u = t
    BY <1>1, <1>2, <2>2
  <2> QED
    BY <2>1, <2>2
<1>3. OneInside'
  BY <1>1 DEF OneInside
<1>4. IndexFits'
  BY <1>1, <1>2 DEF IndexFits
<1>5. OneWay'
  BY <1>1, WaysMove DEF SameInside, ScopedTypes
<1>6. ScopedLocated'
  BY OthersLocated
<1> QED
  BY <1>3, <1>4, <1>5, <1>6

LEMMA QuietSteps ==
  ASSUME Apart, NEW t \in Threads
  PROVE  /\ \A s \in Scopes : ScopedPost(t, s) \/ TakeScopedCompletion(t, s) => Apart'
         /\ (\/ ScopedRegister(t) \/ ScopedSetOwner(t) \/ ScopedPostCompletion(t)
             \/ ScopedPostFails(t) \/ ScopedBatch(t) \/ ScopedExecute(t)
             \/ ScopedFinish(t) \/ ScopedEndBatch(t) \/ ScopedClearOverlapped(t)
             \/ ScopedGetOwner(t) /\ ~sowned[scope[t]])
              => Apart'
<1> USE ConstantsAssumption, ScopedAssumption DEF At
<1>1. ScopedTypes /\ LocatedAt(t) /\ IndexFits
  BY DEF Apart, ScopedLocated
<1>2. ASSUME NEW s \in Scopes, ScopedPost(t, s) PROVE Apart'
  <2>1. ScopedTypes'
    BY <1>1, <1>2, LabelFacts DEF ScopedPost, vars, shared, local, UserCode,
       ScopedTypes, ScopedLabels, LocatedAt
  <2>2. OthersRest(t) /\ ScopedRest(t) /\ index' = index /\ acquired' = acquired
    BY <1>2 DEF ScopedPost, vars, shared, local, UserCode, OthersRest,
       ScopedRest
  <2>3. LocatedAt(t)'
    BY <1>1, <1>2 DEF ScopedPost, vars, shared, local, UserCode, ScopedTypes,
       LocatedAt, RunsJob, ScheduleSteps, DispatchSteps
  <2>4. ASSUME NEW r \in Scopes
        PROVE  /\ Inside(t, r)' <=> Inside(t, r)
               /\ Inside(t, r) => Held(t, r)' = Held(t, r) /\ Fits(t, r)'
    <3>1. Inside(t, r)' <=> Inside(t, r)
      BY <1>1, <1>2 DEF ScopedPost, vars, shared, local, UserCode,
         ScopedTypes, LocatedAt, Inside
    <3>2. ASSUME Inside(t, r) PROVE Held(t, r)' = Held(t, r) /\ Fits(t, r)'
      BY <1>1, <1>2, <3>2 DEF ScopedPost, vars, shared, local, UserCode,
         ScopedTypes, LocatedAt, Inside, Held, IndexFits, Fits
    <3> QED
      BY <3>1, <3>2
  <2>5. KeepsFlags(t)
    BY <1>1, <1>2, <2>2 DEF ScopedPost, vars, shared, local, UserCode,
       ScopedTypes, LocatedAt, KeepsFlags, DispatchHolds, ScheduleHolds,
       ScheduleSteps
  <2> QED
    BY <2>1, <2>2, <2>3, <2>4, <2>5, QuietApart DEF Quiet
<1>3. ASSUME NEW s \in Scopes, TakeScopedCompletion(t, s) PROVE Apart'
  <2>1. ScopedTypes'
    BY <1>1, <1>3, LabelFacts DEF TakeScopedCompletion, vars, shared, local,
       ScopedTypes, ScopedLabels, LocatedAt
  <2>2. OthersRest(t) /\ ScopedRest(t) /\ index' = index /\ acquired' = acquired
    BY <1>3 DEF TakeScopedCompletion, vars, shared, local, OthersRest,
       ScopedRest
  <2>3. LocatedAt(t)'
    BY <1>1, <1>3 DEF TakeScopedCompletion, vars, shared, local, ScopedTypes,
       LocatedAt, RunsJob, ScheduleSteps, DispatchSteps
  <2>4. ASSUME NEW r \in Scopes
        PROVE  /\ Inside(t, r)' <=> Inside(t, r)
               /\ Inside(t, r) => Held(t, r)' = Held(t, r) /\ Fits(t, r)'
    <3>1. Inside(t, r)' <=> Inside(t, r)
      BY <1>1, <1>3 DEF TakeScopedCompletion, vars, shared, local,
         ScopedTypes, LocatedAt, Inside
    <3>2. ASSUME Inside(t, r) PROVE Held(t, r)' = Held(t, r) /\ Fits(t, r)'
      BY <1>1, <1>3, <3>2 DEF TakeScopedCompletion, vars, shared, local,
         ScopedTypes, LocatedAt, Inside, Held, IndexFits, Fits
    <3> QED
      BY <3>1, <3>2
  <2>5. KeepsFlags(t)
    BY <1>1, <1>3, <2>2 DEF TakeScopedCompletion, vars, shared, local,
       ScopedTypes, LocatedAt, KeepsFlags, DispatchHolds, ScheduleHolds,
       ScheduleSteps
  <2> QED
    BY <2>1, <2>2, <2>3, <2>4, <2>5, QuietApart DEF Quiet
<1>4. ASSUME At(t, "register", "own"),
             UNCHANGED <<vars, goal, back, index, scope, i>> PROVE Apart'
  <2>1. ScopedTypes'
    BY <1>1, <1>4, LabelFacts DEF vars, shared, local, ScopedTypes,
       ScopedLabels, LocatedAt
  <2>2. OthersRest(t) /\ ScopedRest(t) /\ index' = index /\ acquired' = acquired
    BY <1>4 DEF vars, shared, local, OthersRest, ScopedRest
  <2>3. LocatedAt(t)'
    BY <1>1, <1>4 DEF vars, shared, local, ScopedTypes, LocatedAt, RunsJob,
       ScheduleSteps, DispatchSteps
  <2>4. ASSUME NEW s \in Scopes
        PROVE  /\ Inside(t, s)' <=> Inside(t, s)
               /\ Inside(t, s) => Held(t, s)' = Held(t, s) /\ Fits(t, s)'
    <3>1. Inside(t, s)' <=> Inside(t, s)
      BY <1>1, <1>4 DEF vars, shared, local, ScopedTypes, LocatedAt, Inside
    <3>2. ASSUME Inside(t, s) PROVE Held(t, s)' = Held(t, s) /\ Fits(t, s)'
      BY <1>1, <1>4, <3>2 DEF vars, shared, local, ScopedTypes, LocatedAt,
         Inside, Held, IndexFits, Fits
    <3> QED
      BY <3>1, <3>2
  <2>5. KeepsFlags(t)
    BY <1>1, <1>4, <2>2 DEF vars, shared, local, ScopedTypes, LocatedAt,
       KeepsFlags, DispatchHolds, ScheduleHolds, ScheduleSteps
  <2> QED
    BY <2>1, <2>2, <2>3, <2>4, <2>5, QuietApart DEF Quiet
<1>5. ASSUME ScopedReturn(t, "register"), UNCHANGED <<vars, index, scope, i>> PROVE Apart'
  <2>1. ScopedTypes'
    BY <1>1, <1>5, LabelFacts DEF ScopedReturn, vars, shared, local,
       ScopedTypes, ScopedLabels, LocatedAt
  <2>2. OthersRest(t) /\ ScopedRest(t) /\ index' = index /\ acquired' = acquired
    BY <1>5 DEF ScopedReturn, vars, shared, local, OthersRest, ScopedRest
  <2>3. LocatedAt(t)'
    BY <1>1, <1>5 DEF ScopedReturn, vars, shared, local, ScopedTypes,
       LocatedAt, RunsJob, ScheduleSteps, DispatchSteps
  <2>4. ASSUME NEW s \in Scopes
        PROVE  /\ Inside(t, s)' <=> Inside(t, s)
               /\ Inside(t, s) => Held(t, s)' = Held(t, s) /\ Fits(t, s)'
    <3>1. Inside(t, s)' <=> Inside(t, s)
      BY <1>1, <1>5 DEF ScopedReturn, vars, shared, local, ScopedTypes,
         LocatedAt, Inside
    <3>2. ASSUME Inside(t, s) PROVE Held(t, s)' = Held(t, s) /\ Fits(t, s)'
      BY <1>1, <1>5, <3>2 DEF ScopedReturn, vars, shared, local, ScopedTypes,
         LocatedAt, Inside, Held, IndexFits, Fits
    <3> QED
      BY <3>1, <3>2
  <2>5. KeepsFlags(t)
    BY <1>1, <1>5, <2>2 DEF ScopedReturn, vars, shared, local, ScopedTypes,
       LocatedAt, KeepsFlags, DispatchHolds, ScheduleHolds, ScheduleSteps
  <2> QED
    BY <2>1, <2>2, <2>3, <2>4, <2>5, QuietApart DEF Quiet
<1>6. ASSUME ScopedSetOwner(t) PROVE Apart'
  <2>1. ScopedTypes'
    BY <1>1, <1>6, LabelFacts DEF ScopedSetOwner, vars, shared, local,
       ScopedTypes, ScopedLabels, LocatedAt
  <2>2. OthersRest(t) /\ ScopedRest(t) /\ index' = index /\ acquired' = acquired
    BY <1>6 DEF ScopedSetOwner, vars, shared, local, OthersRest, ScopedRest
  <2>3. LocatedAt(t)'
    BY <1>1, <1>6 DEF ScopedSetOwner, vars, shared, local, ScopedTypes,
       LocatedAt, RunsJob, ScheduleSteps, DispatchSteps
  <2>4. ASSUME NEW s \in Scopes
        PROVE  /\ Inside(t, s)' <=> Inside(t, s)
               /\ Inside(t, s) => Held(t, s)' = Held(t, s) /\ Fits(t, s)'
    <3>1. Inside(t, s)' <=> Inside(t, s)
      BY <1>1, <1>6 DEF ScopedSetOwner, vars, shared, local, ScopedTypes,
         LocatedAt, Inside
    <3>2. ASSUME Inside(t, s) PROVE Held(t, s)' = Held(t, s) /\ Fits(t, s)'
      BY <1>1, <1>6, <3>2 DEF ScopedSetOwner, vars, shared, local,
         ScopedTypes, LocatedAt, Inside, Held, IndexFits, Fits
    <3> QED
      BY <3>1, <3>2
  <2>5. KeepsFlags(t)
    BY <1>1, <1>6, <2>2 DEF ScopedSetOwner, vars, shared, local, ScopedTypes,
       LocatedAt, KeepsFlags, DispatchHolds, ScheduleHolds, ScheduleSteps
  <2> QED
    BY <2>1, <2>2, <2>3, <2>4, <2>5, QuietApart DEF Quiet
<1>7. ASSUME ScopedPostCompletion(t) PROVE Apart'
  <2>1. ScopedTypes'
    BY <1>1, <1>7, LabelFacts DEF ScopedPostCompletion, ScopedReturn, vars,
       shared, local, ScopedTypes, ScopedLabels, LocatedAt
  <2>2. OthersRest(t) /\ ScopedRest(t) /\ index' = index /\ acquired' = acquired
    BY <1>7 DEF ScopedPostCompletion, ScopedReturn, vars, shared, local,
       OthersRest, ScopedRest
  <2>3. LocatedAt(t)'
    BY <1>1, <1>7 DEF ScopedPostCompletion, ScopedReturn, vars, shared, local,
       ScopedTypes, LocatedAt, RunsJob, ScheduleSteps, DispatchSteps
  <2>4. ASSUME NEW s \in Scopes
        PROVE  /\ Inside(t, s)' <=> Inside(t, s)
               /\ Inside(t, s) => Held(t, s)' = Held(t, s) /\ Fits(t, s)'
    <3>1. Inside(t, s)' <=> Inside(t, s)
      BY <1>1, <1>7 DEF ScopedPostCompletion, ScopedReturn, vars, shared,
         local, ScopedTypes, LocatedAt, Inside
    <3>2. ASSUME Inside(t, s) PROVE Held(t, s)' = Held(t, s) /\ Fits(t, s)'
      BY <1>1, <1>7, <3>2 DEF ScopedPostCompletion, ScopedReturn, vars,
         shared, local, ScopedTypes, LocatedAt, Inside, Held, IndexFits, Fits
    <3> QED
      BY <3>1, <3>2
  <2>5. KeepsFlags(t)
    BY <1>1, <1>7, <2>2 DEF ScopedPostCompletion, ScopedReturn, vars, shared,
       local, ScopedTypes, LocatedAt, KeepsFlags, DispatchHolds,
       ScheduleHolds, ScheduleSteps
  <2> QED
    BY <2>1, <2>2, <2>3, <2>4, <2>5, QuietApart DEF Quiet
<1>8. ASSUME ScopedPostFails(t) PROVE Apart'
  <2>1. ScopedTypes'
    BY <1>1, <1>8, LabelFacts DEF ScopedPostFails, ScopedReturn, local,
       ScopedTypes, ScopedLabels, LocatedAt
  <2>2. OthersRest(t) /\ ScopedRest(t) /\ index' = index /\ acquired' = acquired
    BY <1>8 DEF ScopedPostFails, ScopedReturn, local, OthersRest, ScopedRest
  <2>3. LocatedAt(t)'
    BY <1>1, <1>8 DEF ScopedPostFails, ScopedReturn, local, ScopedTypes,
       LocatedAt, RunsJob, ScheduleSteps, DispatchSteps
  <2>4. ASSUME NEW s \in Scopes
        PROVE  /\ Inside(t, s)' <=> Inside(t, s)
               /\ Inside(t, s) => Held(t, s)' = Held(t, s) /\ Fits(t, s)'
    <3>1. Inside(t, s)' <=> Inside(t, s)
      BY <1>1, <1>8 DEF ScopedPostFails, ScopedReturn, local, ScopedTypes,
         LocatedAt, Inside
    <3>2. ASSUME Inside(t, s) PROVE Held(t, s)' = Held(t, s) /\ Fits(t, s)'
      BY <1>1, <1>8, <3>2 DEF ScopedPostFails, ScopedReturn, local,
         ScopedTypes, LocatedAt, Inside, Held, IndexFits, Fits
    <3> QED
      BY <3>1, <3>2
  <2>5. KeepsFlags(t)
    BY <1>1, <1>8, <2>2 DEF ScopedPostFails, ScopedReturn, local, ScopedTypes,
       LocatedAt, KeepsFlags, DispatchHolds, ScheduleHolds, ScheduleSteps
  <2> QED
    BY <2>1, <2>2, <2>3, <2>4, <2>5, QuietApart DEF Quiet
<1>9. ASSUME ScopedBatch(t) PROVE Apart'
  <2>1. ScopedTypes'
    BY <1>1, <1>9, LabelFacts DEF ScopedBatch, vars, shared, local,
       ScopedTypes, ScopedLabels, LocatedAt
  <2>2. OthersRest(t) /\ ScopedRest(t) /\ index' = index /\ acquired' = acquired
    BY <1>9 DEF ScopedBatch, vars, shared, local, OthersRest, ScopedRest
  <2>3. LocatedAt(t)'
    BY <1>1, <1>9 DEF ScopedBatch, vars, shared, local, ScopedTypes,
       LocatedAt, RunsJob, ScheduleSteps, DispatchSteps
  <2>4. ASSUME NEW s \in Scopes
        PROVE  /\ Inside(t, s)' <=> Inside(t, s)
               /\ Inside(t, s) => Held(t, s)' = Held(t, s) /\ Fits(t, s)'
    <3>1. Inside(t, s)' <=> Inside(t, s)
      BY <1>1, <1>9 DEF ScopedBatch, vars, shared, local, ScopedTypes,
         LocatedAt, Inside
    <3>2. ASSUME Inside(t, s) PROVE Held(t, s)' = Held(t, s) /\ Fits(t, s)'
      BY <1>1, <1>9, <3>2 DEF ScopedBatch, vars, shared, local, ScopedTypes,
         LocatedAt, Inside, Held, IndexFits, Fits
    <3> QED
      BY <3>1, <3>2
  <2>5. KeepsFlags(t)
    BY <1>1, <1>9, <2>2 DEF ScopedBatch, vars, shared, local, ScopedTypes,
       LocatedAt, KeepsFlags, DispatchHolds, ScheduleHolds, ScheduleSteps
  <2> QED
    BY <2>1, <2>2, <2>3, <2>4, <2>5, QuietApart DEF Quiet
<1>10. ASSUME ScopedExecute(t) PROVE Apart'
  <2>1. ScopedTypes'
    BY <1>1, <1>10, LabelFacts DEF ScopedExecute, shared, ScopedTypes,
       ScopedLabels, LocatedAt
  <2>2. OthersRest(t) /\ ScopedRest(t) /\ index' = index /\ acquired' = acquired
    BY <1>10 DEF ScopedExecute, shared, OthersRest, ScopedRest
  <2>3. LocatedAt(t)'
    BY <1>1, <1>10 DEF ScopedExecute, shared, ScopedTypes, LocatedAt, RunsJob,
       ScheduleSteps, DispatchSteps
  <2>4. ASSUME NEW s \in Scopes
        PROVE  /\ Inside(t, s)' <=> Inside(t, s)
               /\ Inside(t, s) => Held(t, s)' = Held(t, s) /\ Fits(t, s)'
    <3>1. Inside(t, s)' <=> Inside(t, s)
      BY <1>1, <1>10 DEF ScopedExecute, shared, ScopedTypes, LocatedAt, Inside
    <3>2. ASSUME Inside(t, s) PROVE Held(t, s)' = Held(t, s) /\ Fits(t, s)'
      BY <1>1, <1>10, <3>2 DEF ScopedExecute, shared, ScopedTypes, LocatedAt,
         Inside, Held, IndexFits, Fits
    <3> QED
      BY <3>1, <3>2
  <2>5. KeepsFlags(t)
    BY <1>1, <1>10, <2>2 DEF ScopedExecute, shared, ScopedTypes, LocatedAt,
       KeepsFlags, DispatchHolds, ScheduleHolds, ScheduleSteps
  <2> QED
    BY <2>1, <2>2, <2>3, <2>4, <2>5, QuietApart DEF Quiet
<1>11. ASSUME ScopedFinish(t) PROVE Apart'
  <2>1. ScopedTypes'
    BY <1>1, <1>11, LabelFacts DEF ScopedFinish, shared, ScopedTypes,
       ScopedLabels, LocatedAt
  <2>2. OthersRest(t) /\ ScopedRest(t) /\ index' = index /\ acquired' = acquired
    BY <1>11 DEF ScopedFinish, shared, OthersRest, ScopedRest
  <2>3. LocatedAt(t)'
    BY <1>1, <1>11 DEF ScopedFinish, shared, ScopedTypes, LocatedAt, RunsJob,
       ScheduleSteps, DispatchSteps
  <2>4. ASSUME NEW s \in Scopes
        PROVE  /\ Inside(t, s)' <=> Inside(t, s)
               /\ Inside(t, s) => Held(t, s)' = Held(t, s) /\ Fits(t, s)'
    <3>1. Inside(t, s)' <=> Inside(t, s)
      BY <1>1, <1>11 DEF ScopedFinish, shared, ScopedTypes, LocatedAt, Inside
    <3>2. ASSUME Inside(t, s) PROVE Held(t, s)' = Held(t, s) /\ Fits(t, s)'
      BY <1>1, <1>11, <3>2 DEF ScopedFinish, shared, ScopedTypes, LocatedAt,
         Inside, Held, IndexFits, Fits
    <3> QED
      BY <3>1, <3>2
  <2>5. KeepsFlags(t)
    BY <1>1, <1>11, <2>2 DEF ScopedFinish, shared, ScopedTypes, LocatedAt,
       KeepsFlags, DispatchHolds, ScheduleHolds, ScheduleSteps
  <2> QED
    BY <2>1, <2>2, <2>3, <2>4, <2>5, QuietApart DEF Quiet
<1>12. ASSUME ScopedEndBatch(t) PROVE Apart'
  <2>1. ScopedTypes'
    BY <1>1, <1>12, LabelFacts DEF ScopedEndBatch, vars, shared, local,
       ScopedTypes, ScopedLabels, LocatedAt
  <2>2. OthersRest(t) /\ ScopedRest(t) /\ index' = index /\ acquired' = acquired
    BY <1>12 DEF ScopedEndBatch, vars, shared, local, OthersRest, ScopedRest
  <2>3. LocatedAt(t)'
    BY <1>1, <1>12 DEF ScopedEndBatch, vars, shared, local, ScopedTypes,
       LocatedAt, RunsJob, ScheduleSteps, DispatchSteps
  <2>4. ASSUME NEW s \in Scopes
        PROVE  /\ Inside(t, s)' <=> Inside(t, s)
               /\ Inside(t, s) => Held(t, s)' = Held(t, s) /\ Fits(t, s)'
    <3>1. Inside(t, s)' <=> Inside(t, s)
      BY <1>1, <1>12 DEF ScopedEndBatch, vars, shared, local, ScopedTypes,
         LocatedAt, Inside
    <3>2. ASSUME Inside(t, s) PROVE Held(t, s)' = Held(t, s) /\ Fits(t, s)'
      BY <1>1, <1>12, <3>2 DEF ScopedEndBatch, vars, shared, local,
         ScopedTypes, LocatedAt, Inside, Held, IndexFits, Fits
    <3> QED
      BY <3>1, <3>2
  <2>5. KeepsFlags(t)
    BY <1>1, <1>12, <2>2 DEF ScopedEndBatch, vars, shared, local, ScopedTypes,
       LocatedAt, KeepsFlags, DispatchHolds, ScheduleHolds, ScheduleSteps
  <2> QED
    BY <2>1, <2>2, <2>3, <2>4, <2>5, QuietApart DEF Quiet
<1>13. ASSUME ScopedClearOverlapped(t) PROVE Apart'
  <2>1. ScopedTypes'
    BY <1>1, <1>13, LabelFacts DEF ScopedClearOverlapped, vars, shared, local,
       ScopedTypes, ScopedLabels, LocatedAt
  <2>2. OthersRest(t) /\ ScopedRest(t) /\ index' = index /\ acquired' = acquired
    BY <1>13 DEF ScopedClearOverlapped, vars, shared, local, OthersRest,
       ScopedRest
  <2>3. LocatedAt(t)'
    BY <1>1, <1>13 DEF ScopedClearOverlapped, vars, shared, local,
       ScopedTypes, LocatedAt, RunsJob, ScheduleSteps, DispatchSteps
  <2>4. ASSUME NEW s \in Scopes
        PROVE  /\ Inside(t, s)' <=> Inside(t, s)
               /\ Inside(t, s) => Held(t, s)' = Held(t, s) /\ Fits(t, s)'
    <3>1. Inside(t, s)' <=> Inside(t, s)
      BY <1>1, <1>13 DEF ScopedClearOverlapped, vars, shared, local,
         ScopedTypes, LocatedAt, Inside
    <3>2. ASSUME Inside(t, s) PROVE Held(t, s)' = Held(t, s) /\ Fits(t, s)'
      <4>1. at[t] = "clear" /\ scope[t] = s /\ Fits(t, s)
        BY <1>1, <1>13, <3>2 DEF ScopedClearOverlapped, Inside, IndexFits
      <4>2. index[s] = Len(Members[s]) /\ Len(Members[s]) \in Nat
        BY <4>1, MembersAreSorted DEF Fits
      <4>3. at'[t] = "unlock" /\ i'[t] = index[s]
        BY <1>1, <1>13, <4>1 DEF ScopedClearOverlapped, ScopedTypes
      <4> QED
        BY <4>1, <4>2, <4>3 DEF Held, Fits
    <3> QED
      BY <3>1, <3>2
  <2>5. KeepsFlags(t)
    BY <1>1, <1>13, <2>2 DEF ScopedClearOverlapped, vars, shared, local,
       ScopedTypes, LocatedAt, KeepsFlags, DispatchHolds, ScheduleHolds,
       ScheduleSteps
  <2> QED
    BY <2>1, <2>2, <2>3, <2>4, <2>5, QuietApart DEF Quiet
<1>14. ASSUME ScopedGetOwner(t), ~sowned[scope[t]] PROVE Apart'
  <2>0. Discard(t, "owner") /\ UNCHANGED <<shared, tgt, ret, self, index, goal, back, i>>
    BY <1>14 DEF ScopedGetOwner
  <2>1. ScopedTypes'
    BY <1>1, <2>0, LabelFacts DEF Discard, shared, ScopedTypes, ScopedLabels,
       LocatedAt
  <2>2. OthersRest(t) /\ ScopedRest(t) /\ index' = index /\ acquired' = acquired
    BY <2>0 DEF Discard, shared, OthersRest, ScopedRest
  <2>3. LocatedAt(t)'
    BY <1>1, <2>0 DEF Discard, shared, ScopedTypes, LocatedAt, RunsJob,
       ScheduleSteps, DispatchSteps
  <2>4. ASSUME NEW s \in Scopes
        PROVE  /\ Inside(t, s)' <=> Inside(t, s)
               /\ Inside(t, s) => Held(t, s)' = Held(t, s) /\ Fits(t, s)'
    <3>1. Inside(t, s)' <=> Inside(t, s)
      BY <1>1, <2>0 DEF Discard, shared, ScopedTypes, LocatedAt, Inside
    <3>2. ASSUME Inside(t, s) PROVE Held(t, s)' = Held(t, s) /\ Fits(t, s)'
      BY <1>1, <2>0, <3>2 DEF Discard, shared, ScopedTypes, LocatedAt, Inside,
         Held, IndexFits, Fits
    <3> QED
      BY <3>1, <3>2
  <2>5. KeepsFlags(t)
    BY <1>1, <2>0, <2>2 DEF Discard, shared, ScopedTypes, LocatedAt,
       KeepsFlags, DispatchHolds, ScheduleHolds, ScheduleSteps
  <2> QED
    BY <2>1, <2>2, <2>3, <2>4, <2>5, QuietApart DEF Quiet
<1>15. ScopedRegister(t) => Apart'
  BY <1>4, <1>5 DEF ScopedRegister
<1> QED
  BY <1>2, <1>3, <1>4, <1>5, <1>6, <1>7, <1>8, <1>9, <1>10, <1>11, <1>12,
     <1>13, <1>14, <1>15

-----------------------------------------------------------------------------
(* A step of t inside s: nobody else is inside, so that only the ways of t *)
(* to hold members of s may change.                                        *)
Holding(t, s, k, a) == /\ Inside(t, s) /\ k <= Len(Members[s])
                       /\ Members[s][k] = a /\ k <= Held(t, s)

Alone(t, s) ==
  /\ OthersRest(t) /\ ScopedRest(t) /\ LocatedAt(t)'
  /\ \A r \in Scopes \ {s} : /\ index'[r] = index[r]
                             /\ ~Inside(t, r) /\ ~Inside(t, r)'
  /\ \A u \in Threads \ {t} : ~Inside(u, s)
  /\ \A a \in Actors : /\ DispatchHolds(t, a)' <=> DispatchHolds(t, a)
                       /\ ScheduleHolds(t, a)' <=> ScheduleHolds(t, a)
  /\ IF Inside(t, s)' THEN Fits(t, s)' ELSE index'[s] = 0

LEMMA AloneWays ==
  ASSUME Apart, NEW t \in Threads, NEW s \in Scopes, Alone(t, s)
  PROVE  /\ ScopedLocated' /\ OneInside' /\ IndexFits'
         /\ \A k \in Int : \A a \in Actors :
              /\ Way(t, k, a) /\ k > 0 <=> k > 0 /\ Holding(t, s, k, a)
              /\ Way(t, k, a)' <=> \/ k > 0 /\ Holding(t, s, k, a)'
                                   \/ k <= 0 /\ Way(t, k, a)
         /\ \A u \in Threads \ {t} : \A k \in Int : \A a \in Actors :
              Way(u, k, a)' <=> Way(u, k, a)
<1> USE DEF Apart, Alone
<1>1. ASSUME NEW u \in Threads \ {t}, NEW r \in Scopes
      PROVE  /\ Inside(u, r)' <=> Inside(u, r)
             /\ Inside(u, r) => r # s /\ Held(u, r)' = Held(u, r) /\ (Fits(u, r)' <=> Fits(u, r))
  BY OthersInside
<1>2. OneInside'
  BY <1>1 DEF OneInside
<1>3. IndexFits'
  <2> SUFFICES ASSUME NEW r \in Scopes
               PROVE  /\ (\A u \in Threads : ~Inside(u, r)') => index'[r] = 0
                      /\ \A u \in Threads : Inside(u, r)' => Fits(u, r)'
    BY DEF IndexFits
  <2>1. CASE r = s
    BY <1>1, <2>1
  <2>2. CASE r # s
    BY <1>1, <2>2 DEF IndexFits
  <2> QED
    BY <2>1, <2>2
<1>4. ScopedLocated'
  BY OthersLocated
<1>5. ASSUME NEW k \in Int, NEW a \in Actors
      PROVE  /\ Way(t, k, a) /\ k > 0 <=> k > 0 /\ Holding(t, s, k, a)
             /\ Way(t, k, a)' <=> \/ k > 0 /\ Holding(t, s, k, a)'
                                  \/ k <= 0 /\ Way(t, k, a)
  BY DEF Way, Holding
<1>6. ASSUME NEW u \in Threads \ {t}, NEW k \in Int, NEW a \in Actors
      PROVE  Way(u, k, a)' <=> Way(u, k, a)
  <2>1. /\ DispatchHolds(u, a)' <=> DispatchHolds(u, a)
        /\ ScheduleHolds(u, a)' <=> ScheduleHolds(u, a)
    BY DEF OthersRest, DispatchHolds, ScheduleHolds
  <2>2. (\E r \in Scopes : /\ Inside(u, r)' /\ k <= Len(Members[r])
                           /\ Members[r][k] = a /\ k <= Held(u, r)')
          <=> \E r \in Scopes : /\ Inside(u, r) /\ k <= Len(Members[r])
                                /\ Members[r][k] = a /\ k <= Held(u, r)
    BY <1>1
  <2> QED
    BY <2>1, <2>2 DEF Way
<1> QED
  BY <1>2, <1>3, <1>4, <1>5, <1>6

(* TryAcquire begins, with none of the members.                            *)
LEMMA EnterApart ==
  ASSUME Apart, NEW t \in Threads, ScopedGetOwner(t), sowned[scope[t]], ~overlapped'
  PROVE  Apart'
<1>0. PICK s : s = scope[t]
  OBVIOUS
<1>1. /\ at[t] = "owner" /\ at' = [at EXCEPT ![t] = "try"] /\ i' = [i EXCEPT ![t] = 1]
      /\ UNCHANGED <<acquired, pc, tgt, ret, self, index, goal, back, scope>>
      /\ \A u \in Threads : ~Inside(u, s)
  BY <1>0 DEF ScopedGetOwner, At, shared
<1>2. ScopedTypes /\ LocatedAt(t) /\ s \in Scopes
  BY <1>0, <1>1, ScopedAssumption DEF Apart, ScopedLocated, LocatedAt,
     ScopedTypes
<1>3. Len(Members[s]) \in Nat \ {0} /\ index[s] = 0
  BY <1>1, <1>2, MembersAreSorted DEF Apart, IndexFits
<1>4. ScopedTypes'
  BY <1>1, <1>2 DEF ScopedTypes, ScopedLabels
<1>5. Inside(t, s)' /\ Held(t, s)' = 0 /\ Fits(t, s)'
  BY <1>0, <1>1, <1>2, <1>3 DEF ScopedTypes, Inside, Held, Fits
<1>6. Alone(t, s)
  <2>1. OthersRest(t) /\ ScopedRest(t)
    BY <1>1 DEF OthersRest, ScopedRest
  <2>2. LocatedAt(t)'
    BY <1>1, <1>2 DEF ScopedTypes, LocatedAt, RunsJob
  <2>3. \A r \in Scopes \ {s} : ~Inside(t, r) /\ ~Inside(t, r)'
    BY <1>0, <1>1 DEF Inside
  <2>4. \A a \in Actors : /\ DispatchHolds(t, a)' <=> DispatchHolds(t, a)
                          /\ ScheduleHolds(t, a)' <=> ScheduleHolds(t, a)
    BY <1>1 DEF DispatchHolds, ScheduleHolds
  <2> QED
    BY <1>1, <1>5, <2>1, <2>2, <2>3, <2>4 DEF Alone
<1>7. \A k \in Int : \A a \in Actors : Way(t, k, a)' <=> Way(t, k, a)
  <2>1. \A k \in Int : \A a \in Actors :
          k > 0 => ~Holding(t, s, k, a) /\ ~Holding(t, s, k, a)'
    BY <1>0, <1>1, <1>2, <1>5 DEF Holding
  <2>2. \A k \in Int : \A a \in Actors :
          /\ Way(t, k, a) /\ k > 0 <=> k > 0 /\ Holding(t, s, k, a)
          /\ Way(t, k, a)' <=> \/ k > 0 /\ Holding(t, s, k, a)'
                               \/ k <= 0 /\ Way(t, k, a)
    BY <1>2, <1>6, AloneWays
  <2> QED
    BY <2>1, <2>2
<1>8. OneWay'
  <2>1. \A u \in Threads : \A k \in Int : \A a \in Actors : Way(u, k, a)' <=> Way(u, k, a)
    BY <1>2, <1>6, <1>7, AloneWays
  <2> QED
    BY <1>1, <2>1, WaysKept DEF Apart
<1> QED
  BY <1>2, <1>4, <1>6, <1>8, AloneWays DEF Apart

(* One member is tried.                                                    *)
LEMMA TryApart ==
  ASSUME Apart, NEW t \in Threads, TryMember(t)
  PROVE  Apart'
<1>1. PICK s, n : s = scope[t] /\ n = i[t]
  OBVIOUS
<1>2. PICK a : a = Members[s][n]
  OBVIOUS
<1>3. ScopedTypes /\ LocatedAt(t) /\ s \in Scopes /\ Inside(t, s) /\ Fits(t, s) /\ at[t] = "try"
  <2>1. ScopedTypes /\ LocatedAt(t) /\ at[t] = "try"
    BY DEF TryMember, Apart, ScopedLocated
  <2>2. s \in Scopes /\ Inside(t, s)
    BY <1>1, <2>1 DEF ScopedTypes, LocatedAt, Inside
  <2> QED
    BY <2>1, <2>2 DEF Apart, IndexFits
<1>4. Members[s] \in Seq(Actors) /\ Len(Members[s]) \in Nat \ {0}
  BY <1>3, MembersAreSorted
<1>5. n \in 1..Len(Members[s]) /\ index[s] = n - 1 /\ a \in Actors
  BY <1>1, <1>2, <1>3, <1>4 DEF Fits
<1>6. /\ UNCHANGED <<pc, tgt, ret, self, scope, goal, back>>
      /\ acquired' = [acquired EXCEPT ![a] = TRUE]
  BY <1>1, <1>2 DEF TryMember, local
<1>7. OthersRest(t)
  BY <1>6 DEF OthersRest
<1>8. ScopedTypes /\ acquired' \in [Actors -> BOOLEAN]
  BY <1>3, <1>6 DEF ScopedTypes
<1>9. /\ \A r \in Scopes \ {s} : index'[r] = index[r] /\ ~Inside(t, r) /\ ~Inside(t, r)'
      /\ \A u \in Threads \ {t} : ~Inside(u, s)
  <2>1. \A r \in Scopes \ {s} : index'[r] = index[r]
    BY <1>1, <1>3 DEF TryMember, ScopedTypes
  <2>2. \A r \in Scopes \ {s} : ~Inside(t, r) /\ ~Inside(t, r)'
    BY <1>1, <1>6 DEF Inside
  <2> QED
    BY <1>3, <2>1, <2>2 DEF Apart, OneInside
<1>10. \A b \in Actors : /\ DispatchHolds(t, b)' <=> DispatchHolds(t, b)
                         /\ ScheduleHolds(t, b)' <=> ScheduleHolds(t, b)
  BY <1>6 DEF DispatchHolds, ScheduleHolds
<1>11. CASE acquired[a]
  <2>1. at' = [at EXCEPT ![t] = "undo"] /\ i' = [i EXCEPT ![t] = n - 1] /\ index' = index
    BY <1>1, <1>2, <1>3, <1>5, <1>11 DEF TryMember, ScopedTypes
  <2>2. ScopedTypes'
    BY <1>5, <1>6, <1>8, <2>1 DEF ScopedTypes, ScopedLabels
  <2>3. LocatedAt(t)'
    BY <1>3, <1>6, <2>1 DEF ScopedTypes, LocatedAt, RunsJob
  <2>4. Inside(t, s)' /\ Fits(t, s)' /\ Held(t, s)' = n - 1 /\ Held(t, s) = n - 1
    BY <1>1, <1>3, <1>4, <1>5, <1>6, <2>1 DEF ScopedTypes, Inside, Fits, Held
  <2>5. Alone(t, s)
    <3>1. ScopedRest(t)
      BY <1>6, <2>1 DEF ScopedRest
    <3> QED
      BY <1>7, <1>9, <1>10, <2>3, <2>4, <3>1 DEF Alone
  <2>6. \A k \in Int : \A b \in Actors : Holding(t, s, k, b)' <=> Holding(t, s, k, b)
    BY <1>3, <2>4 DEF Holding
  <2>7. \A k \in Int : \A b \in Actors :
          /\ Way(t, k, b) /\ k > 0 <=> k > 0 /\ Holding(t, s, k, b)
          /\ Way(t, k, b)' <=> \/ k > 0 /\ Holding(t, s, k, b)'
                               \/ k <= 0 /\ Way(t, k, b)
    BY <1>3, <2>5, AloneWays
  <2>8. \A u \in Threads \ {t} : \A k \in Int : \A b \in Actors : Way(u, k, b)' <=> Way(u, k, b)
    BY <1>3, <2>5, AloneWays
  <2>9. \A u \in Threads : \A k \in Int : \A b \in Actors : Way(u, k, b)' <=> Way(u, k, b)
    BY <2>6, <2>7, <2>8
  <2>10. acquired' = acquired
    BY <1>3, <1>6, <1>11 DEF ScopedTypes
  <2>11. OneWay'
    BY <2>9, <2>10, WaysKept DEF Apart
  <2> QED
    BY <1>3, <2>2, <2>5, <2>11, AloneWays DEF Apart
<1>12. CASE ~acquired[a]
  <2>1. index' = [index EXCEPT ![s] = n]
    BY <1>1, <1>2, <1>12 DEF TryMember
  <2>2. \/ n < Len(Members[s]) /\ i' = [i EXCEPT ![t] = n + 1] /\ at' = at
        \/ n = Len(Members[s]) /\ i' = i /\ at' = [at EXCEPT ![t] = "batch"]
    BY <1>1, <1>2, <1>3, <1>12 DEF TryMember, ScopedTypes
  <2>3. ScopedTypes'
    <3>1. i' \in [Threads -> Nat]
      BY <1>5, <1>8, <2>2 DEF ScopedTypes
    <3>2. at' \in [Threads -> ScopedLabels]
      BY <1>8, <2>2 DEF ScopedTypes, ScopedLabels
    <3>3. index' \in [Scopes -> Nat]
      <4>1. n \in Nat
        BY <1>4, <1>5
      <4> QED
        BY <1>8, <2>1, <4>1 DEF ScopedTypes
    <3> QED
      BY <1>6, <1>8, <3>1, <3>2, <3>3 DEF ScopedTypes
  <2>4. LocatedAt(t)'
    BY <1>3, <1>6, <2>2 DEF ScopedTypes, LocatedAt, RunsJob
  <2>5. Inside(t, s)' /\ Fits(t, s)' /\ Held(t, s)' = n /\ Held(t, s) = n - 1
    <3>1. index'[s] = n /\ index[s] = n - 1
      BY <1>3, <1>5, <2>1 DEF ScopedTypes
    <3>2. \/ n < Len(Members[s]) /\ i'[t] = n + 1 /\ at'[t] = "try"
          \/ n = Len(Members[s]) /\ at'[t] = "batch"
      BY <1>3, <2>2 DEF ScopedTypes
    <3>3. scope'[t] = s
      BY <1>1, <1>6
    <3> QED
      BY <1>3, <1>4, <1>5, <3>1, <3>2, <3>3 DEF Inside, Fits, Held
  <2>6. Alone(t, s)
    <3>1. \A u \in Threads \ {t} : i'[u] = i[u] /\ at'[u] = at[u]
      BY <1>8, <2>2 DEF ScopedTypes
    <3>2. ScopedRest(t)
      BY <1>6, <3>1 DEF ScopedRest
    <3> QED
      BY <1>7, <1>9, <1>10, <2>4, <2>5, <3>2 DEF Alone
  <2>7. \A k \in Int : \A b \in Actors :
          k > 0 => (Holding(t, s, k, b)' <=> Holding(t, s, k, b) \/ (k = n /\ b = a))
    BY <1>2, <1>3, <1>4, <1>5, <2>5 DEF Holding
  <2>8. \A k \in Int : \A b \in Actors :
          /\ Way(t, k, b) /\ k > 0 <=> k > 0 /\ Holding(t, s, k, b)
          /\ Way(t, k, b)' <=> \/ k > 0 /\ Holding(t, s, k, b)'
                               \/ k <= 0 /\ Way(t, k, b)
    BY <1>3, <2>6, AloneWays
  <2>9. \A u \in Threads \ {t} : \A k \in Int : \A b \in Actors : Way(u, k, b)' <=> Way(u, k, b)
    BY <1>3, <2>6, AloneWays
  <2>10. \A u \in Threads : \A k \in Int : \A b \in Actors :
           Way(u, k, b)' <=> Way(u, k, b) \/ (u = t /\ k = n /\ b = a)
    <3> SUFFICES ASSUME NEW u \in Threads, NEW k \in Int, NEW b \in Actors
                 PROVE  Way(u, k, b)' <=> Way(u, k, b) \/ (u = t /\ k = n /\ b = a)
      OBVIOUS
    <3>1. CASE u # t
      BY <2>9, <3>1
    <3>2. CASE u = t
      BY <1>5, <2>7, <2>8, <3>2
    <3> QED
      BY <3>1, <3>2
  <2>11. n \in Int /\ a \in Actors
    BY <1>5
  <2>12. acquired \in [Actors -> BOOLEAN] /\ OneWay
    BY <1>3 DEF ScopedTypes, Apart
  <2>13. OneWay'
    BY <1>6, <1>12, <2>10, <2>11, <2>12, WayTaken
  <2> QED
    BY <1>3, <2>3, <2>6, <2>13, AloneWays DEF Apart
<1> QED
  BY <1>11, <1>12

(* One member is given back.                                               *)
LEMMA ReleaseApart ==
  ASSUME Apart, NEW t \in Threads, ReleaseMember(t)
  PROVE  Apart'
<1>1. PICK s, n : s = scope[t] /\ n = i[t]
  OBVIOUS
<1>2. PICK a : a = Members[s][n]
  OBVIOUS
<1>3. /\ ScopedTypes /\ LocatedAt(t) /\ s \in Scopes /\ Inside(t, s) /\ Fits(t, s)
      /\ at[t] \in {"undo", "unlock"}
  <2>1. ScopedTypes /\ LocatedAt(t) /\ at[t] \in {"undo", "unlock"}
    BY DEF ReleaseMember, Apart, ScopedLocated
  <2>2. s \in Scopes /\ Inside(t, s)
    BY <1>1, <2>1 DEF ScopedTypes, LocatedAt, Inside
  <2> QED
    BY <2>1, <2>2 DEF Apart, IndexFits
<1>4. Members[s] \in Seq(Actors) /\ Len(Members[s]) \in Nat \ {0}
  BY <1>3, MembersAreSorted
<1>5. n \in 1..Len(Members[s]) /\ a \in Actors
  BY <1>1, <1>2, <1>3, <1>4 DEF Fits, ReleaseMember
<1>6. /\ UNCHANGED <<pc, tgt, ret, self, scope, goal, back, at, index>>
      /\ acquired' = [acquired EXCEPT ![a] = FALSE]
      /\ i' = [i EXCEPT ![t] = n - 1]
  BY <1>1, <1>2 DEF ReleaseMember, local
<1>7. OthersRest(t) /\ ScopedRest(t)
  BY <1>6 DEF OthersRest, ScopedRest
<1>8. ScopedTypes'
  BY <1>3, <1>5, <1>6 DEF ScopedTypes
<1>9. /\ \A r \in Scopes \ {s} : index'[r] = index[r] /\ ~Inside(t, r) /\ ~Inside(t, r)'
      /\ \A u \in Threads \ {t} : ~Inside(u, s)
  <2>1. \A r \in Scopes \ {s} : ~Inside(t, r) /\ ~Inside(t, r)'
    BY <1>1, <1>6 DEF Inside
  <2> QED
    BY <1>3, <1>6, <2>1 DEF Apart, OneInside
<1>10. \A b \in Actors : /\ DispatchHolds(t, b)' <=> DispatchHolds(t, b)
                         /\ ScheduleHolds(t, b)' <=> ScheduleHolds(t, b)
  BY <1>6 DEF DispatchHolds, ScheduleHolds
<1>11. LocatedAt(t)'
  BY <1>3, <1>6 DEF LocatedAt, RunsJob
<1>12. Inside(t, s)' /\ Fits(t, s)' /\ Held(t, s)' = n - 1 /\ Held(t, s) = n
  <2>1. i'[t] = n - 1 /\ i[t] = n /\ at'[t] \in {"undo", "unlock"} /\ scope'[t] = s
    BY <1>1, <1>3, <1>6 DEF ScopedTypes
  <2> QED
    BY <1>3, <1>4, <1>5, <2>1 DEF Inside, Fits, Held
<1>13. Alone(t, s)
  BY <1>7, <1>9, <1>10, <1>11, <1>12 DEF Alone
<1>14. \A k \in Int : \A b \in Actors :
         k > 0 => (Holding(t, s, k, b)' <=> Holding(t, s, k, b) /\ <<t, k, b>> # <<t, n, a>>)
  BY <1>2, <1>3, <1>4, <1>5, <1>12 DEF Holding
<1>15. \A k \in Int : \A b \in Actors :
         /\ Way(t, k, b) /\ k > 0 <=> k > 0 /\ Holding(t, s, k, b)
         /\ Way(t, k, b)' <=> \/ k > 0 /\ Holding(t, s, k, b)'
                              \/ k <= 0 /\ Way(t, k, b)
  BY <1>3, <1>13, AloneWays
<1>16. \A u \in Threads \ {t} : \A k \in Int : \A b \in Actors : Way(u, k, b)' <=> Way(u, k, b)
  BY <1>3, <1>13, AloneWays
<1>17. \A u \in Threads : \A k \in Int : \A b \in Actors :
         Way(u, k, b)' <=> Way(u, k, b) /\ <<u, k, b>> # <<t, n, a>>
  <2> SUFFICES ASSUME NEW u \in Threads, NEW k \in Int, NEW b \in Actors
               PROVE  Way(u, k, b)' <=> Way(u, k, b) /\ <<u, k, b>> # <<t, n, a>>
    OBVIOUS
  <2>1. CASE u # t
    BY <1>16, <2>1
  <2>2. CASE u = t
    BY <1>5, <1>14, <1>15, <2>2
  <2> QED
    BY <2>1, <2>2
<1>18. n \in Int /\ a \in Actors /\ Way(t, n, a)
  <2>1. Holding(t, s, n, a)
    BY <1>2, <1>3, <1>5, <1>12 DEF Holding
  <2> QED
    BY <1>5, <1>15, <2>1
<1>19. acquired \in [Actors -> BOOLEAN] /\ OneWay
  BY <1>3 DEF ScopedTypes, Apart
<1>20. OneWay'
  BY <1>6, <1>17, <1>18, <1>19, WayFreed
<1> QED
  BY <1>3, <1>8, <1>13, <1>20, AloneWays DEF Apart

(* TryAcquire has failed, or Dispatch goes on to Register.                 *)
LEMMA LeaveApart ==
  ASSUME Apart, NEW t \in Threads, ReleaseEnds(t)
  PROVE  Apart'
<1>1. PICK s : s = scope[t]
  OBVIOUS
<1>2. /\ ScopedTypes /\ LocatedAt(t) /\ s \in Scopes /\ Inside(t, s)
      /\ at[t] \in {"undo", "unlock"} /\ i[t] = 0
  <2>1. ScopedTypes /\ LocatedAt(t) /\ at[t] \in {"undo", "unlock"} /\ i[t] = 0
    BY DEF ReleaseEnds, Apart, ScopedLocated
  <2>2. s \in Scopes /\ Inside(t, s)
    BY <1>1, <2>1 DEF ScopedTypes, LocatedAt, Inside
  <2> QED
    BY <2>1, <2>2
<1>3. /\ UNCHANGED <<acquired, tgt, ret, self, back, i>>
      /\ index' = [index EXCEPT ![s] = 0]
      /\ pc' = [pc EXCEPT ![t] = "tick"]
      /\ scope' = [scope EXCEPT ![t] = None]
  BY <1>1 DEF ReleaseEnds, Discard, shared
<1>4. \/ at' = [at EXCEPT ![t] = "no"] /\ goal' = goal
      \/ at' = [at EXCEPT ![t] = "register"] /\ goal' = [goal EXCEPT ![t] = s]
  BY <1>1 DEF ReleaseEnds, Discard, At
<1>5. OthersRest(t) /\ ScopedRest(t)
  <2>1. \A u \in Threads \ {t} : at'[u] = at[u] /\ goal'[u] = goal[u]
    BY <1>2, <1>4 DEF ScopedTypes
  <2> QED
    BY <1>3, <2>1 DEF OthersRest, ScopedRest
<1>6. ScopedTypes'
  BY <1>2, <1>3, <1>4, LabelFacts DEF ScopedTypes, ScopedLabels
<1>7. LocatedAt(t)'
  BY <1>2, <1>3, <1>4 DEF ScopedTypes, LocatedAt, RunsJob, ScheduleSteps,
     DispatchSteps
<1>8. \A r \in Scopes : ~Inside(t, r)'
  BY <1>2, <1>3, ScopedAssumption DEF ScopedTypes, Inside
<1>9. /\ \A r \in Scopes \ {s} : index'[r] = index[r] /\ ~Inside(t, r) /\ ~Inside(t, r)'
      /\ \A u \in Threads \ {t} : ~Inside(u, s)
      /\ index'[s] = 0
  <2>1. \A r \in Scopes \ {s} : ~Inside(t, r)
    BY <1>1 DEF Inside
  <2> QED
    BY <1>2, <1>3, <1>8, <2>1 DEF Apart, OneInside, ScopedTypes
<1>10. \A b \in Actors : /\ DispatchHolds(t, b)' <=> DispatchHolds(t, b)
                         /\ ScheduleHolds(t, b)' <=> ScheduleHolds(t, b)
  BY <1>2, <1>3, ScopedAssumption, ConstantsAssumption
     DEF ScopedTypes, LocatedAt, DispatchHolds, ScheduleHolds, ScheduleSteps
<1>11. Alone(t, s)
  BY <1>2, <1>5, <1>7, <1>8, <1>9, <1>10 DEF Alone
<1>12. \A k \in Int : \A b \in Actors :
         k > 0 => ~Holding(t, s, k, b) /\ ~Holding(t, s, k, b)'
  BY <1>2, <1>8 DEF Holding, Held
<1>13. \A k \in Int : \A b \in Actors :
         /\ Way(t, k, b) /\ k > 0 <=> k > 0 /\ Holding(t, s, k, b)
         /\ Way(t, k, b)' <=> \/ k > 0 /\ Holding(t, s, k, b)'
                              \/ k <= 0 /\ Way(t, k, b)
  BY <1>2, <1>11, AloneWays
<1>14. \A u \in Threads \ {t} : \A k \in Int : \A b \in Actors : Way(u, k, b)' <=> Way(u, k, b)
  BY <1>2, <1>11, AloneWays
<1>15. \A u \in Threads : \A k \in Int : \A b \in Actors : Way(u, k, b)' <=> Way(u, k, b)
  BY <1>12, <1>13, <1>14
<1>16. OneWay'
  BY <1>3, <1>15, WaysKept DEF Apart
<1> QED
  BY <1>2, <1>6, <1>11, <1>16, AloneWays DEF Apart

LEMMA ScopedApart == ScopedInv /\ [ScopedNext]_allvars => ScopedInv'
<1> SUFFICES ASSUME ScopedInv, [ScopedNext]_allvars, ~overlapped' PROVE Apart'
  BY DEF ScopedInv
<1>1. CASE UNCHANGED allvars
  <2>1. Apart
    BY <1>1 DEF ScopedInv, allvars, svars
  <2>2. /\ UNCHANGED <<acquired, pc, tgt, ret, self, at, scope, goal, back, i, index>>
    BY <1>1 DEF allvars, vars, svars, shared, local
  <2>3. \A t \in Threads : \A s \in Scopes :
          /\ Inside(t, s)' <=> Inside(t, s)
          /\ Fits(t, s)' <=> Fits(t, s)
          /\ Held(t, s)' = Held(t, s)
    BY <2>2 DEF Inside, Fits, Held
  <2>4. \A t \in Threads : \A k \in Int : \A a \in Actors : Way(t, k, a)' <=> Way(t, k, a)
    BY <2>2, <2>3 DEF Way, DispatchHolds, ScheduleHolds
  <2>5. ScopedTypes' /\ ScopedLocated'
    BY <2>1, <2>2 DEF Apart, ScopedTypes, ScopedLocated, LocatedAt, RunsJob
  <2>6. OneInside' /\ IndexFits'
    BY <2>1, <2>2, <2>3 DEF Apart, OneInside, IndexFits
  <2> QED
    BY <2>1, <2>2, <2>4, <2>5, <2>6, WaysKept DEF Apart
<1>2. CASE overlapped /\ UNCHANGED allvars
  BY <1>1, <1>2
<1>3. CASE ~overlapped /\ ~UNCHANGED allvars
  <2>1. Apart
    BY <1>3 DEF ScopedInv
  <2>2. PICK t \in Threads :
          \/ ActorStep(t) \/ ScopedStep(t)
          \/ \E s \in Scopes : ScopedPost(t, s) \/ TakeScopedCompletion(t, s)
    BY <1>3 DEF ScopedNext
  <2>3. ASSUME ActorStep(t) PROVE Apart'
    BY <2>1, <2>3, ActorApart
  <2>4. ASSUME NEW s \in Scopes, ScopedPost(t, s) \/ TakeScopedCompletion(t, s) PROVE Apart'
    BY <2>1, <2>4, QuietSteps
  <2>5. ASSUME ScopedStep(t) PROVE Apart'
    <3>1. ASSUME ScopedGetOwner(t), sowned[scope[t]] PROVE Apart'
      BY <2>1, <3>1, EnterApart
    <3> QED
      BY <2>1, <2>5, <3>1, QuietSteps, TryApart, ReleaseApart, LeaveApart
         DEF ScopedStep
  <2> QED
    BY <2>2, <2>3, <2>4, <2>5
<1> QED
  BY <1>1, <1>2, <1>3 DEF ScopedNext

(* What the invariant says of the holders of a flag.                       *)
LEMMA WaysOfScope ==
  ASSUME NEW t \in Threads, NEW a \in Actors
  PROVE  ScopeHolds(t, a) <=> \E k \in Int : k > 0 /\ Way(t, k, a)
<1>1. \A s \in Scopes : DOMAIN Members[s] = 1..Len(Members[s]) /\ Len(Members[s]) \in Nat
  BY MembersAreSorted
<1>2. ScopeHolds(t, a) => \E k \in Int : k > 0 /\ Way(t, k, a)
  BY <1>1 DEF ScopeHolds, Way, Held
<1>3. (\E k \in Int : k > 0 /\ Way(t, k, a)) => ScopeHolds(t, a)
  BY <1>1 DEF ScopeHolds, Way, Held
<1> QED
  BY <1>2, <1>3

LEMMA ApartIsExclusive == ScopedInv => MembersExclusive
<1> SUFFICES ASSUME Apart PROVE MembersExclusive
  BY DEF ScopedInv, MembersExclusive
<1>1. ASSUME NEW t \in Threads, NEW a \in Actors
      PROVE  /\ DispatchHolds(t, a) <=> Way(t, -1, a)
             /\ ScheduleHolds(t, a) <=> Way(t, 0, a)
             /\ ScopeHolds(t, a) <=> \E k \in Int : k > 0 /\ Way(t, k, a)
  <2>1. /\ DispatchHolds(t, a) <=> Way(t, -1, a)
        /\ ScheduleHolds(t, a) <=> Way(t, 0, a)
    BY DEF Way
  <2> QED
    BY <2>1, WaysOfScope
<1>2. ASSUME NEW t \in Threads, NEW a \in Actors
      PROVE  Owns(t, a) <=> \E k \in Int : Way(t, k, a)
  <2>1. \A k \in Int : Way(t, k, a) => k = -1 \/ k = 0 \/ k > 0
    BY DEF Way
  <2> QED
    BY <1>1, <2>1 DEF Owns, Holds
<1>3. ASSUME NEW a \in Actors
      PROVE  /\ \A t, u \in Threads : Owns(t, a) /\ Owns(u, a) => t = u
             /\ acquired[a] <=> \E t \in Threads : Owns(t, a)
  BY <1>2 DEF Apart, OneWay
<1>4. ASSUME NEW a \in Actors, NEW t \in Threads, Holds(t, a), ScopeHolds(t, a)
      PROVE  FALSE
  <2>1. PICK k \in Int : k > 0 /\ Way(t, k, a)
    BY <1>1, <1>4
  <2>2. PICK l \in {-1, 0} : Way(t, l, a)
    BY <1>1, <1>4 DEF Holds
  <2>3. l \in Int /\ l # k
    BY <2>1, <2>2
  <2> QED
    BY <2>1, <2>2, <2>3 DEF Apart, OneWay
<1>5. ASSUME NEW t \in Threads, NEW s \in Scopes, at[t] = "run", scope[t] = s,
             NEW k \in DOMAIN Members[s]
      PROVE  ScopeHolds(t, Members[s][k])
  <2>1. Inside(t, s)
    BY <1>5 DEF Inside
  <2>2. index[s] = Len(Members[s])
    BY <1>5, <2>1 DEF Apart, IndexFits, Fits
  <2>3. k <= index[s]
    BY <2>2, MembersAreSorted
  <2> QED
    BY <1>5, <2>1, <2>3 DEF ScopeHolds
<1> QED
  BY <1>3, <1>4, <1>5 DEF MembersExclusive

(* The flag of an actor is held by one Dispatch, one Schedule or one scope *)
(* at a time, whichever actors the scopes are made of and however often an *)
(* actor is named in one; a job of a scope runs with all its members held. *)
THEOREM ScopeHoldsMembers == ScopedSpec => []MembersExclusive
<1>1. ScopedSpec => []ScopedInv
  BY InitApart, ScopedApart, PTL DEF ScopedSpec
<1> QED
  BY <1>1, ApartIsExclusive, PTL

-----------------------------------------------------------------------------
(* Nobody who lost a flag is forgotten without a known reason.             *)
WorkTypes ==
  /\ count \in [Actors -> Int] /\ port \in [Actors -> Nat]
  /\ lost \in [Actors -> BOOLEAN] /\ starved \in [Actors -> BOOLEAN]
  /\ jobs \in [Scopes -> Int] /\ sport \in [Scopes -> Nat]
  /\ slost \in [Scopes -> BOOLEAN]

ActorsAttended == \A a \in Actors : count[a] > 0 => Attended(a) \/ lost[a] \/ starved[a]

ScopesAttended == \A s \in Scopes : jobs[s] > 0 => ScopeAttended(s) \/ slost[s]

(* mJobQueue of a scope is looked at only inside its own Register.         *)
GoalsEnd == \A t \in Threads : at[t] \notin {"register", "own", "post"} => goal[t] = None

Minded == /\ WorkTypes /\ ReleaseBacked /\ GoalsEnd
          /\ ActorsAttended /\ ScopesAttended

(* What has to be shown of a step of a plain actor.                        *)
MindsActors == /\ count' \in [Actors -> Int] /\ port' \in [Actors -> Nat]
               /\ lost' \in [Actors -> BOOLEAN]
               /\ ReleaseBacked' /\ ActorsAttended'

LEMMA ActorMinds ==
  ASSUME Apart, Minded, NEW t \in Threads, ActorStep(t)
  PROVE  MindsActors
<1> USE ConstantsAssumption DEF Go
<1>1. /\ ScopedTypes /\ WorkTypes /\ ReleaseBacked /\ ActorsAttended
      /\ \A u \in Threads : LocatedAt(u)
  BY DEF Apart, ScopedLocated, Minded
<1>2. \A a \in Actors : starved[a] /\ port'[a] <= port[a] => starved'[a]
  BY DEF ActorStep
<1>3. \A u \in Threads : pc[u] \in {"post", "release"} => tgt[u] \in Actors
  BY <1>1 DEF LocatedAt, ScheduleSteps
<1>4. ASSUME NEW j \in Jobs, PushJob(t, j) PROVE MindsActors
  <2>1. /\ pc[t] \in {"idle", "run", "tick"} /\ Target[j] \in Actors
        /\ pc' = [pc EXCEPT ![t] = "count"]
        /\ tgt' = [tgt EXCEPT ![t] = Target[j]] /\ ret' = [ret EXCEPT ![t] = pc[t]]
        /\ UNCHANGED <<count, port, lost, self>>
    BY <1>1, <1>4 DEF PushJob, CanPost, UserCode, LocatedAt, ScheduleSteps,
       DispatchSteps
  <2>3. /\ count' \in [Actors -> Int] /\ port' \in [Actors -> Nat]
        /\ lost' \in [Actors -> BOOLEAN]
    BY <1>1, <2>1 DEF WorkTypes
  <2>4. ReleaseBacked'
    <3> SUFFICES ASSUME NEW u \in Threads, pc'[u] = "release"
                 PROVE  port'[tgt'[u]] > 0 \/ InHand(tgt[u])' \/ lost'[tgt'[u]]
      BY DEF ReleaseBacked
    <3> QED
      BY <1>1, <1>3, <2>1, SMTT(30) DEF InHand, ReleaseBacked, ScopedTypes,
         WorkTypes
  <2>5. ASSUME NEW a \in Actors, count'[a] > 0 PROVE Attended(a)' \/ lost'[a] \/ starved'[a]
    <3>1. count[a] > 0 => Attended(a) \/ lost[a] \/ starved[a]
      BY <1>1 DEF ActorsAttended
    <3>2. starved[a] /\ port'[a] <= port[a] => starved'[a]
      BY <1>2
    <3> QED
      BY <1>1, <2>1, <2>5, <3>1, <3>2, SMTT(30) DEF Attended, InHand,
         DispatchHolds, ScheduleSteps, ScopedTypes, WorkTypes
  <2> QED
    BY <2>3, <2>4, <2>5 DEF MindsActors, ActorsAttended
<1>5. ASSUME NEW j \in Jobs, RefuseJob(t, j) PROVE MindsActors
  <2>1. UNCHANGED <<pc, tgt, ret, count, port, lost, self>>
    BY <1>1, <1>5 DEF RefuseJob, local, LocatedAt, ScheduleSteps, DispatchSteps
  <2>3. /\ count' \in [Actors -> Int] /\ port' \in [Actors -> Nat]
        /\ lost' \in [Actors -> BOOLEAN]
    BY <1>1, <2>1 DEF WorkTypes
  <2>4. ReleaseBacked'
    <3> SUFFICES ASSUME NEW u \in Threads, pc'[u] = "release"
                 PROVE  port'[tgt'[u]] > 0 \/ InHand(tgt[u])' \/ lost'[tgt'[u]]
      BY DEF ReleaseBacked
    <3> QED
      BY <1>1, <1>3, <2>1, SMTT(30) DEF InHand, ReleaseBacked, ScopedTypes,
         WorkTypes
  <2>5. ASSUME NEW a \in Actors, count'[a] > 0 PROVE Attended(a)' \/ lost'[a] \/ starved'[a]
    <3>1. count[a] > 0 => Attended(a) \/ lost[a] \/ starved[a]
      BY <1>1 DEF ActorsAttended
    <3>2. starved[a] /\ port'[a] <= port[a] => starved'[a]
      BY <1>2
    <3> QED
      BY <1>1, <2>1, <2>5, <3>1, <3>2, SMTT(30) DEF Attended, InHand,
         DispatchHolds, ScheduleSteps, ScopedTypes, WorkTypes
  <2> QED
    BY <2>3, <2>4, <2>5 DEF MindsActors, ActorsAttended
<1>6. ASSUME NEW j \in Jobs, PostDelay(t, j) PROVE MindsActors
  <2>1. UNCHANGED <<pc, tgt, ret, count, port, lost, self>>
    BY <1>1, <1>6 DEF PostDelay, local, LocatedAt, ScheduleSteps, DispatchSteps
  <2>3. /\ count' \in [Actors -> Int] /\ port' \in [Actors -> Nat]
        /\ lost' \in [Actors -> BOOLEAN]
    BY <1>1, <2>1 DEF WorkTypes
  <2>4. ReleaseBacked'
    <3> SUFFICES ASSUME NEW u \in Threads, pc'[u] = "release"
                 PROVE  port'[tgt'[u]] > 0 \/ InHand(tgt[u])' \/ lost'[tgt'[u]]
      BY DEF ReleaseBacked
    <3> QED
      BY <1>1, <1>3, <2>1, SMTT(30) DEF InHand, ReleaseBacked, ScopedTypes,
         WorkTypes
  <2>5. ASSUME NEW a \in Actors, count'[a] > 0 PROVE Attended(a)' \/ lost'[a] \/ starved'[a]
    <3>1. count[a] > 0 => Attended(a) \/ lost[a] \/ starved[a]
      BY <1>1 DEF ActorsAttended
    <3>2. starved[a] /\ port'[a] <= port[a] => starved'[a]
      BY <1>2
    <3> QED
      BY <1>1, <2>1, <2>5, <3>1, <3>2, SMTT(30) DEF Attended, InHand,
         DispatchHolds, ScheduleSteps, ScopedTypes, WorkTypes
  <2> QED
    BY <2>3, <2>4, <2>5 DEF MindsActors, ActorsAttended
<1>7. ASSUME CountJob(t) PROVE MindsActors
  <2>1. /\ pc[t] = "count" /\ tgt[t] \in Actors
        /\ pc' = [pc EXCEPT ![t] = "register"]
        /\ count' = [count EXCEPT ![tgt[t]] = @ + 1]
        /\ UNCHANGED <<tgt, ret, port, lost, self>>
    BY <1>1, <1>7 DEF CountJob, LocatedAt, ScheduleSteps, DispatchSteps
  <2>3. /\ count' \in [Actors -> Int] /\ port' \in [Actors -> Nat]
        /\ lost' \in [Actors -> BOOLEAN]
    BY <1>1, <2>1 DEF WorkTypes
  <2>4. ReleaseBacked'
    <3> SUFFICES ASSUME NEW u \in Threads, pc'[u] = "release"
                 PROVE  port'[tgt'[u]] > 0 \/ InHand(tgt[u])' \/ lost'[tgt'[u]]
      BY DEF ReleaseBacked
    <3> QED
      BY <1>1, <1>3, <2>1, SMTT(30) DEF InHand, ReleaseBacked, ScopedTypes,
         WorkTypes
  <2>5. ASSUME NEW a \in Actors, count'[a] > 0 PROVE Attended(a)' \/ lost'[a] \/ starved'[a]
    <3>1. count[a] > 0 => Attended(a) \/ lost[a] \/ starved[a]
      BY <1>1 DEF ActorsAttended
    <3>2. starved[a] /\ port'[a] <= port[a] => starved'[a]
      BY <1>2
    <3> QED
      BY <1>1, <2>1, <2>5, <3>1, <3>2, SMTT(30) DEF Attended, InHand,
         DispatchHolds, ScheduleSteps, ScopedTypes, WorkTypes
  <2> QED
    BY <2>3, <2>4, <2>5 DEF MindsActors, ActorsAttended
<1>8. ASSUME Register(t) PROVE MindsActors
  <2>1. /\ pc[t] = "register" /\ tgt[t] \in Actors
        /\ \/ count[tgt[t]] > 0 /\ pc' = [pc EXCEPT ![t] = "own"] /\ UNCHANGED <<tgt, ret>>
           \/ /\ ~(count[tgt[t]] > 0)
              /\ pc' = [pc EXCEPT ![t] = ret[t]]
              /\ tgt' = [tgt EXCEPT ![t] = None]
              /\ ret' = [ret EXCEPT ![t] = "idle"]
        /\ UNCHANGED <<count, port, lost, self>>
    BY <1>1, <1>8 DEF Register, Stay, Return, shared, LocatedAt,
       ScheduleSteps, DispatchSteps
  <2>3. /\ count' \in [Actors -> Int] /\ port' \in [Actors -> Nat]
        /\ lost' \in [Actors -> BOOLEAN]
    BY <1>1, <2>1 DEF WorkTypes
  <2>4. ReleaseBacked'
    <3> SUFFICES ASSUME NEW u \in Threads, pc'[u] = "release"
                 PROVE  port'[tgt'[u]] > 0 \/ InHand(tgt[u])' \/ lost'[tgt'[u]]
      BY DEF ReleaseBacked
    <3> QED
      BY <1>1, <1>3, <2>1, SMTT(30) DEF InHand, ReleaseBacked, ScopedTypes,
         WorkTypes
  <2>5. ASSUME NEW a \in Actors, count'[a] > 0 PROVE Attended(a)' \/ lost'[a] \/ starved'[a]
    <3>1. count[a] > 0 => Attended(a) \/ lost[a] \/ starved[a]
      BY <1>1 DEF ActorsAttended
    <3>2. starved[a] /\ port'[a] <= port[a] => starved'[a]
      BY <1>2
    <3> QED
      BY <1>1, <2>1, <2>5, <3>1, <3>2, SMTT(30) DEF Attended, InHand,
         DispatchHolds, ScheduleSteps, ScopedTypes, WorkTypes
  <2> QED
    BY <2>3, <2>4, <2>5 DEF MindsActors, ActorsAttended
<1>9. ASSUME SetOwner(t) PROVE MindsActors
  <2>1. /\ pc[t] = "own" /\ tgt[t] \in Actors
        /\ pc' = [pc EXCEPT ![t] = "acquire"]
        /\ UNCHANGED <<tgt, ret, count, port, lost, self>>
    BY <1>1, <1>9 DEF SetOwner, Stay, LocatedAt, ScheduleSteps, DispatchSteps
  <2>3. /\ count' \in [Actors -> Int] /\ port' \in [Actors -> Nat]
        /\ lost' \in [Actors -> BOOLEAN]
    BY <1>1, <2>1 DEF WorkTypes
  <2>4. ReleaseBacked'
    <3> SUFFICES ASSUME NEW u \in Threads, pc'[u] = "release"
                 PROVE  port'[tgt'[u]] > 0 \/ InHand(tgt[u])' \/ lost'[tgt'[u]]
      BY DEF ReleaseBacked
    <3> QED
      BY <1>1, <1>3, <2>1, SMTT(30) DEF InHand, ReleaseBacked, ScopedTypes,
         WorkTypes
  <2>5. ASSUME NEW a \in Actors, count'[a] > 0 PROVE Attended(a)' \/ lost'[a] \/ starved'[a]
    <3>1. count[a] > 0 => Attended(a) \/ lost[a] \/ starved[a]
      BY <1>1 DEF ActorsAttended
    <3>2. starved[a] /\ port'[a] <= port[a] => starved'[a]
      BY <1>2
    <3> QED
      BY <1>1, <2>1, <2>5, <3>1, <3>2, SMTT(30) DEF Attended, InHand,
         DispatchHolds, ScheduleSteps, ScopedTypes, WorkTypes
  <2> QED
    BY <2>3, <2>4, <2>5 DEF MindsActors, ActorsAttended
<1>10. ASSUME ScheduleAcquire(t) PROVE MindsActors
  <2>1. /\ pc[t] = "acquire" /\ tgt[t] \in Actors
        /\ \/ pc' = [pc EXCEPT ![t] = "post"] /\ tgt' = tgt /\ ret' = ret
           \/ /\ acquired[tgt[t]]
              /\ pc' = [pc EXCEPT ![t] = ret[t]]
              /\ tgt' = [tgt EXCEPT ![t] = None]
              /\ ret' = [ret EXCEPT ![t] = "idle"]
        /\ UNCHANGED <<count, port, lost, self>>
    BY <1>1, <1>10 DEF ScheduleAcquire, Stay, Return, LocatedAt, ScheduleSteps
  <2>2. ReleaseBacked'
    <3> SUFFICES ASSUME NEW u \in Threads, pc'[u] = "release"
                 PROVE  port'[tgt'[u]] > 0 \/ InHand(tgt[u])' \/ lost'[tgt'[u]]
      BY DEF ReleaseBacked
    <3> QED
      BY <1>1, <1>3, <2>1, SMTT(30) DEF InHand, ReleaseBacked, ScopedTypes,
         WorkTypes
  <2>3. ASSUME NEW a \in Actors, count'[a] > 0 PROVE Attended(a)' \/ lost'[a] \/ starved'[a]
    <3>1. Attended(a) \/ lost[a] \/ starved[a]
      BY <1>1, <2>1, <2>3 DEF ActorsAttended
    <3>2. starved[a] => starved'[a]
      BY <1>1, <1>2, <2>1 DEF WorkTypes
    <3>3. CASE a # tgt[t] \/ pc'[t] = "post"
      BY <1>1, <2>1, <3>1, <3>2, <3>3, SMTT(30) DEF Attended, InHand,
         DispatchHolds, ScheduleSteps, ScopedTypes, WorkTypes
    <3>4. CASE a = tgt[t] /\ pc'[t] # "post"
      <4>1. PICK u \in Threads, k \in Int : Way(u, k, a)
        BY <1>1, <2>1, <3>4 DEF Apart, OneWay, ScopedTypes
      <4>2. acquired[a] /\ pc' = [pc EXCEPT ![t] = ret[t]]
        BY <1>1, <2>1, <3>4 DEF ScopedTypes
      <4>3. CASE DispatchHolds(u, a)
        BY <1>1, <2>1, <4>2, <4>3 DEF Attended, InHand, DispatchHolds,
           ScheduleSteps, ScopedTypes, WorkTypes
      <4>4. CASE ScheduleHolds(u, a)
        <5>1. u # t /\ tgt[u] = a /\ pc[u] \in {"post", "release"}
          BY <2>1, <4>4 DEF ScheduleHolds
        <5>2. CASE pc[u] = "post"
          BY <1>1, <2>1, <4>2, <5>1, <5>2 DEF Attended, ScopedTypes, WorkTypes
        <5>3. CASE pc[u] = "release"
          BY <1>1, <2>1, <4>2, <5>1, <5>3 DEF ReleaseBacked, Attended, InHand,
             ScopedTypes, WorkTypes
        <5> QED
          BY <5>1, <5>2, <5>3
      <4>5. CASE ScopeHolds(u, a)
        <5>1. starved' = [c \in Actors |->
                 /\ port'[c] <= port[c]
                 /\ \/ starved[c]
                    \/ /\ pc[t] = "acquire" /\ tgt[t] = c
                       /\ \E v \in Threads : ScopeHolds(v, c)]
          BY DEF ActorStep
        <5>2. port'[a] <= port[a]
          BY <1>1, <2>1 DEF WorkTypes
        <5>3. \E v \in Threads : ScopeHolds(v, a)
          BY <4>5
        <5> QED
          BY <2>1, <3>4, <5>1, <5>2, <5>3
      <4> QED
        BY <4>1, <4>3, <4>4, <4>5, WaysOfScope DEF Way
    <3> QED
      BY <3>3, <3>4
  <2> QED
    BY <1>1, <2>1, <2>2, <2>3 DEF MindsActors, ActorsAttended, WorkTypes
<1>11. ASSUME PostCompletion(t) PROVE MindsActors
  <2>1. /\ pc[t] = "post" /\ tgt[t] \in Actors
        /\ pc' = [pc EXCEPT ![t] = "release"]
        /\ port' = [port EXCEPT ![tgt[t]] = @ + 1]
        /\ lost' = [lost EXCEPT ![tgt[t]] = FALSE]
        /\ UNCHANGED <<tgt, ret, count, self>>
    BY <1>1, <1>11 DEF PostCompletion, LocatedAt, ScheduleSteps, DispatchSteps
  <2>3. /\ count' \in [Actors -> Int] /\ port' \in [Actors -> Nat]
        /\ lost' \in [Actors -> BOOLEAN]
    BY <1>1, <2>1 DEF WorkTypes
  <2>4. ReleaseBacked'
    <3> SUFFICES ASSUME NEW u \in Threads, pc'[u] = "release"
                 PROVE  port'[tgt'[u]] > 0 \/ InHand(tgt[u])' \/ lost'[tgt'[u]]
      BY DEF ReleaseBacked
    <3> QED
      BY <1>1, <1>3, <2>1, SMTT(30) DEF InHand, ReleaseBacked, ScopedTypes,
         WorkTypes
  <2>5. ASSUME NEW a \in Actors, count'[a] > 0 PROVE Attended(a)' \/ lost'[a] \/ starved'[a]
    <3>1. count[a] > 0 => Attended(a) \/ lost[a] \/ starved[a]
      BY <1>1 DEF ActorsAttended
    <3>2. starved[a] /\ port'[a] <= port[a] => starved'[a]
      BY <1>2
    <3> QED
      BY <1>1, <2>1, <2>5, <3>1, <3>2, SMTT(30) DEF Attended, InHand,
         DispatchHolds, ScheduleSteps, ScopedTypes, WorkTypes
  <2> QED
    BY <2>3, <2>4, <2>5 DEF MindsActors, ActorsAttended
<1>12. ASSUME PostCompletionFails(t) PROVE MindsActors
  <2>1. /\ pc[t] = "post" /\ tgt[t] \in Actors
        /\ pc' = [pc EXCEPT ![t] = "release"]
        /\ lost' = [lost EXCEPT ![tgt[t]] = TRUE]
        /\ UNCHANGED <<tgt, ret, count, port, self>>
    BY <1>1, <1>12 DEF PostCompletionFails, LocatedAt, ScheduleSteps,
       DispatchSteps
  <2>3. /\ count' \in [Actors -> Int] /\ port' \in [Actors -> Nat]
        /\ lost' \in [Actors -> BOOLEAN]
    BY <1>1, <2>1 DEF WorkTypes
  <2>4. ReleaseBacked'
    <3> SUFFICES ASSUME NEW u \in Threads, pc'[u] = "release"
                 PROVE  port'[tgt'[u]] > 0 \/ InHand(tgt[u])' \/ lost'[tgt'[u]]
      BY DEF ReleaseBacked
    <3> QED
      BY <1>1, <1>3, <2>1, SMTT(30) DEF InHand, ReleaseBacked, ScopedTypes,
         WorkTypes
  <2>5. ASSUME NEW a \in Actors, count'[a] > 0 PROVE Attended(a)' \/ lost'[a] \/ starved'[a]
    <3>1. count[a] > 0 => Attended(a) \/ lost[a] \/ starved[a]
      BY <1>1 DEF ActorsAttended
    <3>2. starved[a] /\ port'[a] <= port[a] => starved'[a]
      BY <1>2
    <3> QED
      BY <1>1, <2>1, <2>5, <3>1, <3>2, SMTT(30) DEF Attended, InHand,
         DispatchHolds, ScheduleSteps, ScopedTypes, WorkTypes
  <2> QED
    BY <2>3, <2>4, <2>5 DEF MindsActors, ActorsAttended
<1>13. ASSUME ScheduleRelease(t) PROVE MindsActors
  <2>1. /\ pc[t] = "release" /\ tgt[t] \in Actors
        /\ pc' = [pc EXCEPT ![t] = ret[t]]
        /\ tgt' = [tgt EXCEPT ![t] = None]
        /\ ret' = [ret EXCEPT ![t] = "idle"]
        /\ UNCHANGED <<count, port, lost, self>>
    BY <1>1, <1>13 DEF ScheduleRelease, Return, LocatedAt, ScheduleSteps,
       DispatchSteps
  <2>3. /\ count' \in [Actors -> Int] /\ port' \in [Actors -> Nat]
        /\ lost' \in [Actors -> BOOLEAN]
    BY <1>1, <2>1 DEF WorkTypes
  <2>4. ReleaseBacked'
    <3> SUFFICES ASSUME NEW u \in Threads, pc'[u] = "release"
                 PROVE  port'[tgt'[u]] > 0 \/ InHand(tgt[u])' \/ lost'[tgt'[u]]
      BY DEF ReleaseBacked
    <3> QED
      BY <1>1, <1>3, <2>1, SMTT(30) DEF InHand, ReleaseBacked, ScopedTypes,
         WorkTypes
  <2>5. ASSUME NEW a \in Actors, count'[a] > 0 PROVE Attended(a)' \/ lost'[a] \/ starved'[a]
    <3>1. count[a] > 0 => Attended(a) \/ lost[a] \/ starved[a]
      BY <1>1 DEF ActorsAttended
    <3>2. starved[a] /\ port'[a] <= port[a] => starved'[a]
      BY <1>2
    <3> QED
      BY <1>1, <2>1, <2>5, <3>1, <3>2, SMTT(30) DEF Attended, InHand,
         DispatchHolds, ScheduleSteps, ScopedTypes, WorkTypes
  <2> QED
    BY <2>3, <2>4, <2>5 DEF MindsActors, ActorsAttended
<1>14. ASSUME GetOwner(t) PROVE MindsActors
  <2>1. /\ pc[t] = "owner" /\ self[t] \in Actors
        /\ \/ pc' = [pc EXCEPT ![t] = "lock"] /\ lost' = lost
           \/ pc' = [pc EXCEPT ![t] = "tick"] /\ lost' = [lost EXCEPT ![self[t]] = TRUE]
        /\ UNCHANGED <<tgt, ret, count, port, self>>
    BY <1>1, <1>14 DEF GetOwner, shared, LocatedAt, ScheduleSteps,
       DispatchSteps
  <2>3. /\ count' \in [Actors -> Int] /\ port' \in [Actors -> Nat]
        /\ lost' \in [Actors -> BOOLEAN]
    BY <1>1, <2>1 DEF WorkTypes
  <2>4. ReleaseBacked'
    <3> SUFFICES ASSUME NEW u \in Threads, pc'[u] = "release"
                 PROVE  port'[tgt'[u]] > 0 \/ InHand(tgt[u])' \/ lost'[tgt'[u]]
      BY DEF ReleaseBacked
    <3> QED
      BY <1>1, <1>3, <2>1, SMTT(30) DEF InHand, ReleaseBacked, ScopedTypes,
         WorkTypes
  <2>5. ASSUME NEW a \in Actors, count'[a] > 0 PROVE Attended(a)' \/ lost'[a] \/ starved'[a]
    <3>1. count[a] > 0 => Attended(a) \/ lost[a] \/ starved[a]
      BY <1>1 DEF ActorsAttended
    <3>2. starved[a] /\ port'[a] <= port[a] => starved'[a]
      BY <1>2
    <3> QED
      BY <1>1, <2>1, <2>5, <3>1, <3>2, SMTT(30) DEF Attended, InHand,
         DispatchHolds, ScheduleSteps, ScopedTypes, WorkTypes
  <2> QED
    BY <2>3, <2>4, <2>5 DEF MindsActors, ActorsAttended
<1>15. ASSUME DispatchAcquire(t) PROVE MindsActors
  <2>1. /\ pc[t] = "lock" /\ self[t] \in Actors
        /\ \/ /\ ~acquired[self[t]]
              /\ pc' = [pc EXCEPT ![t] = "batch"] /\ lost' = lost
           \/ pc' = [pc EXCEPT ![t] = "tick"] /\ lost' = [lost EXCEPT ![self[t]] = TRUE]
        /\ UNCHANGED <<tgt, ret, count, port, self>>
    BY <1>1, <1>15 DEF DispatchAcquire, LocatedAt, ScheduleSteps, DispatchSteps
  <2>2. ASSUME NEW u \in Threads, pc[u] = "release" PROVE acquired[tgt[u]]
    <3>1. tgt[u] \in Actors /\ Way(u, 0, tgt[u])
      BY <1>3, <2>2 DEF Way, ScheduleHolds
    <3> QED
      BY <3>1 DEF Apart, OneWay
  <2>3. /\ count' \in [Actors -> Int] /\ port' \in [Actors -> Nat]
        /\ lost' \in [Actors -> BOOLEAN]
    BY <1>1, <2>1 DEF WorkTypes
  <2>4. ReleaseBacked'
    <3> SUFFICES ASSUME NEW u \in Threads, pc'[u] = "release"
                 PROVE  port'[tgt'[u]] > 0 \/ InHand(tgt[u])' \/ lost'[tgt'[u]]
      BY DEF ReleaseBacked
    <3> QED
      BY <1>1, <1>3, <2>1, <2>2, SMTT(30) DEF InHand, ReleaseBacked,
         ScopedTypes, WorkTypes
  <2>5. ASSUME NEW a \in Actors, count'[a] > 0 PROVE Attended(a)' \/ lost'[a] \/ starved'[a]
    <3>1. count[a] > 0 => Attended(a) \/ lost[a] \/ starved[a]
      BY <1>1 DEF ActorsAttended
    <3>2. starved[a] /\ port'[a] <= port[a] => starved'[a]
      BY <1>2
    <3> QED
      BY <1>1, <2>1, <2>5, <3>1, <3>2, SMTT(30) DEF Attended, InHand,
         DispatchHolds, ScheduleSteps, ScopedTypes, WorkTypes
  <2> QED
    BY <2>3, <2>4, <2>5 DEF MindsActors, ActorsAttended
<1>16. ASSUME ReadBatch(t) PROVE MindsActors
  <2>1. /\ pc[t] = "batch" /\ self[t] \in Actors
        /\ pc' = [pc EXCEPT ![t] = "exec"]
        /\ UNCHANGED <<tgt, ret, count, port, lost, self>>
    BY <1>1, <1>16 DEF ReadBatch, shared, LocatedAt, ScheduleSteps,
       DispatchSteps
  <2>3. /\ count' \in [Actors -> Int] /\ port' \in [Actors -> Nat]
        /\ lost' \in [Actors -> BOOLEAN]
    BY <1>1, <2>1 DEF WorkTypes
  <2>4. ReleaseBacked'
    <3> SUFFICES ASSUME NEW u \in Threads, pc'[u] = "release"
                 PROVE  port'[tgt'[u]] > 0 \/ InHand(tgt[u])' \/ lost'[tgt'[u]]
      BY DEF ReleaseBacked
    <3> QED
      BY <1>1, <1>3, <2>1, SMTT(30) DEF InHand, ReleaseBacked, ScopedTypes,
         WorkTypes
  <2>5. ASSUME NEW a \in Actors, count'[a] > 0 PROVE Attended(a)' \/ lost'[a] \/ starved'[a]
    <3>1. count[a] > 0 => Attended(a) \/ lost[a] \/ starved[a]
      BY <1>1 DEF ActorsAttended
    <3>2. starved[a] /\ port'[a] <= port[a] => starved'[a]
      BY <1>2
    <3> QED
      BY <1>1, <2>1, <2>5, <3>1, <3>2, SMTT(30) DEF Attended, InHand,
         DispatchHolds, ScheduleSteps, ScopedTypes, WorkTypes
  <2> QED
    BY <2>3, <2>4, <2>5 DEF MindsActors, ActorsAttended
<1>17. ASSUME Execute(t) PROVE MindsActors
  <2>1. /\ pc[t] = "exec" /\ self[t] \in Actors
        /\ \/ /\ pc' = [pc EXCEPT ![t] = "run"]
              /\ count' = [count EXCEPT ![self[t]] = @ - 1]
           \/ pc' = [pc EXCEPT ![t] = "exec"] /\ count' = count
        /\ UNCHANGED <<tgt, ret, port, lost, self>>
    BY <1>1, <1>17 DEF Execute, LocatedAt, ScheduleSteps, DispatchSteps
  <2>3. /\ count' \in [Actors -> Int] /\ port' \in [Actors -> Nat]
        /\ lost' \in [Actors -> BOOLEAN]
    BY <1>1, <2>1 DEF WorkTypes
  <2>4. ReleaseBacked'
    <3> SUFFICES ASSUME NEW u \in Threads, pc'[u] = "release"
                 PROVE  port'[tgt'[u]] > 0 \/ InHand(tgt[u])' \/ lost'[tgt'[u]]
      BY DEF ReleaseBacked
    <3> QED
      BY <1>1, <1>3, <2>1, SMTT(30) DEF InHand, ReleaseBacked, ScopedTypes,
         WorkTypes
  <2>5. ASSUME NEW a \in Actors, count'[a] > 0 PROVE Attended(a)' \/ lost'[a] \/ starved'[a]
    <3>1. count[a] > 0 => Attended(a) \/ lost[a] \/ starved[a]
      BY <1>1 DEF ActorsAttended
    <3>2. starved[a] /\ port'[a] <= port[a] => starved'[a]
      BY <1>2
    <3> QED
      BY <1>1, <2>1, <2>5, <3>1, <3>2, SMTT(30) DEF Attended, InHand,
         DispatchHolds, ScheduleSteps, ScopedTypes, WorkTypes
  <2> QED
    BY <2>3, <2>4, <2>5 DEF MindsActors, ActorsAttended
<1>18. ASSUME FinishJob(t) PROVE MindsActors
  <2>1. /\ pc[t] = "run"
        /\ pc' = [pc EXCEPT ![t] = "exec"]
        /\ UNCHANGED <<tgt, ret, count, port, lost, self>>
    BY <1>1, <1>18 DEF FinishJob, shared, LocatedAt, ScheduleSteps,
       DispatchSteps
  <2>3. /\ count' \in [Actors -> Int] /\ port' \in [Actors -> Nat]
        /\ lost' \in [Actors -> BOOLEAN]
    BY <1>1, <2>1 DEF WorkTypes
  <2>4. ReleaseBacked'
    <3> SUFFICES ASSUME NEW u \in Threads, pc'[u] = "release"
                 PROVE  port'[tgt'[u]] > 0 \/ InHand(tgt[u])' \/ lost'[tgt'[u]]
      BY DEF ReleaseBacked
    <3> QED
      BY <1>1, <1>3, <2>1, SMTT(30) DEF InHand, ReleaseBacked, ScopedTypes,
         WorkTypes
  <2>5. ASSUME NEW a \in Actors, count'[a] > 0 PROVE Attended(a)' \/ lost'[a] \/ starved'[a]
    <3>1. count[a] > 0 => Attended(a) \/ lost[a] \/ starved[a]
      BY <1>1 DEF ActorsAttended
    <3>2. starved[a] /\ port'[a] <= port[a] => starved'[a]
      BY <1>2
    <3> QED
      BY <1>1, <2>1, <2>5, <3>1, <3>2, SMTT(30) DEF Attended, InHand,
         DispatchHolds, ScheduleSteps, ScopedTypes, WorkTypes
  <2> QED
    BY <2>3, <2>4, <2>5 DEF MindsActors, ActorsAttended
<1>19. ASSUME EndBatch(t) PROVE MindsActors
  <2>1. /\ pc[t] = "exec" /\ self[t] \in Actors
        /\ pc' = [pc EXCEPT ![t] = "clear"]
        /\ UNCHANGED <<tgt, ret, count, port, lost, self>>
    BY <1>1, <1>19 DEF EndBatch, shared, LocatedAt, ScheduleSteps,
       DispatchSteps
  <2>3. /\ count' \in [Actors -> Int] /\ port' \in [Actors -> Nat]
        /\ lost' \in [Actors -> BOOLEAN]
    BY <1>1, <2>1 DEF WorkTypes
  <2>4. ReleaseBacked'
    <3> SUFFICES ASSUME NEW u \in Threads, pc'[u] = "release"
                 PROVE  port'[tgt'[u]] > 0 \/ InHand(tgt[u])' \/ lost'[tgt'[u]]
      BY DEF ReleaseBacked
    <3> QED
      BY <1>1, <1>3, <2>1, SMTT(30) DEF InHand, ReleaseBacked, ScopedTypes,
         WorkTypes
  <2>5. ASSUME NEW a \in Actors, count'[a] > 0 PROVE Attended(a)' \/ lost'[a] \/ starved'[a]
    <3>1. count[a] > 0 => Attended(a) \/ lost[a] \/ starved[a]
      BY <1>1 DEF ActorsAttended
    <3>2. starved[a] /\ port'[a] <= port[a] => starved'[a]
      BY <1>2
    <3> QED
      BY <1>1, <2>1, <2>5, <3>1, <3>2, SMTT(30) DEF Attended, InHand,
         DispatchHolds, ScheduleSteps, ScopedTypes, WorkTypes
  <2> QED
    BY <2>3, <2>4, <2>5 DEF MindsActors, ActorsAttended
<1>20. ASSUME ClearActorOverlapped(t) PROVE MindsActors
  <2>1. /\ pc[t] = "clear" /\ self[t] \in Actors
        /\ pc' = [pc EXCEPT ![t] = "unlock"]
        /\ UNCHANGED <<tgt, ret, count, port, lost, self>>
    BY <1>1, <1>20 DEF ClearActorOverlapped, LocatedAt, ScheduleSteps,
       DispatchSteps
  <2>3. /\ count' \in [Actors -> Int] /\ port' \in [Actors -> Nat]
        /\ lost' \in [Actors -> BOOLEAN]
    BY <1>1, <2>1 DEF WorkTypes
  <2>4. ReleaseBacked'
    <3> SUFFICES ASSUME NEW u \in Threads, pc'[u] = "release"
                 PROVE  port'[tgt'[u]] > 0 \/ InHand(tgt[u])' \/ lost'[tgt'[u]]
      BY DEF ReleaseBacked
    <3> QED
      BY <1>1, <1>3, <2>1, SMTT(30) DEF InHand, ReleaseBacked, ScopedTypes,
         WorkTypes
  <2>5. ASSUME NEW a \in Actors, count'[a] > 0 PROVE Attended(a)' \/ lost'[a] \/ starved'[a]
    <3>1. count[a] > 0 => Attended(a) \/ lost[a] \/ starved[a]
      BY <1>1 DEF ActorsAttended
    <3>2. starved[a] /\ port'[a] <= port[a] => starved'[a]
      BY <1>2
    <3> QED
      BY <1>1, <2>1, <2>5, <3>1, <3>2, SMTT(30) DEF Attended, InHand,
         DispatchHolds, ScheduleSteps, ScopedTypes, WorkTypes
  <2> QED
    BY <2>3, <2>4, <2>5 DEF MindsActors, ActorsAttended
<1>21. ASSUME DispatchRelease(t) PROVE MindsActors
  <2>1. /\ pc[t] = "unlock" /\ self[t] \in Actors
        /\ pc' = [pc EXCEPT ![t] = "register"]
        /\ tgt' = [tgt EXCEPT ![t] = self[t]]
        /\ ret' = [ret EXCEPT ![t] = "tick"]
        /\ UNCHANGED <<count, port, lost, self>>
    BY <1>1, <1>21 DEF DispatchRelease, LocatedAt, ScheduleSteps, DispatchSteps
  <2>3. /\ count' \in [Actors -> Int] /\ port' \in [Actors -> Nat]
        /\ lost' \in [Actors -> BOOLEAN]
    BY <1>1, <2>1 DEF WorkTypes
  <2>4. ReleaseBacked'
    <3> SUFFICES ASSUME NEW u \in Threads, pc'[u] = "release"
                 PROVE  port'[tgt'[u]] > 0 \/ InHand(tgt[u])' \/ lost'[tgt'[u]]
      BY DEF ReleaseBacked
    <3> QED
      BY <1>1, <1>3, <2>1, SMTT(30) DEF InHand, ReleaseBacked, ScopedTypes,
         WorkTypes
  <2>5. ASSUME NEW a \in Actors, count'[a] > 0 PROVE Attended(a)' \/ lost'[a] \/ starved'[a]
    <3>1. count[a] > 0 => Attended(a) \/ lost[a] \/ starved[a]
      BY <1>1 DEF ActorsAttended
    <3>2. starved[a] /\ port'[a] <= port[a] => starved'[a]
      BY <1>2
    <3> QED
      BY <1>1, <2>1, <2>5, <3>1, <3>2, SMTT(30) DEF Attended, InHand,
         DispatchHolds, ScheduleSteps, ScopedTypes, WorkTypes
  <2> QED
    BY <2>3, <2>4, <2>5 DEF MindsActors, ActorsAttended
<1>22. ASSUME EndTick(t) PROVE MindsActors
  <2>1. /\ pc[t] = "tick"
        /\ pc' = [pc EXCEPT ![t] = "idle"]
        /\ self' = [self EXCEPT ![t] = None]
        /\ UNCHANGED <<tgt, ret, count, port, lost>>
    BY <1>1, <1>22 DEF EndTick, shared, LocatedAt, ScheduleSteps, DispatchSteps
  <2>3. /\ count' \in [Actors -> Int] /\ port' \in [Actors -> Nat]
        /\ lost' \in [Actors -> BOOLEAN]
    BY <1>1, <2>1 DEF WorkTypes
  <2>4. ReleaseBacked'
    <3> SUFFICES ASSUME NEW u \in Threads, pc'[u] = "release"
                 PROVE  port'[tgt'[u]] > 0 \/ InHand(tgt[u])' \/ lost'[tgt'[u]]
      BY DEF ReleaseBacked
    <3> QED
      BY <1>1, <1>3, <2>1, SMTT(30) DEF InHand, ReleaseBacked, ScopedTypes,
         WorkTypes
  <2>5. ASSUME NEW a \in Actors, count'[a] > 0 PROVE Attended(a)' \/ lost'[a] \/ starved'[a]
    <3>1. count[a] > 0 => Attended(a) \/ lost[a] \/ starved[a]
      BY <1>1 DEF ActorsAttended
    <3>2. starved[a] /\ port'[a] <= port[a] => starved'[a]
      BY <1>2
    <3> QED
      BY <1>1, <2>1, <2>5, <3>1, <3>2, SMTT(30) DEF Attended, InHand,
         DispatchHolds, ScheduleSteps, ScopedTypes, WorkTypes
  <2> QED
    BY <2>3, <2>4, <2>5 DEF MindsActors, ActorsAttended
<1>23. ASSUME TimeSlice(t) PROVE MindsActors
  <2>1. /\ pc[t] = "idle"
        /\ pc' = [pc EXCEPT ![t] = "tick"]
        /\ UNCHANGED <<tgt, ret, count, port, lost, self>>
    BY <1>1, <1>23 DEF TimeSlice, shared, LocatedAt, ScheduleSteps,
       DispatchSteps
  <2>3. /\ count' \in [Actors -> Int] /\ port' \in [Actors -> Nat]
        /\ lost' \in [Actors -> BOOLEAN]
    BY <1>1, <2>1 DEF WorkTypes
  <2>4. ReleaseBacked'
    <3> SUFFICES ASSUME NEW u \in Threads, pc'[u] = "release"
                 PROVE  port'[tgt'[u]] > 0 \/ InHand(tgt[u])' \/ lost'[tgt'[u]]
      BY DEF ReleaseBacked
    <3> QED
      BY <1>1, <1>3, <2>1, SMTT(30) DEF InHand, ReleaseBacked, ScopedTypes,
         WorkTypes
  <2>5. ASSUME NEW a \in Actors, count'[a] > 0 PROVE Attended(a)' \/ lost'[a] \/ starved'[a]
    <3>1. count[a] > 0 => Attended(a) \/ lost[a] \/ starved[a]
      BY <1>1 DEF ActorsAttended
    <3>2. starved[a] /\ port'[a] <= port[a] => starved'[a]
      BY <1>2
    <3> QED
      BY <1>1, <2>1, <2>5, <3>1, <3>2, SMTT(30) DEF Attended, InHand,
         DispatchHolds, ScheduleSteps, ScopedTypes, WorkTypes
  <2> QED
    BY <2>3, <2>4, <2>5 DEF MindsActors, ActorsAttended
<1>24. ASSUME NEW b \in Actors, TakeCompletion(t, b) PROVE MindsActors
  <2>1. /\ pc[t] = "idle" /\ port[b] > 0
        /\ pc' = [pc EXCEPT ![t] = "owner"]
        /\ port' = [port EXCEPT ![b] = @ - 1]
        /\ self' = [self EXCEPT ![t] = b]
        /\ UNCHANGED <<tgt, ret, count, lost>>
    BY <1>1, <1>24 DEF TakeCompletion, LocatedAt, ScheduleSteps, DispatchSteps
  <2>3. /\ count' \in [Actors -> Int] /\ port' \in [Actors -> Nat]
        /\ lost' \in [Actors -> BOOLEAN]
    BY <1>1, <2>1 DEF WorkTypes
  <2>4. ReleaseBacked'
    <3> SUFFICES ASSUME NEW u \in Threads, pc'[u] = "release"
                 PROVE  port'[tgt'[u]] > 0 \/ InHand(tgt[u])' \/ lost'[tgt'[u]]
      BY DEF ReleaseBacked
    <3> QED
      BY <1>1, <1>3, <2>1, SMTT(30) DEF InHand, ReleaseBacked, ScopedTypes,
         WorkTypes
  <2>5. ASSUME NEW a \in Actors, count'[a] > 0 PROVE Attended(a)' \/ lost'[a] \/ starved'[a]
    <3>1. count[a] > 0 => Attended(a) \/ lost[a] \/ starved[a]
      BY <1>1 DEF ActorsAttended
    <3>2. starved[a] /\ port'[a] <= port[a] => starved'[a]
      BY <1>2
    <3> QED
      BY <1>1, <2>1, <2>5, <3>1, <3>2, SMTT(30) DEF Attended, InHand,
         DispatchHolds, ScheduleSteps, ScopedTypes, WorkTypes
  <2> QED
    BY <2>3, <2>4, <2>5 DEF MindsActors, ActorsAttended
<1> QED
  BY <1>4, <1>5, <1>6, <1>7, <1>8, <1>9, <1>10, <1>11, <1>12, <1>13, <1>14,
     <1>15, <1>16, <1>17, <1>18, <1>19, <1>20, <1>21, <1>22, <1>23, <1>24
     DEF ActorStep, ScheduleStep, DispatchStep

-----------------------------------------------------------------------------
(* A step of a scoped actor, as the plain actors see it.                   *)
QuietFor(t) ==
  /\ UNCHANGED <<tgt, ret, self, count, port, lost, starved>>
  /\ \/ pc' = pc
     \/ /\ pc[t] \in {"idle", "run"} /\ self[t] = None
        /\ \E to \in {"idle", "run", "tick"} : pc' = [pc EXCEPT ![t] = to]

LEMMA ScopeMinds ==
  ASSUME Apart, Minded, NEW t \in Threads, QuietFor(t),
         jobs' \in [Scopes -> Int], sport' \in [Scopes -> Nat],
         slost' \in [Scopes -> BOOLEAN], GoalsEnd', ScopesAttended'
  PROVE  Minded'
<1> USE ConstantsAssumption
<1>1. ScopedTypes /\ WorkTypes /\ ReleaseBacked /\ ActorsAttended
  BY DEF Apart, Minded
<1>2. WorkTypes'
  BY <1>1 DEF WorkTypes, QuietFor
<1>3. \A u \in Threads :
        /\ \/ pc'[u] = pc[u]
           \/ pc[u] \in {"idle", "run"} /\ pc'[u] \in {"idle", "run", "tick"} /\ self[u] = None
        /\ u # t => pc'[u] = pc[u]
  BY <1>1 DEF QuietFor, ScopedTypes
<1>4. \A a \in Actors : \A u \in Threads :
        /\ self'[u] = a /\ pc'[u] \in {"owner", "lock"} <=> self[u] = a /\ pc[u] \in {"owner", "lock"}
        /\ DispatchHolds(u, a)' <=> DispatchHolds(u, a)
  BY <1>1, <1>3 DEF QuietFor, DispatchHolds, ScheduleSteps
<1>5. ReleaseBacked'
  <2> SUFFICES ASSUME NEW u \in Threads, pc'[u] = "release"
               PROVE  port'[tgt'[u]] > 0 \/ InHand(tgt[u])' \/ lost'[tgt'[u]]
    BY DEF ReleaseBacked, QuietFor
  <2>1. pc[u] = "release" /\ tgt[u] \in Actors
    BY <1>3 DEF Apart, ScopedLocated, LocatedAt, ScheduleSteps
  <2>2. InHand(tgt[u]) => InHand(tgt[u])'
    BY <1>4, <2>1 DEF InHand, QuietFor
  <2> QED
    BY <1>1, <2>1, <2>2 DEF ReleaseBacked, QuietFor
<1>6. \A a \in Actors : Attended(a) => Attended(a)'
  BY <1>3, <1>4 DEF Attended, InHand, QuietFor
<1>7. ActorsAttended'
  BY <1>1, <1>6 DEF ActorsAttended, QuietFor
<1> QED
  BY <1>2, <1>5, <1>7 DEF Minded

LEMMA ScopeStepsMind ==
  ASSUME Apart, Minded, NEW t \in Threads
  PROVE  /\ \A s \in Scopes : ScopedPost(t, s) \/ TakeScopedCompletion(t, s) => Minded'
         /\ ScopedStep(t) => Minded'
<1> USE ConstantsAssumption, ScopedAssumption DEF At
<1>1. ScopedTypes /\ LocatedAt(t) /\ WorkTypes /\ ScopesAttended /\ GoalsEnd
  BY DEF Apart, ScopedLocated, Minded
<1>2. ASSUME QuietFor(t), UNCHANGED <<jobs, sport, slost, scope, goal>>,
             at[t] \in {"register", "own", "post"} <=> at'[t] \in {"register", "own", "post"},
             \A u \in Threads \ {t} : at'[u] = at[u]
      PROVE  Minded'
  <2>1. ScopesAttended' /\ GoalsEnd'
    BY <1>1, <1>2 DEF ScopesAttended, ScopeAttended, GoalsEnd
  <2> QED
    BY <1>1, <1>2, <2>1, ScopeMinds DEF WorkTypes
<1>3. ASSUME NEW s \in Scopes, ScopedPost(t, s) PROVE Minded'
  <2>1. QuietFor(t)
    BY <1>1, <1>3 DEF ScopedPost, Discard, ScopedReturn, QuietFor, LocatedAt,
       vars, shared, local
  <2>2. /\ UNCHANGED <<sport, slost, scope>>
        /\ jobs' = [jobs EXCEPT ![s] = @ + 1]
        /\ at[t] \in {"no", "run"} /\ at' = [at EXCEPT ![t] = "register"]
        /\ goal' = [goal EXCEPT ![t] = s] /\ s \in Scopes
    BY <1>1, <1>3 DEF ScopedPost, Discard, ScopedReturn, ScopedTypes,
       LocatedAt, vars, shared, local
  <2>3. GoalsEnd'
    BY <1>1, <2>2 DEF GoalsEnd, ScopedTypes
  <2>4. ScopesAttended'
    <3> SUFFICES ASSUME NEW r \in Scopes, jobs'[r] > 0 PROVE ScopeAttended(r)' \/ slost'[r]
      BY DEF ScopesAttended
    <3>1. goal'[t] = s /\ goal[t] = None
      BY <1>1, <2>2 DEF GoalsEnd, ScopedTypes
    <3>2. \A u \in Threads : goal[u] = r => goal'[u] = r
      BY <1>1, <2>2, <3>1 DEF ScopedTypes
    <3>3. CASE r = s
      BY <3>1, <3>3 DEF ScopeAttended
    <3>4. CASE r # s
      <4>1. ScopeAttended(r) \/ slost[r]
        BY <1>1, <2>2, <3>4 DEF ScopesAttended, WorkTypes
      <4> QED
        BY <2>2, <3>2, <4>1 DEF ScopeAttended
    <3> QED
      BY <3>3, <3>4
  <2>5. jobs' \in [Scopes -> Int] /\ sport' \in [Scopes -> Nat] /\ slost' \in [Scopes -> BOOLEAN]
    BY <1>1, <2>2 DEF WorkTypes
  <2> QED
    BY <2>1, <2>3, <2>4, <2>5, ScopeMinds
<1>4. ASSUME NEW s \in Scopes, TakeScopedCompletion(t, s) PROVE Minded'
  <2>1. QuietFor(t)
    BY <1>1, <1>4 DEF TakeScopedCompletion, Discard, ScopedReturn, QuietFor,
       LocatedAt, vars, shared, local
  <2>2. /\ UNCHANGED <<jobs, slost, goal>>
        /\ at[t] = "no" /\ at' = [at EXCEPT ![t] = "owner"]
        /\ sport[s] > 0 /\ sport' = [sport EXCEPT ![s] = @ - 1]
        /\ scope' = [scope EXCEPT ![t] = s] /\ s \in Scopes
    BY <1>1, <1>4 DEF TakeScopedCompletion, Discard, ScopedReturn,
       ScopedTypes, LocatedAt, vars, shared, local
  <2>3. GoalsEnd'
    BY <1>1, <2>2 DEF GoalsEnd, ScopedTypes
  <2>4. ScopesAttended'
    BY <1>1, <2>2, SMTT(30) DEF ScopesAttended, ScopeAttended, ScopedTypes,
       WorkTypes, LocatedAt, GoalsEnd
  <2>5. jobs' \in [Scopes -> Int] /\ sport' \in [Scopes -> Nat] /\ slost' \in [Scopes -> BOOLEAN]
    BY <1>1, <2>2 DEF WorkTypes
  <2> QED
    BY <2>1, <2>3, <2>4, <2>5, ScopeMinds
<1>5. ASSUME ScopedRegister(t) PROVE Minded'
  <2>1. PICK s \in Scopes : s = goal[t]
    BY <1>1, <1>5 DEF ScopedRegister, LocatedAt
  <2>2. QuietFor(t) /\ UNCHANGED <<jobs, sport, slost, scope>>
    BY <1>5 DEF ScopedRegister, QuietFor, vars, shared, local
  <2>3. CASE jobs[s] > 0
    <3>1. at[t] = "register" /\ at' = [at EXCEPT ![t] = "own"] /\ goal' = goal
      BY <1>5, <2>1, <2>3 DEF ScopedRegister
    <3> QED
      BY <1>1, <1>2, <2>2, <3>1 DEF ScopedTypes
  <2>4. CASE ~(jobs[s] > 0)
    <3>1. /\ at[t] = "register" /\ at' = [at EXCEPT ![t] = back[t]]
          /\ goal' = [goal EXCEPT ![t] = None]
      BY <1>5, <2>1, <2>4 DEF ScopedRegister, ScopedReturn
    <3>2. GoalsEnd'
      BY <1>1, <3>1 DEF GoalsEnd, ScopedTypes
    <3>3. ScopesAttended'
      BY <1>1, <2>1, <2>2, <2>4, <3>1 DEF ScopesAttended, ScopeAttended,
         ScopedTypes
    <3> QED
      BY <1>1, <2>2, <3>2, <3>3, ScopeMinds DEF WorkTypes
  <2> QED
    BY <2>3, <2>4
<1>6. ASSUME ScopedSetOwner(t) PROVE Minded'
  <2>1. QuietFor(t) /\ UNCHANGED <<jobs, sport, slost, scope, goal>>
    BY <1>1, <1>6 DEF ScopedSetOwner, QuietFor, LocatedAt, vars, shared, local
  <2>2. /\ at[t] \in {"register", "own", "post"} <=> at'[t] \in {"register", "own", "post"}
        /\ \A u \in Threads \ {t} : at'[u] = at[u]
    BY <1>1, <1>6 DEF ScopedSetOwner, ScopedTypes
  <2> QED
    BY <1>2, <2>1, <2>2
<1>7. ASSUME ScopedPostCompletion(t) PROVE Minded'
  <2>0. PICK s \in Scopes : s = goal[t]
    BY <1>1, <1>7 DEF ScopedPostCompletion, Discard, ScopedReturn,
       ScopedTypes, LocatedAt
  <2>1. QuietFor(t)
    BY <1>1, <1>7 DEF ScopedPostCompletion, Discard, ScopedReturn, QuietFor,
       LocatedAt, vars, shared, local
  <2>2. /\ UNCHANGED <<jobs, scope>>
        /\ at[t] = "post" /\ at' = [at EXCEPT ![t] = back[t]]
        /\ goal[t] = s /\ goal' = [goal EXCEPT ![t] = None] /\ s \in Scopes
        /\ sport' = [sport EXCEPT ![s] = @ + 1] /\ slost' = [slost EXCEPT ![s] = FALSE]
    BY <1>1, <1>7, <2>0 DEF ScopedPostCompletion, Discard, ScopedReturn,
       ScopedTypes, LocatedAt, vars, shared, local
  <2>3. GoalsEnd'
    BY <1>1, <2>2 DEF GoalsEnd, ScopedTypes
  <2>4. ScopesAttended'
    BY <1>1, <2>2, SMTT(30) DEF ScopesAttended, ScopeAttended, ScopedTypes,
       WorkTypes, LocatedAt, GoalsEnd
  <2>5. jobs' \in [Scopes -> Int] /\ sport' \in [Scopes -> Nat] /\ slost' \in [Scopes -> BOOLEAN]
    BY <1>1, <2>2 DEF WorkTypes
  <2> QED
    BY <2>1, <2>3, <2>4, <2>5, ScopeMinds
<1>8. ASSUME ScopedPostFails(t) PROVE Minded'
  <2>0. PICK s \in Scopes : s = goal[t]
    BY <1>1, <1>8 DEF ScopedPostFails, Discard, ScopedReturn, ScopedTypes,
       LocatedAt
  <2>1. QuietFor(t)
    BY <1>1, <1>8 DEF ScopedPostFails, Discard, ScopedReturn, QuietFor,
       LocatedAt, vars, shared, local
  <2>2. /\ UNCHANGED <<jobs, scope, sport>>
        /\ at[t] = "post" /\ at' = [at EXCEPT ![t] = back[t]]
        /\ goal[t] = s /\ goal' = [goal EXCEPT ![t] = None] /\ s \in Scopes
        /\ slost' = [slost EXCEPT ![s] = TRUE]
    BY <1>1, <1>8, <2>0 DEF ScopedPostFails, Discard, ScopedReturn,
       ScopedTypes, LocatedAt, vars, shared, local
  <2>3. GoalsEnd'
    BY <1>1, <2>2 DEF GoalsEnd, ScopedTypes
  <2>4. ScopesAttended'
    BY <1>1, <2>2, SMTT(30) DEF ScopesAttended, ScopeAttended, ScopedTypes,
       WorkTypes, LocatedAt, GoalsEnd
  <2>5. jobs' \in [Scopes -> Int] /\ sport' \in [Scopes -> Nat] /\ slost' \in [Scopes -> BOOLEAN]
    BY <1>1, <2>2 DEF WorkTypes
  <2> QED
    BY <2>1, <2>3, <2>4, <2>5, ScopeMinds
<1>9. ASSUME NEW from \in {"owner", "undo"}, Discard(t, from),
             UNCHANGED <<tgt, ret, self, count, port, lost, starved, jobs, sport, goal>>
      PROVE  Minded'
  <2>1. PICK s \in Scopes : s = scope[t]
    BY <1>1, <1>9 DEF Discard, ScopedTypes, LocatedAt
  <2>2. QuietFor(t)
    BY <1>1, <1>9 DEF Discard, QuietFor, LocatedAt
  <2>3. /\ UNCHANGED <<jobs, sport, goal>>
        /\ at[t] \in {"owner", "undo"} /\ at' = [at EXCEPT ![t] = "no"]
        /\ scope[t] = s /\ scope' = [scope EXCEPT ![t] = None] /\ s \in Scopes
        /\ slost' = [slost EXCEPT ![s] = TRUE]
    BY <1>1, <1>9, <2>1 DEF Discard
  <2>4. GoalsEnd'
    BY <1>1, <2>3 DEF GoalsEnd, ScopedTypes
  <2>5. ScopesAttended'
    BY <1>1, <2>3, SMTT(30) DEF ScopesAttended, ScopeAttended, ScopedTypes,
       WorkTypes
  <2> QED
    BY <1>1, <2>2, <2>3, <2>4, <2>5, ScopeMinds DEF WorkTypes
<1>10. ASSUME ScopedGetOwner(t) PROVE Minded'
  <2>1. UNCHANGED <<tgt, ret, self, count, port, lost, starved, jobs, sport, goal>>
    BY <1>10 DEF ScopedGetOwner, shared
  <2>2. CASE sowned[scope[t]]
    <3>1. /\ UNCHANGED <<pc, slost, scope>>
          /\ at[t] = "owner" /\ at' = [at EXCEPT ![t] = "try"]
      BY <1>10, <2>2 DEF ScopedGetOwner
    <3>2. QuietFor(t)
      BY <2>1, <3>1 DEF QuietFor
    <3> QED
      BY <1>1, <1>2, <2>1, <3>1, <3>2 DEF ScopedTypes
  <2>3. CASE ~sowned[scope[t]]
    BY <1>10, <1>9, <2>1, <2>3 DEF ScopedGetOwner
  <2> QED
    BY <2>2, <2>3
<1>11. ASSUME TryMember(t) PROVE Minded'
  <2>1. QuietFor(t) /\ UNCHANGED <<jobs, sport, slost, scope, goal>>
    BY <1>1, <1>11 DEF TryMember, QuietFor, LocatedAt, vars, shared, local
  <2>2. /\ at[t] \in {"register", "own", "post"} <=> at'[t] \in {"register", "own", "post"}
        /\ \A u \in Threads \ {t} : at'[u] = at[u]
    BY <1>1, <1>11 DEF TryMember, ScopedTypes
  <2> QED
    BY <1>2, <2>1, <2>2
<1>12. ASSUME ReleaseMember(t) PROVE Minded'
  <2>1. QuietFor(t) /\ UNCHANGED <<jobs, sport, slost, scope, goal>>
    BY <1>1, <1>12 DEF ReleaseMember, QuietFor, LocatedAt, vars, shared, local
  <2>2. /\ at[t] \in {"register", "own", "post"} <=> at'[t] \in {"register", "own", "post"}
        /\ \A u \in Threads \ {t} : at'[u] = at[u]
    BY <1>1, <1>12 DEF ReleaseMember, ScopedTypes
  <2> QED
    BY <1>2, <2>1, <2>2
<1>13. ASSUME ReleaseEnds(t) PROVE Minded'
  <2>1. UNCHANGED <<tgt, ret, self, count, port, lost, starved, jobs, sport>>
    BY <1>13 DEF ReleaseEnds, shared
  <2>2. CASE Discard(t, "undo") /\ UNCHANGED goal
    BY <1>9, <2>1, <2>2
  <2>3. CASE ~(Discard(t, "undo") /\ UNCHANGED goal)
    <3>1. PICK s \in Scopes : s = scope[t]
      BY <1>1, <1>13 DEF ReleaseEnds, ScopedTypes, LocatedAt
    <3>2. /\ at[t] = "unlock" /\ at' = [at EXCEPT ![t] = "register"]
          /\ pc' = [pc EXCEPT ![t] = "tick"]
          /\ scope[t] = s /\ scope' = [scope EXCEPT ![t] = None] /\ s \in Scopes
          /\ goal' = [goal EXCEPT ![t] = s] /\ slost' = slost
      BY <1>1, <1>13, <2>3, <3>1 DEF ReleaseEnds
    <3>3. QuietFor(t)
      BY <1>1, <2>1, <3>2 DEF QuietFor, LocatedAt
    <3>4. GoalsEnd'
      BY <1>1, <3>2 DEF GoalsEnd, ScopedTypes
    <3>5. ScopesAttended'
      <4> SUFFICES ASSUME NEW r \in Scopes, jobs'[r] > 0 PROVE ScopeAttended(r)' \/ slost'[r]
        BY DEF ScopesAttended
      <4>1. goal'[t] = s /\ goal[t] = None
        BY <1>1, <3>2 DEF GoalsEnd, ScopedTypes
      <4>2. \A u \in Threads : goal[u] = r => goal'[u] = r
        BY <1>1, <3>2, <4>1 DEF ScopedTypes
      <4>3. \A u \in Threads : scope[u] = r => scope'[u] = r \/ r = s
        BY <1>1, <3>2 DEF ScopedTypes
      <4>4. ScopeAttended(r) \/ slost[r]
        BY <1>1, <2>1 DEF ScopesAttended
      <4> QED
        BY <2>1, <3>2, <4>1, <4>2, <4>3, <4>4 DEF ScopeAttended
    <3> QED
      BY <1>1, <2>1, <3>2, <3>3, <3>4, <3>5, ScopeMinds DEF WorkTypes
  <2> QED
    BY <2>2, <2>3
<1>14. ASSUME ScopedBatch(t) PROVE Minded'
  <2>1. QuietFor(t) /\ UNCHANGED <<jobs, sport, slost, scope, goal>>
    BY <1>1, <1>14 DEF ScopedBatch, QuietFor, LocatedAt, vars, shared, local
  <2>2. /\ at[t] \in {"register", "own", "post"} <=> at'[t] \in {"register", "own", "post"}
        /\ \A u \in Threads \ {t} : at'[u] = at[u]
    BY <1>1, <1>14 DEF ScopedBatch, ScopedTypes
  <2> QED
    BY <1>2, <2>1, <2>2
<1>15. ASSUME ScopedExecute(t) PROVE Minded'
  <2>0. PICK s \in Scopes : s = scope[t]
    BY <1>1, <1>15 DEF ScopedExecute, Discard, ScopedReturn, ScopedTypes,
       LocatedAt
  <2>1. QuietFor(t)
    BY <1>1, <1>15 DEF ScopedExecute, Discard, ScopedReturn, QuietFor,
       LocatedAt, vars, shared, local
  <2>2. /\ UNCHANGED <<sport, slost, scope, goal>>
        /\ scope[t] = s /\ s \in Scopes
        /\ at[t] = "exec" /\ at' = [at EXCEPT ![t] = "run"]
        /\ jobs' = [jobs EXCEPT ![s] = @ - 1]
    BY <1>1, <1>15, <2>0 DEF ScopedExecute, Discard, ScopedReturn,
       ScopedTypes, LocatedAt, vars, shared, local
  <2>3. GoalsEnd'
    BY <1>1, <2>2 DEF GoalsEnd, ScopedTypes
  <2>4. ScopesAttended'
    BY <1>1, <2>2, SMTT(30) DEF ScopesAttended, ScopeAttended, ScopedTypes,
       WorkTypes, LocatedAt, GoalsEnd
  <2>5. jobs' \in [Scopes -> Int] /\ sport' \in [Scopes -> Nat] /\ slost' \in [Scopes -> BOOLEAN]
    BY <1>1, <2>2 DEF WorkTypes
  <2> QED
    BY <2>1, <2>3, <2>4, <2>5, ScopeMinds
<1>16. ASSUME ScopedFinish(t) PROVE Minded'
  <2>1. QuietFor(t) /\ UNCHANGED <<jobs, sport, slost, scope, goal>>
    BY <1>1, <1>16 DEF ScopedFinish, QuietFor, LocatedAt, vars, shared, local
  <2>2. /\ at[t] \in {"register", "own", "post"} <=> at'[t] \in {"register", "own", "post"}
        /\ \A u \in Threads \ {t} : at'[u] = at[u]
    BY <1>1, <1>16 DEF ScopedFinish, ScopedTypes
  <2> QED
    BY <1>2, <2>1, <2>2
<1>17. ASSUME ScopedEndBatch(t) PROVE Minded'
  <2>1. QuietFor(t) /\ UNCHANGED <<jobs, sport, slost, scope, goal>>
    BY <1>1, <1>17 DEF ScopedEndBatch, QuietFor, LocatedAt, vars, shared, local
  <2>2. /\ at[t] \in {"register", "own", "post"} <=> at'[t] \in {"register", "own", "post"}
        /\ \A u \in Threads \ {t} : at'[u] = at[u]
    BY <1>1, <1>17 DEF ScopedEndBatch, ScopedTypes
  <2> QED
    BY <1>2, <2>1, <2>2
<1>18. ASSUME ScopedClearOverlapped(t) PROVE Minded'
  <2>1. QuietFor(t) /\ UNCHANGED <<jobs, sport, slost, scope, goal>>
    BY <1>1, <1>18 DEF ScopedClearOverlapped, QuietFor, LocatedAt, vars,
       shared, local
  <2>2. /\ at[t] \in {"register", "own", "post"} <=> at'[t] \in {"register", "own", "post"}
        /\ \A u \in Threads \ {t} : at'[u] = at[u]
    BY <1>1, <1>18 DEF ScopedClearOverlapped, ScopedTypes
  <2> QED
    BY <1>2, <2>1, <2>2
<1> QED
  BY <1>3, <1>4, <1>5, <1>6, <1>7, <1>8, <1>10, <1>11, <1>12, <1>13, <1>14,
     <1>15, <1>16, <1>17, <1>18 DEF ScopedStep

LEMMA StepMinds ==
  ScopedInv /\ (~overlapped => Minded) /\ [ScopedNext]_allvars => (~overlapped => Minded)'
<1> SUFFICES ASSUME ScopedInv, ~overlapped => Minded, [ScopedNext]_allvars, ~overlapped'
             PROVE  Minded'
  OBVIOUS
<1>1. CASE UNCHANGED allvars
  <2>1. UNCHANGED <<vars, svars>> /\ Minded
    BY <1>1 DEF allvars, svars
  <2> QED
    BY <2>1 DEF vars, svars, shared, local, Minded, WorkTypes, ReleaseBacked,
       GoalsEnd,
       ActorsAttended, ScopesAttended, Attended, ScopeAttended, InHand, DispatchHolds
<1>2. CASE overlapped /\ UNCHANGED allvars
  BY <1>1, <1>2
<1>3. ASSUME NEW t \in Threads, ~overlapped, ActorStep(t) PROVE Minded'
  <2>1. Apart /\ Minded
    BY <1>3 DEF ScopedInv
  <2>2. MindsActors
    BY <1>3, <2>1, ActorMinds
  <2>3. starved' \in [Actors -> BOOLEAN]
    BY <1>3 DEF ActorStep
  <2>4. UNCHANGED <<jobs, sport, at, scope, goal, slost>>
    BY <1>3 DEF ActorStep
  <2>5. ScopesAttended' /\ GoalsEnd'
    BY <2>1, <2>4 DEF Minded, ScopesAttended, ScopeAttended, GoalsEnd
  <2>6. WorkTypes'
    BY <2>1, <2>2, <2>3, <2>4 DEF Minded, MindsActors, WorkTypes
  <2> QED
    BY <2>2, <2>5, <2>6 DEF Minded, MindsActors
<1>4. ASSUME NEW t \in Threads, ~overlapped,
             ScopedStep(t) \/ \E s \in Scopes : ScopedPost(t, s) \/ TakeScopedCompletion(t, s)
      PROVE  Minded'
  BY <1>4, ScopeStepsMind DEF ScopedInv
<1> QED
  BY <1>1, <1>2, <1>3, <1>4 DEF ScopedNext

LEMMA InitMinds == ScopedInit => Minded
<1> SUFFICES ASSUME ScopedInit PROVE Minded
  OBVIOUS
<1> USE ConstantsAssumption DEF ScopedInit, Init
<1>1. WorkTypes /\ GoalsEnd
  BY DEF WorkTypes, GoalsEnd
<1>2. ReleaseBacked
  BY DEF ReleaseBacked
<1>3. ActorsAttended /\ ScopesAttended
  BY DEF ActorsAttended, ScopesAttended
<1> QED
  BY <1>1, <1>2, <1>3 DEF Minded

(* A job of a plain actor or of a scope waits with nobody attending to it  *)
(* only when a completion was discarded or not queued, or when a Schedule  *)
(* of a member lost the flag to a scope.                                   *)
THEOREM StrandedForAReason == ScopedSpec => []StrandedOnlyIfLostOrHeld
<1>1. ScopedInv /\ (~overlapped => Minded) => StrandedOnlyIfLostOrHeld
  BY DEF Minded, ActorsAttended, ScopesAttended, StrandedOnlyIfLostOrHeld
<1> QED
  BY <1>1, InitApart, ScopedApart, InitMinds, StepMinds, PTL DEF ScopedSpec
-----------------------------------------------------------------------------
(* The timing wheel.                                                       *)

(* The first of the n ticks that share their upper digits with e.          *)
Block(n, e) == n * (e \div n)

(* Where a timer that expires at e may be when tick is the next to be      *)
(* processed: on the first level it is due in this turn of the level; on   *)
(* the others its bucket was not cascaded yet.                             *)
InTime(l, e) ==
  /\ l = 0 => tick <= e /\ e < tick + Size0
  /\ l = 1 => tick <= Block(Size0, e) /\ 0 < Block(Size0, e)
  /\ l = 2 => tick <= Block(Size0 * Size1, e) /\ 0 < Block(Size0 * Size1, e)

(* The same after the cascades of tick.                                    *)
AfterCascades(l, e) ==
  /\ l = 0 => tick <= e /\ e < tick + Size0
  /\ l = 1 => tick < Block(Size0, e)
  /\ l = 2 => tick < Block(Size0 * Size1, e)

Placed ==
  \A l \in 0..2 : \A b \in 0..(Size(l) - 1) : \A t \in wheel[l][b] :
    expire[t] \in Nat /\ b = Depth(l, expire[t]) /\ InTime(l, expire[t])

(* A timer in the wheel was not handed out, and one that was, was added.   *)
HandedOnce ==
  /\ \A k \in Tickers : \A t \in ToSet(list[k]) : expire[t] \in Nat /\ t \notin InWheel
  /\ \A t \in ran : expire[t] \in Nat /\ t \notin InWheel
  /\ \A k \in Tickers : stage[k] \in {"execute", "call"} => list[k] # << >>

LEMMA Products == \A n, q \in Nat : n * q \in Nat
  BY SMT

LEMMA Division ==
  ASSUME NEW n \in Nat \ {0}, NEW e \in Nat
  PROVE  /\ e \div n \in Nat /\ e % n \in 0..(n - 1)
         /\ e = Block(n, e) + (e % n) /\ Block(n, e) \in Nat
<1>1. e \div n \in Nat
  BY SMT
<1>2. e % n \in 0..(n - 1)
  BY SMT
<1>3. e = n * (e \div n) + (e % n)
  BY SMT
<1>4. n * (e \div n) \in Nat
  BY <1>1, Products
<1> QED
  BY <1>1, <1>2, <1>3, <1>4 DEF Block

LEMMA Quotient ==
  ASSUME NEW n \in Nat \ {0}, NEW q \in Nat
  PROVE  (n * q) \div n = q /\ (n * q) % n = 0
  BY SMT

LEMMA SameDigit ==
  ASSUME NEW n \in Nat \ {0}, NEW a \in Nat, NEW e \in Nat,
         a <= e, e < a + n, e % n = a % n
  PROVE  e = a
  BY SMT

LEMMA BlockStarts ==
  ASSUME NEW n \in Nat \ {0}, NEW a \in Nat, NEW e \in Nat, Block(n, e) = a
  PROVE  a % n = 0 /\ a \div n = e \div n
  BY Division, Quotient DEF Block

LEMMA TwoLevels ==
  ASSUME NEW n \in Nat \ {0}, NEW m \in Nat \ {0}, NEW a \in Nat, a % (n * m) = 0
  PROVE  a % n = 0 /\ (a \div n) % m = 0
<1>1. n * m \in Nat \ {0}
  BY SMT
<1>2. ASSUME NEW k \in Nat \ {0}, a % k = 0 PROVE \E q \in Nat : a = k * q
  <2>1. a \div k \in Nat /\ a = Block(k, a) + (a % k) /\ Block(k, a) \in Nat
    BY Division
  <2>2. a = k * (a \div k)
    BY <1>2, <2>1 DEF Block
  <2> QED
    BY <2>1, <2>2
<1>5. PICK q \in Nat : a = (n * m) * q
  BY <1>1, <1>2
<1>3. m * q \in Nat /\ a = n * (m * q)
  BY <1>5, SMT
<1> QED
  BY <1>3, Quotient

LEMMA BlockIsLater ==
  ASSUME NEW n \in Nat \ {0}, NEW a \in Nat, NEW e \in Nat, n <= e - a
  PROVE  a < Block(n, e)
<1>1. PICK r \in 0..(n - 1), b \in Nat : e = b + r /\ b = Block(n, e)
  BY Division
<1> QED
  BY <1>1

(* The level and the bucket addNode chooses for any tick not yet processed *)
(* are in time, before the cascades of this tick and after them.           *)
LEMMA AddedInTime ==
  ASSUME NEW e \in Nat, tick \in Nat, tick <= e
  PROVE  LET l == Level(e - tick) IN
         /\ l \in 0..2 /\ Depth(l, e) \in 0..(Size(l) - 1)
         /\ InTime(l, e) /\ AfterCascades(l, e)
<1>1. /\ Size0 \in Nat \ {0} /\ Size1 \in Nat \ {0} /\ Size2 \in Nat \ {0}
      /\ Size0 * Size1 \in Nat \ {0}
  BY WheelAssumption, Products
<1>2. CASE e - tick < Size0
  <2>1. Level(e - tick) = 0
    BY <1>2 DEF Level
  <2>2. e % Size0 \in 0..(Size0 - 1)
    BY <1>1, Division
  <2> QED
    BY <1>1, <1>2, <2>1, <2>2 DEF Depth, Size, InTime, AfterCascades
<1>3. CASE Size0 <= e - tick /\ e - tick < Size0 * Size1
  <2>1. Level(e - tick) = 1
    BY <1>1, <1>3 DEF Level
  <2>2. e \div Size0 \in Nat /\ Block(Size0, e) \in Nat
    BY <1>1, Division
  <2>3. (e \div Size0) % Size1 \in 0..(Size1 - 1)
    BY <1>1, <2>2, Division
  <2>4. tick < Block(Size0, e)
    BY <1>1, <1>3, BlockIsLater
  <2> QED
    BY <1>1, <2>1, <2>2, <2>3, <2>4 DEF Depth, Size, InTime, AfterCascades
<1>4. CASE Size0 <= e - tick /\ Size0 * Size1 <= e - tick
  <2> DEFINE n == Size0 * Size1
  <2>1. Level(e - tick) = 2
    BY <1>1, <1>4 DEF Level
  <2>2. n \in Nat \ {0} /\ n <= e - tick
    BY <1>1, <1>4
  <2>3. e \div n \in Nat /\ Block(n, e) \in Nat /\ tick < Block(n, e)
    <3> HIDE DEF n
    <3> QED
      BY <2>2, Division, BlockIsLater
  <2>4. (e \div n) % Size2 \in 0..(Size2 - 1)
    BY <1>1, <2>3, Division
  <2> QED
    BY <1>1, <2>1, <2>2, <2>3, <2>4 DEF Depth, Size, InTime, AfterCascades
<1> QED
  BY <1>1, <1>2, <1>3, <1>4

LEMMA FirstBucketIsDue ==
  ASSUME NEW e \in Nat, tick \in Nat, AfterCascades(0, e)
  PROVE  Depth(0, e) = Depth(0, tick) <=> e = tick
  BY SameDigit, WheelAssumption DEF Depth, AfterCascades

(* A level is cascaded just when a block of it begins, and then the bucket *)
(* of that block.                                                          *)
LEMMA FirstCascade ==
  ASSUME NEW e \in Nat, tick \in Nat, Block(Size0, e) = tick
  PROVE  Depth(0, tick) = 0 /\ Depth(1, e) = Depth(1, tick)
  BY BlockStarts, WheelAssumption DEF Depth

LEMMA SecondCascade ==
  ASSUME NEW e \in Nat, tick \in Nat, Block(Size0 * Size1, e) = tick
  PROVE  Depth(0, tick) = 0 /\ Depth(1, tick) = 0 /\ Depth(2, e) = Depth(2, tick)
<1>1. /\ Size0 \in Nat \ {0} /\ Size1 \in Nat \ {0}
      /\ Size0 * Size1 \in Nat \ {0}
  BY WheelAssumption, Products
<1>2. tick % (Size0 * Size1) = 0 /\ tick \div (Size0 * Size1) = e \div (Size0 * Size1)
  BY <1>1, BlockStarts
<1>3. tick % Size0 = 0 /\ (tick \div Size0) % Size1 = 0
  BY <1>1, <1>2, TwoLevels
<1> QED
  BY <1>2, <1>3 DEF Depth
-----------------------------------------------------------------------------
IsBucketArray(w) == /\ w = [l \in 0..2 |-> w[l]]
              /\ \A l \in 0..2 : w[l] \in [0..(Size(l) - 1) -> SUBSET Timers]

TimersOf(w) == {t \in Timers : \E l \in 0..2 : \E b \in 0..(Size(l) - 1) : t \in w[l][b]}

(* No timer of w was passed, and each is where its digits say.             *)
InBuckets(w) ==
  \A l \in 0..2 : \A b \in 0..(Size(l) - 1) : \A t \in w[l][b] :
    expire[t] \in Nat /\ tick <= expire[t] /\ b = Depth(l, expire[t])

LEMMA DigitsAreBuckets ==
  ASSUME tick \in Nat, NEW l \in 0..2
  PROVE  Depth(l, tick) \in 0..(Size(l) - 1)
<1>1. /\ Size0 \in Nat \ {0} /\ Size1 \in Nat \ {0} /\ Size2 \in Nat \ {0}
      /\ Size0 * Size1 \in Nat \ {0}
  BY WheelAssumption, Products
<1>2. PICK a \in Nat : a = tick
  OBVIOUS
<1>3. a \div Size0 \in Nat /\ a \div (Size0 * Size1) \in Nat
  BY <1>1, Division
<1>4. /\ a % Size0 \in 0..(Size0 - 1)
      /\ (a \div Size0) % Size1 \in 0..(Size1 - 1)
      /\ (a \div (Size0 * Size1)) % Size2 \in 0..(Size2 - 1)
  BY <1>1, <1>3, Division
<1> QED
  BY <1>2, <1>4 DEF Depth, Size

(* cascade loses no timer, and those it moves are in time for the ticks to *)
(* come.                                                                   *)
LEMMA CascadeMoves ==
  ASSUME NEW w, IsBucketArray(w), NEW l \in {1, 2}, tick \in Nat, InBuckets(w)
  PROVE  /\ IsBucketArray(Cascade(w, l)) /\ InBuckets(Cascade(w, l))
         /\ TimersOf(Cascade(w, l)) = TimersOf(w)
         /\ \A m \in 0..2 : \A b \in 0..(Size(m) - 1) : \A t \in Cascade(w, l)[m][b] :
              \/ t \in w[m][b] /\ ~(m = l /\ b = Depth(l, tick))
              \/ AfterCascades(m, expire[t])
<1> DEFINE d     == Depth(l, tick)
           c     == Cascade(w, l)
           moved == w[l][d]
<1>0. \A m \in 0..2 : \A b \in 0..(Size(m) - 1) : w[m][b] \subseteq Timers
  BY DEF IsBucketArray
<1>1. d \in 0..(Size(l) - 1) /\ l \in 0..2 /\ moved \subseteq Timers
  <2>1. d \in 0..(Size(l) - 1) /\ l \in 0..2
    BY DigitsAreBuckets
  <2> QED
    BY <1>0, <2>1
<1>2. /\ c = [m \in 0..2 |-> c[m]]
      /\ \A m \in 0..2 : c[m] = [b \in 0..(Size(m) - 1) |-> c[m][b]]
      /\ \A m \in 0..2 : \A b \in 0..(Size(m) - 1) : \A t :
           t \in c[m][b] <=> \/ t \in w[m][b] /\ ~(m = l /\ b = d)
                             \/ /\ t \in moved
                                /\ Level(expire[t] - tick) = m
                                /\ Depth(m, expire[t]) = b
  BY DEF Cascade
<1>3. IsBucketArray(c)
  <2>1. \A m \in 0..2 : \A b \in 0..(Size(m) - 1) : c[m][b] \subseteq Timers
    BY <1>0, <1>1, <1>2
  <2> HIDE DEF c, d, moved
  <2> QED
    BY <1>2, <2>1 DEF IsBucketArray
<1>4. ASSUME NEW t \in moved
      PROVE  /\ expire[t] \in Nat /\ tick <= expire[t]
             /\ Level(expire[t] - tick) \in 0..2
             /\ Depth(Level(expire[t] - tick), expire[t])
                  \in 0..(Size(Level(expire[t] - tick)) - 1)
             /\ AfterCascades(Level(expire[t] - tick), expire[t])
  <2>1. PICK e \in Nat : e = expire[t] /\ tick <= e
    BY <1>1 DEF InBuckets
  <2> QED
    BY <2>1, AddedInTime
<1> HIDE DEF c, d, moved
<1>5. InBuckets(c)
  BY <1>2, <1>4 DEF InBuckets
<1>6. TimersOf(c) = TimersOf(w)
  <2>1. ASSUME NEW t \in Timers, NEW m \in 0..2, NEW b \in 0..(Size(m) - 1),
               t \in w[m][b]
        PROVE  \E k \in 0..2 : \E a \in 0..(Size(k) - 1) : t \in c[k][a]
    <3>1. CASE m = l /\ b = d
      BY <1>2, <1>4, <2>1, <3>1 DEF moved
    <3>2. CASE ~(m = l /\ b = d)
      BY <1>2, <2>1, <3>2
    <3> QED
      BY <3>1, <3>2
  <2>2. ASSUME NEW t \in Timers, NEW m \in 0..2, NEW b \in 0..(Size(m) - 1),
               t \in c[m][b]
        PROVE  \E k \in 0..2 : \E a \in 0..(Size(k) - 1) : t \in w[k][a]
    BY <1>1, <1>2, <2>2 DEF moved
  <2> QED
    BY <2>1, <2>2 DEF TimersOf
<1>7. \A m \in 0..2 : \A b \in 0..(Size(m) - 1) : \A t \in c[m][b] :
        \/ t \in w[m][b] /\ ~(m = l /\ b = d)
        \/ AfterCascades(m, expire[t])
  BY <1>2, <1>4
<1> QED
  BY <1>3, <1>5, <1>6, <1>7 DEF c, d

(* The cascades of processTick, whichever are due.                         *)
LEMMA CascadesKeepTime ==
  ASSUME IsBucketArray(wheel), Placed, tick \in Nat
  PROVE  /\ IsBucketArray(Cascaded) /\ InBuckets(Cascaded) /\ TimersOf(Cascaded) = InWheel
         /\ \A m \in 0..2 : \A b \in 0..(Size(m) - 1) : \A t \in Cascaded[m][b] :
              AfterCascades(m, expire[t])
<1>1. PICK w : w = wheel
  OBVIOUS
<1>2. TimersOf(w) = InWheel
  BY <1>1 DEF TimersOf, InWheel
<1>3. /\ Size0 \in Nat \ {0} /\ Size0 * Size1 \in Nat \ {0}
  BY WheelAssumption, Products
<1>4. ASSUME NEW n \in Nat \ {0}, NEW e \in Nat, tick <= Block(n, e) PROVE tick <= e
  <2>1. PICK r \in 0..(n - 1), b \in Nat : e = b + r /\ b = Block(n, e)
    BY Division
  <2> QED
    BY <1>4, <2>1
<1>5. ASSUME NEW m \in 0..2, NEW b \in 0..(Size(m) - 1), NEW t \in w[m][b]
      PROVE  /\ expire[t] \in Nat /\ tick <= expire[t] /\ b = Depth(m, expire[t])
             /\ InTime(m, expire[t])
  <2>1. PICK e \in Nat : e = expire[t] /\ b = Depth(m, e) /\ InTime(m, e)
    BY <1>1 DEF Placed
  <2>2. tick <= e
    BY <1>3, <1>4, <2>1 DEF InTime
  <2> QED
    BY <2>1, <2>2
<1>6. IsBucketArray(w) /\ InBuckets(w)
  BY <1>1, <1>5 DEF InBuckets
<1>7. ASSUME NEW m \in 0..2, NEW b \in 0..(Size(m) - 1), NEW t \in w[m][b],
             ~AfterCascades(m, expire[t])
      PROVE  /\ tick > 0 /\ Depth(0, tick) = 0
             /\ \/ m = 1 /\ b = Depth(1, tick)
                \/ m = 2 /\ Depth(1, tick) = 0 /\ b = Depth(2, tick)
  <2>1. PICK e \in Nat : e = expire[t] /\ b = Depth(m, e) /\ InTime(m, e)
    BY <1>5
  <2>2. CASE m = 0
    BY <1>7, <2>1, <2>2 DEF InTime, AfterCascades
  <2>3. CASE m = 1
    <3>1. Block(Size0, e) = tick /\ tick > 0
      <4>1. Block(Size0, e) \in Nat
        BY <1>3, Division
      <4> QED
        BY <1>7, <2>1, <2>3, <4>1 DEF InTime, AfterCascades
    <3> QED
      BY <2>1, <2>3, <3>1, FirstCascade
  <2>4. CASE m = 2
    <3>1. Block(Size0 * Size1, e) = tick /\ tick > 0
      <4>1. Block(Size0 * Size1, e) \in Nat
        BY <1>3, Division
      <4> QED
        BY <1>7, <2>1, <2>4, <4>1 DEF InTime, AfterCascades
    <3> QED
      BY <2>1, <2>4, <3>1, SecondCascade
  <2> QED
    BY <2>2, <2>3, <2>4
<1>8. CASE Depth(0, tick) # 0 \/ tick = 0
  BY <1>1, <1>2, <1>6, <1>7, <1>8 DEF Cascaded
<1>9. CASE ~(Depth(0, tick) # 0 \/ tick = 0)
  <2>1. PICK v : v = Cascade(w, 1)
    OBVIOUS
  <2>2. /\ IsBucketArray(v) /\ InBuckets(v) /\ TimersOf(v) = InWheel
        /\ \A m \in 0..2 : \A b \in 0..(Size(m) - 1) : \A t \in v[m][b] :
             AfterCascades(m, expire[t]) \/ (m = 2 /\ t \in w[m][b])
    <3>1. /\ IsBucketArray(v) /\ InBuckets(v) /\ TimersOf(v) = TimersOf(w)
          /\ \A m \in 0..2 : \A b \in 0..(Size(m) - 1) : \A t \in v[m][b] :
               \/ t \in w[m][b] /\ ~(m = 1 /\ b = Depth(1, tick))
               \/ AfterCascades(m, expire[t])
      BY <1>6, <2>1, CascadeMoves
    <3> QED
      BY <1>2, <1>7, <3>1
  <2>3. CASE Depth(1, tick) # 0
    <3>1. Cascaded = v
      BY <1>1, <1>9, <2>1, <2>3 DEF Cascaded
    <3> QED
      BY <1>7, <2>2, <2>3, <3>1
  <2>4. CASE Depth(1, tick) = 0
    <3>1. PICK u : u = Cascade(v, 2)
      OBVIOUS
    <3>2. Cascaded = u
      BY <1>1, <1>9, <2>1, <2>4, <3>1 DEF Cascaded
    <3>3. /\ IsBucketArray(u) /\ InBuckets(u) /\ TimersOf(u) = TimersOf(v)
          /\ \A m \in 0..2 : \A b \in 0..(Size(m) - 1) : \A t \in u[m][b] :
               \/ t \in v[m][b] /\ ~(m = 2 /\ b = Depth(2, tick))
               \/ AfterCascades(m, expire[t])
      BY <2>2, <3>1, CascadeMoves
    <3> QED
      BY <1>7, <2>2, <3>2, <3>3
  <2> QED
    BY <2>3, <2>4
<1> QED
  BY <1>8, <1>9
-----------------------------------------------------------------------------
LEMMA OrdersHaveAll ==
  ASSUME NEW S, IsFiniteSet(S), NEW s \in SetToSeqs(S)
  PROVE  s \in Seq(S) /\ ToSet(s) = S
<1>1. PICK n \in Nat : n = Cardinality(S)
  BY FS_CardinalityType
<1>2. s \in [1..n -> S] /\ \A p, q \in 1..n : p # q => s[p] # s[q]
  BY <1>1 DEF SetToSeqs
<1>3. s \in Seq(S) /\ Len(s) = n
  BY <1>2
<1>4. s \in Injection(1..n, S)
  BY <1>2 DEF Injection, IsInjective
<1>5. IsFiniteSet(1..n) /\ Cardinality(1..n) = n
  BY FS_Interval
<1>6. s \in Surjection(1..n, S)
  BY <1>1, <1>4, <1>5, FS_Injection
<1>7. ToSet(s) = {s[p] : p \in 1..n}
  BY <1>2 DEF ToSet
<1> QED
  BY <1>3, <1>6, <1>7 DEF Surjection

LEMMA JoinedLists ==
  ASSUME NEW X, NEW s \in Seq(X), NEW u \in Seq(X)
  PROVE  s \o u \in Seq(X) /\ ToSet(s \o u) = ToSet(s) \cup ToSet(u)
<1>1. /\ DOMAIN (s \o u) = 1..(Len(s) + Len(u))
      /\ \A n \in 1..Len(s) : (s \o u)[n] = s[n]
      /\ \A n \in 1..Len(u) : (s \o u)[Len(s) + n] = u[n]
  OBVIOUS
<1>2. \A n \in 1..(Len(s) + Len(u)) : n \in 1..Len(s) \/ n - Len(s) \in 1..Len(u)
  OBVIOUS
<1>3. ToSet(s \o u) \subseteq ToSet(s) \cup ToSet(u)
  <2>1. ASSUME NEW n \in 1..(Len(s) + Len(u)) PROVE (s \o u)[n] \in ToSet(s) \cup ToSet(u)
    BY DEF ToSet
  <2> QED
    BY <1>1, <2>1 DEF ToSet
<1>4. ToSet(s) \cup ToSet(u) \subseteq ToSet(s \o u)
  <2>1. \A n \in 1..Len(u) : Len(s) + n \in 1..(Len(s) + Len(u))
    OBVIOUS
  <2>2. \A n \in 1..Len(s) : n \in 1..(Len(s) + Len(u))
    OBVIOUS
  <2>3. \A n \in 1..Len(s) : s[n] \in ToSet(s \o u)
    BY <1>1, <2>2 DEF ToSet
  <2>4. \A n \in 1..Len(u) : u[n] \in ToSet(s \o u)
    BY <1>1, <2>1 DEF ToSet
  <2>5. DOMAIN s = 1..Len(s) /\ DOMAIN u = 1..Len(u)
    OBVIOUS
  <2> QED
    BY <2>3, <2>4, <2>5 DEF ToSet
<1> QED
  BY <1>3, <1>4

LEMMA HeadAndTail ==
  ASSUME NEW X, NEW s \in Seq(X), s # << >>
  PROVE  /\ Tail(s) \in Seq(X) /\ Head(s) \in ToSet(s)
         /\ ToSet(s) = ToSet(Tail(s)) \cup {Head(s)}
         /\ Len(s) # 1 => Tail(s) # << >>
<1>1. /\ Len(s) \in Nat /\ Len(s) > 0
      /\ DOMAIN Tail(s) = 1..(Len(s) - 1) /\ Head(s) = s[1] /\ DOMAIN s = 1..Len(s)
      /\ \A n \in 1..(Len(s) - 1) : Tail(s)[n] = s[n + 1]
  OBVIOUS
<1>2. \A n \in 1..Len(s) : n = 1 \/ (n - 1 \in 1..(Len(s) - 1) /\ s[n] = Tail(s)[n - 1])
  BY <1>1
<1>3. ToSet(s) \subseteq ToSet(Tail(s)) \cup {Head(s)}
  <2>1. \A n \in 1..(Len(s) - 1) : Tail(s)[n] \in ToSet(Tail(s))
    BY <1>1 DEF ToSet
  <2>2. \A n \in 1..Len(s) : s[n] = Head(s) \/ s[n] \in ToSet(Tail(s))
    BY <1>1, <1>2, <2>1
  <2> QED
    BY <1>1, <2>2 DEF ToSet
<1>4. ToSet(Tail(s)) \subseteq ToSet(s)
  <2>1. \A n \in 1..(Len(s) - 1) : n + 1 \in 1..Len(s)
    BY <1>1
  <2> QED
    BY <1>1, <2>1 DEF ToSet
<1>5. Head(s) \in ToSet(s)
  BY <1>1 DEF ToSet
<1> QED
  BY <1>1, <1>3, <1>4, <1>5
-----------------------------------------------------------------------------
(* The inductive invariant of the wheel.                                   *)
WheelInv == WheelTypeOK /\ IsBucketArray(wheel) /\ Placed /\ HandedOnce

LEMMA WheelInvInit == WheelInit => WheelInv
<1> SUFFICES ASSUME WheelInit PROVE WheelInv
  OBVIOUS
<1>1. /\ IsBucketArray(wheel) /\ Placed
      /\ \A l \in 0..2 : wheel[l] \in [0..(Size(l) - 1) -> SUBSET Timers]
  BY DEF WheelInit, IsBucketArray, Placed
<1>2. HandedOnce
  BY DEF WheelInit, HandedOnce, ToSet
<1>3. WheelTypeOK
  <2>1. /\ now \in 0..MaxNow /\ tick \in Nat /\ lastTime \in 0..now
        /\ ticking \in BOOLEAN
    <3>1. now = 0 /\ tick = 0 /\ lastTime = 0 /\ ticking = FALSE
      BY DEF WheelInit
    <3>2. MaxNow \in Nat
      BY WheelAssumption
    <3>3. ticking \in BOOLEAN
      BY <3>1
    <3> QED
      BY <3>1, <3>2, <3>3
  <2>2. /\ expire \in [Timers -> Nat \cup {NoTick}]
        /\ cancelled \subseteq Timers /\ ran \subseteq Timers
        /\ rounds \in [Tickers -> Nat]
        /\ list \in [Tickers -> Seq(Timers)]
        /\ stage \in [Tickers -> {"idle", "turn", "execute", "call"}]
    BY DEF WheelInit
  <2> QED
    BY <1>1, <2>1, <2>2 DEF WheelTypeOK
<1> QED
  BY <1>1, <1>2, <1>3 DEF WheelInv

(* What does not touch the wheel, the ticks or the lists of the tickers.   *)
LEMMA WheelRests ==
  ASSUME WheelInv, UNCHANGED <<wheel, tick, expire, list, ran>>,
         WheelTypeOK', \A k \in Tickers : stage'[k] \in {"execute", "call"} => list[k] # << >>
  PROVE  WheelInv'
<1>1. InWheel' = InWheel
  BY DEF InWheel
<1>2. Placed'
  BY DEF WheelInv, Placed, InTime
<1>3. HandedOnce'
  BY <1>1 DEF WheelInv, HandedOnce
<1> QED
  BY <1>2, <1>3 DEF WheelInv, IsBucketArray

LEMMA ElapsedTicks ==
  ASSUME NEW n \in Nat \ {0}, NEW x \in Nat
  PROVE  x \div n \in Nat /\ (x \div n) * n \in 0..x
<1>1. PICK q \in Nat, r \in 0..(n - 1) : q = x \div n /\ x = n * q + r /\ n * q \in Nat
  BY Division DEF Block
<1>2. q * n = n * q
  BY <1>1
<1> QED
  BY <1>1, <1>2

(* What AddTiming computes is a tick not yet processed.                    *)
LEMMA DelaysEnd ==
  ASSUME NEW d \in Delays
  PROVE  Min({d, GetMaxDelayMs}) \div TickIntervalMs \in Nat
<1>1. d \in Nat /\ TickIntervalMs \in Nat \ {0}
  BY WheelAssumption
<1>2. GetMaxDelayMs \in Nat
  <2>1. TickIntervalMs * Size0 \in Nat
    BY WheelAssumption, Products
  <2>2. TickIntervalMs * Size0 * Size1 \in Nat
    BY <2>1, WheelAssumption, Products
  <2> QED
    BY <2>2, WheelAssumption, Products DEF GetMaxDelayMs
<1>3. PICK m \in Nat : m = GetMaxDelayMs
  BY <1>2
<1>4. Min({d, m}) \in {d, m}
  <2>1. \E x \in {d, m} : \A y \in {d, m} : x <= y
    BY <1>1
  <2> QED
    BY <2>1 DEF Min
<1>5. PICK x \in Nat : x = Min({d, m})
  BY <1>1, <1>4
<1> QED
  BY <1>1, <1>3, <1>5, Division

LEMMA AddTimingKeeps ==
  ASSUME WheelInv, NEW t \in Timers, NEW d \in Delays, AddTiming(t, d)
  PROVE  /\ WheelInv' /\ InWheel' = InWheel \cup {t} /\ t \notin InWheel
         /\ expire[t] = NoTick /\ UNCHANGED <<tick, list>>
         /\ \E e \in Nat : tick <= e /\ expire' = [expire EXCEPT ![t] = e]
<1>1. PICK e \in Nat : /\ e = tick + Min({d, GetMaxDelayMs}) \div TickIntervalMs
                       /\ tick <= e
  BY DelaysEnd DEF WheelInv, WheelTypeOK
<1>2. /\ Level(e - tick) \in 0..2
      /\ Depth(Level(e - tick), e) \in 0..(Size(Level(e - tick)) - 1)
      /\ InTime(Level(e - tick), e)
  <2>1. tick \in Nat
    BY DEF WheelInv, WheelTypeOK
  <2> QED
    BY <1>1, <2>1, AddedInTime
<1>l. PICK l \in 0..2 : l = Level(e - tick)
  BY <1>2
<1>b. PICK b \in 0..(Size(l) - 1) : b = Depth(l, e) /\ InTime(l, e)
  BY <1>2, <1>l
<1>3. /\ wheel' = [wheel EXCEPT ![l][b] = @ \cup {t}]
      /\ expire' = [expire EXCEPT ![t] = e] /\ expire[t] = NoTick
  BY <1>1, <1>l, <1>b DEF AddTiming, AddNode
<1>4. UNCHANGED <<now, ticking, tick, lastTime, cancelled, rounds, list, stage, ran>>
  BY DEF AddTiming
<1>5. /\ \A m \in 0..2 : \A c \in 0..(Size(m) - 1) :
           wheel'[m][c] = IF m = l /\ c = b THEN wheel[m][c] \cup {t} ELSE wheel[m][c]
      /\ IsBucketArray(wheel)'
  BY <1>b, <1>3 DEF WheelInv, IsBucketArray
<1>6. /\ \A x \in Timers \ {t} : expire'[x] = expire[x]
      /\ expire'[t] = e /\ expire' \in [Timers -> Nat \cup {NoTick}]
  BY <1>3 DEF WheelInv, WheelTypeOK
<1>7. t \notin InWheel /\ t \notin ran /\ \A k \in Tickers : t \notin ToSet(list[k])
  BY <1>3, WheelAssumption DEF WheelInv, Placed, HandedOnce, InWheel
<1>8. InWheel' = InWheel \cup {t}
  <2>1. \A x \in Timers : x \in InWheel' <=> \E m \in 0..2 : \E c \in 0..(Size(m) - 1) :
          x \in wheel'[m][c]
    BY DEF InWheel
  <2>2. \A x \in Timers : x \in InWheel <=> \E m \in 0..2 : \E c \in 0..(Size(m) - 1) :
          x \in wheel[m][c]
    BY DEF InWheel
  <2>3. InWheel \subseteq Timers /\ InWheel' \subseteq Timers
    BY DEF InWheel
  <2>0. ASSUME NEW m \in 0..2, NEW c \in 0..(Size(m) - 1), NEW x \in Timers
        PROVE  x \in wheel'[m][c] <=> x \in wheel[m][c] \/ (x = t /\ m = l /\ c = b)
    <3>1. CASE m = l /\ c = b
      BY <1>5, <3>1
    <3>2. CASE ~(m = l /\ c = b)
      BY <1>5, <3>2
    <3> QED
      BY <3>1, <3>2
  <2>4. ASSUME NEW x \in InWheel PROVE x \in InWheel'
    BY <2>0, <2>1, <2>2, <2>3
  <2>5. t \in InWheel'
    BY <1>b, <2>0, <2>1
  <2>6. ASSUME NEW x \in InWheel', x # t PROVE x \in InWheel
    BY <2>0, <2>1, <2>2, <2>3, <2>6
  <2> QED
    BY <2>4, <2>5, <2>6
<1>9. Placed'
  <2>1. ASSUME NEW m \in 0..2, NEW c \in 0..(Size(m) - 1), NEW x \in wheel'[m][c]
        PROVE  expire'[x] \in Nat /\ c = Depth(m, expire'[x]) /\ InTime(m, expire'[x])
    <3>1. CASE x = t
      <4>1. m = l /\ c = b
        BY <1>5, <1>7, <2>1, <3>1 DEF InWheel
      <4> QED
        BY <1>b, <1>6, <3>1, <4>1
    <3>2. CASE x # t
      <4>1. x \in wheel[m][c] /\ x \in Timers
        BY <1>5, <2>1, <3>2 DEF WheelInv, IsBucketArray
      <4> QED
        BY <1>6, <3>2, <4>1 DEF WheelInv, Placed
    <3> QED
      BY <3>1, <3>2
  <2> QED
    BY <1>4, <2>1 DEF Placed, InTime
<1>10. HandedOnce'
  <2>1. \A k \in Tickers : ToSet(list[k]) \subseteq Timers
    BY DEF WheelInv, WheelTypeOK, ToSet
  <2>2. ran \subseteq Timers
    BY DEF WheelInv, WheelTypeOK
  <2> QED
    BY <1>4, <1>6, <1>7, <1>8, <2>1, <2>2 DEF WheelInv, HandedOnce
<1>11. WheelTypeOK'
  BY <1>4, <1>5, <1>6 DEF WheelInv, WheelTypeOK, IsBucketArray
<1> QED
  BY <1>1, <1>3, <1>4, <1>5, <1>7, <1>8, <1>9, <1>10, <1>11 DEF WheelInv

(* The timers of the bucket that is due leave the wheel for the list, and  *)
(* all others stay.                                                        *)
LEMMA ProcessTickKeeps ==
  ASSUME WheelInv, NEW k \in Tickers, ProcessTick(k)
  PROVE  /\ WheelInv' /\ UNCHANGED expire /\ tick' = tick + 1
         /\ InWheel' = {t \in InWheel : expire[t] # tick}
         /\ \A j \in Tickers \ {k} : list'[j] = list[j]
         /\ ToSet(list'[k]) = ToSet(list[k]) \cup {t \in InWheel : expire[t] = tick}
<1>1. /\ tick \in Nat /\ list \in [Tickers -> Seq(Timers)] /\ IsBucketArray(wheel) /\ Placed
      /\ expire \in [Timers -> Nat \cup {NoTick}]
  BY DEF WheelInv, WheelTypeOK
<1>2. PICK w : w = Cascaded
  OBVIOUS
<1>3. PICK d \in 0..(Size(0) - 1) : d = Depth(0, tick)
  BY <1>1, DigitsAreBuckets
<1>4. /\ IsBucketArray(w) /\ InBuckets(w) /\ TimersOf(w) = InWheel
      /\ \A m \in 0..2 : \A b \in 0..(Size(m) - 1) : \A t \in w[m][b] :
           AfterCascades(m, expire[t])
  BY <1>1, <1>2, CascadesKeepTime
<1>5. PICK due : due = w[0][d]
  OBVIOUS
<1>6. due \subseteq Timers /\ IsFiniteSet(due)
  <2>1. due \subseteq Timers
    <3>1. w[0] \in [0..(Size(0) - 1) -> SUBSET Timers]
      BY <1>4 DEF IsBucketArray
    <3> QED
      BY <1>3, <1>5, <3>1
  <2> QED
    BY <2>1, FS_Subset, WheelAssumption
<1>7. PICK s \in SetToSeqs(due) : list' = [list EXCEPT ![k] = @ \o s]
  BY <1>2, <1>3, <1>5 DEF ProcessTick
<1>8. /\ wheel' = [w EXCEPT ![0][d] = {}] /\ tick' = tick + 1
      /\ rounds' = [rounds EXCEPT ![k] = @ - 1] /\ rounds[k] > 0
      /\ UNCHANGED <<now, ticking, lastTime, expire, cancelled, stage, ran>>
  BY <1>2, <1>3 DEF ProcessTick
<1>9. s \in Seq(due) /\ ToSet(s) = due
  BY <1>6, <1>7, OrdersHaveAll
<1>10. /\ IsBucketArray(wheel)'
       /\ \A m \in 0..2 : \A b \in 0..(Size(m) - 1) :
            wheel'[m][b] = IF m = 0 /\ b = d THEN {} ELSE w[m][b]
  BY <1>3, <1>4, <1>8 DEF IsBucketArray
<1>11. ASSUME NEW m \in 0..2, NEW b \in 0..(Size(m) - 1), NEW t \in w[m][b]
       PROVE  /\ t \in InWheel /\ expire[t] \in Nat /\ b = Depth(m, expire[t])
              /\ AfterCascades(m, expire[t])
              /\ expire[t] = tick <=> m = 0 /\ b = d
  <2>1. PICK e \in Nat : /\ e = expire[t] /\ tick <= e /\ b = Depth(m, e)
                         /\ AfterCascades(m, e)
    BY <1>4 DEF InBuckets
  <2>2. t \in InWheel
    <3>1. t \in Timers
      BY <1>4 DEF IsBucketArray
    <3> QED
      BY <1>4, <3>1 DEF TimersOf
  <2>3. CASE m = 0
    BY <1>1, <1>3, <2>1, <2>2, <2>3, FirstBucketIsDue
  <2>4. CASE m = 1 \/ m = 2
    <3>1. ASSUME NEW n \in Nat \ {0}, tick < Block(n, e) PROVE e # tick
      <4>1. PICK r \in 0..(n - 1), c \in Nat : e = c + r /\ c = Block(n, e)
        BY Division
      <4> QED
        BY <1>1, <3>1, <4>1
    <3>2. Size0 \in Nat \ {0} /\ Size0 * Size1 \in Nat \ {0}
      BY WheelAssumption, Products
    <3>3. e # tick
      BY <2>1, <2>4, <3>1, <3>2 DEF AfterCascades
    <3> QED
      BY <2>1, <2>2, <2>4, <3>3
  <2> QED
    BY <2>3, <2>4
<1>12. \A t \in InWheel : \E m \in 0..2 : \E b \in 0..(Size(m) - 1) : t \in w[m][b]
  BY <1>4 DEF TimersOf
<1>13. due = {t \in InWheel : expire[t] = tick}
  BY <1>3, <1>5, <1>11, <1>12
<1>14. InWheel' = {t \in InWheel : expire[t] # tick}
  <2>1. \A t \in InWheel' : \E m \in 0..2 : \E b \in 0..(Size(m) - 1) :
          t \in w[m][b] /\ ~(m = 0 /\ b = d)
    BY <1>10 DEF InWheel
  <2>2. \A t \in InWheel' : t \in InWheel /\ expire[t] # tick
    BY <1>11, <2>1
  <2>3. ASSUME NEW t \in InWheel, expire[t] # tick PROVE t \in InWheel'
    <3>m. PICK m \in 0..2 : \E b \in 0..(Size(m) - 1) : t \in w[m][b]
      BY <1>12
    <3>1. PICK b \in 0..(Size(m) - 1) : t \in w[m][b]
      BY <3>m
    <3>2. t \in wheel'[m][b]
      BY <1>10, <1>11, <2>3, <3>1
    <3>3. t \in Timers
      BY DEF InWheel
    <3> QED
      BY <3>2, <3>3 DEF InWheel
  <2> QED
    BY <2>2, <2>3
<1>15. /\ \A j \in Tickers \ {k} : list'[j] = list[j]
       /\ list'[k] = list[k] \o s
       /\ list' \in [Tickers -> Seq(Timers)]
       /\ ToSet(list'[k]) = ToSet(list[k]) \cup due
  <2>1. list[k] \in Seq(Timers) /\ s \in Seq(Timers)
    BY <1>1, <1>6, <1>9
  <2>2. list[k] \o s \in Seq(Timers) /\ ToSet(list[k] \o s) = ToSet(list[k]) \cup ToSet(s)
    <3>1. PICK u \in Seq(Timers) : u = list[k]
      BY <2>1
    <3> QED
      BY <2>1, <3>1, JoinedLists
  <2> QED
    BY <1>1, <1>7, <1>9, <2>2
<1>16. Placed'
  <2>1. ASSUME NEW m \in 0..2, NEW b \in 0..(Size(m) - 1), NEW t \in wheel'[m][b]
        PROVE  expire[t] \in Nat /\ b = Depth(m, expire[t]) /\ InTime(m, expire[t])'
    <3>1. t \in w[m][b] /\ ~(m = 0 /\ b = d)
      BY <1>10, <2>1
    <3>2. PICK e \in Nat : /\ e = expire[t] /\ b = Depth(m, e) /\ AfterCascades(m, e)
                           /\ e # tick
      BY <1>11, <3>1
    <3>3. \A n \in Nat \ {0} : Block(n, e) \in Nat
      BY Division
    <3>4. Size0 \in Nat \ {0} /\ Size0 * Size1 \in Nat \ {0}
      BY WheelAssumption, Products
    <3>5. InTime(m, e)'
      BY <1>1, <1>8, <3>2, <3>3, <3>4 DEF InTime, AfterCascades
    <3> QED
      BY <1>8, <3>2, <3>5
  <2> QED
    BY <1>8, <2>1 DEF Placed
<1>17. HandedOnce'
  <2>1. ASSUME NEW j \in Tickers, NEW t \in ToSet(list'[j])
        PROVE  expire[t] \in Nat /\ t \notin InWheel'
    <3>1. CASE t \in ToSet(list[j])
      BY <1>14, <3>1 DEF WheelInv, HandedOnce
    <3>2. CASE t \in due
      BY <1>1, <1>13, <1>14, <3>2
    <3> QED
      BY <1>15, <2>1, <3>1, <3>2
  <2>2. \A t \in ran : expire[t] \in Nat /\ t \notin InWheel'
    BY <1>14 DEF WheelInv, HandedOnce
  <2>3. ASSUME NEW j \in Tickers, stage[j] \in {"execute", "call"} PROVE list'[j] # << >>
    <3>1. j # k
      BY <2>3 DEF ProcessTick
    <3> QED
      BY <1>15, <2>3, <3>1 DEF WheelInv, HandedOnce
  <2> QED
    BY <1>8, <2>1, <2>2, <2>3 DEF HandedOnce
<1>18. WheelTypeOK'
  <2>1. rounds' \in [Tickers -> Nat] /\ tick' \in Nat
    BY <1>1, <1>8 DEF WheelInv, WheelTypeOK
  <2>2. \A l \in 0..2 : wheel'[l] \in [0..(Size(l) - 1) -> SUBSET Timers]
    BY <1>10 DEF IsBucketArray
  <2> QED
    BY <1>1, <1>8, <1>15, <2>1, <2>2 DEF WheelInv, WheelTypeOK
<1> QED
  BY <1>8, <1>10, <1>13, <1>14, <1>15, <1>16, <1>17, <1>18 DEF WheelInv

-----------------------------------------------------------------------------
LEMMA TimePassesRests ==
  ASSUME WheelInv, TimePasses
  PROVE  WheelInv' /\ UNCHANGED <<wheel, tick, expire, list, ran, cancelled>>
<1>1. WheelTypeOK'
  BY WheelAssumption DEF WheelInv, WheelTypeOK, TimePasses
<1> QED
  BY <1>1, WheelRests DEF WheelInv, HandedOnce, TimePasses

LEMMA CancelRests ==
  ASSUME WheelInv, NEW t \in Timers, Cancel(t)
  PROVE  WheelInv' /\ UNCHANGED <<wheel, tick, expire, list, ran, stage>>
<1>1. WheelTypeOK'
  BY DEF WheelInv, WheelTypeOK, Cancel
<1> QED
  BY <1>1, WheelRests DEF WheelInv, HandedOnce, Cancel

LEMMA BeginTickRests ==
  ASSUME WheelInv, NEW k \in Tickers, BeginTick(k)
  PROVE  /\ WheelInv' /\ UNCHANGED <<wheel, tick, expire, list, ran, cancelled>>
         /\ stage' = [stage EXCEPT ![k] = "turn"]
<1>1. now \in Nat /\ lastTime \in Nat /\ lastTime <= now /\ TickIntervalMs \in Nat \ {0}
  BY WheelAssumption DEF WheelInv, WheelTypeOK
<1>2. PICK turns : turns = (now - lastTime) \div TickIntervalMs
  OBVIOUS
<1>3. turns \in Nat /\ turns * TickIntervalMs \in 0..(now - lastTime)
  <2>1. PICK x \in Nat : x = now - lastTime
    BY <1>1
  <2> QED
    BY <1>1, <1>2, <2>1, ElapsedTicks
<1>4. /\ lastTime' = lastTime + turns * TickIntervalMs
      /\ rounds' = [rounds EXCEPT ![k] = turns]
      /\ stage' = [stage EXCEPT ![k] = "turn"] /\ ticking' = TRUE
      /\ UNCHANGED <<now, tick, wheel, expire, cancelled, list, ran>>
  BY <1>2 DEF BeginTick
<1>5. lastTime' \in 0..now
  BY <1>1, <1>3, <1>4
<1>6. WheelTypeOK'
  BY <1>3, <1>4, <1>5 DEF WheelInv, WheelTypeOK
<1>7. \A j \in Tickers : stage'[j] \in {"execute", "call"} => list[j] # << >>
  BY <1>4 DEF WheelInv, WheelTypeOK, HandedOnce
<1> QED
  BY <1>4, <1>6, <1>7, WheelRests

LEMMA EndTickingRests ==
  ASSUME WheelInv, NEW k \in Tickers, EndTicking(k)
  PROVE  /\ WheelInv' /\ UNCHANGED <<wheel, tick, expire, list, ran, cancelled>>
         /\ \A j \in Tickers : stage'[j] = "call" => stage[j] = "call"
<1>1. WheelTypeOK'
  BY DEF WheelInv, WheelTypeOK, EndTicking
<1>2. \A j \in Tickers : /\ stage'[j] \in {"execute", "call"} => list[j] # << >>
                         /\ stage'[j] = "call" => stage[j] = "call"
  BY DEF WheelInv, WheelTypeOK, HandedOnce, EndTicking
<1> QED
  BY <1>1, <1>2, WheelRests DEF EndTicking

(* The node at the head of the list is gone through; its callback may have *)
(* been called.                                                            *)
LEMMA DropHeadKeeps ==
  ASSUME WheelInv, NEW k \in Tickers, list[k] # << >>, DropHead(k),
         UNCHANGED <<now, ticking, tick, lastTime, wheel, expire, cancelled, rounds>>,
         ran' \in {ran, ran \cup {Head(list[k])}}
  PROVE  /\ WheelInv' /\ InWheel' = InWheel
         /\ Head(list[k]) \in ToSet(list[k])
         /\ \A j \in Tickers \ {k} : list'[j] = list[j]
         /\ ToSet(list[k]) = ToSet(list'[k]) \cup {Head(list[k])}
         /\ \A j \in Tickers : stage'[j] = "call" => stage[j] = "call" /\ j # k
<1>1. /\ list \in [Tickers -> Seq(Timers)]
      /\ stage \in [Tickers -> {"idle", "turn", "execute", "call"}]
  BY DEF WheelInv, WheelTypeOK
<1>2. PICK u \in Seq(Timers) : u = list[k]
  BY <1>1
<1>3. /\ Tail(u) \in Seq(Timers) /\ Head(u) \in ToSet(u)
      /\ ToSet(u) = ToSet(Tail(u)) \cup {Head(u)}
      /\ Len(u) # 1 => Tail(u) # << >>
  BY <1>2, HeadAndTail
<1>4. /\ list' = [list EXCEPT ![k] = Tail(u)]
      /\ stage' = [stage EXCEPT ![k] = IF Len(u) = 1 THEN "idle" ELSE "execute"]
  BY <1>2 DEF DropHead
<1>5. InWheel' = InWheel
  BY DEF InWheel
<1>6. Placed'
  BY DEF WheelInv, Placed, InTime
<1>7. ToSet(u) \subseteq Timers
  BY <1>2 DEF ToSet
<1>8. HandedOnce'
  <2>1. \A j \in Tickers : ToSet(list'[j]) \subseteq ToSet(list[j])
    BY <1>1, <1>2, <1>3, <1>4
  <2>2. \A t \in ran' : t \in ran \/ t \in ToSet(list[k])
    BY <1>2, <1>3
  <2>3. \A j \in Tickers : stage'[j] \in {"execute", "call"} => list'[j] # << >>
    BY <1>1, <1>3, <1>4 DEF WheelInv, HandedOnce
  <2> QED
    BY <1>5, <2>1, <2>2, <2>3 DEF WheelInv, HandedOnce
<1>9. WheelTypeOK'
  <2>1. ran' \subseteq Timers
    BY <1>2, <1>3, <1>7 DEF WheelInv, WheelTypeOK
  <2> QED
    BY <1>1, <1>3, <1>4, <2>1 DEF WheelInv, WheelTypeOK
<1>10. IsBucketArray(wheel)'
  BY DEF WheelInv, IsBucketArray
<1> QED
  BY <1>1, <1>2, <1>3, <1>4, <1>5, <1>6, <1>8, <1>9, <1>10 DEF WheelInv

LEMMA ReadToCall ==
  ASSUME WheelInv, NEW k \in Tickers, ReadCancelFlag(k), Head(list[k]) \notin cancelled
  PROVE  /\ WheelInv' /\ UNCHANGED <<wheel, tick, expire, list, ran, cancelled>>
         /\ stage' = [stage EXCEPT ![k] = "call"]
<1>1. stage' = [stage EXCEPT ![k] = "call"] /\ stage[k] = "execute"
  BY DEF ReadCancelFlag
<1>2. UNCHANGED <<now, ticking, tick, lastTime, wheel, expire, cancelled, rounds, list, ran>>
  BY DEF ReadCancelFlag
<1>3. WheelTypeOK'
  BY <1>1, <1>2 DEF WheelInv, WheelTypeOK
<1>4. \A j \in Tickers : stage'[j] \in {"execute", "call"} => list[j] # << >>
  BY <1>1 DEF WheelInv, WheelTypeOK, HandedOnce
<1> QED
  BY <1>1, <1>2, <1>3, <1>4, WheelRests

(* Both ways to go through a node are DropHead.                            *)
LEMMA DroppedByTick ==
  ASSUME WheelInv, NEW k \in Tickers,
         Call(k) \/ (ReadCancelFlag(k) /\ Head(list[k]) \in cancelled)
  PROVE  /\ list[k] # << >> /\ DropHead(k)
         /\ UNCHANGED <<now, ticking, tick, lastTime, wheel, expire, cancelled, rounds>>
         /\ ran' \in {ran, ran \cup {Head(list[k])}}
BY DEF WheelInv, HandedOnce, Call, ReadCancelFlag
-----------------------------------------------------------------------------
LEMMA ReadKeeps ==
  ASSUME WheelInv, NEW k \in Tickers, ReadCancelFlag(k)
  PROVE  WheelInv'
<1>1. CASE Head(list[k]) \in cancelled
  BY <1>1, DroppedByTick, DropHeadKeeps
<1>2. CASE Head(list[k]) \notin cancelled
  BY <1>2, ReadToCall
<1> QED
  BY <1>1, <1>2

LEMMA WheelStep == WheelInv /\ [WheelNext]_wheelVars => WheelInv'
<1> SUFFICES ASSUME WheelInv, [WheelNext]_wheelVars PROVE WheelInv'
  OBVIOUS
<1>1. CASE TimePasses
  BY <1>1, TimePassesRests
<1>2. ASSUME NEW t \in Timers, Cancel(t) PROVE WheelInv'
  BY <1>2, CancelRests
<1>3. ASSUME NEW t \in Timers, NEW d \in Delays, AddTiming(t, d) PROVE WheelInv'
  BY <1>3, AddTimingKeeps
<1>4. ASSUME NEW k \in Tickers, BeginTick(k) PROVE WheelInv'
  BY <1>4, BeginTickRests
<1>5. ASSUME NEW k \in Tickers, ProcessTick(k) PROVE WheelInv'
  BY <1>5, ProcessTickKeeps
<1>6. ASSUME NEW k \in Tickers, EndTicking(k) PROVE WheelInv'
  BY <1>6, EndTickingRests
<1>7. ASSUME NEW k \in Tickers, ReadCancelFlag(k) PROVE WheelInv'
  BY <1>7, ReadKeeps
<1>8. ASSUME NEW k \in Tickers, Call(k) PROVE WheelInv'
  BY <1>8, DroppedByTick, DropHeadKeeps
<1>9. CASE UNCHANGED wheelVars
  BY <1>9 DEF WheelInv, WheelTypeOK, IsBucketArray, Placed, InTime, HandedOnce, InWheel,
              wheelVars
<1> QED
  BY <1>1, <1>2, <1>3, <1>4, <1>5, <1>6, <1>7, <1>8, <1>9 DEF WheelNext, TickStep

(* Every variable has its type; no tick is counted before its time is over *)
(* (TimingWheel::Tick: mLastTickTime never passes the steady clock).       *)
THEOREM WheelTypes == WheelSpec => []WheelTypeOK
<1>1. WheelInv => WheelTypeOK
  BY DEF WheelInv
<1> QED
  BY <1>1, WheelInvInit, WheelStep, PTL DEF WheelSpec

(* Cancelled, not run, and no Tick has already read its flag.              *)
Silenced(t) ==
  /\ t \in cancelled /\ t \notin ran
  /\ \A k \in Tickers : stage[k] = "call" => Head(list[k]) # t

(* Whoever reads the flag of such a timer, whenever, finds it set; nobody  *)
(* has it between the reading and the call.                                *)
LEMMA SilencedStays ==
  ASSUME WheelInv, NEW t \in Timers, Silenced(t), [WheelNext]_wheelVars
  PROVE  Silenced(t)'
<1>0. stage \in [Tickers -> {"idle", "turn", "execute", "call"}]
  BY DEF WheelInv, WheelTypeOK
<1>1. CASE TimePasses
  BY <1>1 DEF TimePasses, Silenced
<1>2. ASSUME NEW x \in Timers, Cancel(x) PROVE Silenced(t)'
  BY <1>2 DEF Cancel, Silenced
<1>3. ASSUME NEW x \in Timers, NEW d \in Delays, AddTiming(x, d) PROVE Silenced(t)'
  BY <1>3 DEF AddTiming, Silenced
<1>4. ASSUME NEW k \in Tickers, BeginTick(k) PROVE Silenced(t)'
  BY <1>0, <1>4, BeginTickRests DEF Silenced
<1>5. ASSUME NEW k \in Tickers, ProcessTick(k) PROVE Silenced(t)'
  <2>1. /\ UNCHANGED <<cancelled, ran, stage>> /\ stage[k] = "turn"
        /\ \A j \in Tickers \ {k} : list'[j] = list[j]
    BY <1>5, ProcessTickKeeps DEF ProcessTick
  <2> QED
    BY <2>1 DEF Silenced
<1>6. ASSUME NEW k \in Tickers, EndTicking(k) PROVE Silenced(t)'
  BY <1>6, EndTickingRests DEF Silenced
<1>7. ASSUME NEW k \in Tickers, ReadCancelFlag(k), Head(list[k]) \in cancelled
      PROVE  Silenced(t)'
  <2>1. /\ \A j \in Tickers \ {k} : list'[j] = list[j]
        /\ \A j \in Tickers : stage'[j] = "call" => stage[j] = "call" /\ j # k
    BY <1>7, DroppedByTick, DropHeadKeeps
  <2>2. UNCHANGED <<cancelled, ran>>
    BY <1>7 DEF ReadCancelFlag
  <2> QED
    BY <2>1, <2>2 DEF Silenced
<1>8. ASSUME NEW k \in Tickers, ReadCancelFlag(k), Head(list[k]) \notin cancelled
      PROVE  Silenced(t)'
  <2>1. Head(list[k]) # t
    BY <1>8 DEF Silenced
  <2> QED
    BY <1>0, <1>8, <2>1, ReadToCall DEF Silenced
<1>9. ASSUME NEW k \in Tickers, Call(k) PROVE Silenced(t)'
  <2>1. /\ \A j \in Tickers \ {k} : list'[j] = list[j]
        /\ \A j \in Tickers : stage'[j] = "call" => stage[j] = "call" /\ j # k
    BY <1>9, DroppedByTick, DropHeadKeeps
  <2>2. UNCHANGED cancelled /\ ran' = ran \cup {Head(list[k])} /\ Head(list[k]) # t
    BY <1>9 DEF Call, Silenced
  <2> QED
    BY <2>1, <2>2 DEF Silenced
<1>10. CASE UNCHANGED wheelVars
  BY <1>10 DEF wheelVars, Silenced
<1> QED
  BY <1>1, <1>2, <1>3, <1>4, <1>5, <1>6, <1>7, <1>8, <1>9, <1>10 DEF WheelNext, TickStep

(* A timer that is cancelled before TimingNode::Execute has read its flag  *)
(* is never run, on whatever thread: in the wheel, or in the list of a     *)
(* Tick that has not come to it.                                           *)
THEOREM CancelledNeverRuns == WheelSpec => CancelIsFinal
<1>1. WheelSpec => []WheelInv
  BY WheelInvInit, WheelStep, PTL DEF WheelSpec
<1>2. ASSUME NEW t \in Timers
      PROVE  []WheelInv /\ [][WheelNext]_wheelVars
               => [](t \in cancelled /\ t \notin ran /\ ~FlagRead(t) => [](t \notin ran))
  <2>1. t \in cancelled /\ t \notin ran /\ ~FlagRead(t) => Silenced(t)
    BY DEF Silenced, FlagRead
  <2>2. WheelInv /\ Silenced(t) /\ [WheelNext]_wheelVars => Silenced(t)'
    BY SilencedStays
  <2>3. Silenced(t) => t \notin ran
    BY DEF Silenced
  <2> QED
    BY <2>1, <2>2, <2>3, PTL
<1>3. WheelSpec => [][WheelNext]_wheelVars
  BY PTL DEF WheelSpec
<1> SUFFICES ASSUME NEW t \in Timers
             PROVE  WheelSpec =>
                      [](t \in cancelled /\ t \notin ran /\ ~FlagRead(t) => [](t \notin ran))
  BY DEF CancelIsFinal
<1> QED
  BY <1>1, <1>2, <1>3, PTL
-----------------------------------------------------------------------------
(* What TimerCalendar sees of the wheel.                                   *)
Deadlines == {<<t, expire[t]>> : t \in InWheel}
HandedOut == UNION {ToSet(list[k]) : k \in Tickers}

LEMMA AddTimingIsAdd ==
  ASSUME WheelInv, NEW t \in Timers, NEW d \in Delays, AddTiming(t, d)
  PROVE  Calendar!Add(t)
<1>1. /\ InWheel' = InWheel \cup {t} /\ t \notin InWheel
      /\ expire[t] = NoTick /\ UNCHANGED <<tick, list>>
  BY AddTimingKeeps
<1>2. PICK e \in Nat : tick <= e /\ expire' = [expire EXCEPT ![t] = e]
  BY AddTimingKeeps
<1>3. expire \in [Timers -> Nat \cup {NoTick}] /\ tick \in Nat
  BY DEF WheelInv, WheelTypeOK
<1>4. InWheel \subseteq Timers
  BY DEF InWheel
<1>5. expire'[t] = e /\ \A x \in InWheel : expire'[x] = expire[x]
  BY <1>1, <1>2, <1>3, <1>4
<1>6. Deadlines' = Deadlines \cup {<<t, e>>}
  BY <1>1, <1>5 DEF Deadlines
<1>7. \A p \in Deadlines : p[1] # t
  BY <1>1 DEF Deadlines
<1>8. t \notin HandedOut
  BY <1>1, WheelAssumption DEF WheelInv, HandedOnce, HandedOut
<1>9. HandedOut' = HandedOut
  BY <1>1 DEF HandedOut
<1>10. \E p \in Deadlines' : p[1] = t /\ p[2] >= tick /\ Deadlines' = Deadlines \cup {p}
  <2>1. <<t, e>>[1] = t /\ <<t, e>>[2] = e /\ <<t, e>> \in Deadlines'
    BY <1>6
  <2>2. e >= tick
    BY <1>2, <1>3
  <2> QED
    BY <1>6, <2>1, <2>2
<1> QED
  BY <1>1, <1>7, <1>8, <1>9, <1>10 DEF Calendar!Add, Deadlines, HandedOut

LEMMA ProcessTickIsAdvance ==
  ASSUME WheelInv, NEW k \in Tickers, ProcessTick(k)
  PROVE  Calendar!Advance
<1>1. /\ UNCHANGED expire /\ tick' = tick + 1
      /\ InWheel' = {t \in InWheel : expire[t] # tick}
      /\ \A j \in Tickers \ {k} : list'[j] = list[j]
      /\ ToSet(list'[k]) = ToSet(list[k]) \cup {t \in InWheel : expire[t] = tick}
  BY ProcessTickKeeps
<1>2. Deadlines' = {p \in Deadlines : p[2] # tick}
  BY <1>1 DEF Deadlines
<1>3. {p[1] : p \in {q \in Deadlines : q[2] = tick}} = {t \in InWheel : expire[t] = tick}
  <2>1. ASSUME NEW t \in InWheel, expire[t] = tick
        PROVE  t \in {p[1] : p \in {q \in Deadlines : q[2] = tick}}
    <3>1. /\ <<t, expire[t]>> \in Deadlines /\ <<t, expire[t]>>[2] = tick
          /\ <<t, expire[t]>>[1] = t
      BY <2>1 DEF Deadlines
    <3> QED
      BY <3>1
  <2>2. ASSUME NEW p \in Deadlines, p[2] = tick
        PROVE  p[1] \in InWheel /\ expire[p[1]] = tick
    BY <2>2 DEF Deadlines
  <2> QED
    BY <2>1, <2>2
<1>4. HandedOut' = HandedOut \cup {t \in InWheel : expire[t] = tick}
  BY <1>1 DEF HandedOut
<1> QED
  BY <1>1, <1>2, <1>3, <1>4 DEF Calendar!Advance, Deadlines, HandedOut

(* A node that is gone through leaves the calendar, unless another list    *)
(* would still hold it.                                                    *)
LEMMA DropHeadIsFinish ==
  ASSUME WheelInv, NEW k \in Tickers, list[k] # << >>, DropHead(k),
         UNCHANGED <<now, ticking, tick, lastTime, wheel, expire, cancelled, rounds>>,
         ran' \in {ran, ran \cup {Head(list[k])}}
  PROVE  \/ \E t \in Timers : Calendar!Finish(t)
         \/ UNCHANGED <<tick, Deadlines, HandedOut>>
<1>1. /\ InWheel' = InWheel /\ Head(list[k]) \in ToSet(list[k])
      /\ \A j \in Tickers \ {k} : list'[j] = list[j]
      /\ ToSet(list[k]) = ToSet(list'[k]) \cup {Head(list[k])}
  BY DropHeadKeeps
<1>2. list[k] \in Seq(Timers)
  BY DEF WheelInv, WheelTypeOK
<1>3. PICK h \in Timers : h = Head(list[k])
  BY <1>1, <1>2 DEF ToSet
<1>4. UNCHANGED Deadlines
  BY <1>1 DEF Deadlines
<1>5. HandedOut = HandedOut' \cup {h} /\ h \in HandedOut
  BY <1>1, <1>3 DEF HandedOut
<1>6. CASE h \in HandedOut'
  BY <1>4, <1>5, <1>6
<1>7. CASE h \notin HandedOut'
  <2>1. HandedOut' = HandedOut \ {h}
    BY <1>5, <1>7
  <2>2. Calendar!Finish(h)
    BY <1>4, <1>5, <2>1 DEF Calendar!Finish, Deadlines, HandedOut
  <2> QED
    BY <2>2
<1> QED
  BY <1>6, <1>7

LEMMA WheelStepsCalendar ==
  WheelInv /\ [WheelNext]_wheelVars
    => Calendar!Next \/ UNCHANGED <<tick, Deadlines, HandedOut>>
<1> SUFFICES ASSUME WheelInv, [WheelNext]_wheelVars
             PROVE  Calendar!Next \/ UNCHANGED <<tick, Deadlines, HandedOut>>
  OBVIOUS
<1>1. ASSUME UNCHANGED <<wheel, tick, expire, list>>
      PROVE  UNCHANGED <<tick, Deadlines, HandedOut>>
  BY <1>1 DEF Deadlines, HandedOut, InWheel
<1>2. CASE TimePasses
  BY <1>1, <1>2 DEF TimePasses
<1>3. ASSUME NEW t \in Timers, Cancel(t)
      PROVE  UNCHANGED <<tick, Deadlines, HandedOut>>
  BY <1>1, <1>3 DEF Cancel
<1>4. ASSUME NEW t \in Timers, NEW d \in Delays, AddTiming(t, d) PROVE Calendar!Next
  BY <1>4, AddTimingIsAdd DEF Calendar!Next
<1>5. ASSUME NEW k \in Tickers, BeginTick(k)
      PROVE  UNCHANGED <<tick, Deadlines, HandedOut>>
  BY <1>1, <1>5 DEF BeginTick
<1>6. ASSUME NEW k \in Tickers, ProcessTick(k) PROVE Calendar!Next
  BY <1>6, ProcessTickIsAdvance DEF Calendar!Next
<1>7. ASSUME NEW k \in Tickers, EndTicking(k)
      PROVE  UNCHANGED <<tick, Deadlines, HandedOut>>
  BY <1>1, <1>7 DEF EndTicking
<1>8. ASSUME NEW k \in Tickers, ReadCancelFlag(k), Head(list[k]) \notin cancelled
      PROVE  UNCHANGED <<tick, Deadlines, HandedOut>>
  BY <1>1, <1>8, ReadToCall
<1>9. ASSUME NEW k \in Tickers,
             Call(k) \/ (ReadCancelFlag(k) /\ Head(list[k]) \in cancelled)
      PROVE  Calendar!Next \/ UNCHANGED <<tick, Deadlines, HandedOut>>
  BY <1>9, DroppedByTick, DropHeadIsFinish DEF Calendar!Next
<1>10. CASE UNCHANGED wheelVars
  BY <1>1, <1>10 DEF wheelVars
<1> QED
  BY <1>2, <1>3, <1>4, <1>5, <1>6, <1>7, <1>8, <1>9, <1>10 DEF WheelNext, TickStep

(* processTick, addNode and cascade hand a timer out at the tick AddTiming *)
(* gave it, not before, not after and once, for levels of any sizes.       *)
THEOREM WheelIsCalendar == WheelSpec => ImplementsCalendar
<1>1. WheelInit => Calendar!Init
  BY DEF WheelInit, Calendar!Init, InWheel, ToSet
<1>2. WheelInv /\ [WheelNext]_wheelVars
        => [Calendar!Next]_<<tick, {<<t, expire[t]>> : t \in InWheel},
                             UNION {ToSet(list[k]) : k \in Tickers}>>
  BY WheelStepsCalendar DEF Deadlines, HandedOut
<1> QED
  BY <1>1, <1>2, WheelInvInit, WheelStep, PTL DEF WheelSpec, ImplementsCalendar, Calendar!Spec
===============================================================================

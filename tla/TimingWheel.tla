----------------------------- MODULE TimingWheel -----------------------------
(***************************************************************************)
(* TimingWheel: three levels of buckets, turned by whichever thread wins   *)
(* mbTicking.  AddTiming and each turn of one tick hold mLock; the         *)
(* callbacks of a Tick run after mbTicking has been given back, so a       *)
(* second thread may turn the wheel meanwhile.  A bucket is the set of its *)
(* timers: it leaves the order of the timers of one tick, which no caller  *)
(* is promised, open.                                                      *)
(*                                                                         *)
(* A Tick that loses mbTicking, or finds less than an interval elapsed,    *)
(* changes nothing and is not an action; neither is AddTiming with a delay *)
(* of 0, which calls the callback and touches no shared state.             *)
(***************************************************************************)
EXTENDS Integers, Sequences, SequencesExt, FiniteSetsExt

CONSTANTS
  Timers,         \* the timers that are ever added
  Tickers,        \* threads that call Tick
  Size0, Size1, Size2,  \* LEVEL0_SIZE, LEVEL1_SIZE, LEVEL2_SIZE
  TickIntervalMs, \* mTickIntervalMs
  Delays,         \* the delays callers ask for, in ms
  MaxNow,         \* bound: the steady clock stops here
  NoTick          \* a timer that has not been added has no expire tick

ASSUME WheelAssumption ==
  /\ IsFiniteSet(Timers)
  /\ NoTick \notin Nat
  /\ Size0 \in Nat \ {0} /\ Size1 \in Nat \ {0} /\ Size2 \in Nat \ {0}
  /\ TickIntervalMs \in Nat \ {0}
  /\ Delays \subseteq Nat \ {0}
  /\ MaxNow \in Nat

VARIABLES
  now,        \* steady_clock, in ms
  ticking,    \* mbTicking
  tick,       \* mCurrentTick
  lastTime,   \* mLastTickTime
  wheel,      \* wheel[l][b]: the timers in bucket b of level l
  expire,     \* expire[t]: mExpireTick of its node
  cancelled,  \* timers whose cancel flag is set
  rounds,     \* rounds[k]: iterations left in the Tick of k
  list,       \* list[k]: executeList of k
  stage,      \* "idle", "turn", "execute", "call"
  ran         \* history: timers whose callback was called

wheelVars == <<now, ticking, tick, lastTime, wheel, expire, cancelled, rounds,
               list, stage, ran>>

Size(l) == CASE l = 0 -> Size0 [] l = 1 -> Size1 [] l = 2 -> Size2

WheelInit ==
  /\ now = 0
  /\ ticking = FALSE
  /\ tick = 0
  /\ lastTime = 0
  /\ wheel = [l \in 0..2 |-> [b \in 0..(Size(l) - 1) |-> {}]]
  /\ expire = [t \in Timers |-> NoTick]
  /\ cancelled = {}
  /\ rounds = [k \in Tickers |-> 0]
  /\ list = [k \in Tickers |-> << >>]
  /\ stage = [k \in Tickers |-> "idle"]
  /\ ran = {}

GetMaxDelayMs == TickIntervalMs * Size0 * Size1 * Size2

-----------------------------------------------------------------------------
(* addNode: the level is chosen by the distance to the expire tick, the    *)
(* bucket by the expire tick's own digits.                                 *)

(* The digit of tick e that level l turns on.                              *)
Depth(l, e) == CASE l = 0 -> e % Size0
                 [] l = 1 -> (e \div Size0) % Size1
                 [] l = 2 -> (e \div (Size0 * Size1)) % Size2

(* Wrong on purpose: the first level takes one tick too many.              *)
LevelOffByOne(delay) == IF delay <= Size0 THEN 0
                        ELSE IF delay < Size0 * Size1 THEN 1 ELSE 2

Level(delay) == IF delay < Size0 THEN 0
                ELSE IF delay < Size0 * Size1 THEN 1 ELSE 2

AddNode(w, t, e) ==
  LET l == Level(e - tick) IN [w EXCEPT ![l][Depth(l, e)] = @ \cup {t}]

(* cascade takes all nodes out of the bucket and adds each of them again.  *)
Cascade(w, l) ==
  LET moved    == w[l][Depth(l, tick)]
      To(m, b) == {t \in moved : Level(expire[t] - tick) = m /\ Depth(m, expire[t]) = b}
  IN [m \in 0..2 |-> [b \in 0..(Size(m) - 1) |->
       IF m = l /\ b = Depth(l, tick) THEN To(m, b) ELSE w[m][b] \cup To(m, b)]]

Cascaded ==
  IF Depth(0, tick) # 0 \/ tick = 0 THEN wheel
  ELSE IF Depth(1, tick) # 0 THEN Cascade(wheel, 1)
  ELSE Cascade(Cascade(wheel, 1), 2)

-----------------------------------------------------------------------------
TimePasses ==
  /\ now < MaxNow
  /\ now' = now + 1
  /\ UNCHANGED <<ticking, tick, lastTime, wheel, expire, cancelled, rounds,
                 list, stage, ran>>

(* The bound keeps every expire tick within the life of the clock, which a *)
(* wheel that drifts behind it would not reach.                            *)
AddTiming(t, delayMs) ==
  LET e == tick + Min({delayMs, GetMaxDelayMs}) \div TickIntervalMs IN
  /\ expire[t] = NoTick
  /\ e < MaxNow \div TickIntervalMs
  /\ expire' = [expire EXCEPT ![t] = e]
  /\ wheel' = AddNode(wheel, t, e)
  /\ UNCHANGED <<now, ticking, tick, lastTime, cancelled, rounds, list, stage, ran>>

Cancel(t) ==
  /\ expire[t] # NoTick
  /\ t \notin cancelled
  /\ cancelled' = cancelled \cup {t}
  /\ UNCHANGED <<now, ticking, tick, lastTime, wheel, expire, rounds, list,
                 stage, ran>>

(* Wrong on purpose: the remainder of the elapsed time is thrown away.     *)
BeginTickDrifting(k) ==
  LET elapsed == now - lastTime IN
  /\ stage[k] = "idle"
  /\ ~ticking
  /\ elapsed >= TickIntervalMs
  /\ ticking' = TRUE
  /\ lastTime' = now
  /\ rounds' = [rounds EXCEPT ![k] = elapsed \div TickIntervalMs]
  /\ stage' = [stage EXCEPT ![k] = "turn"]
  /\ UNCHANGED <<now, tick, wheel, expire, cancelled, list, ran>>

(* Tick up to the loop: mbTicking, the elapsed time, the number of ticks.  *)
BeginTick(k) ==
  LET count == (now - lastTime) \div TickIntervalMs IN
  /\ stage[k] = "idle"
  /\ ~ticking
  /\ now - lastTime >= TickIntervalMs
  /\ ticking' = TRUE
  /\ lastTime' = lastTime + count * TickIntervalMs
  /\ rounds' = [rounds EXCEPT ![k] = count]
  /\ stage' = [stage EXCEPT ![k] = "turn"]
  /\ UNCHANGED <<now, tick, wheel, expire, cancelled, list, ran>>

(* One iteration of the loop: processTick and ++mCurrentTick.              *)
ProcessTick(k) ==
  LET w == Cascaded IN
  /\ stage[k] = "turn"
  /\ rounds[k] > 0
  /\ rounds' = [rounds EXCEPT ![k] = @ - 1]
  /\ tick' = tick + 1
  /\ \E s \in SetToSeqs(w[0][Depth(0, tick)]) : list' = [list EXCEPT ![k] = @ \o s]
  /\ wheel' = [w EXCEPT ![0][Depth(0, tick)] = {}]
  /\ UNCHANGED <<now, ticking, lastTime, expire, cancelled, stage, ran>>

EndTicking(k) ==
  /\ stage[k] = "turn"
  /\ rounds[k] = 0
  /\ ticking' = FALSE
  /\ stage' = [stage EXCEPT ![k] = IF list[k] = << >> THEN "idle" ELSE "execute"]
  /\ UNCHANGED <<now, tick, lastTime, wheel, expire, cancelled, rounds, list, ran>>

DropHead(k) ==
  /\ list' = [list EXCEPT ![k] = Tail(@)]
  /\ stage' = [stage EXCEPT ![k] = IF Len(list[k]) = 1 THEN "idle" ELSE "execute"]

(* Wrong on purpose: the cancel flag is not read.                          *)
ReadNothing(k) ==
  /\ stage[k] = "execute"
  /\ stage' = [stage EXCEPT ![k] = "call"]
  /\ UNCHANGED <<now, ticking, tick, lastTime, wheel, expire, cancelled,
                 rounds, list, ran>>

(* TimingNode::Execute reads the cancel flag, then calls the callback.     *)
ReadCancelFlag(k) ==
  /\ stage[k] = "execute"
  /\ IF Head(list[k]) \in cancelled
       THEN DropHead(k)
       ELSE stage' = [stage EXCEPT ![k] = "call"] /\ UNCHANGED list
  /\ UNCHANGED <<now, ticking, tick, lastTime, wheel, expire, cancelled,
                 rounds, ran>>

Call(k) ==
  /\ stage[k] = "call"
  /\ ran' = ran \cup {Head(list[k])}
  /\ DropHead(k)
  /\ UNCHANGED <<now, ticking, tick, lastTime, wheel, expire, cancelled, rounds>>

-----------------------------------------------------------------------------
TickStep(k) == \/ BeginTick(k)      \/ ProcessTick(k) \/ EndTicking(k)
               \/ ReadCancelFlag(k) \/ Call(k)

WheelNext == \/ TimePasses
             \/ \E t \in Timers : Cancel(t) \/ \E d \in Delays : AddTiming(t, d)
             \/ \E k \in Tickers : TickStep(k)

WheelSpec == WheelInit /\ [][WheelNext]_wheelVars

(* Time passes, every dispatcher calls Tick again and again and runs the   *)
(* list it took.                                                           *)
FairWheelSpec == /\ WheelSpec
                 /\ WF_wheelVars(TimePasses)
                 /\ \A k \in Tickers : WF_wheelVars(TickStep(k))

-----------------------------------------------------------------------------
(* Properties.                                                             *)

(* Every variable has its type; the wheel never runs ahead of the clock.   *)
WheelTypeOK ==
  /\ now \in 0..MaxNow /\ tick \in Nat /\ lastTime \in 0..now
  /\ ticking \in BOOLEAN
  /\ \A l \in 0..2 : wheel[l] \in [0..(Size(l) - 1) -> SUBSET Timers]
  /\ expire \in [Timers -> Nat \cup {NoTick}]
  /\ cancelled \subseteq Timers /\ ran \subseteq Timers
  /\ rounds \in [Tickers -> Nat]
  /\ list \in [Tickers -> Seq(Timers)]
  /\ stage \in [Tickers -> {"idle", "turn", "execute", "call"}]

InWheel ==
  {t \in Timers : \E l \in 0..2 : \E b \in 0..(Size(l) - 1) : t \in wheel[l][b]}

(* A thread has found the flag of t down and is about to call its          *)
(* callback.                                                               *)
FlagRead(t) == \E k \in Tickers : stage[k] = "call" /\ Head(list[k]) = t

(* A timer cancelled before the thread that runs it has read its flag is   *)
(* never run: in the wheel, on its way through a cascade, or already taken *)
(* out with the list of a Tick that is running the timers before it.       *)
CancelIsFinal ==
  \A t \in Timers :
    [](t \in cancelled /\ t \notin ran /\ ~FlagRead(t) => [](t \notin ran))

(* Every timer is run or cancelled.                                        *)
TimersFire ==
  \A t \in Timers : (expire[t] # NoTick) ~> (t \in ran \/ t \in cancelled)

(* For all the levels and cascades a timer is handed out at its expire     *)
(* tick, neither skipped nor late, nor twice.                              *)
Calendar == INSTANCE TimerCalendar
              WITH clock   <- tick,
                   pending <- {<<t, expire[t]>> : t \in InWheel},
                   out     <- UNION {ToSet(list[k]) : k \in Tickers}

ImplementsCalendar == Calendar!Spec
=============================================================================

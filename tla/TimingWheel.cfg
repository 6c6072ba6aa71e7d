SPECIFICATION FairWheelSpec
CONSTANTS
  Timers = {t1, t2}
  Tickers = {k1, k2}
  Size0 = 2
  Size1 = 2
  Size2 = 2
  TickIntervalMs = 2
  Delays = {5,18}
  MaxNow = 18
  NoTick = NoTick
CHECK_DEADLOCK FALSE
PROPERTIES
  ImplementsCalendar
  CancelIsFinal
  TimersFire

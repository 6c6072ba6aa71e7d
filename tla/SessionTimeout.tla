---------------------------- MODULE SessionTimeout ----------------------------
(***************************************************************************)
(* When SessionReaper takes a session for idle.  SessionTimeoutTracker     *)
(* keeps the time of the last activity to about a second; a look of the    *)
(* reaper compares it with the clock, and is repeated after the timeout    *)
(* for as long as the session is not expired.  Times are milliseconds of a *)
(* clock that never goes back.                                             *)
(***************************************************************************)
EXTENDS Integers

ONE_SECOND_MS == 1000

(* A packet at now.  The clock is read again, at later, for the new value. *)
UpdateActivity(last, now, later) ==
  IF now - last > ONE_SECOND_MS THEN later ELSE last

isExpired(timeout, last, now) == now - last > timeout
===============================================================================

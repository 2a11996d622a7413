---------------------------- MODULE IdleShutdown ----------------------------
(***************************************************************************)
(* scripts/serve_with_idle_shutdown.py: the main thread watches the file   *)
(* that requests touch in the server's thread, asks the server to stop     *)
(* when it is old enough, and waits five seconds for it.                   *)
(*                                                                         *)
(* Time goes in half seconds, the interval of the check.  A touch writes   *)
(* the time without its fraction, and truncates the file before it writes. *)
(***************************************************************************)
EXTENDS Naturals

CONSTANT MaxAge     \* ages are counted up to MaxAge

\* A time is half a second old as soon as it is written: the bound tells it from no time at all.
ASSUME AgeAssumption == MaxAge \in Nat \ {0}

VARIABLES server,      \* "down", "up", or asked to stop: "idle" by the check, "signalled" otherwise
          idleTicks,   \* --idle-seconds, in half seconds; 0: never
          half,        \* the fraction of the current second, in half seconds
          stamp,       \* the age of the time in the file; Empty: it holds none, or is missing
          quiet,       \* the time since the last request, or since the start
          touching,    \* a request has truncated the file
          checker,     \* the main thread "sleeps", has "read" the file, or is about to stop the server: "stops"
          read,        \* the age of the time it read, until it has compared it; Empty: it read none
          lull         \* for the properties: quiet when it read, and the time from there until it compared

Empty == MaxAge + 1

fileVars == <<half, stamp, quiet, touching>>
checkVars == <<checker, read, lull>>
idleVars == <<server, idleTicks, fileVars, checkVars>>

Sleeps == checker' = "sleeps" /\ read' = Empty /\ lull' = 0

IdleInit(idle) ==
  /\ server = "down" /\ idleTicks = idle
  /\ half = 0 /\ stamp = Empty /\ quiet = 0 /\ touching = FALSE
  /\ checker = "sleeps" /\ read = Empty /\ lull = 0

Stopping == server \in {"idle", "signalled"}
Older(age) == IF age \in {MaxAge, Empty} THEN age ELSE age + 1

\* utc_now_iso drops the fraction: the time is half a second old as soon as it is written.
Now == half

ServerStarts ==
  /\ server = "down" /\ server' = "up"
  /\ stamp' = Now /\ quiet' = 0 /\ touching' = FALSE /\ Sleeps
  /\ UNCHANGED <<idleTicks, half>>

Ticks ==
  /\ server # "down" /\ idleTicks > 0
  /\ half' = 1 - half /\ stamp' = Older(stamp) /\ quiet' = Older(quiet)
  /\ read' = Older(read) /\ lull' = IF checker = "read" THEN Older(lull) ELSE lull
  /\ UNCHANGED <<server, idleTicks, touching, checker>>

\* The middleware touches the file before the application sees the request; a server that was asked to
\* stop still takes what came before it looks.
RequestTruncates ==
  /\ server # "down" /\ ~touching
  /\ touching' = TRUE /\ stamp' = Empty /\ quiet' = 0
  /\ UNCHANGED <<server, idleTicks, half, checkVars>>

RequestStamps ==
  /\ touching /\ touching' = FALSE /\ stamp' = Now
  /\ UNCHANGED <<server, idleTicks, half, quiet, checkVars>>

\* The loop's main thread shares no lock with the server's: requests come between any two of these steps.
CheckReads ==
  /\ server = "up" /\ idleTicks > 0 /\ checker = "sleeps"
  /\ checker' = "read" /\ read' = stamp /\ lull' = quiet
  /\ UNCHANGED <<server, idleTicks, fileVars>>

\* Bug form: a file that holds no time counts as old.
SecondsSinceTouch_OldIfEmpty == IF read = Empty THEN MaxAge ELSE read
SecondsSinceTouch == IF read = Empty THEN 0 ELSE read

\* Bug form: the check looks for the exact second.
IsIdle_Exactly == SecondsSinceTouch = idleTicks
IsIdle == SecondsSinceTouch >= idleTicks

CheckCompares ==
  /\ server = "up" /\ checker = "read"
  /\ IF IsIdle THEN checker' = "stops" /\ read' = Empty /\ UNCHANGED lull ELSE Sleeps
  /\ UNCHANGED <<server, idleTicks, fileVars>>

CheckStops ==
  /\ server = "up" /\ checker = "stops"
  /\ server' = "idle" /\ Sleeps
  /\ UNCHANGED <<idleTicks, fileVars>>

Check == CheckReads \/ CheckCompares \/ CheckStops

\* SIGTERM or SIGINT, or the end of the server's thread: what is left of a check changes nothing then.
Signal ==
  /\ server = "up" /\ server' = "signalled" /\ Sleeps
  /\ UNCHANGED <<idleTicks, fileVars>>

\* The main thread is done: the server's thread has ended, its five seconds are over, or the process is killed.
Leaves ==
  /\ server' = "down" /\ touching' = FALSE /\ Sleeps
  /\ UNCHANGED <<idleTicks, half, stamp, quiet>>

----------------------------------------------------------------------------
\* The check stops a server only when an idle period is set and had passed without a request when the
\* check read the file, up to its comparison and but for the fraction of a second the file drops; also
\* while a request rewrites the file.  A request that comes after the read is not seen: the server is
\* then asked to stop just after it (scripts/serve_with_idle_shutdown.py:41-50 and 94-95).
StopsOnlyWhenIdle ==
  [][server = "up" /\ server' = "idle" => idleTicks > 0 /\ lull + 1 >= idleTicks]_idleVars

\* A server with an idle period that gets no more requests stops: "Start runtime with idle
\* auto-shutdown" (README.md:143).
IdleServersStop == (server = "up" /\ idleTicks > 0 /\ quiet > 0) ~> (server # "up" \/ quiet = 0)
=============================================================================

---------------------------- MODULE Reconnection ----------------------------
(***************************************************************************)
(* What Controller::start, Controller::stop and the callback that calls    *)
(* them promise together, however many threads of the application and of   *)
(* the timers run them: a service that starts, runs, stops when a link is  *)
(* lost and starts again.  It creates threads only while it starts, runs   *)
(* with all of them, joins them only while it stops, and announces the     *)
(* next start when none is left.  Only SIGPIPE ends it.                    *)
(***************************************************************************)
CONSTANTS
  Thread,           \* the threads that start() creates
  PipeKills         \* SIGPIPE has its default action

VARIABLES
  phase,            \* "starting", "running", "stopping", "due" or "killed"
  threads           \* the threads created and not joined

vars == <<phase, threads>>

Init == phase = "starting" /\ threads = {}

\* The last thread that is created completes the start.
Launch ==
  /\ phase = "starting"
  /\ \E t \in Thread \ threads : threads' = threads \union {t}
  /\ phase' = IF threads' = Thread THEN "running" ELSE "starting"

Lose == phase = "running" /\ phase' = "stopping" /\ UNCHANGED threads

\* SIGPIPE: some thread is sending.
Kill ==
  /\ PipeKills
  /\ phase \in {"starting", "running", "stopping"} /\ threads # {}
  /\ phase' = "killed"

Join ==
  /\ phase = "stopping"
  /\ \E t \in threads : threads' = threads \ {t}
  /\ UNCHANGED phase \/ Kill

Schedule == phase = "stopping" /\ threads = {} /\ phase' = "due" /\ UNCHANGED threads

Awake == phase = "due" /\ phase' = "starting" /\ UNCHANGED threads

Next == Launch \/ Lose \/ Join \/ Schedule \/ Awake \/ (Kill /\ UNCHANGED threads)

Spec == Init /\ [][Next]_vars

=============================================================================

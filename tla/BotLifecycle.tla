----------------------------- MODULE BotLifecycle -----------------------------
(***************************************************************************)
(* The process from its start to its end: the handlers and the dashboard,  *)
(* and the shutdown with its limits (twitch-1337/src/main.rs,              *)
(* core/src/lib.rs, twitch/handlers/spawn.rs, twitch/announce.rs).  The    *)
(* migrations of the start are in SettingsStore.                           *)
(***************************************************************************)
EXTENDS Integers, FiniteSets

CONSTANTS
  Handlers,    \* the tasks whose end ends the process
  HasWeb,      \* config.web.enabled
  MaxBoots     \* bound: starts of the process

ASSUME LifecycleAssumption == "sched" \in Handlers /\ HasWeb \in BOOLEAN

VARIABLES
  stage,      \* where the process is in its life
  alive,      \* HandlerSet: the handlers that run
  web_task,   \* the dashboard's task
  signalled,  \* Ctrl+C was pressed, the oneshot sent
  outcome,    \* ShutdownOutcome: Graceful, or the handler that ended
  exit,       \* history: how the process last ended
  boots

lifecycleVars == <<stage, alive, web_task, signalled, outcome, exit, boots>>

Gone(how) ==
  /\ alive' = {} /\ web_task' = "none" /\ signalled' = FALSE
  /\ outcome' = "none" /\ exit' = how
  /\ stage' = "down"

LifecycleInit ==
  /\ stage = "down" /\ alive = {} /\ web_task = "none"
  /\ signalled = FALSE /\ outcome = "none" /\ exit = "none"
  /\ boots = 0

-----------------------------------------------------------------------------
(* The start *)

\* The settings, the connection to chat, the dashboard's port.
main ==
  /\ stage = "down" /\ boots < MaxBoots
  /\ boots' = boots + 1
  /\ stage' = "connecting"
  /\ UNCHANGED <<alive, web_task, signalled, outcome, exit>>

\* From here on Ctrl+C does not kill the process.
run_bot ==
  /\ stage = "connecting" /\ stage' = "starting"
  /\ UNCHANGED <<alive, web_task, signalled, outcome, exit, boots>>

\* Without the settings of the dashboard there is none.
WebSpawned == IF HasWeb THEN "starting" ELSE "none"

\* The handlers first, then the dashboard on the port bound before.
spawn_handlers ==
  /\ stage = "starting"
  /\ alive' = Handlers
  /\ web_task' = WebSpawned
  /\ stage' = "greeting"
  /\ UNCHANGED <<signalled, outcome, exit, boots>>

announce_startup ==
  /\ stage = "greeting" /\ stage' = "running"
  /\ UNCHANGED <<alive, web_task, signalled, outcome, exit, boots>>

\* A step of the start that fails ends the process: settings that cannot be
\* opened, no connection within 30 s, a port in use.  It is killed by SIGTERM,
\* to which nothing listens, and by Ctrl+C while nothing does yet.
Die ==
  /\ stage # "down"
  /\ Gone("killed")
  /\ UNCHANGED boots

-----------------------------------------------------------------------------
(* Running *)

\* axum::serve waits for the notification from its first poll on.
run_web ==
  /\ web_task = "starting" /\ web_task' = "serving"
  /\ UNCHANGED <<stage, alive, signalled, outcome, exit, boots>>

\* Ctrl+C; the message waits for await_shutdown.
ctrl_c ==
  /\ stage \notin {"down", "connecting"} /\ ~signalled
  /\ signalled' = TRUE
  /\ UNCHANGED <<stage, alive, web_task, outcome, exit, boots>>

\* A handler returns or panics.
HandlerExits(h) ==
  /\ h \in alive /\ alive' = alive \ {h}
  /\ UNCHANGED <<stage, web_task, signalled, outcome, exit, boots>>

-----------------------------------------------------------------------------
(* The end *)

\* shutdown_notify reaches those that wait at that moment.
shutdown_notify == web_task' = IF web_task = "serving" THEN "draining" ELSE web_task

\* await_shutdown: the signal, or any handler that ended; select! takes any
\* that is ready.  Only the signal is passed on.
await_shutdown ==
  /\ stage = "running"
  /\ \/ /\ signalled
        /\ outcome' = "Graceful" /\ stage' = "awaiting sched"
        /\ shutdown_notify
     \/ \E h \in Handlers \ alive :
        /\ outcome' = h /\ stage' = "announcing"
        /\ UNCHANGED web_task
  /\ UNCHANGED <<alive, signalled, exit, boots>>

\* The orchestrator of the schedules ends, or five seconds do.
AwaitSched(ends) ==
  /\ stage = "awaiting sched"
  /\ stage' = "announcing"
  /\ alive' = IF ends THEN alive \ {"sched"} ELSE alive
  /\ UNCHANGED <<web_task, signalled, outcome, exit, boots>>

\* announce_shutdown or announce_crash, within two seconds or not at all.
Announce ==
  /\ stage = "announcing" /\ stage' = "awaiting web"
  /\ UNCHANGED <<alive, web_task, signalled, outcome, exit, boots>>

\* The requests in flight of the dashboard end, if they do.
WebDrained ==
  /\ web_task = "draining" /\ web_task' = "ended"
  /\ UNCHANGED <<stage, alive, signalled, outcome, exit, boots>>

\* Mutant: the dashboard is awaited without a limit.
WebPatience == web_task \in {"ended", "none"}

\* The dashboard's task, for five seconds at most.
WebAwaited == TRUE

AwaitWeb ==
  /\ stage = "awaiting web" /\ WebAwaited
  /\ stage' = "awaiting pings"
  /\ UNCHANGED <<alive, web_task, signalled, outcome, exit, boots>>

\* The ping actor ends when nobody can send to it, or half a second does; its
\* handle cannot be awaited again when it was what ended.  The runtime drops
\* whatever runs then.
AwaitPings ==
  /\ stage = "awaiting pings"
  /\ Gone(IF outcome = "pings" THEN "panic" ELSE "ok")
  /\ UNCHANGED boots

LifecycleEnd ==
  \/ await_shutdown \/ Announce \/ AwaitWeb \/ AwaitPings
  \/ \E ends \in BOOLEAN: AwaitSched(ends)

LifecycleNext ==
  \/ main \/ run_bot \/ spawn_handlers \/ announce_startup \/ Die
  \/ run_web \/ ctrl_c \/ WebDrained
  \/ \E h \in Handlers: HandlerExits(h)
  \/ LifecycleEnd

(* The start from run_bot on and the shutdown are one task, and each of    *)
(* its awaits has a limit; the requests of the dashboard need not end.     *)
LifecycleFairness ==
  /\ WF_lifecycleVars(spawn_handlers \/ announce_startup)
  /\ WF_lifecycleVars(LifecycleEnd)

LifecycleSpec == LifecycleInit /\ [][LifecycleNext]_lifecycleVars /\ LifecycleFairness

-----------------------------------------------------------------------------
(* Properties *)

(* A shutdown ends, and a handler that ended takes the process with it, at *)
(* whatever step of the start it came and whoever does not listen: the     *)
(* limits of the four awaits, the signal kept until it is awaited.         *)
ShutdownEnds ==
  /\ signalled ~> stage = "down"
  /\ (stage \in {"greeting", "running"} /\ alive # Handlers) ~> stage = "down"

=============================================================================

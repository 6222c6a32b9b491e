-------------------------------- MODULE Serve --------------------------------
(***************************************************************************)
(* BuildServeService of internal/cli/command.go, Service.Start and the     *)
(* Close it hands out: a service is assembled step by step, each step able *)
(* to fail and give back what the earlier ones took; it runs on a ticker   *)
(* and a listener until its context ends; then it is taken down while      *)
(* handlers, sub-tasks and episode recorders may still be at work.  An     *)
(* embedding program may assemble again in the same process.               *)
(***************************************************************************)
EXTENDS Naturals, Sequences, FiniteSets

CONSTANTS
  ServeTasks,    \* tasks in the scheduler
  Handlers,      \* requests that may be inside a handler
  MaxAssemblies  \* bound: assemblies in one process

ASSUME ServeAssumption == MaxAssemblies \in Nat

\* What can fail on the way, in the order of the code.  What lies between two of
\* them and cannot fail is part of the step before.
OpenSteps == <<"token", "stores", "curator", "logger", "sink", "sweep">>
PluginSteps == <<"trustlist", "plugins", "remote", "registry">>
RunnerSteps == <<"ledger", "model", "browser", "context">>
RecoverySteps == <<"listener", "bases", "checkpoints", "recover", "list", "reconcile">>
ServiceSteps == <<"service">>
Steps == OpenSteps \o PluginSteps \o RunnerSteps \o RecoverySteps \o ServiceSteps
At(s) == CHOOSE i \in 1 .. Len(Steps) : Steps[i] = s

Resources == {"store", "plugins", "browser", "listener"}
\* What a step takes when it succeeds.
Takes(s, c) == CASE s = "stores" -> {"store"}
                 [] s = "plugins" /\ c.plugins -> {"plugins"}
                 [] s = "browser" /\ c.browser -> {"browser"}
                 [] s = "listener" -> {"listener"}
                 [] OTHER -> {}

Work == ServeTasks \X {"task", "subtask"}
Closing == {"wait", "drain", "browser", "bus", "store"}

VARIABLES
  phase,     \* "down", "assembling", "built", "serving", Closing, "closed"
  step,      \* the next step of the assembly
  config,    \* whether plugins and the browser are configured
  held,      \* what this assembly holds
  attached,  \* the App has a loader
  mounted,   \* assemblies whose plugins are mounted
  assemblies,
  live,      \* the service's context has not ended
  ticker,    \* "off", "waiting", "ticking"
  accepts,   \* the HTTP server takes requests
  inside,    \* handlers that have not returned
  work,      \* of the coordinator's tasks and of their background sub-tasks
  episode    \* of the recorders they leave behind

assemblyVars == <<step, config, held, attached, mounted, assemblies>>
runVars == <<live, ticker, accepts, inside, work, episode>>
serveVars == <<phase, assemblyVars, runVars>>

Off == [w \in Work |-> "none"]

ServeInit ==
  /\ phase = "down" /\ step = 1 /\ config = [plugins |-> FALSE, browser |-> FALSE]
  /\ held = {} /\ attached = FALSE /\ mounted = {} /\ assemblies = 0
  /\ live = TRUE /\ ticker = "off" /\ accepts = FALSE /\ inside = {}
  /\ work = Off /\ episode = Off

-----------------------------------------------------------------------------
(* Assembly.                                                               *)

BuildServeService ==
  /\ phase \in {"down", "closed"} /\ assemblies < MaxAssemblies
  /\ phase' = "assembling" /\ step' = 1 /\ assemblies' = assemblies + 1
  /\ config' \in [plugins : BOOLEAN, browser : BOOLEAN]
  /\ live' = TRUE /\ held' = {}
  /\ work' = [w \in Work |-> IF work[w] = "running" THEN "running" ELSE "none"]
  /\ UNCHANGED <<attached, mounted, ticker, accepts, inside, episode>>

\* The gate lets a convergence through only with no run under way; a background
\* sub-task outlives its task and may keep it shut until the wait is over.
Busy == \E w \in Work : work[w] = "running"

\* One loader at a time; what a loader mounts is gone only when it is drained.
SetPlugins == ~attached /\ attached' = TRUE
ClearPlugins == attached' = FALSE

drainPlugins ==
  \/ ~attached /\ UNCHANGED <<attached, mounted>>
  \/ attached /\ ~Busy /\ mounted' = {} /\ ClearPlugins
  \/ attached /\ UNCHANGED <<attached, mounted>>

\* Nothing is mounted up to the plugins' own failure, and the listener is open
\* from its step on.  The browser is given back by Close alone.
GivenBack(s) == {"store"} \cup IF At(s) > At("listener") THEN {"listener"} ELSE {}

StepDone ==
  LET s == Steps[step] IN
  /\ phase = "assembling"
  /\ s = "remote" /\ ~config.plugins => ~attached
  /\ held' = held \cup Takes(s, config)
  /\ IF s = "plugins" /\ config.plugins
       THEN SetPlugins /\ mounted' = mounted \cup {assemblies}
       ELSE UNCHANGED <<attached, mounted>>
  /\ IF step = Len(Steps) THEN phase' = "built" /\ step' = 1 ELSE step' = step + 1 /\ UNCHANGED phase
  /\ UNCHANGED <<config, assemblies, runVars>>

\* A second loader is refused, and one this assembly did not build; every other step may fail by itself.
StepFails ==
  LET s == Steps[step] IN
  /\ phase = "assembling"
  /\ IF At(s) > At("plugins") THEN drainPlugins ELSE UNCHANGED <<attached, mounted>>
  /\ held' = (IF attached' THEN held ELSE held \ {"plugins"}) \ GivenBack(s)
  /\ phase' = "down" /\ step' = 1
  /\ UNCHANGED <<config, assemblies, runVars>>

-----------------------------------------------------------------------------
(* The service runs.                                                       *)

\* Start returns at once if its context has ended already.
Start ==
  /\ phase = "built"
  /\ IF live THEN phase' = "serving" /\ ticker' = "waiting" /\ accepts' = TRUE
             ELSE phase' = "wait" /\ UNCHANGED <<ticker, accepts>>
  /\ UNCHANGED <<assemblyVars, live, inside, work, episode>>

CancelContext ==
  /\ phase \in {"built", "serving"} /\ live /\ live' = FALSE
  /\ UNCHANGED <<phase, assemblyVars, ticker, accepts, inside, work, episode>>

TickStart ==
  /\ ticker = "waiting" /\ live /\ ticker' = "ticking"
  /\ UNCHANGED <<phase, assemblyVars, live, accepts, inside, work, episode>>
TickEnd ==
  /\ ticker = "ticking" /\ ticker' = "waiting"
  /\ \A t \in ServeTasks : work[<<t, "task">>] # "assigned"
  /\ UNCHANGED <<phase, assemblyVars, live, accepts, inside, work, episode>>
TickerStops ==
  /\ ticker = "waiting" /\ ~live /\ ticker' = "off"
  /\ UNCHANGED <<phase, assemblyVars, live, accepts, inside, work, episode>>

\* The heartbeat takes a task, if the context has not ended, and then hands it to
\* a goroutine that Wait counts from here on.
NextTask(t) ==
  /\ ticker = "ticking" /\ live /\ work[<<t, "task">>] = "none"
  /\ \A u \in ServeTasks : work[<<u, "task">>] # "assigned"
  /\ work' = [work EXCEPT ![<<t, "task">>] = "assigned"]
  /\ UNCHANGED <<phase, assemblyVars, live, ticker, accepts, inside, episode>>
Dispatch(t) ==
  /\ ticker = "ticking" /\ work[<<t, "task">>] = "assigned"
  /\ work' = [work EXCEPT ![<<t, "task">>] = "running"]
  /\ UNCHANGED <<phase, assemblyVars, live, ticker, accepts, inside, episode>>

\* A background sub-task does without its parent's context.
Delegate(t) ==
  /\ work[<<t, "task">>] = "running" /\ work[<<t, "subtask">>] = "none"
  /\ work' = [work EXCEPT ![<<t, "subtask">>] = "running"]
  /\ UNCHANGED <<phase, assemblyVars, live, ticker, accepts, inside, episode>>

\* A run ends and leaves a recorder to distil it.
WorkEnds(w) ==
  /\ work[w] = "running"
  /\ work' = [work EXCEPT ![w] = "done"]
  /\ episode' = [episode EXCEPT ![w] = "running"]
  /\ UNCHANGED <<phase, assemblyVars, live, ticker, accepts, inside>>
RecordEpisode(w) ==
  /\ episode[w] = "running" /\ episode' = [episode EXCEPT ![w] = "none"]
  /\ UNCHANGED <<phase, assemblyVars, live, ticker, accepts, inside, work>>

HandlerEnters(h) ==
  /\ accepts /\ h \notin inside /\ inside' = inside \cup {h}
  /\ UNCHANGED <<phase, assemblyVars, live, ticker, accepts, work, episode>>
HandlerReturns(h) ==
  /\ h \in inside /\ inside' = inside \ {h}
  /\ UNCHANGED <<phase, assemblyVars, live, ticker, accepts, work, episode>>

\* A slip of shutdownHTTPServer: it is given the requests' own time, without end.
Bug_shutdownHTTPServer ==
  /\ accepts /\ ~live /\ inside = {} /\ accepts' = FALSE
  /\ held' = held \ {"listener"}
  /\ UNCHANGED <<phase, step, config, attached, mounted, assemblies, live, ticker, inside, work, episode>>
\* Shutdown makes Serve return at once, handlers inside or not.
shutdownHTTPServer ==
  /\ accepts /\ ~live /\ accepts' = FALSE
  /\ held' = held \ {"listener"}
  /\ UNCHANGED <<phase, step, config, attached, mounted, assemblies, live, ticker, inside, work, episode>>

-----------------------------------------------------------------------------
(* Close.                                                                  *)

\* Start has waited for the scheduler's goroutine and then for Serve.
StartReturns ==
  /\ phase = "serving" /\ ticker = "off" /\ ~accepts /\ phase' = "wait"
  /\ UNCHANGED <<assemblyVars, runVars>>

\* A slip of Close: it waits for nothing.
Bug_Wait ==
  /\ phase = "wait" /\ phase' = "drain"
  /\ UNCHANGED <<assemblyVars, runVars>>
\* The coordinator counts the goroutines of its tasks, and no others.
Wait ==
  /\ phase = "wait" /\ \A t \in ServeTasks : work[<<t, "task">>] # "running"
  /\ phase' = "drain"
  /\ UNCHANGED <<assemblyVars, runVars>>
Drain ==
  /\ phase = "drain" /\ drainPlugins /\ phase' = "browser"
  /\ held' = IF attached' THEN held ELSE held \ {"plugins"}
  /\ UNCHANGED <<step, config, assemblies, runVars>>
CloseBrowser ==
  /\ phase = "browser" /\ held' = held \ {"browser"} /\ phase' = "bus"
  /\ UNCHANGED <<step, config, attached, mounted, assemblies, runVars>>
CloseBus ==
  /\ phase = "bus" /\ phase' = "store"
  /\ UNCHANGED <<assemblyVars, runVars>>
CloseStore ==
  /\ phase = "store" /\ held' = held \ {"store"} /\ phase' = "closed"
  /\ UNCHANGED <<step, config, attached, mounted, assemblies, runVars>>

CloseNext == Wait \/ Drain \/ CloseBrowser \/ CloseBus \/ CloseStore

ServeNext ==
  \/ BuildServeService \/ StepDone \/ StepFails \/ Start \/ CancelContext
  \/ TickStart \/ TickEnd \/ TickerStops \/ shutdownHTTPServer \/ StartReturns \/ CloseNext
  \/ \E t \in ServeTasks : NextTask(t) \/ Dispatch(t) \/ Delegate(t)
  \/ \E w \in Work : WorkEnds(w) \/ RecordEpisode(w)
  \/ \E h \in Handlers : HandlerEnters(h) \/ HandlerReturns(h)

\* A goroutine that can go on does; a run whose context has ended, ends.
ServeFairness ==
  /\ WF_serveVars(StepDone \/ StepFails) /\ WF_serveVars(Start)
  /\ WF_serveVars(TickEnd) /\ (\A t \in ServeTasks : WF_serveVars(Dispatch(t))) /\ WF_serveVars(TickerStops)
  /\ WF_serveVars(shutdownHTTPServer) /\ WF_serveVars(StartReturns) /\ WF_serveVars(CloseNext)
  /\ \A t \in ServeTasks : WF_serveVars(~live /\ WorkEnds(<<t, "task">>))

ServeSpec == ServeInit /\ [][ServeNext]_serveVars /\ ServeFairness

-----------------------------------------------------------------------------
(* Properties.                                                             *)

ServeTypeOK ==
  /\ phase \in {"down", "assembling", "built", "serving", "closed"} \cup Closing
  /\ step \in 1 .. Len(Steps) /\ held \subseteq Resources
  /\ mounted \subseteq 1 .. MaxAssemblies
  /\ ticker \in {"off", "waiting", "ticking"} /\ inside \subseteq Handlers
  /\ work \in [Work -> {"none", "assigned", "running", "done"}] /\ episode \in [Work -> {"none", "running"}]

\* A failed assembly holds neither the store nor the port and a closed service no
\* store, so that the next assembly can have them.  (A service whose context ended
\* before Start keeps its port: Start returns before anyone would close it.)
CleanedUp ==
  /\ phase = "down" => held \cap {"store", "listener"} = {}
  /\ phase = "closed" => "store" \notin held

\* Plugins are never mounted by two loaders: a drain that failed keeps the App
\* taken, and the next assembly is refused instead of mounting beside what is left.
MountedOnce == Cardinality(mounted) <= 1 /\ (mounted # {} => attached)

\* While a task the coordinator dispatched runs, its store and its browser are
\* open, through every order in which ticker, server and Close come to an end.
TasksFinishFirst ==
  \A t \in ServeTasks : work[<<t, "task">>] = "running" =>
    "store" \in held /\ (config.browser => "browser" \in held)

\* Nothing is dispatched once Start has returned: the wait for the tasks never
\* meets a new one.
NoneAfterReturn ==
  [][(phase \in Closing) => (\A t \in ServeTasks : work'[<<t, "task">>] # "running" \/
                                                  work[<<t, "task">>] = "running")]_serveVars

\* A service whose context has ended is taken down, whatever was in progress.
ComesDown == (phase = "serving" /\ ~live) ~> (phase = "closed")

(* An assembly that failed and a service that closed let go of what they held,
   plugins have one loader, and the store and browser stay open while a
   dispatched task runs, with nothing dispatched once Start has returned. *)
ServeSafe ==
  /\ [](ServeTypeOK /\ CleanedUp /\ MountedOnce /\ TasksFinishFirst)
  /\ NoneAfterReturn
===============================================================================

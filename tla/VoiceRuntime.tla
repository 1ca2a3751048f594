---------------------------- MODULE VoiceRuntime ----------------------------
(***************************************************************************)
(* The module-side voice route: ModuleVoiceController and                  *)
(* ModuleVoiceRuntime (adb/runtime.py), one synchronous operation at a     *)
(* time (they run under run_exclusive and the lifecycle lock of the audio  *)
(* adapter), and the module they drive through ADB.                        *)
(*                                                                         *)
(* Every shell command is one step, since its script runs on the module in *)
(* one piece; the module changes by itself between two of them.  A command *)
(* may fail before it runs or lose its reply after it ran (audio_enable=1  *)
(* detaches ADB), at most MaxFaults times.                                 *)
(***************************************************************************)
EXTENDS Naturals, FiniteSets

CONSTANTS
  Modules,      \* the kernel modules of the manifest
  Protected,    \* _PROTECTED_RESIDENT_MODULES: never unloaded
  Polls,        \* bound on the polls of a starting helper (30)
  MaxFaults,    \* bound on failed commands and sessions
  MaxEvents,    \* bound on what the module does by itself: deaths, reuse, reboots
  MaxCrashes,   \* bound on gateway restarts
  MaxCancels    \* bound on cancelled starts

VARIABLES
  \* the gateway process
  op,           \* the method running: prepare_and_start, the cleanup of prepare,
                \* _best_effort_failed_start_cleanup or stop_and_cleanup
  pc,           \* its next command
  polls,        \* polls left of start_route
  expired,      \* time.monotonic() has passed the deadline
  should_restore, \* the local of stop_route
  caller,       \* the start_async task still awaits its thread
  started,      \* _module_runtime_started of the audio adapter
  prepared, loaded_here, route_started, active,
  \* the module
  helper,       \* the voice-route-session process
  marker,       \* what the pid in route_pid_file names
  stray,        \* a live helper whose pid is in no file
  running,      \* audio_enable = 1 and a PCM of the route RUNNING
  resident,     \* /proc/modules
  stale,        \* the helper was running before this start began
  faults, events, crashes, cancels

host     == <<started, prepared, loaded_here, route_started, active>>
control  == <<op, pc, polls, expired, should_restore, caller>>
process  == <<helper, marker, stray>>
module   == <<process, running, resident, stale>>
budgets  == <<faults, events, crashes, cancels>>
vars     == <<host, control, module, budgets>>

TypeOK ==
  /\ op \in {"none", "start", "clean", "giveup", "stop"}
  /\ pc \in {"idle", "open", "prepared?", "stage", "load", "calibrate", "unload",
             "route", "quiet", "launch", "await", "reopen", "ready?",
             "status", "term", "confirm", "unmark", "restore"}
  /\ polls \in 0 .. Polls
  /\ {expired, should_restore, caller, started, prepared, route_started, active} \subseteq BOOLEAN
  /\ loaded_here \subseteq Modules /\ resident \subseteq Modules
  /\ helper \in {"none", "starting", "running"}
  /\ marker \in {"none", "helper", "dead", "reused"}
  /\ {stray, running, stale} \subseteq BOOLEAN

Init ==
  /\ op = "none" /\ pc = "idle" /\ polls = 0
  /\ expired = FALSE /\ should_restore = FALSE /\ caller = FALSE
  /\ started = FALSE /\ prepared = FALSE /\ loaded_here = {}
  /\ route_started = FALSE /\ active = FALSE
  /\ helper = "none" /\ marker = "none" /\ stray = FALSE
  /\ running = FALSE /\ resident = {} /\ stale = FALSE
  /\ faults = 0 /\ events = 0 /\ crashes = 0 /\ cancels = 0

-----------------------------------------------------------------------------
(* What _route_status prints: the marker names the live helper, a helper   *)
(* with its PCM running, or another live process.                          *)
owned   == marker = "helper"
ready   == owned /\ helper = "running" /\ running
foreign == marker = "reused"

-----------------------------------------------------------------------------
(* How an operation ends.                                                  *)

Finish == op' = "none" /\ pc' = "idle" /\ UNCHANGED <<polls, expired, should_restore, caller>>

(* prepare_and_start returns; the flag of the adapter is set by its task,  *)
(* unless that was cancelled meanwhile.                                    *)
Started ==
  /\ route_started' = TRUE /\ active' = TRUE
  /\ started' = (started \/ caller)
  /\ UNCHANGED <<prepared, loaded_here>>
  /\ Finish

StartFails ==
  /\ active' = FALSE
  /\ UNCHANGED <<started, prepared, loaded_here, route_started>>
  /\ Finish

(* stop_and_cleanup raises: only active is reset.                          *)
StopFails == StartFails

(* cleanup of prepare raises or ends; a refused unload forgets what was    *)
(* loaded.                                                                 *)
CleanedUp(kept) ==
  /\ loaded_here' = kept /\ prepared' = FALSE /\ active' = FALSE
  /\ UNCHANGED <<started, route_started>>
  /\ Finish

Goto(label) == pc' = label /\ UNCHANGED <<op, expired, should_restore, caller>>

InStopRoute  == pc \in {"status", "term", "confirm", "unmark", "restore"}
InStartRoute == pc \in {"route", "quiet", "launch", "await"}
InPrepare    == pc \in {"stage", "load", "calibrate"}

(* The handler of an exception other than ForeignVoiceRouteError, by where *)
(* it was raised.                                                          *)
Raised ==
  \/ pc = "prepared?" /\ StartFails
  \/ /\ InPrepare
     /\ pc' = IF route_started THEN "status" ELSE "unload"
     /\ op' = IF route_started THEN "clean" ELSE op
     /\ UNCHANGED <<host, polls, expired, should_restore, caller>>
  \/ (pc = "unload" \/ (InStopRoute /\ op = "clean")) /\ CleanedUp({})
  \/ InStartRoute /\ route_started /\ Started
  \/ /\ (InStartRoute /\ ~route_started) \/ pc = "ready?" \/ (InStopRoute /\ op = "stop")
     /\ Goto("reopen") /\ UNCHANGED <<host, polls>>
  \/ InStopRoute /\ op = "giveup" /\ StartFails

(* ForeignVoiceRouteError is retried nowhere.                              *)
Foreign ==
  IF op = "clean" THEN CleanedUp({}) ELSE StartFails

(* A command that fails: it ran or it did not, and no reply came.          *)
Lost(effect) ==
  /\ faults < MaxFaults /\ faults' = faults + 1
  /\ effect \/ UNCHANGED module
  /\ Raised
  /\ UNCHANGED <<events, crashes, cancels>>

Quiet == UNCHANGED module
Replied == UNCHANGED budgets

-----------------------------------------------------------------------------
(* prepare_and_start                                                       *)

StartAsync ==
  /\ pc = "idle" /\ ~started
  /\ op' = "start" /\ pc' = "open" /\ expired' = FALSE /\ caller' = TRUE
  /\ stale' = (ready /\ ~route_started)
  /\ UNCHANGED <<host, polls, should_restore, process, running, resident, budgets>>

(* _open_until: after the deadline a failed open is raised.                *)
OpenUntil ==
  /\ pc = "open"
  /\ \/ /\ Goto(IF op = "start" THEN "prepared?" ELSE "status")
        /\ UNCHANGED <<host, polls, module, budgets>>
     \/ /\ expired /\ faults < MaxFaults /\ faults' = faults + 1
        /\ UNCHANGED host /\ Finish
        /\ UNCHANGED <<module, events, crashes, cancels>>

(* prepare on a prepared runtime only looks whether the devices are there. *)
CheckPrepared ==
  /\ pc = "prepared?"
  /\ \/ /\ ~prepared /\ Goto("stage") /\ UNCHANGED <<host, polls>> /\ Quiet /\ Replied
     \/ /\ prepared /\ Modules \subseteq resident
        /\ Goto("route") /\ UNCHANGED <<host, polls>> /\ Quiet /\ Replied
     \/ /\ prepared /\ ~(Modules \subseteq resident)
        /\ prepared' = FALSE /\ active' = FALSE
        /\ UNCHANGED <<started, loaded_here, route_started>>
        /\ Finish /\ Quiet /\ Replied
     \/ prepared /\ Lost(Quiet)

(* Root, kernel release, remote directory and the checked files.           *)
StageFiles ==
  /\ pc = "stage"
  /\ \/ /\ Goto(IF Modules \subseteq resident THEN "calibrate" ELSE "load")
        /\ UNCHANGED <<host, polls>> /\ Quiet /\ Replied
     \/ Lost(Quiet)

(* One insmod of _load_missing_modules; what is already loaded is skipped. *)
LoadModule ==
  /\ pc = "load"
  /\ \E m \in Modules \ resident :
       LET insmod == resident' = resident \cup {m} /\ UNCHANGED <<process, running, stale>>
       IN  \/ /\ insmod /\ Replied
             /\ loaded_here' = loaded_here \cup {m}
             /\ UNCHANGED <<started, prepared, route_started, active, polls>>
             /\ Goto(IF Modules \subseteq resident' THEN "calibrate" ELSE "load")
          \/ Lost(insmod)

(* The devices appeared, the ACDB calibration, the endpoints and the       *)
(* self-check of the helper; a module that rebooted meanwhile fails them.  *)
Calibrate ==
  /\ pc = "calibrate"
  /\ \/ /\ Modules \subseteq resident
        /\ prepared' = TRUE
        /\ UNCHANGED <<started, loaded_here, route_started, active, polls>>
        /\ Goto("route") /\ Quiet /\ Replied
     \/ /\ ~(Modules \subseteq resident) /\ Raised /\ Quiet /\ Replied
     \/ Lost(Quiet)

(* cleanup: nothing is unloaded beside a route process, protected modules  *)
(* never; what is not there any more cannot be unloaded, and a module      *)
(* whose rmmod is lost is taken for loaded.                                *)
Unload ==
  /\ pc = "unload"
  /\ \/ /\ loaded_here = {} \/ owned \/ foreign
        /\ CleanedUp({}) /\ Quiet /\ Replied
     \/ /\ loaded_here # {} /\ ~owned /\ ~foreign
        /\ LET gone == (loaded_here \ Protected) \cap resident
           IN  /\ CleanedUp(loaded_here \ gone)
               /\ resident' = resident \ gone
               /\ UNCHANGED <<process, running, stale>> /\ Replied
     \/ loaded_here # {} /\ Lost(Quiet)
     \/ /\ ~owned /\ ~foreign /\ faults < MaxFaults /\ faults' = faults + 1
        /\ \E m \in loaded_here \ Protected :
             LET gone == (loaded_here \ (Protected \cup {m})) \cap resident
             IN  /\ CleanedUp(loaded_here \ gone)
                 /\ resident' \in {resident \ gone, resident \ (gone \cup {m})}
        /\ UNCHANGED <<process, running, stale, events, crashes, cancels>>

-----------------------------------------------------------------------------
(* start_route                                                             *)

(* Mutant: a helper that is not ready yet is not recognised as owned.      *)
RouteStatusIgnoresOwner ==
  /\ pc = "route"
  /\ \/ /\ ready /\ ~route_started /\ Raised /\ Quiet /\ Replied
     \/ /\ ready /\ route_started /\ Started /\ Quiet /\ Replied
     \/ /\ ~ready /\ foreign /\ Foreign /\ Quiet /\ Replied
     \/ /\ ~ready /\ ~foreign
        /\ Goto("quiet") /\ polls' = Polls
        /\ UNCHANGED host /\ Quiet /\ Replied
     \/ Lost(Quiet)

RouteStatus ==
  /\ pc = "route"
  /\ \/ /\ ready /\ ~route_started /\ Raised /\ Quiet /\ Replied
     \/ /\ ready /\ route_started /\ Started /\ Quiet /\ Replied
     \/ /\ ~ready /\ foreign /\ Foreign /\ Quiet /\ Replied
     \/ /\ ~ready /\ ~foreign
        /\ Goto(IF owned THEN "await" ELSE "quiet") /\ polls' = Polls
        /\ UNCHANGED host /\ Quiet /\ Replied
     \/ Lost(Quiet)

SwitchOff == running' = FALSE /\ UNCHANGED <<process, resident, stale>>

(* _ensure_route_quiescent: rolls a route back that is still enabled.      *)
EnsureRouteQuiescent ==
  /\ pc = "quiet"
  /\ \/ /\ Goto("launch") /\ UNCHANGED <<host, polls>>
        /\ SwitchOff /\ Replied
     \/ Lost(SwitchOff)

(* The helper starts and its pid is written before the shell returns.      *)
LaunchHelper ==
  /\ helper' = "starting" /\ marker' = "helper"
  /\ stray' = (stray \/ helper # "none")
  /\ UNCHANGED <<running, resident, stale>>

Launch ==
  /\ pc = "launch"
  /\ \/ /\ LaunchHelper /\ Replied
        /\ Goto("await") /\ polls' = Polls /\ UNCHANGED host
     \/ Lost(LaunchHelper)

(* Mutant: a live helper is taken for a running route.                     *)
AwaitOwned ==
  /\ pc = "await"
  /\ \/ /\ owned /\ Started /\ Quiet /\ Replied
     \/ /\ foreign /\ Foreign /\ Quiet /\ Replied
     \/ /\ ~owned /\ ~foreign /\ polls > 0
        /\ polls' = polls - 1 /\ Goto("await") /\ UNCHANGED host /\ Quiet /\ Replied
     \/ /\ ~owned /\ ~foreign /\ polls = 0 /\ Raised /\ Quiet /\ Replied
     \/ Lost(Quiet)

AwaitRunning ==
  /\ pc = "await"
  /\ \/ /\ ready /\ Started /\ Quiet /\ Replied
     \/ /\ foreign /\ Foreign /\ Quiet /\ Replied
     \/ /\ ~ready /\ ~foreign /\ polls > 0
        /\ polls' = polls - 1 /\ Goto("await") /\ UNCHANGED host /\ Quiet /\ Replied
     \/ /\ ~ready /\ ~foreign /\ polls = 0 /\ Raised /\ Quiet /\ Replied
     \/ Lost(Quiet)

(* Mutant: the loop does not look at the clock.                            *)
ReopenForever ==
  /\ pc = "reopen"
  /\ \/ /\ Goto(IF op = "stop" THEN "status" ELSE "ready?")
        /\ UNCHANGED <<host, polls>> /\ Quiet /\ Replied

(* The loop after a launch that was not confirmed: until the deadline a    *)
(* fresh session asks whether the route is up.                             *)
Reopen ==
  /\ pc = "reopen"
  /\ \/ /\ ~expired
        /\ Goto(IF op = "stop" THEN "status" ELSE "ready?")
        /\ UNCHANGED <<host, polls>> /\ Quiet /\ Replied
     \/ /\ expired /\ op = "start"
        /\ op' = "giveup" /\ pc' = "open" /\ expired' = FALSE /\ active' = FALSE
        /\ UNCHANGED <<started, prepared, loaded_here, route_started, polls, should_restore, caller>>
        /\ Quiet /\ Replied
     \/ expired /\ op = "stop" /\ StopFails /\ Quiet /\ Replied

RouteReady ==
  /\ pc = "ready?"
  /\ \/ ready /\ Started /\ Quiet /\ Replied
     \/ foreign /\ UNCHANGED host /\ Finish /\ Quiet /\ Replied
     \/ /\ ~ready /\ ~foreign
        /\ Goto("reopen") /\ UNCHANGED <<host, polls>> /\ Quiet /\ Replied
     \/ Lost(Quiet)

-----------------------------------------------------------------------------
(* stop_and_cleanup and stop_route                                         *)

StopAsync ==
  /\ pc = "idle" /\ started
  /\ op' = "stop" /\ pc' = "reopen" /\ expired' = FALSE /\ caller' = TRUE
  /\ UNCHANGED <<host, polls, should_restore, module, budgets>>

(* stop_route returns to stop_and_cleanup, to the best-effort cleanup of a *)
(* failed start, or to the cleanup of prepare.                             *)
StopRouteReturns(restored) ==
  /\ route_started' = FALSE
  /\ prepared' = (prepared /\ ~restored)
  /\ UNCHANGED loaded_here
  /\ \/ /\ op = "clean" /\ Goto("unload") /\ UNCHANGED <<started, active, polls>>
     \/ /\ op # "clean" /\ active' = FALSE
        /\ started' = (started /\ ~(op = "stop" /\ caller))
        /\ Finish

(* Mutant: the route is rolled back only when its helper still lives.      *)
StopStatusOwnedOnly ==
  /\ pc = "status"
  /\ \/ foreign /\ Foreign /\ Quiet /\ Replied
     \/ /\ ~foreign
        /\ should_restore' = owned
        /\ pc' = IF owned THEN "term" ELSE "unmark"
        /\ UNCHANGED <<host, op, polls, expired, caller>> /\ Quiet /\ Replied
     \/ Lost(Quiet)

StopStatus ==
  /\ pc = "status"
  /\ \/ foreign /\ Foreign /\ Quiet /\ Replied
     \/ /\ ~foreign
        /\ should_restore' = (route_started \/ owned)
        /\ pc' = IF owned THEN "term" ELSE "unmark"
        /\ UNCHANGED <<host, op, polls, expired, caller>> /\ Quiet /\ Replied
     \/ Lost(Quiet)

(* _stop_owned_route: the pid is identified again before it gets the TERM; *)
(* a marker that names nobody is removed.                                  *)
Terminate ==
  /\ helper' = IF owned THEN "none" ELSE helper
  /\ marker' = IF owned THEN "dead" ELSE IF foreign THEN marker ELSE "none"
  /\ stale' = (stale /\ ~owned)
  /\ UNCHANGED <<stray, running, resident>>

StopOwnedRoute ==
  /\ pc = "term"
  /\ \/ /\ ~foreign /\ Terminate /\ Replied
        /\ Goto("confirm") /\ UNCHANGED <<host, polls>>
     \/ foreign /\ Raised /\ Quiet /\ Replied
     \/ Lost(Terminate)

ConfirmStopped ==
  /\ pc = "confirm"
  /\ \/ foreign /\ Foreign /\ Quiet /\ Replied
     \/ ~foreign /\ ~owned /\ Goto("unmark") /\ UNCHANGED <<host, polls>> /\ Quiet /\ Replied
     \/ Lost(Quiet)

RemoveMarker ==
  /\ marker' = "none" /\ stray' = (stray \/ owned)
  /\ UNCHANGED <<helper, running, resident, stale>>

Unmark ==
  /\ pc = "unmark"
  /\ \/ /\ should_restore /\ Goto("restore") /\ UNCHANGED <<host, polls>>
        /\ RemoveMarker /\ Replied
     \/ ~should_restore /\ StopRouteReturns(FALSE) /\ RemoveMarker /\ Replied
     \/ Lost(RemoveMarker)

RestoreVoiceRoute ==
  /\ pc = "restore"
  /\ \/ StopRouteReturns(TRUE) /\ SwitchOff /\ Replied
     \/ Lost(SwitchOff)

-----------------------------------------------------------------------------
(* The environment                                                         *)

Deadline ==
  /\ pc # "idle" /\ ~expired /\ expired' = TRUE
  /\ UNCHANGED <<host, op, pc, polls, should_restore, caller, module, budgets>>

(* The task awaiting the thread is cancelled; the thread runs on.          *)
CancelCaller ==
  /\ pc # "idle" /\ caller /\ cancels < MaxCancels
  /\ caller' = FALSE /\ cancels' = cancels + 1
  /\ UNCHANGED <<host, op, pc, polls, expired, should_restore, module, faults, events, crashes>>

HelperRuns ==
  /\ helper = "starting" /\ Modules \subseteq resident
  /\ helper' = "running" /\ running' = TRUE
  /\ UNCHANGED <<host, control, marker, stray, resident, stale, budgets>>

ModuleEvent(change) ==
  /\ events < MaxEvents /\ events' = events + 1 /\ change
  /\ UNCHANGED <<host, control, faults, crashes, cancels>>

(* The helper dies; its PCM may stay RUNNING.                              *)
HelperDies == ModuleEvent(
  /\ helper # "none" /\ helper' = "none" /\ stale' = FALSE
  /\ marker' = IF owned THEN "dead" ELSE marker
  /\ UNCHANGED <<stray, running, resident>>)

(* Another process gets the pid the marker names, or leaves it.            *)
PidReused == ModuleEvent(
  /\ marker \in {"dead", "reused"}
  /\ marker' = IF marker = "dead" THEN "reused" ELSE "dead"
  /\ UNCHANGED <<helper, stray, running, resident, stale>>)

ModuleReboots == ModuleEvent(
  /\ helper' = "none" /\ marker' = "none" /\ stray' = FALSE
  /\ running' = FALSE /\ resident' = {} /\ stale' = FALSE)

(* The gateway dies between two commands and comes back with a fresh       *)
(* runtime; the module keeps what it has.                                  *)
GatewayRestarts ==
  /\ crashes < MaxCrashes /\ crashes' = crashes + 1
  /\ op' = "none" /\ pc' = "idle" /\ polls' = 0
  /\ expired' = FALSE /\ should_restore' = FALSE /\ caller' = FALSE
  /\ started' = FALSE /\ prepared' = FALSE /\ loaded_here' = {}
  /\ route_started' = FALSE /\ active' = FALSE
  /\ UNCHANGED <<module, faults, events, cancels>>

Command ==
  \/ OpenUntil \/ CheckPrepared \/ StageFiles \/ LoadModule \/ Calibrate \/ Unload
  \/ RouteStatus \/ EnsureRouteQuiescent \/ Launch \/ AwaitRunning \/ Reopen \/ RouteReady
  \/ StopStatus \/ StopOwnedRoute \/ ConfirmStopped \/ Unmark \/ RestoreVoiceRoute

Next ==
  \/ StartAsync \/ StopAsync \/ Command
  \/ Deadline \/ CancelCaller
  \/ HelperRuns \/ HelperDies \/ PidReused \/ ModuleReboots \/ GatewayRestarts

Spec == Init /\ [][Next]_vars

(* The worker thread goes on, and time passes.                             *)
FairSpec == Spec /\ WF_vars(Command) /\ WF_vars(Deadline)

-----------------------------------------------------------------------------
(* A live helper is always named by the marker file: no launch, retry,     *)
(* restart or cleanup leaves one the gateway can neither see nor stop.     *)
NoStrayHelper == ~stray

(* When the adapter takes a stop as confirmed, no helper, marker or open   *)
(* PCM is left on the module, whatever was lost, retried or died before.   *)
StopLeavesNothing ==
  [][started /\ ~started' /\ crashes' = crashes
     => helper' = "none" /\ marker' = "none" /\ ~running']_vars

(* A helper is launched only on a module whose PCMs the one before it has  *)
(* released.                                                               *)
LaunchIsQuiet == [][helper = "none" /\ helper' = "starting" => ~running]_vars

(* A start that succeeds, with no cancelled start before it, found its     *)
(* route running.                                                          *)
StartMeansRunning == [][~started /\ started' /\ cancels = 0 => helper' = "running" /\ running']_vars

(* Every operation ends, although the helper may never come up and every   *)
(* session may be lost.                                                    *)
OperationEnds == pc # "idle" ~> pc = "idle"

(* The comment of start_route: a helper left behind by an uncertain prior  *)
(* cleanup is not adopted.  It fails: start_route refuses it, and the loop *)
(* for launches that were not confirmed takes it (runtime.py:755).         *)
NoStaleAdopted == [][~started /\ started' => ~stale]_vars

=============================================================================

------------------------ MODULE VoiceRuntime_proofs ------------------------
(***************************************************************************)
(* The safety properties of VoiceRuntime hold for every set of kernel      *)
(* modules and every number of polls, faults, events, crashes and cancels. *)
(***************************************************************************)
EXTENDS VoiceRuntime, TLAPS

(* What the argument needs of the types.                                   *)
Types ==
  /\ op \in {"none", "start", "clean", "giveup", "stop"}
  /\ pc \in {"idle", "open", "prepared?", "stage", "load", "calibrate", "unload",
             "route", "quiet", "launch", "await", "reopen", "ready?",
             "status", "term", "confirm", "unmark", "restore"}
  /\ helper \in {"none", "starting", "running"}
  /\ marker \in {"none", "helper", "dead", "reused"}
  /\ should_restore \in BOOLEAN /\ caller \in BOOLEAN /\ started \in BOOLEAN
  /\ route_started \in BOOLEAN /\ stray \in BOOLEAN /\ running \in BOOLEAN
  /\ cancels \in Nat /\ crashes \in Nat

(* The marker names the helper exactly while it lives: what the gateway    *)
(* reads from it is the truth.                                             *)
MarkerNamesHelper == ~stray /\ (marker = "helper" <=> helper # "none")

(* Where no helper is left: on the way to a launch and behind a stop.      *)
NoHelperHere ==
  /\ pc \in {"quiet", "launch", "unmark", "restore"} => helper = "none"
  /\ pc = "launch" => ~running
  /\ pc = "confirm" => helper = "none"
  /\ pc = "restore" => marker = "none"

(* Which operation runs at which command, and on which adapter.            *)
Phases ==
  /\ pc = "idle" <=> op = "none"
  /\ op \in {"start", "clean", "giveup"} => ~started
  /\ op = "stop" => started
  /\ pc \in {"prepared?", "stage", "load", "calibrate", "route", "quiet", "launch",
             "await", "ready?"} => op = "start"
  /\ pc \in {"term", "confirm", "unmark", "restore", "status"} => op # "start"
  /\ pc = "reopen" => op \in {"start", "stop"}
  /\ pc = "open" => op \in {"start", "giveup"}
  /\ pc = "unload" => op \in {"start", "clean"}

(* A stop that nobody waited for any more has done its work; one that has  *)
(* nothing to roll back finds the route down.                              *)
StoppedUnseen ==
  /\ started /\ ~route_started => helper = "none" /\ ~running
  /\ pc = "unmark" /\ op = "stop" /\ ~should_restore => ~route_started
  /\ pc \in {"term", "confirm"} => should_restore

(* Without a cancelled caller the adapter knows every route that is up.    *)
CallersStay ==
  cancels = 0 => (pc # "idle" => caller) /\ (route_started => started)

IInv == Types /\ MarkerNamesHelper /\ NoHelperHere /\ Phases /\ StoppedUnseen /\ CallersStay

(* An operation that ends without a result keeps what the adapter knows.   *)
Kept  == UNCHANGED <<started, route_started, caller, should_restore, cancels, crashes>>
Ended == op' = "none" /\ pc' = "idle" /\ Kept

(* Another process behind the marker ends whatever runs.                   *)
LEMMA ForeignEnds == Foreign /\ Replied => Ended
BY DEF Foreign, CleanedUp, StartFails, Finish, Replied, budgets, Ended, Kept

(* A failed command of stop_route: stop_and_cleanup tries again, a cleanup *)
(* ends.                                                                   *)
LEMMA RaisedStopping ==
  ASSUME Phases, pc \in {"status", "term", "confirm", "unmark", "restore"}, Raised
  PROVE  /\ UNCHANGED <<started, route_started, caller, should_restore>>
         /\ \/ op = "stop" /\ op' = "stop" /\ pc' = "reopen"
            \/ op' = "none" /\ pc' = "idle"
BY DEF Phases, Raised, InPrepare, InStartRoute, InStopRoute, CleanedUp, StartFails, Finish,
       Goto, host

-----------------------------------------------------------------------------
(* Every step keeps the invariant: one lemma per action.                   *)
LEMMA StartAsyncStep == IInv /\ StartAsync => IInv'
  BY DEF StartAsync, owned, ready, host, control, process, module, budgets, IInv, Types,
     MarkerNamesHelper, NoHelperHere, Phases, StoppedUnseen, CallersStay

LEMMA StopAsyncStep == IInv /\ StopAsync => IInv'
  BY DEF StopAsync, owned, ready, host, control, process, module, budgets, IInv, Types,
     MarkerNamesHelper, NoHelperHere, Phases, StoppedUnseen, CallersStay

LEMMA OpenUntilStep == IInv /\ OpenUntil => IInv'
  BY DEF OpenUntil, Goto, Lost, Raised, Foreign, Quiet, Replied, Finish, Started,
     StartFails, StopFails, CleanedUp, InStopRoute, InStartRoute, InPrepare, owned, ready,
     foreign, host, control, process, module, budgets, IInv, Types, MarkerNamesHelper,
     NoHelperHere, Phases, StoppedUnseen, CallersStay

LEMMA CheckPreparedStep == IInv /\ CheckPrepared => IInv'
  BY DEF CheckPrepared, Goto, Lost, Raised, Foreign, Quiet, Replied, Finish, Started,
     StartFails, StopFails, CleanedUp, InStopRoute, InStartRoute, InPrepare, owned, ready,
     foreign, host, control, process, module, budgets, IInv, Types, MarkerNamesHelper,
     NoHelperHere, Phases, StoppedUnseen, CallersStay

LEMMA StageFilesStep == IInv /\ StageFiles => IInv'
  BY DEF StageFiles, Goto, Lost, Raised, Foreign, Quiet, Replied, Finish, Started,
     StartFails, StopFails, CleanedUp, InStopRoute, InStartRoute, InPrepare, owned, ready,
     foreign, host, control, process, module, budgets, IInv, Types, MarkerNamesHelper,
     NoHelperHere, Phases, StoppedUnseen, CallersStay

LEMMA LoadModuleStep == IInv /\ LoadModule => IInv'
  BY DEF LoadModule, Goto, Lost, Raised, Foreign, Quiet, Replied, Finish, Started,
     StartFails, StopFails, CleanedUp, InStopRoute, InStartRoute, InPrepare, owned, ready,
     foreign, host, control, process, module, budgets, IInv, Types, MarkerNamesHelper,
     NoHelperHere, Phases, StoppedUnseen, CallersStay

LEMMA CalibrateStep == IInv /\ Calibrate => IInv'
  BY DEF Calibrate, Goto, Lost, Raised, Foreign, Quiet, Replied, Finish, Started,
     StartFails, StopFails, CleanedUp, InStopRoute, InStartRoute, InPrepare, owned, ready,
     foreign, host, control, process, module, budgets, IInv, Types, MarkerNamesHelper,
     NoHelperHere, Phases, StoppedUnseen, CallersStay

LEMMA UnloadStep == IInv /\ Unload => IInv'
  BY DEF Unload, Goto, Lost, Raised, Foreign, Quiet, Replied, Finish, Started, StartFails,
     StopFails, CleanedUp, InStopRoute, InStartRoute, InPrepare, owned, ready, foreign,
     host, control, process, module, budgets, IInv, Types, MarkerNamesHelper, NoHelperHere,
     Phases, StoppedUnseen, CallersStay

LEMMA RouteStatusStep == IInv /\ RouteStatus => IInv'
<1> SUFFICES ASSUME IInv, RouteStatus PROVE IInv'
  OBVIOUS
<1> USE DEF RouteStatus, Goto, Lost, Raised, Foreign, Quiet, Replied, Finish, Started,
      StartFails, StopFails, CleanedUp, InStopRoute, InStartRoute, InPrepare, owned, ready,
      foreign, host, control, process, module, budgets, IInv, Types, MarkerNamesHelper,
      NoHelperHere, Phases, StoppedUnseen, CallersStay
<1>1. Types'
  OBVIOUS
<1>2. MarkerNamesHelper'
  OBVIOUS
<1>3. NoHelperHere'
  OBVIOUS
<1>4. Phases'
  OBVIOUS
<1>5. StoppedUnseen'
  OBVIOUS
<1>6. CallersStay'
  OBVIOUS
<1>7. QED
  BY <1>1, <1>2, <1>3, <1>4, <1>5, <1>6

LEMMA EnsureRouteQuiescentStep == IInv /\ EnsureRouteQuiescent => IInv'
<1> SUFFICES ASSUME IInv, EnsureRouteQuiescent PROVE IInv'
  OBVIOUS
<1> USE DEF EnsureRouteQuiescent, SwitchOff, Goto, Lost, Raised, Foreign, Quiet, Replied,
      Finish, Started, StartFails, StopFails, CleanedUp, InStopRoute, InStartRoute, InPrepare,
      owned, ready, foreign, host, control, process, module, budgets, IInv, Types,
      MarkerNamesHelper, NoHelperHere, Phases, StoppedUnseen, CallersStay
<1>1. Types'
  OBVIOUS
<1>2. MarkerNamesHelper'
  OBVIOUS
<1>3. NoHelperHere'
  OBVIOUS
<1>4. Phases'
  OBVIOUS
<1>5. StoppedUnseen'
  OBVIOUS
<1>6. CallersStay'
  OBVIOUS
<1>7. QED
  BY <1>1, <1>2, <1>3, <1>4, <1>5, <1>6

LEMMA LaunchStep == IInv /\ Launch => IInv'
<1> SUFFICES ASSUME IInv, Launch PROVE IInv'
  OBVIOUS
<1> USE DEF Launch, LaunchHelper, Goto, Lost, Raised, Foreign, Quiet, Replied, Finish,
      Started, StartFails, StopFails, CleanedUp, InStopRoute, InStartRoute, InPrepare, owned,
      ready, foreign, host, control, process, module, budgets, IInv, Types, MarkerNamesHelper,
      NoHelperHere, Phases, StoppedUnseen, CallersStay
<1>1. Types'
  OBVIOUS
<1>2. MarkerNamesHelper'
  OBVIOUS
<1>3. NoHelperHere'
  OBVIOUS
<1>4. Phases'
  OBVIOUS
<1>5. StoppedUnseen'
  OBVIOUS
<1>6. CallersStay'
  OBVIOUS
<1>7. QED
  BY <1>1, <1>2, <1>3, <1>4, <1>5, <1>6

LEMMA AwaitRunningStep == IInv /\ AwaitRunning => IInv'
<1> SUFFICES ASSUME IInv, AwaitRunning PROVE IInv'
  OBVIOUS
<1> USE DEF AwaitRunning, Goto, Lost, Raised, Foreign, Quiet, Replied, Finish, Started,
      StartFails, StopFails, CleanedUp, InStopRoute, InStartRoute, InPrepare, owned, ready,
      foreign, host, control, process, module, budgets, IInv, Types, MarkerNamesHelper,
      NoHelperHere, Phases, StoppedUnseen, CallersStay
<1>1. Types'
  OBVIOUS
<1>2. MarkerNamesHelper'
  OBVIOUS
<1>3. NoHelperHere'
  OBVIOUS
<1>4. Phases'
  OBVIOUS
<1>5. StoppedUnseen'
  OBVIOUS
<1>6. CallersStay'
  OBVIOUS
<1>7. QED
  BY <1>1, <1>2, <1>3, <1>4, <1>5, <1>6

LEMMA ReopenStep == IInv /\ Reopen => IInv'
  BY DEF Reopen, Goto, Lost, Raised, Foreign, Quiet, Replied, Finish, Started, StartFails,
     StopFails, CleanedUp, InStopRoute, InStartRoute, InPrepare, owned, ready, foreign,
     host, control, process, module, budgets, IInv, Types, MarkerNamesHelper, NoHelperHere,
     Phases, StoppedUnseen, CallersStay

LEMMA RouteReadyStep == IInv /\ RouteReady => IInv'
<1> SUFFICES ASSUME IInv, RouteReady PROVE IInv'
  OBVIOUS
<1> USE DEF RouteReady, Goto, Lost, Raised, Foreign, Quiet, Replied, Finish, Started,
      StartFails, StopFails, CleanedUp, InStopRoute, InStartRoute, InPrepare, owned, ready,
      foreign, host, control, process, module, budgets, IInv, Types, MarkerNamesHelper,
      NoHelperHere, Phases, StoppedUnseen, CallersStay
<1>1. Types'
  OBVIOUS
<1>2. MarkerNamesHelper'
  OBVIOUS
<1>3. NoHelperHere'
  OBVIOUS
<1>4. Phases'
  OBVIOUS
<1>5. StoppedUnseen'
  OBVIOUS
<1>6. CallersStay'
  OBVIOUS
<1>7. QED
  BY <1>1, <1>2, <1>3, <1>4, <1>5, <1>6

LEMMA StopStatusStep == IInv /\ StopStatus => IInv'
<1> SUFFICES ASSUME IInv, StopStatus PROVE IInv'
  OBVIOUS
<1> USE DEF IInv
<1>1. CASE foreign /\ Foreign /\ Quiet /\ Replied
  <2>a. Ended
    BY <1>1, ForeignEnds
  <2> USE <1>1, <2>a DEF Ended, Kept, StopStatus, module, process, Quiet, owned, ready,
        foreign, Types, MarkerNamesHelper, NoHelperHere, Phases, StoppedUnseen, CallersStay
  <2>1. Types'
    OBVIOUS
  <2>2. MarkerNamesHelper'
    OBVIOUS
  <2>3. NoHelperHere'
    OBVIOUS
  <2>4. Phases'
    OBVIOUS
  <2>5. StoppedUnseen'
    OBVIOUS
  <2>6. CallersStay'
    OBVIOUS
  <2>7. QED
    BY <2>1, <2>2, <2>3, <2>4, <2>5, <2>6
<1>2. CASE /\ ~foreign /\ should_restore' = (route_started \/ owned)
          /\ pc' = (IF owned THEN "term" ELSE "unmark")
          /\ UNCHANGED <<host, op, polls, expired, caller>> /\ Quiet /\ Replied
  <2> USE <1>2 DEF StopStatus, Replied, budgets, host, module, process, Quiet, owned, ready,
        foreign, Types, MarkerNamesHelper, NoHelperHere, Phases, StoppedUnseen, CallersStay
  <2>1. Types'
    OBVIOUS
  <2>2. MarkerNamesHelper'
    OBVIOUS
  <2>3. NoHelperHere'
    OBVIOUS
  <2>4. Phases'
    OBVIOUS
  <2>5. StoppedUnseen'
    OBVIOUS
  <2>6. CallersStay'
    OBVIOUS
  <2>7. QED
    BY <2>1, <2>2, <2>3, <2>4, <2>5, <2>6
<1>3. CASE Lost(Quiet)
  <2>a. /\ UNCHANGED <<started, route_started, caller, should_restore, cancels, crashes>>
        /\ Quiet \/ UNCHANGED module
        /\ \/ op = "stop" /\ op' = "stop" /\ pc' = "reopen"
           \/ op' = "none" /\ pc' = "idle"
    BY <1>3, RaisedStopping DEF Lost, StopStatus, Quiet
  <2> USE <1>3, <2>a DEF StopStatus, module, process, Quiet, owned, ready, foreign, Types,
        MarkerNamesHelper, NoHelperHere, Phases, StoppedUnseen, CallersStay
  <2>1. Types'
    OBVIOUS
  <2>2. MarkerNamesHelper'
    OBVIOUS
  <2>3. NoHelperHere'
    OBVIOUS
  <2>4. Phases'
    OBVIOUS
  <2>5. StoppedUnseen'
    OBVIOUS
  <2>6. CallersStay'
    OBVIOUS
  <2>7. QED
    BY <2>1, <2>2, <2>3, <2>4, <2>5, <2>6
<1>4. QED
  BY <1>1, <1>2, <1>3 DEF StopStatus

LEMMA StopOwnedRouteStep == IInv /\ StopOwnedRoute => IInv'
<1> SUFFICES ASSUME IInv, StopOwnedRoute PROVE IInv'
  OBVIOUS
<1> USE DEF IInv
<1>1. CASE ~foreign /\ Terminate /\ Replied /\ Goto("confirm") /\ UNCHANGED <<host, polls>>
  <2> USE <1>1 DEF StopOwnedRoute, Terminate, Goto, Replied, budgets, host, module, process,
        Quiet, owned, ready, foreign, Types, MarkerNamesHelper, NoHelperHere, Phases,
        StoppedUnseen, CallersStay
  <2>1. Types'
    OBVIOUS
  <2>2. MarkerNamesHelper'
    OBVIOUS
  <2>3. NoHelperHere'
    OBVIOUS
  <2>4. Phases'
    OBVIOUS
  <2>5. StoppedUnseen'
    OBVIOUS
  <2>6. CallersStay'
    OBVIOUS
  <2>7. QED
    BY <2>1, <2>2, <2>3, <2>4, <2>5, <2>6
<1>2. CASE foreign /\ Raised /\ Quiet /\ Replied
  <2>a. /\ UNCHANGED <<started, route_started, caller, should_restore>>
        /\ \/ op = "stop" /\ op' = "stop" /\ pc' = "reopen"
           \/ op' = "none" /\ pc' = "idle"
    BY <1>2, RaisedStopping DEF StopOwnedRoute
  <2> USE <1>2, <2>a DEF StopOwnedRoute, Replied, budgets, module, process, Quiet, owned,
        ready, foreign, Types, MarkerNamesHelper, NoHelperHere, Phases, StoppedUnseen,
        CallersStay
  <2>1. Types'
    OBVIOUS
  <2>2. MarkerNamesHelper'
    OBVIOUS
  <2>3. NoHelperHere'
    OBVIOUS
  <2>4. Phases'
    OBVIOUS
  <2>5. StoppedUnseen'
    OBVIOUS
  <2>6. CallersStay'
    OBVIOUS
  <2>7. QED
    BY <2>1, <2>2, <2>3, <2>4, <2>5, <2>6
<1>3. CASE Lost(Terminate)
  <2>a. /\ UNCHANGED <<started, route_started, caller, should_restore, cancels, crashes>>
        /\ Terminate \/ UNCHANGED module
        /\ \/ op = "stop" /\ op' = "stop" /\ pc' = "reopen"
           \/ op' = "none" /\ pc' = "idle"
    BY <1>3, RaisedStopping DEF Lost, StopOwnedRoute, Quiet
  <2> USE <1>3, <2>a DEF StopOwnedRoute, Terminate, module, process, Quiet, owned, ready,
        foreign, Types, MarkerNamesHelper, NoHelperHere, Phases, StoppedUnseen, CallersStay
  <2>1. Types'
    OBVIOUS
  <2>2. MarkerNamesHelper'
    OBVIOUS
  <2>3. NoHelperHere'
    OBVIOUS
  <2>4. Phases'
    OBVIOUS
  <2>5. StoppedUnseen'
    OBVIOUS
  <2>6. CallersStay'
    OBVIOUS
  <2>7. QED
    BY <2>1, <2>2, <2>3, <2>4, <2>5, <2>6
<1>4. QED
  BY <1>1, <1>2, <1>3 DEF StopOwnedRoute

LEMMA ConfirmStoppedStep == IInv /\ ConfirmStopped => IInv'
<1> SUFFICES ASSUME IInv, ConfirmStopped PROVE IInv'
  OBVIOUS
<1> USE DEF IInv
<1>1. CASE foreign /\ Foreign /\ Quiet /\ Replied
  <2>a. Ended
    BY <1>1, ForeignEnds
  <2> USE <1>1, <2>a DEF Ended, Kept, ConfirmStopped, module, process, Quiet, owned, ready,
        foreign, Types, MarkerNamesHelper, NoHelperHere, Phases, StoppedUnseen, CallersStay
  <2>1. Types'
    OBVIOUS
  <2>2. MarkerNamesHelper'
    OBVIOUS
  <2>3. NoHelperHere'
    OBVIOUS
  <2>4. Phases'
    OBVIOUS
  <2>5. StoppedUnseen'
    OBVIOUS
  <2>6. CallersStay'
    OBVIOUS
  <2>7. QED
    BY <2>1, <2>2, <2>3, <2>4, <2>5, <2>6
<1>2. CASE ~foreign /\ ~owned /\ Goto("unmark") /\ UNCHANGED <<host, polls>> /\ Quiet /\ Replied
  <2> USE <1>2 DEF ConfirmStopped, Goto, Replied, budgets, host, module, process, Quiet,
        owned, ready, foreign, Types, MarkerNamesHelper, NoHelperHere, Phases, StoppedUnseen,
        CallersStay
  <2>1. Types'
    OBVIOUS
  <2>2. MarkerNamesHelper'
    OBVIOUS
  <2>3. NoHelperHere'
    OBVIOUS
  <2>4. Phases'
    OBVIOUS
  <2>5. StoppedUnseen'
    OBVIOUS
  <2>6. CallersStay'
    OBVIOUS
  <2>7. QED
    BY <2>1, <2>2, <2>3, <2>4, <2>5, <2>6
<1>3. CASE Lost(Quiet)
  <2>a. /\ UNCHANGED <<started, route_started, caller, should_restore, cancels, crashes>>
        /\ Quiet \/ UNCHANGED module
        /\ \/ op = "stop" /\ op' = "stop" /\ pc' = "reopen"
           \/ op' = "none" /\ pc' = "idle"
    BY <1>3, RaisedStopping DEF Lost, ConfirmStopped, Quiet
  <2> USE <1>3, <2>a DEF ConfirmStopped, module, process, Quiet, owned, ready, foreign, Types,
        MarkerNamesHelper, NoHelperHere, Phases, StoppedUnseen, CallersStay
  <2>1. Types'
    OBVIOUS
  <2>2. MarkerNamesHelper'
    OBVIOUS
  <2>3. NoHelperHere'
    OBVIOUS
  <2>4. Phases'
    OBVIOUS
  <2>5. StoppedUnseen'
    OBVIOUS
  <2>6. CallersStay'
    OBVIOUS
  <2>7. QED
    BY <2>1, <2>2, <2>3, <2>4, <2>5, <2>6
<1>4. QED
  BY <1>1, <1>2, <1>3 DEF ConfirmStopped

LEMMA UnmarkStep == IInv /\ Unmark => IInv'
<1> SUFFICES ASSUME IInv, Unmark PROVE IInv'
  OBVIOUS
<1> USE DEF Unmark, RemoveMarker, StopRouteReturns, Goto, Lost, Raised, Foreign, Quiet,
      Replied, Finish, Started, StartFails, StopFails, CleanedUp, InStopRoute, InStartRoute,
      InPrepare, owned, ready, foreign, host, control, process, module, budgets, IInv, Types,
      MarkerNamesHelper, NoHelperHere, Phases, StoppedUnseen, CallersStay
<1>1. Types'
  OBVIOUS
<1>2. MarkerNamesHelper'
  OBVIOUS
<1>3. NoHelperHere'
  OBVIOUS
<1>4. Phases'
  OBVIOUS
<1>5. StoppedUnseen'
  OBVIOUS
<1>6. CallersStay'
  OBVIOUS
<1>7. QED
  BY <1>1, <1>2, <1>3, <1>4, <1>5, <1>6

LEMMA RestoreVoiceRouteStep == IInv /\ RestoreVoiceRoute => IInv'
<1> SUFFICES ASSUME IInv, RestoreVoiceRoute PROVE IInv'
  OBVIOUS
<1> USE DEF RestoreVoiceRoute, SwitchOff, StopRouteReturns, Goto, Lost, Raised, Foreign,
      Quiet, Replied, Finish, Started, StartFails, StopFails, CleanedUp, InStopRoute,
      InStartRoute, InPrepare, owned, ready, foreign, host, control, process, module, budgets,
      IInv, Types, MarkerNamesHelper, NoHelperHere, Phases, StoppedUnseen, CallersStay
<1>1. Types'
  OBVIOUS
<1>2. MarkerNamesHelper'
  OBVIOUS
<1>3. NoHelperHere'
  OBVIOUS
<1>4. Phases'
  OBVIOUS
<1>5. StoppedUnseen'
  OBVIOUS
<1>6. CallersStay'
  OBVIOUS
<1>7. QED
  BY <1>1, <1>2, <1>3, <1>4, <1>5, <1>6

LEMMA DeadlineStep == IInv /\ Deadline => IInv'
  BY DEF Deadline, owned, ready, host, control, process, module, budgets, IInv, Types,
     MarkerNamesHelper, NoHelperHere, Phases, StoppedUnseen, CallersStay

LEMMA CancelCallerStep == IInv /\ CancelCaller => IInv'
<1> SUFFICES ASSUME IInv, CancelCaller PROVE IInv'
  OBVIOUS
<1>1. cancels \in Nat /\ cancels' = cancels + 1
  BY DEF CancelCaller, IInv, Types
<1>2. UNCHANGED <<op, pc, should_restore, started, route_started, helper, marker, stray, running, crashes>>
  BY DEF CancelCaller, host, module, process
<1>3. caller' = FALSE
  BY DEF CancelCaller
<1>4. cancels' \in Nat /\ cancels' # 0
  BY <1>1
<1>a. caller' \in BOOLEAN
  BY <1>3
<1>5. Types'
  BY <1>2, <1>a, <1>4 DEF IInv, Types
<1>6. MarkerNamesHelper' /\ NoHelperHere' /\ Phases' /\ StoppedUnseen'
  BY <1>2 DEF IInv, MarkerNamesHelper, NoHelperHere, Phases, StoppedUnseen
<1>7. CallersStay'
  BY <1>4 DEF CallersStay
<1>8. QED
  BY <1>5, <1>6, <1>7 DEF IInv

LEMMA HelperRunsStep == IInv /\ HelperRuns => IInv'
  BY DEF HelperRuns, owned, ready, host, control, process, module, budgets, IInv, Types,
     MarkerNamesHelper, NoHelperHere, Phases, StoppedUnseen, CallersStay

LEMMA HelperDiesStep == IInv /\ HelperDies => IInv'
  BY DEF HelperDies, ModuleEvent, owned, ready, host, control, process, module, budgets,
     IInv, Types, MarkerNamesHelper, NoHelperHere, Phases, StoppedUnseen, CallersStay

LEMMA PidReusedStep == IInv /\ PidReused => IInv'
  BY DEF PidReused, ModuleEvent, owned, ready, host, control, process, module, budgets,
     IInv, Types, MarkerNamesHelper, NoHelperHere, Phases, StoppedUnseen, CallersStay

LEMMA ModuleRebootsStep == IInv /\ ModuleReboots => IInv'
<1> SUFFICES ASSUME IInv, ModuleReboots PROVE IInv'
  OBVIOUS
<1> USE DEF ModuleReboots, ModuleEvent, owned, ready, host, control, process, module, budgets,
      IInv, Types, MarkerNamesHelper, NoHelperHere, Phases, StoppedUnseen, CallersStay
<1>1. Types'
  OBVIOUS
<1>2. MarkerNamesHelper'
  OBVIOUS
<1>3. NoHelperHere'
  OBVIOUS
<1>4. Phases'
  OBVIOUS
<1>5. StoppedUnseen'
  OBVIOUS
<1>6. CallersStay'
  OBVIOUS
<1>7. QED
  BY <1>1, <1>2, <1>3, <1>4, <1>5, <1>6

LEMMA GatewayRestartsStep == IInv /\ GatewayRestarts => IInv'
<1> SUFFICES ASSUME IInv, GatewayRestarts PROVE IInv'
  OBVIOUS
<1>a. /\ should_restore' \in BOOLEAN /\ caller' \in BOOLEAN /\ started' \in BOOLEAN
      /\ route_started' \in BOOLEAN
  BY DEF GatewayRestarts
<1>b. crashes \in Nat /\ crashes' \in Nat
  BY DEF GatewayRestarts, IInv, Types
<1>1. Types'
  BY <1>a, <1>b DEF GatewayRestarts, module, process, IInv, Types
<1>2. MarkerNamesHelper'
  BY DEF GatewayRestarts, owned, ready, host, control, process, module, budgets, IInv,
     Types, MarkerNamesHelper, NoHelperHere, Phases, StoppedUnseen, CallersStay
<1>3. NoHelperHere'
  BY DEF GatewayRestarts, owned, ready, host, control, process, module, budgets, IInv,
     Types, MarkerNamesHelper, NoHelperHere, Phases, StoppedUnseen, CallersStay
<1>4. Phases'
  BY DEF GatewayRestarts, owned, ready, host, control, process, module, budgets, IInv,
     Types, MarkerNamesHelper, NoHelperHere, Phases, StoppedUnseen, CallersStay
<1>5. StoppedUnseen'
  BY DEF GatewayRestarts, owned, ready, host, control, process, module, budgets, IInv,
     Types, MarkerNamesHelper, NoHelperHere, Phases, StoppedUnseen, CallersStay
<1>6. CallersStay'
  BY DEF GatewayRestarts, owned, ready, host, control, process, module, budgets, IInv,
     Types, MarkerNamesHelper, NoHelperHere, Phases, StoppedUnseen, CallersStay
<1>7. QED
  BY <1>1, <1>2, <1>3, <1>4, <1>5, <1>6 DEF IInv

-----------------------------------------------------------------------------
(* Every reachable state satisfies the invariant.                          *)
THEOREM VoiceInvariant == Spec => []IInv
<1>1. Init => IInv
  <2> SUFFICES ASSUME Init PROVE IInv
    OBVIOUS
  <2>1. /\ should_restore \in BOOLEAN /\ caller \in BOOLEAN /\ started \in BOOLEAN
        /\ route_started \in BOOLEAN /\ stray \in BOOLEAN /\ running \in BOOLEAN
    BY DEF Init
  <2>2. Types
    BY <2>1 DEF Init, Types
  <2>3. MarkerNamesHelper /\ NoHelperHere /\ Phases /\ StoppedUnseen /\ CallersStay
    BY DEF Init, MarkerNamesHelper, NoHelperHere, Phases, StoppedUnseen, CallersStay
  <2>4. QED
    BY <2>2, <2>3 DEF IInv
<1>2. IInv /\ [Next]_vars => IInv'
  <2> SUFFICES ASSUME IInv, [Next]_vars PROVE IInv'
    OBVIOUS
  <2>1. CASE UNCHANGED vars
    BY <2>1 DEF vars, host, control, module, process, budgets, IInv, Types, MarkerNamesHelper,
       NoHelperHere, Phases, StoppedUnseen, CallersStay
  <2>2. CASE Command
    BY <2>2, OpenUntilStep, CheckPreparedStep, StageFilesStep, LoadModuleStep, CalibrateStep,
       UnloadStep, RouteStatusStep, EnsureRouteQuiescentStep, LaunchStep, AwaitRunningStep,
       ReopenStep, RouteReadyStep, StopStatusStep, StopOwnedRouteStep, ConfirmStoppedStep,
       UnmarkStep, RestoreVoiceRouteStep DEF Command
  <2>3. CASE StartAsync \/ StopAsync \/ Deadline \/ CancelCaller
    BY <2>3, StartAsyncStep, StopAsyncStep, DeadlineStep, CancelCallerStep
  <2>4. CASE HelperRuns \/ HelperDies \/ PidReused \/ ModuleReboots \/ GatewayRestarts
    BY <2>4, HelperRunsStep, HelperDiesStep, PidReusedStep, ModuleRebootsStep,
       GatewayRestartsStep
  <2>5. QED
    BY <2>1, <2>2, <2>3, <2>4 DEF Next
<1>3. QED
  BY <1>1, <1>2, PTL DEF Spec

(* No helper is ever left that the gateway can neither see nor stop:       *)
(* start_route, stop_route and their retries.                              *)
THEOREM NoStray == Spec => []NoStrayHelper
<1>1. IInv => NoStrayHelper
  BY DEF IInv, MarkerNamesHelper, NoStrayHelper
<1>2. QED
  BY <1>1, VoiceInvariant, PTL

-----------------------------------------------------------------------------
(* While the adapter believes in a route only stop_and_cleanup runs.       *)
LEMMA OnlyStopsRun ==
  ASSUME IInv, Command, started
  PROVE  /\ op = "stop"
         /\ \/ Reopen \/ StopStatus \/ StopOwnedRoute \/ ConfirmStopped
            \/ Unmark \/ RestoreVoiceRoute
<1>1. pc # "idle"
  BY DEF Command, OpenUntil, CheckPrepared, StageFiles, LoadModule, Calibrate, Unload,
     RouteStatus,
     EnsureRouteQuiescent, Launch, AwaitRunning, Reopen, RouteReady, StopStatus, StopOwnedRoute,
     ConfirmStopped, Unmark, RestoreVoiceRoute
<1>2. op = "stop"
  BY <1>1 DEF IInv, Phases, Types
<1>3. pc \notin {"open", "prepared?", "stage", "load", "calibrate", "unload", "route", "quiet",
                 "launch", "await", "ready?"}
  BY <1>2 DEF IInv, Phases
<1>4. ~(OpenUntil \/ CheckPrepared \/ StageFiles \/ LoadModule \/ Calibrate \/ Unload)
  BY <1>3 DEF OpenUntil, CheckPrepared, StageFiles, LoadModule, Calibrate, Unload
<1>5. ~(RouteStatus \/ EnsureRouteQuiescent \/ Launch \/ AwaitRunning \/ RouteReady)
  BY <1>3 DEF RouteStatus, EnsureRouteQuiescent, Launch, AwaitRunning, RouteReady
<1>6. QED
  BY <1>2, <1>4, <1>5 DEF Command

(* What changes the flag of the adapter is a stop_route that returned:     *)
(* behind the removal of the marker or the rollback of the route.          *)
LEMMA StopReturnsClean ==
  ASSUME IInv, Command, started, ~started'
  PROVE  helper' = "none" /\ marker' = "none" /\ ~running'
<1>1. op = "stop"
  BY OnlyStopsRun
<1>2. ASSUME pc \in {"status", "term", "confirm", "unmark", "restore"}, Raised
      PROVE  FALSE
  BY <1>2, RaisedStopping DEF IInv
<1>3. CASE Reopen
  BY <1>1, <1>3 DEF Reopen, StopFails, StartFails, host
<1>4. CASE StopStatus
  BY <1>1, <1>2, <1>4, ForeignEnds DEF StopStatus, Lost, Ended, Kept, host
<1>5. CASE StopOwnedRoute
  BY <1>2, <1>5 DEF StopOwnedRoute, Lost, host
<1>6. CASE ConfirmStopped
  BY <1>2, <1>6, ForeignEnds DEF ConfirmStopped, Lost, Ended, Kept, host
<1>7. CASE Unmark
  <2>1. ~should_restore /\ StopRouteReturns(FALSE) /\ RemoveMarker
    BY <1>2, <1>7 DEF Unmark, Lost, host
  <2>2. helper = "none" /\ ~route_started
    BY <1>1, <1>7, <2>1 DEF IInv, NoHelperHere, StoppedUnseen, Unmark
  <2>3. ~running
    BY <2>2 DEF IInv, StoppedUnseen
  <2>4. QED
    BY <2>1, <2>2, <2>3 DEF RemoveMarker
<1>8. CASE RestoreVoiceRoute
  <2>1. SwitchOff
    BY <1>2, <1>8 DEF RestoreVoiceRoute, Lost
  <2>2. helper = "none" /\ marker = "none"
    BY <1>8 DEF IInv, NoHelperHere, RestoreVoiceRoute
  <2>3. QED
    BY <2>1, <2>2 DEF SwitchOff, process
<1>9. QED
  BY <1>3, <1>4, <1>5, <1>6, <1>7, <1>8, OnlyStopsRun

(* stop_and_cleanup: a stop the adapter takes as confirmed leaves nothing  *)
(* on the module, whatever was lost, retried, cancelled or died before.    *)
THEOREM StopIsClean == Spec => StopLeavesNothing
<1>1. IInv /\ [Next]_vars =>
        [started /\ ~started' /\ crashes' = crashes
         => helper' = "none" /\ marker' = "none" /\ ~running']_vars
  <2> SUFFICES ASSUME IInv, Next, started, ~started', crashes' = crashes
               PROVE  helper' = "none" /\ marker' = "none" /\ ~running'
    BY DEF vars, host
  <2>1. ~(StartAsync \/ StopAsync \/ Deadline \/ CancelCaller)
    BY DEF StartAsync, StopAsync, Deadline, CancelCaller, host
  <2>2. ~(HelperRuns \/ HelperDies \/ PidReused \/ ModuleReboots)
    BY DEF HelperRuns, HelperDies, PidReused, ModuleReboots, ModuleEvent, host
  <2>3. ~GatewayRestarts
    BY DEF IInv, Types, GatewayRestarts
  <2>4. CASE Command
    BY <2>4, StopReturnsClean
  <2>5. QED
    BY <2>1, <2>2, <2>3, <2>4 DEF Next
<1>2. QED
  BY <1>1, VoiceInvariant, PTL DEF Spec, StopLeavesNothing

(* _ensure_route_quiescent: a helper is launched only on a module whose    *)
(* PCMs the one before it has released.                                    *)
THEOREM LaunchesQuietly == Spec => LaunchIsQuiet
<1>1. IInv /\ [Next]_vars => [helper = "none" /\ helper' = "starting" => ~running]_vars
  <2> SUFFICES ASSUME IInv, Next, helper = "none", helper' = "starting"
               PROVE  ~running
    BY DEF vars, module, process
  <2>1. ~(StartAsync \/ StopAsync \/ Deadline \/ CancelCaller)
    BY DEF StartAsync, StopAsync, Deadline, CancelCaller, module, process
  <2>2. ~(HelperRuns \/ HelperDies \/ PidReused \/ ModuleReboots \/ GatewayRestarts)
    BY DEF HelperRuns, HelperDies, PidReused, ModuleReboots, GatewayRestarts, ModuleEvent,
       module, process
  <2>3. ~(OpenUntil \/ CheckPrepared \/ StageFiles \/ LoadModule \/ Calibrate \/ Unload)
    BY DEF OpenUntil, CheckPrepared, StageFiles, LoadModule, Calibrate, Unload, Lost, Quiet,
       module, process
  <2>4. ~(RouteStatus \/ EnsureRouteQuiescent \/ AwaitRunning \/ Reopen \/ RouteReady)
    BY DEF RouteStatus, EnsureRouteQuiescent, AwaitRunning, Reopen, RouteReady, SwitchOff, Lost,
       Quiet, module, process
  <2>5. ~(StopStatus \/ StopOwnedRoute \/ ConfirmStopped \/ Unmark \/ RestoreVoiceRoute)
    BY DEF StopStatus, StopOwnedRoute, ConfirmStopped, Unmark, RestoreVoiceRoute, Terminate,
       RemoveMarker, SwitchOff, Lost, Quiet, module, process
  <2>6. CASE Launch
    BY <2>6 DEF Launch, IInv, NoHelperHere
  <2>7. QED
    BY <2>1, <2>2, <2>3, <2>4, <2>5, <2>6 DEF Next, Command
<1>2. QED
  BY <1>1, VoiceInvariant, PTL DEF Spec, LaunchIsQuiet

(* start_route and the loop after it: without a cancelled caller, a start  *)
(* the adapter takes as done found its route running.                      *)
THEOREM StartsRunning == Spec => StartMeansRunning
<1>1. IInv /\ [Next]_vars =>
        [~started /\ started' /\ cancels = 0 => helper' = "running" /\ running']_vars
  <2> SUFFICES ASSUME IInv, Next, ~started, started', cancels = 0
               PROVE  helper' = "running" /\ running'
    BY DEF vars, host
  <2>1. ~route_started
    BY DEF IInv, CallersStay
  <2>2. ~(StartAsync \/ StopAsync \/ Deadline \/ CancelCaller)
    BY DEF StartAsync, StopAsync, Deadline, CancelCaller, host
  <2>3. ~(HelperRuns \/ HelperDies \/ PidReused \/ ModuleReboots \/ GatewayRestarts)
    BY DEF HelperRuns, HelperDies, PidReused, ModuleReboots, GatewayRestarts, ModuleEvent, host
  <2>4. ASSUME Raised PROVE FALSE
    BY <2>1, <2>4 DEF Raised, CleanedUp, StartFails, StopFails, Started, host
  <2>5. ASSUME Foreign PROVE FALSE
    BY <2>5 DEF Foreign, CleanedUp, StartFails
  <2>6. ~(OpenUntil \/ CheckPrepared \/ StageFiles \/ LoadModule \/ Calibrate \/ Unload)
    BY <2>4 DEF OpenUntil, CheckPrepared, StageFiles, LoadModule, Calibrate, Unload, Lost,
       CleanedUp, StartFails, host
  <2>7. ~(EnsureRouteQuiescent \/ Launch \/ Reopen)
    BY <2>4 DEF EnsureRouteQuiescent, Launch, Reopen, Lost, StartFails, StopFails, host
  <2>8. ~(StopStatus \/ StopOwnedRoute \/ ConfirmStopped \/ Unmark \/ RestoreVoiceRoute)
    BY <2>4, <2>5 DEF StopStatus, StopOwnedRoute, ConfirmStopped, Unmark, RestoreVoiceRoute,
       StopRouteReturns, Lost, host
  <2>9. CASE RouteStatus \/ AwaitRunning \/ RouteReady
    <3>1. ready /\ Quiet
      BY <2>1, <2>4, <2>5, <2>9 DEF RouteStatus, AwaitRunning, RouteReady, Lost, host
    <3>2. QED
      BY <3>1 DEF ready, Quiet, module, process
  <2>10. QED
    BY <2>2, <2>3, <2>6, <2>7, <2>8, <2>9 DEF Next, Command
<1>2. QED
  BY <1>1, VoiceInvariant, PTL DEF Spec, StartMeansRunning

=============================================================================

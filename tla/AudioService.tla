---------------------------- MODULE AudioService ----------------------------
(***************************************************************************)
(* Who may use the audio path and the modem, and when: the life cycle of   *)
(* AlsaAudioAdapter (audio/bridge.py), the audio diagnostic (web/calls.py),*)
(* maintenance (maintenance.py) and the wiring between them (server.py).   *)
(* Of a call only its existence and its audio are kept (CallController has *)
(* the rest); starting and stopping the voice route of the module is one   *)
(* long step that may fail (VoiceRuntime has its inside).                  *)
(*                                                                         *)
(* A step runs up to the next await that can suspend.  The lock of the     *)
(* diagnostic is never held across such an await and is left out.          *)
(***************************************************************************)
EXTENDS AsyncLock, FiniteSets

CONSTANTS
  Socket,       \* diagnostic WebSocket tasks
  Ring,         \* the task of an incoming or outgoing call: stop, then start
  Client,       \* the task that attaches and ends the call
  Admin,        \* the task of diagnostic, maintenance and reconnect requests
  MaxSessions,  \* bound on diagnostic reservations
  MaxCalls,     \* bound on calls
  MaxRequests,  \* bound on maintenance and reconnect requests
  MaxFaults     \* bound on failed hardware steps

ASSUME TaskAssumption ==
  /\ Task = Socket \cup {Ring, Client, Admin}
  /\ {Ring, Client, Admin} \cap Socket = {}
  /\ Ring # Client /\ Ring # Admin /\ Client # Admin

VARIABLES
  configured,       \* settings.module_voice_manifest is set: there is a module runtime
  operation_lock,   \* of the call controller, also MaintenanceController.lock
  lifecycle_lock,   \* _lifecycle_lock of the adapter
  pc, starting,     \* next step of each task; whether it is in start_web or in stop
  raising,          \* the task cleans up after a failure that it raises again
  call, attached,   \* coordinator.current and _audio_attached
  session, stream_task, expiry, \* of WebAudioDiagnosticService
  mine, victim,     \* session_id of a socket's run; the task a stop gathers
  alsa, voice, mode, bridge, workers, \* of AlsaAudioAdapter: alsa, _module_runtime_started, ...
  user,             \* who started the audio session
  restart_pending,
  left,             \* what the last stop that raised, or a cancellation since, left on
  sessions, calls, requests, faults

tasks   == <<pc, starting, raising, mine, victim>>
callv   == <<call, attached>>
diag    == <<session, stream_task, expiry>>
adapter == <<alsa, voice, mode, bridge, workers, user, left>>
bounds  == <<sessions, calls, requests, faults>>
vars    == <<configured, operation_lock, lifecycle_lock, tasks, callv, diag, adapter,
             restart_pending, bounds>>

AdapterStart == {"begin", "voice", "open", "announce"}
AdapterStop  == {"stop", "join", "close", "unvoice"}

TypeOK ==
  /\ {configured, attached, expiry, alsa, voice, mode, bridge, workers, restart_pending}
       \subseteq BOOLEAN
  /\ left \subseteq {"alsa", "voice", "mode", "bridge", "workers"}
  /\ operation_lock \in Lock /\ lifecycle_lock \in Lock
  /\ pc \in [Task -> {"idle", "stream", "finish", "gather", "inbound", "attach", "hangup",
                      "create", "maintain", "at"} \cup AdapterStart \cup AdapterStop]
  /\ starting \in [Task -> BOOLEAN] /\ raising \in [Task -> BOOLEAN]
  /\ call \in {"none", "ringing", "active"}
  /\ session \in 0 .. MaxSessions /\ mine \in [Socket -> 0 .. MaxSessions]
  /\ stream_task \in Socket \cup {NoTask}
  /\ victim \in [Task -> Socket \cup {NoTask}]
  /\ user \in Task \cup {NoTask}

Init ==
  /\ configured \in BOOLEAN
  /\ operation_lock = Unlocked /\ lifecycle_lock = Unlocked
  /\ pc = [t \in Task |-> "idle"]
  /\ starting = [t \in Task |-> FALSE] /\ raising = [t \in Task |-> FALSE]
  /\ mine = [w \in Socket |-> 0] /\ victim = [t \in Task |-> NoTask]
  /\ call = "none" /\ attached = FALSE
  /\ session = 0 /\ stream_task = NoTask /\ expiry = FALSE
  /\ alsa = FALSE /\ voice = FALSE /\ mode = FALSE /\ bridge = FALSE /\ workers = FALSE
  /\ user = NoTask /\ restart_pending = FALSE /\ left = {}
  /\ sessions = 0 /\ calls = 0 /\ requests = 0 /\ faults = 0

Goto(t, label) == pc' = [pc EXCEPT ![t] = label]

Fault == faults < MaxFaults /\ faults' = faults + 1 /\ UNCHANGED <<sessions, calls, requests>>

-----------------------------------------------------------------------------
(* AlsaAudioAdapter                                                        *)

(* The parts of the audio path that are on, as the adapter knows it.       *)
On == {part \in {"alsa", "voice", "mode", "bridge", "workers"} :
  [alsa |-> alsa, voice |-> voice, mode |-> mode, bridge |-> bridge, workers |-> workers][part]}

(* await start_web, await stop: the caller queues for the lifecycle lock.  *)
CallStart(t) ==
  /\ lifecycle_lock' = Acquire(lifecycle_lock, t)
  /\ Goto(t, "begin") /\ starting' = [starting EXCEPT ![t] = TRUE]
  /\ raising' = [raising EXCEPT ![t] = FALSE]

CallStop(t) ==
  /\ lifecycle_lock' = Acquire(lifecycle_lock, t)
  /\ Goto(t, "stop") /\ starting' = [starting EXCEPT ![t] = FALSE]
  /\ raising' = [raising EXCEPT ![t] = FALSE]

(* start_web or stop returns or raises in task t: the stream of a          *)
(* diagnostic begins or its finally runs; attach_audio makes the call      *)
(* active, or fails it when it is a browser's; hangup ends it.             *)
Returns(t, ok) ==
  /\ lifecycle_lock' = Release(lifecycle_lock)
  /\ UNCHANGED <<starting, raising>>
  /\ \/ /\ t \in Socket
        /\ Goto(t, IF starting[t] /\ ok THEN "stream" ELSE "finish")
        /\ UNCHANGED <<callv, operation_lock>>
     \/ /\ t \notin Socket /\ starting[t]
        /\ attached' = ok
        /\ call' \in IF ok THEN {"active"} ELSE {"none", "ringing"}
        /\ operation_lock' = Release(operation_lock) /\ Goto(t, "idle")
     \/ /\ t \notin Socket /\ ~starting[t]
        /\ attached' = FALSE /\ call' = "none"
        /\ operation_lock' = Release(operation_lock) /\ Goto(t, "idle")

Holds(t, label) == pc[t] = label /\ lifecycle_lock.holder = t

Within(t, label) ==
  /\ Goto(t, label) /\ UNCHANGED <<operation_lock, lifecycle_lock, starting, callv>>

(* Mutant: start_web raises and leaves what it started.                    *)
StartRaisesAtOnce(t) == Returns(t, FALSE)

(* start_web fails: what was started is stopped under the same lock.       *)
StartRaises(t) == Within(t, "stop") /\ raising' = [raising EXCEPT ![t] = TRUE]

(* Mutant: a voice route that is up does not refuse the start.             *)
BeginUnchecked(t) ==
  /\ Holds(t, "begin")
  /\ \/ /\ mode \/ alsa \/ bridge
        /\ StartRaises(t) /\ UNCHANGED adapter
     \/ /\ ~mode /\ ~alsa /\ ~bridge
        /\ Within(t, IF configured THEN "voice" ELSE "open") /\ UNCHANGED raising
        /\ alsa' = ~configured
        /\ UNCHANGED <<voice, mode, bridge, workers, user, left>>
  /\ UNCHANGED <<configured, mine, victim, diag, restart_pending, bounds>>

(* _require_clean_module_runtime, then the guards of _start_hardware.      *)
Begin(t) ==
  /\ Holds(t, "begin")
  /\ \/ voice /\ Returns(t, FALSE) /\ UNCHANGED adapter
     \/ /\ ~voice /\ (mode \/ alsa \/ bridge)
        /\ StartRaises(t) /\ UNCHANGED adapter
     \/ /\ ~voice /\ ~mode /\ ~alsa /\ ~bridge
        /\ Within(t, IF configured THEN "voice" ELSE "open") /\ UNCHANGED raising
        /\ alsa' = ~configured
        /\ UNCHANGED <<voice, mode, bridge, workers, user, left>>
  /\ UNCHANGED <<configured, mine, victim, diag, restart_pending, bounds>>

StartVoice(t) ==
  /\ Holds(t, "voice")
  /\ \/ /\ Within(t, "open") /\ voice' = TRUE /\ alsa' = TRUE
        /\ UNCHANGED <<raising, mode, bridge, workers, user, left, bounds>>
     \/ StartRaises(t) /\ Fault /\ UNCHANGED adapter
  /\ UNCHANGED <<configured, mine, victim, diag, restart_pending>>

(* Once ALSA is open nothing suspends before both workers run.             *)
OpenAlsa(t) ==
  /\ Holds(t, "open")
  /\ \/ /\ Within(t, "announce")
        /\ bridge' = TRUE /\ mode' = TRUE /\ workers' = TRUE /\ user' = t
        /\ UNCHANGED <<raising, alsa, voice, left, bounds>>
     \/ StartRaises(t) /\ Fault /\ UNCHANGED adapter
  /\ UNCHANGED <<configured, mine, victim, diag, restart_pending>>

(* The event "active" is persisted and published.                          *)
Announce(t) ==
  /\ Holds(t, "announce") /\ UNCHANGED adapter
  /\ \/ Returns(t, TRUE) /\ UNCHANGED bounds
     \/ StartRaises(t) /\ Fault
  /\ UNCHANGED <<configured, mine, victim, diag, restart_pending>>

(* _stop_unlocked: the workers are told to stop and joined.                *)
StopWorkers(t) ==
  /\ Holds(t, "stop")
  /\ bridge' = FALSE
  /\ Within(t, "join")
  /\ UNCHANGED <<alsa, voice, mode, workers, user, left>>
  /\ UNCHANGED <<configured, raising, mine, victim, diag, restart_pending, bounds>>

(* A worker that is still alive after two seconds keeps the ALSA handles.  *)
JoinWorkers(t) ==
  /\ Holds(t, "join")
  /\ \/ /\ Within(t, "close") /\ workers' = FALSE
        /\ UNCHANGED <<raising, alsa, voice, mode, bridge, user, left, bounds>>
     \/ /\ workers /\ Fault
        /\ Returns(t, FALSE) /\ left' = {"alsa", "voice", "mode", "workers"}
        /\ UNCHANGED <<alsa, voice, mode, bridge, workers, user>>
  /\ UNCHANGED <<configured, mine, victim, diag, restart_pending>>

CloseAlsa(t) ==
  /\ Holds(t, "close")
  /\ alsa' = FALSE /\ Within(t, "unvoice")
  /\ \/ UNCHANGED <<raising, bounds>>
     \/ alsa /\ Fault /\ raising' = [raising EXCEPT ![t] = TRUE]
  /\ UNCHANGED <<voice, mode, bridge, workers, user, left>>
  /\ UNCHANGED <<configured, mine, victim, diag, restart_pending>>

(* The voice route goes last; an unconfirmed stop keeps the flag.          *)
StopVoice(t) ==
  /\ Holds(t, "unvoice")
  /\ \/ /\ voice' = FALSE /\ Returns(t, ~raising[t])
        /\ left' = {} /\ UNCHANGED bounds
     \/ /\ voice /\ Fault
        /\ Returns(t, FALSE) /\ left' = {"voice"} /\ UNCHANGED voice
  /\ mode' = FALSE /\ user' = NoTask
  /\ UNCHANGED <<alsa, bridge, workers>>
  /\ UNCHANGED <<configured, mine, victim, diag, restart_pending>>

AdapterStep(t) ==
  \/ Begin(t) \/ StartVoice(t) \/ OpenAlsa(t) \/ Announce(t)
  \/ StopWorkers(t) \/ JoinWorkers(t) \/ CloseAlsa(t) \/ StopVoice(t)

-----------------------------------------------------------------------------
(* WebAudioDiagnosticService                                               *)

(* start_audio_diagnostic holds the operation lock; create.                *)
CreateDiagnostic ==
  /\ pc[Admin] = "create" /\ operation_lock.holder = Admin
  /\ \/ /\ ~restart_pending /\ call = "none" /\ session = 0 /\ sessions < MaxSessions
        /\ sessions' = sessions + 1
        /\ session' = sessions + 1 /\ expiry' = TRUE
     \/ /\ restart_pending \/ call # "none" \/ session # 0 \/ sessions = MaxSessions
        /\ UNCHANGED <<sessions, session, expiry>>
  /\ operation_lock' = Release(operation_lock) /\ Goto(Admin, "idle")
  /\ UNCHANGED <<configured, lifecycle_lock, starting, raising, mine, victim, callv, stream_task,
                 adapter, restart_pending, calls, requests, faults>>

(* A socket with a ticket of the session becomes its stream (a task that   *)
(* somebody gathers is not reused for another socket).                     *)
RunDiagnostic(w) ==
  /\ pc[w] = "idle" /\ \A t \in Task : victim[t] # w
  /\ session # 0 /\ stream_task = NoTask
  /\ stream_task' = w /\ mine' = [mine EXCEPT ![w] = session]
  /\ expiry' = FALSE
  /\ CallStart(w)
  /\ UNCHANGED <<configured, operation_lock, victim, callv, session, adapter, restart_pending, bounds>>

(* The client leaves: the finally of run stops the adapter.                *)
StreamEnds(w) ==
  /\ pc[w] = "stream" /\ CallStop(w)
  /\ UNCHANGED <<configured, operation_lock, mine, victim, callv, diag, adapter, restart_pending, bounds>>

(* The inner finally of run; it disarms whatever expiry is armed.          *)
FinishRun(w) ==
  /\ pc[w] = "finish"
  /\ session' = IF session = mine[w] THEN 0 ELSE session
  /\ stream_task' = IF stream_task = w THEN NoTask ELSE stream_task
  /\ expiry' = FALSE
  /\ Goto(w, "idle") /\ mine' = [mine EXCEPT ![w] = 0]
  /\ UNCHANGED <<configured, operation_lock, lifecycle_lock, starting, raising, victim, callv, adapter,
                 restart_pending, bounds>>

Expire ==
  /\ expiry /\ expiry' = FALSE
  /\ session' = IF stream_task = NoTask THEN 0 ELSE session
  /\ UNCHANGED <<configured, operation_lock, lifecycle_lock, tasks, callv, stream_task, adapter,
                 restart_pending, bounds>>

(* After the diagnostic is out of the way: start_inbound, start_outbound   *)
(* or the hangup of a reconnect ask for the operation lock.                *)
Proceed(t) ==
  /\ operation_lock' = Acquire(operation_lock, t)
  /\ pc' = [pc EXCEPT ![t] = IF t = Ring THEN "inbound" ELSE "hangup"]

(* WebAudioDiagnosticService.stop in task t: forgets the session, cancels  *)
(* the stream, if any, and gathers it.  Cancelled inside the adapter the   *)
(* stream leaves it as it is: start_web only cleans up after an Exception. *)
StopDiagnostic(t) ==
  /\ session' = 0 /\ stream_task' = NoTask /\ expiry' = FALSE
  /\ victim' = [victim EXCEPT ![t] = stream_task]
  /\ \/ /\ stream_task = NoTask /\ Proceed(t)
        /\ UNCHANGED <<lifecycle_lock, left>>
     \/ /\ stream_task # NoTask
        /\ LET w == stream_task
               inside == pc[w] \in AdapterStart \cup AdapterStop
           IN  /\ pc' = [pc EXCEPT ![t] = "gather", ![w] = IF inside THEN "finish" ELSE @]
               /\ lifecycle_lock' = Withdraw(lifecycle_lock, w)
               /\ left' = IF inside /\ pc[w] # "begin" THEN On ELSE left
        /\ UNCHANGED operation_lock
  /\ UNCHANGED <<configured, starting, raising, mine, callv, alsa, voice, mode, bridge, workers, user,
                 restart_pending>>

(* Mutant: the stream is gathered but not cancelled.                       *)
CancelNothing(w) == pc[w] = "stream" /\ FALSE /\ UNCHANGED vars

(* A stream that is cancelled while it only streams stops the adapter.     *)
CancelStream(w) ==
  /\ pc[w] = "stream" /\ \E t \in Task : pc[t] = "gather" /\ victim[t] = w
  /\ CallStop(w)
  /\ UNCHANGED <<configured, operation_lock, mine, victim, callv, diag, adapter, restart_pending, bounds>>

(* The gather returns; the task goes on with the call or the reconnect.    *)
Gathered(t) ==
  /\ pc[t] = "gather" /\ victim[t] \in {NoTask} \cup {w \in Socket : pc[w] = "idle"}
  /\ victim' = [victim EXCEPT ![t] = NoTask]
  /\ Proceed(t)
  /\ UNCHANGED <<configured, lifecycle_lock, starting, raising, mine, callv, diag, adapter,
                 restart_pending, bounds>>

-----------------------------------------------------------------------------
(* Calls                                                                   *)

(* incoming_cellular_call and start_web_outbound: the diagnostic is        *)
(* stopped before the operation lock is asked for.                         *)
NewCall ==
  /\ pc[Ring] = "idle" /\ calls < MaxCalls /\ calls' = calls + 1
  /\ StopDiagnostic(Ring)
  /\ UNCHANGED <<sessions, requests, faults>>

(* Mutant: calls and maintenance have a lock each.                         *)
RegisterAtOnce ==
  /\ pc[Ring] = "inbound"
  /\ call' = IF restart_pending \/ call # "none" THEN call ELSE "ringing"
  /\ operation_lock' = Withdraw(operation_lock, Ring) /\ Goto(Ring, "idle")
  /\ UNCHANGED <<configured, lifecycle_lock, starting, raising, mine, victim, attached, diag, adapter,
                 restart_pending, bounds>>

RegisterCall ==
  /\ pc[Ring] = "inbound" /\ operation_lock.holder = Ring
  /\ call' = IF restart_pending \/ call # "none" THEN call ELSE "ringing"
  /\ operation_lock' = Release(operation_lock) /\ Goto(Ring, "idle")
  /\ UNCHANGED <<configured, lifecycle_lock, starting, raising, mine, victim, attached, diag, adapter,
                 restart_pending, bounds>>

(* The call's socket or its end asks for the operation lock.               *)
ClientRequest(label) ==
  /\ pc[Client] = "idle" /\ call # "none" /\ (label = "attach" => ~attached)
  /\ operation_lock' = Acquire(operation_lock, Client) /\ Goto(Client, label)
  /\ UNCHANGED <<configured, lifecycle_lock, starting, raising, mine, victim, callv, diag, adapter,
                 restart_pending, bounds>>

AttachAudio ==
  /\ pc[Client] = "attach" /\ operation_lock.holder = Client
  /\ \/ /\ call # "none" /\ ~attached /\ CallStart(Client) /\ UNCHANGED operation_lock
     \/ /\ call = "none" \/ attached
        /\ operation_lock' = Release(operation_lock) /\ Goto(Client, "idle")
        /\ UNCHANGED <<lifecycle_lock, starting, raising>>
  /\ UNCHANGED <<configured, mine, victim, callv, diag, adapter, restart_pending, bounds>>

(* hangup, by the client, the modem, the timer or a reconnect.             *)
Hangup(t) ==
  /\ pc[t] = "hangup" /\ operation_lock.holder = t
  /\ \/ attached /\ CallStop(t) /\ UNCHANGED <<operation_lock, call>>
     \/ /\ ~attached /\ call' = "none"
        /\ operation_lock' = Release(operation_lock) /\ Goto(t, "idle")
        /\ UNCHANGED <<lifecycle_lock, starting, raising>>
  /\ UNCHANGED <<configured, mine, victim, attached, diag, adapter, restart_pending, bounds>>

-----------------------------------------------------------------------------
(* Maintenance: the same lock as the calls (server.py:237).                *)

Request == requests < MaxRequests /\ requests' = requests + 1 /\ UNCHANGED <<sessions, calls, faults>>

AdminRequest(label) ==
  /\ pc[Admin] = "idle"
  /\ \/ label = "create" /\ sessions < MaxSessions /\ UNCHANGED bounds
     \/ label = "maintain" /\ Request
  /\ operation_lock' = Acquire(operation_lock, Admin) /\ Goto(Admin, label)
  /\ UNCHANGED <<configured, lifecycle_lock, starting, raising, mine, victim, callv, diag, adapter,
                 restart_pending>>

Reconnect == pc[Admin] = "idle" /\ Request /\ StopDiagnostic(Admin)

Idle == call = "none" /\ session = 0

(* at, restart_module: refused unless idle; the command holds the lock.    *)
MaintenanceAt ==
  /\ pc[Admin] = "maintain" /\ operation_lock.holder = Admin
  /\ \/ /\ Idle /\ ~restart_pending /\ Goto(Admin, "at") /\ UNCHANGED operation_lock
     \/ /\ ~Idle \/ restart_pending
        /\ Goto(Admin, "idle") /\ operation_lock' = Release(operation_lock)
  /\ UNCHANGED <<configured, lifecycle_lock, starting, raising, mine, victim, callv, diag, adapter,
                 restart_pending, bounds>>

AtEnds ==
  /\ pc[Admin] = "at" /\ Goto(Admin, "idle")
  /\ operation_lock' = Release(operation_lock)
  /\ UNCHANGED <<configured, lifecycle_lock, starting, raising, mine, victim, callv, diag, adapter,
                 restart_pending, bounds>>

(* restart_service: accepted when idle, executed a second later.           *)
RestartService ==
  /\ pc[Admin] = "maintain" /\ operation_lock.holder = Admin
  /\ restart_pending' = (restart_pending \/ Idle)
  /\ Goto(Admin, "idle") /\ operation_lock' = Release(operation_lock)
  /\ UNCHANGED <<configured, lifecycle_lock, starting, raising, mine, victim, callv, diag, adapter, bounds>>

(* systemctl fails: the gateway lives on and takes calls again.            *)
RestartFails ==
  /\ restart_pending /\ restart_pending' = FALSE
  /\ UNCHANGED <<configured, operation_lock, lifecycle_lock, tasks, callv, diag, adapter, bounds>>

-----------------------------------------------------------------------------
Continue(t) ==
  \/ AdapterStep(t)
  \/ t \in {Ring, Admin} /\ Gathered(t)
  \/ t \in Socket /\ (CancelStream(t) \/ FinishRun(t))
  \/ t = Ring /\ RegisterCall
  \/ t = Client /\ AttachAudio
  \/ t \in {Client, Admin} /\ Hangup(t)
  \/ t = Admin /\ (CreateDiagnostic \/ MaintenanceAt \/ AtEnds \/ RestartService)

Next ==
  \/ \E t \in Task : Continue(t)
  \/ \E w \in Socket : RunDiagnostic(w) \/ StreamEnds(w)
  \/ Expire \/ NewCall \/ Reconnect \/ RestartFails
  \/ \E label \in {"attach", "hangup"} : ClientRequest(label)
  \/ \E label \in {"create", "maintain"} : AdminRequest(label)

Spec == Init /\ [][Next]_vars

(* Every await of a task that is not for its client returns.               *)
FairSpec == Spec /\ \A t \in Task : WF_vars(Continue(t))

-----------------------------------------------------------------------------
(* A maintenance command or a pending restart never meets a live call or   *)
(* an audio diagnostic.                                                    *)
MaintenanceAlone == pc[Admin] = "at" \/ restart_pending => Idle

(* With a module runtime the audio of a call is stopped by its own end or  *)
(* a reconnect only: a diagnostic that starts late is refused by the voice *)
(* route, before it touches anything (bridge.py:105).                      *)
CallAudioUndisturbed ==
  [][configured /\ user = Client /\ bridge /\ ~bridge' => lifecycle_lock.holder \in {Client, Admin}]_vars

(* The same without the runtime, where a refused start cleans up what is   *)
(* not its own (bridge.py:107): a diagnostic is unavailable during a call  *)
(* (calls.py:345), so that it cannot stop the audio of one.                *)
DiagnosticUnavailable ==
  [][user = Client /\ bridge /\ ~bridge' => lifecycle_lock.holder \in {Client, Admin}]_vars

(* When no start, stop or session is under way no part of the audio path   *)
(* is on, however many steps of the starts and stops failed, but for what  *)
(* the last stop that raised could not confirm (workers that still run and *)
(* all they need, or the voice route alone) and what was on when a task    *)
(* was cancelled inside the adapter.  A stop that goes through clears both.*)
InUse == attached \/ \E w \in Socket : pc[w] = "stream"
AdapterFree == lifecycle_lock.holder = NoTask /\ ~InUse => On \subseteq left

(* A new call gets past the diagnostic and the operation in progress,      *)
(* whatever they were doing.                                               *)
NewCallRegistered == pc[Ring] # "idle" ~> pc[Ring] = "idle"
=============================================================================

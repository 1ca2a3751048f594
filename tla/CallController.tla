-------------------------- MODULE CallController --------------------------
(***************************************************************************)
(* calls/controller.py (ClientCallController) with calls/core.py           *)
(* (CallCoordinator), the audio WebSocket of web/calls.py                  *)
(* (WebAudioSession.run), the poller of modem/call_monitor.py and the      *)
(* wiring of server.py.                                                    *)
(*                                                                         *)
(* A task is an asyncio task.  One action is what a task does between two  *)
(* suspension points, so the order in which locks are released, taken and  *)
(* queued for inside one action is the order of the code.  The modem and   *)
(* the audio hardware are external: an awaited command may fail, and the   *)
(* cellular leg moves on its own (remote answer, remote hang-up).          *)
(***************************************************************************)
EXTENDS AsyncLock

CONSTANTS Clients,      \* HTTP request tasks of the clients
          Sockets,      \* audio WebSocket tasks
          Modem,        \* the modem callbacks (serialised by _monitor_callback_lock)
          Poller,       \* monitor_cellular_call_status
          Timer,        \* the task in _timeout_task
          Inst, NoInst, \* app installations; NoInst is a web client
          Frontend,     \* where incoming calls go: "app" or "web"
          Failing,      \* which awaited services may fail, see DataAssumption; "save":
                        \* _record in start and attach, "record": _record elsewhere
          MaxCalls,     \* bound: calls per behaviour
          MaxFaults,    \* bound: failed service calls per behaviour
          MaxCrashes,   \* bound: restarts of the service per behaviour
          MaxQueue,     \* bound: modem callbacks waiting
          AnyIndicator  \* a +CIEV of an indicator other than "call active" may arrive

ASSUME TaskAssumption ==
  /\ Task = Clients \cup Sockets \cup {Modem, Poller, Timer}
  /\ Clients \cap Sockets = {}
  /\ Modem # Poller /\ Modem # Timer /\ Poller # Timer
  /\ {Modem, Poller, Timer} \cap (Clients \cup Sockets) = {}
ASSUME DataAssumption ==
  /\ NoInst \notin Inst
  /\ Frontend \in {"app", "web"}
  /\ Failing \subseteq {"audio_start", "audio_stop", "dial", "answer", "hangup", "save", "record"}
  /\ MaxCalls \in Nat \ {0}
  /\ {MaxFaults, MaxCrashes, MaxQueue} \subseteq Nat
  /\ AnyIndicator \in BOOLEAN

VARIABLES
  active,   \* id of CallCoordinator.active, 0 = None (ids are handed out in order)
  call,     \* [Call -> CallRecord]
  saved,    \* [Call -> state in the call_records table], "none" = no row
  flags,    \* _socket_reserved, _audio_attached, _cellular_started
  timer,    \* call the armed timeout task is for, 0 = none
  op,       \* _operation_lock
  hang,     \* _hangup_lock
  pc,       \* where each task is suspended
  job,      \* what each task is doing
  leg,      \* the module's voice call
  audio,    \* the audio adapter: is the call path open?
  urcs,     \* modem callbacks not yet run, oldest first
  faults, crashes

coreVars == <<active, call, saved, flags, timer>>
lockVars == <<op, hang>>
envVars == <<leg, audio, urcs, faults, crashes>>
vars == <<active, call, saved, flags, timer, op, hang, pc, job,
          leg, audio, urcs, faults, crashes>>

-----------------------------------------------------------------------------
(* Types *)

Call == 1..MaxCalls
Terminal == {"ended", "failed"}
LiveState == {"ringing_cellular", "waiting_client", "waiting_cellular", "active"}
CallState == {"none"} \cup LiveState \cup Terminal

\* CallRecord, with the end event of the call.  due: expires_at is None, ahead
\* or past.  why: the part of last_error that names who ended the call.
CallRecord ==
  [dir : {"outbound", "inbound"}, front : {"app", "web"}, state : CallState,
   owner : Inst \cup {NoInst}, due : {"none", "ahead", "past"},
   why : {"none", "hangup", "timeout", "disconnected", "socket", "error", "restart"},
   over : BOOLEAN]

NoCall == [dir |-> "outbound", front |-> "web", state |-> "none", owner |-> NoInst,
           due |-> "none", why |-> "none", over |-> FALSE]

HangupOp == {"hangup", "client_hangup", "timeout", "disconnected", "socket_closed"}
Job == [op : {"none", "start_outbound", "start_inbound", "answer", "dtmf", "socket",
              "poll", "connected"} \cup HangupOp,
        call : 0..MaxCalls, inst : Inst \cup {NoInst}]
Idle == [op |-> "none", call |-> 0, inst |-> NoInst]

\* Suspension points inside an operation that holds _operation_lock ...
Locked == {"start_record", "answer_record", "answer_leg", "audio_start", "dial", "attach_leg",
           "attach_record", "active_record", "connect_record", "dtmf_sent",
           "stop_audio", "stop_leg", "cleaned", "end_record"}
\* ... waiting for a lock ...
Queued == {"want_op", "want_reserve", "want_attach", "want_hangup", "hangup_op"}
\* ... and with no lock.
Loose == {"idle", "accepted", "pcm", "stream", "poll_read"}

Flags == [reserved : BOOLEAN, attached : BOOLEAN, started : BOOLEAN]
NoFlags == [reserved |-> FALSE, attached |-> FALSE, started |-> FALSE]

TypeOK ==
  /\ active \in 0..MaxCalls
  /\ call \in [Call -> CallRecord]
  /\ saved \in [Call -> CallState]
  /\ flags \in Flags
  /\ timer \in 0..MaxCalls
  /\ op \in Lock
  /\ hang \in Lock
  /\ pc \in [Task -> Locked \cup Queued \cup Loose]
  /\ job \in [Task -> Job]
  /\ leg \in {"idle", "ringing", "dialing", "up"}
  /\ audio \in {"off", "on"}
  /\ urcs \in Seq({"ring", "connected", "disconnected"})
  /\ faults \in 0..MaxFaults
  /\ crashes \in 0..MaxCrashes

Init ==
  /\ active = 0
  /\ call = [c \in Call |-> NoCall]
  /\ saved = [c \in Call |-> "none"]
  /\ flags = NoFlags
  /\ timer = 0
  /\ op = Unlocked
  /\ hang = Unlocked
  /\ pc = [t \in Task |-> "idle"]
  /\ job = [t \in Task |-> Idle]
  /\ leg = "idle"
  /\ audio = "off"
  /\ urcs = <<>>
  /\ faults = 0
  /\ crashes = 0

-----------------------------------------------------------------------------
(* Helpers *)

\* CallCoordinator.current: the active record unless it is terminal.
Live == active # 0 /\ call[active].state \notin Terminal

\* require_call and require_owner, for the live call only.
ValidCall(c) == Live /\ active = c /\ call[c].due # "past"
OwnedBy(c, i) == ValidCall(c) /\ (call[c].front = "app" => i # NoInst /\ call[c].owner = i)

\* A service call that raises.
Fails(service) ==
  /\ service \in Failing
  /\ faults < MaxFaults
  /\ faults' = faults + 1

\* Mutant: transition with its two arguments swapped.
InStateSwapped(r, s, reason) == [r EXCEPT !.state = reason, !.why = s]

\* CallCoordinator.transition and the expires_at it clears.
InState(r, s, reason) ==
  [r EXCEPT !.state = s, !.why = reason,
            !.due = IF s \in {"active"} \cup Terminal THEN "none" ELSE r.due]

Moved(s, reason) == [call EXCEPT ![active] = InState(call[active], s, reason)]

\* _cancel_timeout run by t: the timer task is cancelled unless it is t itself;
\* a timer that was waiting in hangup() leaves the lock queues.
TimerGone(L, t) == IF t = Timer THEN L ELSE Withdraw(L, Timer)
Stopped(f, t, idle) == IF t = Timer THEN f ELSE [f EXCEPT ![Timer] = idle]

\* t goes on at p, keeping its locks.
Goto(t, p) == pc' = [pc EXCEPT ![t] = p] /\ UNCHANGED <<op, hang, job>>

\* t returns from an operation that held only _operation_lock.
Return(t) ==
  /\ op' = Release(op)
  /\ pc' = [pc EXCEPT ![t] = "idle"]
  /\ job' = [job EXCEPT ![t] = Idle]
  /\ UNCHANGED hang

\* t calls hangup() with the operation lock at `opNow`: it queues for
\* _hangup_lock or, having it at once, for _operation_lock.
EnterHangup(t, j, opNow) ==
  /\ job' = [job EXCEPT ![t] = j]
  /\ hang' = Acquire(hang, t)
  /\ IF hang.holder = NoTask
     THEN op' = Acquire(opNow, t) /\ pc' = [pc EXCEPT ![t] = "hangup_op"]
     ELSE op' = opNow /\ pc' = [pc EXCEPT ![t] = "want_hangup"]

\* WebAudioSession.run's finally: websocket_disconnected(call_id).
CloseSocket(s, opNow) ==
  IF Live /\ active = job[s].call
  THEN EnterHangup(s, [op |-> "socket_closed", call |-> job[s].call, inst |-> NoInst], opNow)
  ELSE /\ op' = opNow
       /\ pc' = [pc EXCEPT ![s] = "idle"]
       /\ job' = [job EXCEPT ![s] = Idle]
       /\ UNCHANGED hang

-----------------------------------------------------------------------------
(* Requests: what wakes a task up.  The checks server.py makes before the    *)
(* lock is taken are repeated under it, so a request they reject does        *)
(* nothing and is left out.                                                  *)

\* A client calls start, answer, dtmf or hangup; while an app call is live only a
\* registered installation may (require_installation).  Module reconnect and service
\* shutdown call hangup() without a call id.
Request(t) ==
  /\ pc[t] = "idle"
  /\ \E i \in Inst \cup {NoInst}, c \in 0..active :
       \E name \in {"start_outbound", "answer", "dtmf", "client_hangup", "hangup"} :
         LET j == [op |-> name, call |-> c, inst |-> i] IN
         /\ name \in {"start_outbound", "hangup"} <=> c = 0
         /\ name = "dtmf" => i # NoInst
         /\ name = "hangup" => i = NoInst
         /\ name = "answer" => ValidCall(c)
         /\ name \in {"answer", "client_hangup"} /\ Live /\ call[active].front = "app" => i # NoInst
         /\ IF name \in HangupOp
            THEN EnterHangup(t, j, op)
            ELSE /\ job' = [job EXCEPT ![t] = j]
                 /\ pc' = [pc EXCEPT ![t] = "want_op"]
                 /\ op' = Acquire(op, t)
                 /\ UNCHANGED hang
  /\ UNCHANGED <<coreVars, envVars>>

\* A socket presents a ticket (issued to the owner of the call): the ticket is
\* consumed and checked, then the handshake is awaited before run() starts.
Connect(s) ==
  /\ pc[s] = "idle"
  /\ Live
  /\ OwnedBy(active, call[active].owner)
  /\ job' = [job EXCEPT ![s] = [op |-> "socket", call |-> active, inst |-> call[active].owner]]
  /\ pc' = [pc EXCEPT ![s] = "accepted"]
  /\ UNCHANGED <<coreVars, lockVars, envVars>>

\* WebAudioSession.run: reserve_audio queues for the operation lock.
Run(s) ==
  /\ pc[s] = "accepted"
  /\ pc' = [pc EXCEPT ![s] = "want_reserve"]
  /\ op' = Acquire(op, s)
  /\ UNCHANGED <<coreVars, hang, job, envVars>>

\* The next modem callback starts: incoming_cellular_call, cellular_connected
\* or cellular_disconnected.
Callback ==
  /\ pc[Modem] = "idle"
  /\ urcs # <<>>
  /\ urcs' = Tail(urcs)
  /\ IF Head(urcs) = "disconnected"
     THEN EnterHangup(Modem, [op |-> "disconnected", call |-> 0, inst |-> NoInst], op)
     ELSE /\ job' = [job EXCEPT ![Modem] =
                       [op |-> IF Head(urcs) = "ring" THEN "start_inbound" ELSE "connected",
                        call |-> 0, inst |-> NoInst]]
          /\ pc' = [pc EXCEPT ![Modem] = "want_op"]
          /\ op' = Acquire(op, Modem)
          /\ UNCHANGED hang
  /\ UNCHANGED <<coreVars, leg, audio, faults, crashes>>

\* The poller finds a call waiting for the remote answer and asks the modem ...
Poll ==
  /\ pc[Poller] = "idle"
  /\ Live /\ call[active].state = "waiting_cellular"
  /\ pc' = [pc EXCEPT ![Poller] = "poll_read"]
  /\ job' = [job EXCEPT ![Poller] = [op |-> "poll", call |-> 0, inst |-> NoInst]]
  /\ UNCHANGED <<coreVars, lockVars, envVars>>

\* ... and calls cellular_connected when the module reports an active voice call.
PollRead ==
  /\ pc[Poller] = "poll_read"
  /\ IF leg = "up"
     THEN /\ pc' = [pc EXCEPT ![Poller] = "want_op"]
          /\ job' = [job EXCEPT ![Poller].op = "connected"]
          /\ op' = Acquire(op, Poller)
     ELSE /\ pc' = [pc EXCEPT ![Poller] = "idle"]
          /\ job' = [job EXCEPT ![Poller] = Idle]
          /\ UNCHANGED op
  /\ UNCHANGED <<coreVars, hang, envVars>>

\* _timeout: the sleep is over and the task calls hangup(call_id).
TimerFires ==
  /\ timer # 0
  /\ pc[Timer] = "idle"
  /\ EnterHangup(Timer, [op |-> "timeout", call |-> timer, inst |-> NoInst], op)
  /\ UNCHANGED <<coreVars, envVars>>

\* expires_at passes.
Expire ==
  /\ Live
  /\ call[active].due = "ahead"
  /\ call' = [call EXCEPT ![active].due = "past"]
  /\ UNCHANGED <<active, saved, flags, timer, lockVars, pc, job, envVars>>

-----------------------------------------------------------------------------
(* start_outbound, start_inbound *)

Enter(t, name) == pc[t] = "want_op" /\ op.holder = t /\ job[t].op = name

\* start_guard refuses (a service restart is pending), or another call is live
\* and it is not the same incoming call ringing again (whose record is returned).
StartRefused(t) ==
  /\ Enter(t, "start_outbound") \/ Enter(t, "start_inbound")
  /\ Return(t)
  /\ UNCHANGED <<coreVars, envVars>>

\* Mutant: the coordinator does not look at the call it already has.
StartOverLive(t) ==
  /\ Enter(t, "start_outbound") \/ Enter(t, "start_inbound")
  /\ active < MaxCalls
  /\ active' = active + 1
  /\ call' = [call EXCEPT ![active + 1] = [NoCall EXCEPT !.state = "waiting_client"]]
  /\ flags' = NoFlags
  /\ Goto(t, "start_record")
  /\ UNCHANGED <<saved, timer, envVars>>

\* CallCoordinator.start_*, _begin_call, _reset_flags; the timer of the previous
\* call is not touched.  Bound: no more than MaxCalls calls.
Start(t) ==
  /\ Enter(t, "start_outbound") \/ Enter(t, "start_inbound")
  /\ ~Live
  /\ active < MaxCalls
  /\ LET in == job[t].op = "start_inbound" IN
     /\ active' = active + 1
     /\ call' = [call EXCEPT ![active + 1] =
          [dir |-> IF in THEN "inbound" ELSE "outbound",
           front |-> IF in THEN Frontend ELSE IF job[t].inst = NoInst THEN "web" ELSE "app",
           state |-> IF in THEN "ringing_cellular" ELSE "waiting_client",
           owner |-> job[t].inst, due |-> "ahead", why |-> "none", over |-> FALSE]]
     /\ flags' = [NoFlags EXCEPT !.started = in]
  /\ Goto(t, "start_record")
  /\ UNCHANGED <<saved, timer, envVars>>

\* A repeated ring of the same incoming call stores a caller number that was
\* not known before; the record keeps its state.
RingAgain(t) ==
  /\ Enter(t, "start_inbound")
  /\ Live
  /\ call[active].front = Frontend /\ call[active].dir = "inbound"
  /\ Goto(t, "connect_record")
  /\ UNCHANGED <<coreVars, envVars>>

\* Mutant: _arm_timeout cancels after it has created the new task.
StartRecordUnarmed(t) ==
  /\ pc[t] = "start_record"
  /\ saved' = [saved EXCEPT ![active] = call[active].state]
  /\ timer' = 0
  /\ Return(t)
  /\ UNCHANGED <<active, call, flags, envVars>>

\* _record, then _arm_timeout (which cancels the previous timer first).
StartRecord(t) ==
  /\ pc[t] = "start_record"
  /\ saved' = [saved EXCEPT ![active] = call[active].state]
  /\ timer' = active
  /\ op' = Release(Withdraw(op, Timer))
  /\ hang' = Withdraw(hang, Timer)
  /\ pc' = [pc EXCEPT ![t] = "idle", ![Timer] = "idle"]
  /\ job' = [job EXCEPT ![t] = Idle, ![Timer] = Idle]
  /\ UNCHANGED <<active, call, flags, envVars>>

\* _record raises: the request fails before the timer is armed.
StartRecordFails(t) ==
  /\ pc[t] = "start_record"
  /\ Fails("save")
  /\ Return(t)
  /\ UNCHANGED <<coreVars, leg, audio, urcs, crashes>>

-----------------------------------------------------------------------------
(* answer *)

\* Mutant: the last device to answer takes the call.
ClaimAgain(t) ==
  /\ Enter(t, "answer")
  /\ ValidCall(job[t].call)
  /\ call[active].dir = "inbound" /\ call[active].front = "app"
  /\ job[t].inst # NoInst
  /\ call' = [call EXCEPT ![active].owner = job[t].inst, ![active].state = "waiting_client"]
  /\ Goto(t, "answer_record")
  /\ UNCHANGED <<active, saved, flags, timer, envVars>>

\* An app device claims the ringing call and gets 15 s to connect its audio.
Claim(t) ==
  /\ Enter(t, "answer")
  /\ ValidCall(job[t].call)
  /\ call[active].dir = "inbound" /\ call[active].front = "app"
  /\ job[t].inst # NoInst
  /\ call[active].owner = NoInst
  /\ call' = [call EXCEPT ![active] =
                [InState(call[active], "waiting_client", "none")
                   EXCEPT !.owner = job[t].inst, !.due = "ahead"]]
  /\ Goto(t, "answer_record")
  /\ UNCHANGED <<active, saved, flags, timer, envVars>>

\* Every other answer that changes nothing: rejected, or repeated by the owner.
AnswerRefused(t) ==
  /\ Enter(t, "answer")
  /\ \/ ~ValidCall(job[t].call)
     \/ call[active].dir # "inbound"
     \/ call[active].front = "app" /\ (job[t].inst = NoInst \/ call[active].owner # NoInst)
     \/ call[active].front = "web" /\ ~flags.attached
  /\ Return(t)
  /\ UNCHANGED <<coreVars, envVars>>

\* The browser answers: ATA is sent once its audio is attached.
AnswerWeb(t) ==
  /\ Enter(t, "answer")
  /\ ValidCall(job[t].call)
  /\ call[active].dir = "inbound" /\ call[active].front = "web"
  /\ flags.attached
  /\ Goto(t, "answer_leg")
  /\ UNCHANGED <<coreVars, envVars>>

\* Mutant: the 60 s timer is cancelled and no 15 s timer armed.
ClaimRecordUnarmed(t) ==
  /\ pc[t] = "answer_record"
  /\ saved' = [saved EXCEPT ![active] = call[active].state]
  /\ timer' = 0
  /\ Return(t)
  /\ UNCHANGED <<active, call, flags, envVars>>

\* _record after the claim, then the 15 s timer replaces the 60 s one.
ClaimRecord(t) ==
  /\ pc[t] = "answer_record"
  /\ \/ /\ saved' = [saved EXCEPT ![active] = call[active].state]
        /\ timer' = active
        /\ op' = Release(Withdraw(op, Timer))
        /\ hang' = Withdraw(hang, Timer)
        /\ pc' = [pc EXCEPT ![t] = "idle", ![Timer] = "idle"]
        /\ job' = [job EXCEPT ![t] = Idle, ![Timer] = Idle]
        /\ UNCHANGED faults
     \/ Fails("record") /\ Return(t) /\ UNCHANGED <<saved, timer>>
  /\ UNCHANGED <<active, call, flags, leg, audio, urcs, crashes>>

-----------------------------------------------------------------------------
(* send_dtmf: the lock is kept until the modem is done, even when the HTTP   *)
(* task is cancelled, so a cancelled request looks like any other.           *)

\* Mutant: the checks made before waiting for the lock are not repeated.
DtmfUnchecked(t) == Enter(t, "dtmf") /\ Goto(t, "dtmf_sent") /\ UNCHANGED <<coreVars, envVars>>

Dtmf(t) ==
  /\ Enter(t, "dtmf")
  /\ IF /\ OwnedBy(job[t].call, job[t].inst)
        /\ call[active].front = "app" /\ call[active].state = "active" /\ flags.attached
     THEN Goto(t, "dtmf_sent")
     ELSE Return(t)
  /\ UNCHANGED <<coreVars, envVars>>

DtmfDone(t) == pc[t] = "dtmf_sent" /\ Return(t) /\ UNCHANGED <<coreVars, envVars>>

-----------------------------------------------------------------------------
(* The end of every call: _cleanup_unlocked and what follows it *)

\* Mutants: the timer survives the call; the end event is not set.
CleanupKeepsTimer(t) ==
  /\ call' = [call EXCEPT ![active].over = TRUE]
  /\ pc' = [pc EXCEPT ![t] = IF flags.attached THEN "stop_audio"
                             ELSE IF flags.started THEN "stop_leg" ELSE "cleaned"]
  /\ UNCHANGED <<timer, op, hang, job>>
CleanupUnmarked(t) ==
  /\ timer' = 0
  /\ op' = TimerGone(op, t)
  /\ hang' = TimerGone(hang, t)
  /\ pc' = [Stopped(pc, t, "idle") EXCEPT ![t] =
              IF flags.attached THEN "stop_audio"
              ELSE IF flags.started THEN "stop_leg" ELSE "cleaned"]
  /\ job' = Stopped(job, t, Idle)
  /\ UNCHANGED call

\* _cleanup_unlocked starts: cancel the timer, set the end event.
BeginCleanup(t) ==
  /\ timer' = 0
  /\ call' = [call EXCEPT ![active].over = TRUE]
  /\ op' = TimerGone(op, t)
  /\ hang' = TimerGone(hang, t)
  /\ pc' = [Stopped(pc, t, "idle") EXCEPT ![t] =
              IF flags.attached THEN "stop_audio"
              ELSE IF flags.started THEN "stop_leg" ELSE "cleaned"]
  /\ job' = Stopped(job, t, Idle)

\* audio_stop: its failure is collected, not raised.
StopAudio(t) ==
  /\ pc[t] = "stop_audio"
  /\ Goto(t, IF flags.started THEN "stop_leg" ELSE "cleaned")
  /\ \/ audio' = "off" /\ UNCHANGED faults
     \/ Fails("audio_stop") /\ UNCHANGED audio
  /\ UNCHANGED <<coreVars, leg, urcs, crashes>>

\* cellular_hangup (ATH): its failure is collected, not raised.
StopLeg(t) ==
  /\ pc[t] = "stop_leg"
  /\ Goto(t, "cleaned")
  /\ \/ leg' = "idle" /\ UNCHANGED faults
     \/ Fails("hangup") /\ UNCHANGED leg
  /\ UNCHANGED <<coreVars, audio, urcs, crashes>>

Reason(j) == CASE j.op = "timeout" -> "timeout"
               [] j.op = "disconnected" -> "disconnected"
               [] j.op = "socket_closed" -> "socket"
               [] OTHER -> "hangup"

\* _reset_flags, then hangup() moves the call to ended and _fail_unlocked moves a
\* web call to failed; an app call whose attach failed stays as it is and is
\* ended by the socket's own finally.
Conclude(t) ==
  /\ pc[t] = "cleaned"
  /\ flags' = NoFlags
  /\ \/ /\ job[t].op \in HangupOp
        /\ call' = Moved("ended", Reason(job[t]))
        /\ Goto(t, "end_record")
     \/ /\ job[t].op \notin HangupOp
        /\ call[active].front = "web"
        /\ call' = Moved("failed", "error")
        /\ Goto(t, "end_record")
     \/ /\ job[t].op \notin HangupOp
        /\ call[active].front = "app"
        /\ UNCHANGED call
        /\ IF t \in Sockets THEN CloseSocket(t, Release(op)) ELSE Return(t)
  /\ UNCHANGED <<active, saved, timer, envVars>>

\* _record of the terminal state; both locks are released on the way out, and a
\* failed socket runs its finally.
EndRecord(t) ==
  /\ pc[t] = "end_record"
  /\ \/ saved' = [saved EXCEPT ![active] = call[active].state] /\ UNCHANGED faults
     \/ Fails("record") /\ UNCHANGED saved
  /\ IF job[t].op \in HangupOp
     THEN /\ op' = Release(op)
          /\ hang' = Release(hang)
          /\ pc' = [pc EXCEPT ![t] = "idle"]
          /\ job' = [job EXCEPT ![t] = Idle]
     ELSE IF t \in Sockets THEN CloseSocket(t, Release(op)) ELSE Return(t)
  /\ UNCHANGED <<active, call, flags, timer, leg, audio, urcs, crashes>>

-----------------------------------------------------------------------------
(* hangup *)

\* _hangup_lock is ours: queue for _operation_lock.
HangupNext(t) ==
  /\ pc[t] = "want_hangup"
  /\ hang.holder = t
  /\ op' = Acquire(op, t)
  /\ pc' = [pc EXCEPT ![t] = "hangup_op"]
  /\ UNCHANGED <<coreVars, hang, job, envVars>>

\* The checks of hangup(): a call is live, it is the one named, and a client
\* that is not the owner of a claimed app call is turned away.
MayHangup(j) ==
  /\ Live
  /\ j.call # 0 => active = j.call
  /\ j.op = "client_hangup" /\ call[active].front = "app" =>
       /\ j.inst # NoInst
       /\ call[active].owner # NoInst => OwnedBy(active, j.inst)

Hangup(t) ==
  /\ pc[t] = "hangup_op"
  /\ op.holder = t
  /\ MayHangup(job[t])
  /\ BeginCleanup(t)
  /\ UNCHANGED <<active, saved, flags, envVars>>

\* Mutant: the early return leaves _hangup_lock held.
HangupRefusedLocked(t) ==
  /\ pc[t] = "hangup_op"
  /\ op.holder = t
  /\ ~MayHangup(job[t])
  /\ Return(t)
  /\ timer' = IF t = Timer THEN 0 ELSE timer
  /\ UNCHANGED <<active, call, saved, flags, envVars>>

HangupRefused(t) ==
  /\ pc[t] = "hangup_op"
  /\ op.holder = t
  /\ ~MayHangup(job[t])
  /\ op' = Release(op)
  /\ hang' = Release(hang)
  /\ pc' = [pc EXCEPT ![t] = "idle"]
  /\ job' = [job EXCEPT ![t] = Idle]
  /\ timer' = IF t = Timer THEN 0 ELSE timer
  /\ UNCHANGED <<active, call, saved, flags, envVars>>

-----------------------------------------------------------------------------
(* The audio socket: reserve_audio, attach_audio, stream *)

\* Mutant: the reservation is checked and not taken.
ReserveForgotten(s) ==
  /\ pc[s] = "want_reserve"
  /\ op.holder = s
  /\ IF OwnedBy(job[s].call, job[s].inst) /\ ~flags.attached
     THEN /\ pc' = [pc EXCEPT ![s] = "want_attach"]
          /\ op' = Acquire(Release(op), s)
          /\ UNCHANGED <<hang, job>>
     ELSE Return(s)
  /\ UNCHANGED <<coreVars, envVars>>

Reserve(s) ==
  /\ pc[s] = "want_reserve"
  /\ op.holder = s
  /\ IF OwnedBy(job[s].call, job[s].inst) /\ ~flags.reserved /\ ~flags.attached
     THEN /\ flags' = [flags EXCEPT !.reserved = TRUE]
          /\ UNCHANGED <<hang, job>>
          \* A browser must send PCM first; an app attaches at once.
          /\ IF job[s].inst = NoInst
             THEN pc' = [pc EXCEPT ![s] = "pcm"] /\ op' = Release(op)
             ELSE pc' = [pc EXCEPT ![s] = "want_attach"] /\ op' = Acquire(Release(op), s)
     ELSE Return(s) /\ UNCHANGED flags
  /\ UNCHANGED <<active, call, saved, timer, envVars>>

\* _receive_initial_audio: the first PCM arrives, or the socket closes, sends
\* an invalid frame or stays silent for 3 s.
FirstPCM(s) ==
  /\ pc[s] = "pcm"
  /\ \/ /\ pc' = [pc EXCEPT ![s] = "want_attach"]
        /\ op' = Acquire(op, s)
        /\ UNCHANGED <<hang, job>>
     \/ CloseSocket(s, op)
  /\ UNCHANGED <<coreVars, envVars>>

Attach(s) ==
  /\ pc[s] = "want_attach"
  /\ op.holder = s
  /\ IF OwnedBy(job[s].call, job[s].inst) /\ ~flags.attached
     THEN Goto(s, "audio_start")
     ELSE CloseSocket(s, Release(op))
  /\ UNCHANGED <<coreVars, envVars>>

\* Mutant: the cellular leg is marked only once ATD has returned.
AudioStartedUnmarked(s) ==
  /\ pc[s] = "audio_start"
  /\ audio' = "on"
  /\ flags' = [flags EXCEPT !.attached = TRUE]
  /\ IF call[active].dir = "outbound" THEN Goto(s, "dial")
     ELSE pc' = [pc EXCEPT ![s] = "stream"] /\ op' = Release(op) /\ UNCHANGED <<hang, job>>
  /\ UNCHANGED <<active, call, saved, timer, leg, urcs, faults, crashes>>

\* audio_start returned: dial, answer the cellular leg, or (browser, incoming)
\* start streaming and wait for the answer button.
AudioStarted(s) ==
  /\ pc[s] = "audio_start"
  /\ audio' = "on"
  /\ LET out == call[active].dir = "outbound" IN
     /\ flags' = [flags EXCEPT !.attached = TRUE, !.started = @ \/ out]
     /\ IF out THEN Goto(s, "dial")
        ELSE IF call[active].front = "app" THEN Goto(s, "attach_leg")
        ELSE pc' = [pc EXCEPT ![s] = "stream"] /\ op' = Release(op) /\ UNCHANGED <<hang, job>>
  /\ UNCHANGED <<active, call, saved, timer, leg, urcs, faults, crashes>>

\* Something awaited in attach_audio or answer raised: _fail_unlocked.
AudioStartFails(s) ==
  /\ pc[s] = "audio_start"
  /\ Fails("audio_start")
  /\ BeginCleanup(s)
  /\ UNCHANGED <<active, saved, flags, leg, audio, urcs, crashes>>

\* ATD accepted: the call waits for the remote answer; its timer keeps running.
Dial(s) ==
  /\ pc[s] = "dial"
  /\ leg = "idle"
  /\ leg' = "dialing"
  /\ call' = Moved("waiting_cellular", "none")
  /\ Goto(s, "attach_record")
  /\ UNCHANGED <<active, saved, flags, timer, audio, urcs, faults, crashes>>

\* ATD rejected because the module is busy, or failed: it may have been accepted.
DialFails(s) ==
  /\ pc[s] = "dial"
  /\ \/ leg # "idle" /\ UNCHANGED <<leg, faults>>
     \/ leg = "idle" /\ leg' \in {"idle", "dialing"} /\ Fails("dial")
  /\ BeginCleanup(s)
  /\ UNCHANGED <<active, saved, flags, audio, urcs, crashes>>

\* ATA succeeded, for the socket of an app call or for the browser's answer:
\* the timer is cancelled and the call is active.
Answered(t) ==
  /\ pc[t] \in {"attach_leg", "answer_leg"}
  /\ leg = "ringing"
  /\ leg' = "up"
  /\ timer' = 0
  /\ call' = Moved("active", "none")
  /\ op' = TimerGone(op, t)
  /\ hang' = TimerGone(hang, t)
  /\ pc' = [Stopped(pc, t, "idle") EXCEPT ![t] =
              IF pc[t] = "attach_leg" THEN "attach_record" ELSE "active_record"]
  /\ job' = Stopped(job, t, Idle)
  /\ UNCHANGED <<active, saved, flags, audio, urcs, faults, crashes>>

AnswerLegFails(t) ==
  /\ pc[t] \in {"attach_leg", "answer_leg"}
  /\ \/ leg # "ringing" /\ UNCHANGED <<leg, faults>>
     \/ leg = "ringing" /\ leg' \in {"ringing", "up"} /\ Fails("answer")
  /\ BeginCleanup(t)
  /\ UNCHANGED <<active, saved, flags, audio, urcs, crashes>>

\* _record inside the try of attach_audio and answer: a failure fails the call.
MediaRecord(t) ==
  /\ pc[t] \in {"attach_record", "active_record"}
  /\ saved' = [saved EXCEPT ![active] = call[active].state]
  /\ IF pc[t] = "attach_record"
     THEN /\ pc' = [pc EXCEPT ![t] = "stream"]
          /\ op' = Release(op)
          /\ UNCHANGED <<hang, job>>
     ELSE Return(t)
  /\ UNCHANGED <<active, call, flags, timer, envVars>>

MediaRecordFails(t) ==
  /\ pc[t] \in {"attach_record", "active_record"}
  /\ Fails("save")
  /\ BeginCleanup(t)
  /\ UNCHANGED <<active, saved, flags, leg, audio, urcs, crashes>>

\* stream() is over: the socket closed or failed, or wait_ended returned.
StreamEnds(s) ==
  /\ pc[s] = "stream"
  /\ CloseSocket(s, op)
  /\ UNCHANGED <<coreVars, envVars>>

-----------------------------------------------------------------------------
(* cellular_connected *)

\* Mutant: a connected cellular leg makes the call active without its audio.
ConnectedUnattached(t) ==
  /\ Enter(t, "connected")
  /\ IF Live
     THEN /\ timer' = 0
          /\ call' = Moved("active", "none")
          /\ Goto(t, "connect_record")
     ELSE Return(t) /\ UNCHANGED <<timer, call>>
  /\ UNCHANGED <<active, saved, flags, envVars>>

Connected(t) ==
  /\ Enter(t, "connected")
  /\ IF Live /\ flags.attached
     THEN /\ timer' = 0
          /\ call' = Moved("active", "none")
          /\ op' = TimerGone(op, t)
          /\ hang' = TimerGone(hang, t)
          /\ pc' = [Stopped(pc, t, "idle") EXCEPT ![t] = "connect_record"]
          /\ job' = Stopped(job, t, Idle)
     ELSE Return(t) /\ UNCHANGED <<timer, call>>
  /\ UNCHANGED <<active, saved, flags, envVars>>

\* _record outside any try: a failure changes nothing.
ConnectRecord(t) ==
  /\ pc[t] = "connect_record"
  /\ \/ saved' = [saved EXCEPT ![active] = call[active].state] /\ UNCHANGED faults
     \/ Fails("record") /\ UNCHANGED saved
  /\ Return(t)
  /\ UNCHANGED <<active, call, flags, timer, leg, audio, urcs, crashes>>

-----------------------------------------------------------------------------
(* The cellular network, and a restart of the service *)

Notify(u) == Len(urcs) < MaxQueue /\ urcs' = Append(urcs, u)

RemoteCalls ==
  /\ leg = "idle" /\ leg' = "ringing"
  /\ Notify("ring")
  /\ UNCHANGED <<coreVars, lockVars, pc, job, audio, faults, crashes>>

RingsAgain ==
  /\ leg = "ringing"
  /\ Notify("ring")
  /\ UNCHANGED <<coreVars, lockVars, pc, job, leg, audio, faults, crashes>>

RemoteAnswers ==
  /\ leg = "dialing" /\ leg' = "up"
  /\ Notify("connected") \/ UNCHANGED urcs
  /\ UNCHANGED <<coreVars, lockVars, pc, job, audio, faults, crashes>>

RemoteHangsUp ==
  /\ leg # "idle" /\ leg' = "idle"
  /\ Notify("disconnected")
  /\ UNCHANGED <<coreVars, lockVars, pc, job, audio, faults, crashes>>

\* _read_monitor takes every +CIEV line that ends in ",1" for the call indicator.
OtherIndicator ==
  /\ AnyIndicator
  /\ Notify("connected")
  /\ UNCHANGED <<coreVars, lockVars, pc, job, leg, audio, faults, crashes>>

\* The row of a call the dead process left live.
Recovered(r) == [InState(r, "ended", "restart") EXCEPT !.over = TRUE]

\* Mutant: no row is closed at start-up.
RestartUnrecovered ==
  /\ crashes < MaxCrashes
  /\ crashes' = crashes + 1
  /\ call' = [c \in Call |-> IF call[c].state \in LiveState THEN Recovered(call[c]) ELSE call[c]]
  /\ flags' = NoFlags
  /\ timer' = 0
  /\ op' = Unlocked
  /\ hang' = Unlocked
  /\ pc' = [t \in Task |-> "idle"]
  /\ job' = [t \in Task |-> Idle]
  /\ audio' = "off"
  /\ urcs' = <<>>
  /\ UNCHANGED <<active, saved, leg, faults>>

\* The process dies and starts again: recover_client_calls closes the rows of
\* live calls; the module keeps whatever voice call it had.
Restart ==
  /\ crashes < MaxCrashes
  /\ crashes' = crashes + 1
  /\ saved' = [c \in Call |-> IF saved[c] \in LiveState THEN "ended" ELSE saved[c]]
  /\ call' = [c \in Call |-> IF call[c].state \in LiveState THEN Recovered(call[c]) ELSE call[c]]
  /\ flags' = NoFlags
  /\ timer' = 0
  /\ op' = Unlocked
  /\ hang' = Unlocked
  /\ pc' = [t \in Task |-> "idle"]
  /\ job' = [t \in Task |-> Idle]
  /\ audio' = "off"
  /\ urcs' = <<>>
  /\ UNCHANGED <<active, leg, faults>>

-----------------------------------------------------------------------------
(* Specification *)

\* What a task does by itself once it is running.
Operation(t) ==
  \/ StartRefused(t) \/ Start(t) \/ RingAgain(t) \/ StartRecord(t) \/ StartRecordFails(t)
  \/ Claim(t) \/ AnswerRefused(t) \/ AnswerWeb(t) \/ ClaimRecord(t)
  \/ Dtmf(t) \/ DtmfDone(t)
  \/ StopAudio(t) \/ StopLeg(t) \/ Conclude(t) \/ EndRecord(t)
  \/ HangupNext(t) \/ Hangup(t) \/ HangupRefused(t)
  \/ Answered(t) \/ AnswerLegFails(t) \/ MediaRecord(t) \/ MediaRecordFails(t)
  \/ Connected(t) \/ ConnectRecord(t)

SocketStep(s) ==
  \/ Run(s) \/ Reserve(s) \/ FirstPCM(s) \/ Attach(s) \/ AudioStarted(s) \/ AudioStartFails(s)
  \/ Dial(s) \/ DialFails(s)

Environment ==
  \/ RemoteCalls \/ RingsAgain \/ RemoteAnswers \/ RemoteHangsUp \/ OtherIndicator
  \/ Expire \/ Restart

Next ==
  \/ \E t \in Task : Operation(t)
  \/ \E s \in Sockets : SocketStep(s) \/ Connect(s) \/ StreamEnds(s)
  \/ \E t \in Clients : Request(t)
  \/ Callback \/ Poll \/ PollRead \/ TimerFires
  \/ Environment

Spec == Init /\ [][Next]_vars

\* The event loop runs every task that can go on, a stream ends when its call
\* does, and an armed timeout fires.  Clients and the network owe nothing.
StreamOver(s) ==
  StreamEnds(s) /\ (active # job[s].call \/ call[job[s].call].over)

Fairness ==
  /\ \A t \in Task : WF_vars(Operation(t))
  /\ \A s \in Sockets : WF_vars(SocketStep(s)) /\ WF_vars(StreamOver(s))
  /\ WF_vars(Callback) /\ WF_vars(PollRead) /\ WF_vars(TimerFires)

FairSpec == Spec /\ Fairness

-----------------------------------------------------------------------------
(* Properties *)

Quiet == op.holder = NoTask

\* Two calls never live at once: a call that is not the coordinator's active
\* one is over (start_outbound and start_inbound racing with hang-ups).
OneLiveCall == \A c \in Call : call[c].state \in LiveState => c = active

\* The locks, timers and tasks implement the life cycle calls/core.py and
\* docs/ios-calls.md describe: states move forward, terminal states are final,
\* the owner of a claimed call never changes.
Lifecycle == INSTANCE CallLifecycle WITH
  state <- [c \in Call |-> call[c].state],
  owner <- [c \in Call |-> call[c].owner]
LifecycleSpec == Lifecycle!Spec

\* Once no call is live and no operation runs, nothing of the call is left: no
\* flag, no armed timer, no open audio path (where the adapter does obey stop).
NothingLeftBehind ==
  Quiet /\ ~Live => flags = NoFlags /\ timer = 0 /\ audio = "off"

\* "a transport detach after a possibly accepted command must still clean up the
\* cellular leg" (attach_audio): no leg the gateway dialled or answered outlives
\* its call, where the module obeys ATH and the service does not restart.
NoOrphanLeg ==
  Quiet /\ ~Live /\ crashes = 0 => leg \notin {"dialing", "up"}

\* An active call has its audio path and a socket that will end it when it
\* closes, and no timeout can end it any more.
ActiveHasMedia ==
  Quiet /\ Live /\ call[active].state = "active" =>
    /\ flags.attached
    /\ audio = "on"
    /\ timer = 0
    /\ \E s \in Sockets : /\ job[s].call = active
                          /\ pc[s] \in {"stream", "want_hangup", "hangup_op"}

\* A live call that is not active always has somebody who will end it: its
\* armed timeout, or the socket whose attach failed and is hanging up.
PendingHasExit ==
  Quiet /\ Live /\ call[active].state # "active" =>
    \/ timer = active
    \/ \E s \in Sockets : job[s].op = "socket_closed" /\ job[s].call = active

\* A keypad tone is only ever in flight inside the call, and for the owner, it
\* was requested for (send_dtmf queues behind hang-ups and new calls).
DtmfInsideCall ==
  \A t \in Clients : pc[t] = "dtmf_sent" =>
    /\ Live /\ active = job[t].call
    /\ call[active].state = "active" /\ call[active].owner = job[t].inst
    /\ flags.attached

\* Sockets that hold the audio reservation of a call.
Holding(s) == pc[s] \in {"pcm", "want_attach", "audio_start", "dial", "attach_leg",
                         "attach_record", "stream"}

\* "Only one audio connection per call; the second is rejected and does not end
\* the first": at most one socket holds a healthy call, and no other socket is
\* hanging it up.
OneSocketPerCall ==
  \A s, r \in Sockets :
    s # r /\ Live /\ ~call[active].over /\ Holding(s)
      /\ job[s].call = active /\ job[r].call = active
      => ~Holding(r) /\ job[r].op # "socket_closed"

\* Whenever no operation runs, the call history in the database agrees with
\* the calls (after a restart: it calls no dead call live).
HistoryAgrees ==
  Quiet => \A c \in Call :
    \/ saved[c] = call[c].state
    \/ crashes > 0 /\ call[c].state \in Terminal /\ saved[c] \notin LiveState

\* Every call settles: it becomes active or it ends.
Settles ==
  \A c \in Call : call[c].state \in LiveState \ {"active"}
                    ~> call[c].state \in {"active"} \cup Terminal

\* Whoever waits for a lock gets through the operation: clients, sockets and modem
\* callbacks behind each other on two locks (the timeout is Settles' concern).
NobodyStarves == \A t \in Clients \cup Sockets \cup {Modem} : pc[t] \in Queued ~> pc[t] \in Loose

\* The stream of a call that is over stops.
StreamsStop == \A s \in Sockets :
  (pc[s] = "stream" /\ call[job[s].call].state \in Terminal) ~> pc[s] # "stream"

-----------------------------------------------------------------------------
(* The inductive invariant                                                   *)

Cleaning == {"stop_audio", "stop_leg", "cleaned"}
Dir(d) == call[active].dir = d
Waiting == call[active].state \in {"waiting_client", "waiting_cellular"}

\* What a task inside an operation may rely on: it holds the operation lock and
\* its call is live until it has ended it ...
HoldsLock(t) ==
  pc[t] \in Locked => op.holder = t /\ active # 0 /\ (pc[t] # "end_record" => Live)

\* ... and, at each suspension point of the attach, answer and failure paths,
\* the call is one those paths were entered for.
KnowsCall(t) ==
  /\ pc[t] \in {"audio_start", "dial"} => (Dir("outbound") => Waiting)
  /\ pc[t] = "audio_start" => (call[active].front = "app" => call[active].owner # NoInst)
  /\ pc[t] = "dial" => Dir("outbound")
  /\ pc[t] \in {"attach_leg", "answer_leg", "active_record"} => Dir("inbound")
  /\ pc[t] = "attach_leg" => flags.attached
  /\ pc[t] = "answer_leg" => call[active].front = "web"
  /\ pc[t] = "attach_record" => (Dir("outbound") => Waiting)
  /\ pc[t] \in Cleaning /\ job[t].op \notin HangupOp => (Dir("outbound") => Waiting)
  /\ pc[t] \in {"want_hangup", "hangup_op"} => job[t].op \in HangupOp
  /\ pc[t] = "dtmf_sent" =>
       /\ active = job[t].call
       /\ call[active].state = "active" /\ call[active].owner = job[t].inst
       /\ flags.attached

\* What attached audio and the claim of an app call say about its state.
MediaAgrees ==
  Live =>
    /\ flags.attached /\ call[active].front = "app" => call[active].owner # NoInst
    /\ Dir("inbound") /\ call[active].front = "app" /\ call[active].owner = NoInst
         => call[active].state = "ringing_cellular"
    /\ Dir("outbound") /\ ~flags.attached => Waiting

\* The active call is a call.
ActiveExists == active # 0 => call[active].state # "none"

IInv ==
  /\ TypeOK
  /\ OneLiveCall
  /\ ActiveExists
  /\ MediaAgrees
  /\ \A t \in Task : HoldsLock(t) /\ KnowsCall(t)
=============================================================================

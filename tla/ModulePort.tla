----------------------------- MODULE ModulePort -----------------------------
(***************************************************************************)
(* Who has the module's port: modem/service.py (the monitor task's life,   *)
(* at, run_exclusive and the persistent commands, reconnect of server.py)  *)
(* with usb/owner.py, the lock file a session holds while it is open.      *)
(*                                                                         *)
(* `_monitor_task` is replaced again and again; a member of Monitors is    *)
(* one such task, used anew when nobody refers to it.  What the port       *)
(* carries is the business of ModemEvents.                                 *)
(***************************************************************************)
EXTENDS AsyncLock, FiniteSets

CONSTANTS Clients,     \* tasks that use the port on request
          Monitors,    \* tasks that run _monitor_loop
          Ops,         \* what clients ask for
          Slow,        \* where a monitor may spend three seconds
          Faults,      \* what may go wrong
          Lost,        \* owner of a session nobody refers to
          Leaving,     \* owner of a session a thread on its own is closing
          MaxRequests, \* bound
          MaxFaults    \* bound

ASSUME PortAssumption ==
  /\ Task = Clients \cup Monitors /\ Clients \cap Monitors = {} /\ Monitors # {}
  /\ Lost \notin Task \cup {NoTask} /\ Leaving \notin Task \cup {NoTask, Lost}
  /\ Ops \subseteq {"at", "exclusive", "sms", "reconnect"}
  /\ Slow \subseteq {"open", "configure", "publish", "announce", "turn", "report", "close",
                    "closing", "sleep"}
  /\ Faults \subseteq {"open", "configure", "read", "command"}
  /\ {MaxRequests, MaxFaults} \subseteq Nat

VARIABLES
  current,    \* _monitor_task
  stop,       \* monitors whose _monitor_stop event, made when they were started, is set
  event,      \* the stop event each monitor looks at, named by the monitor it was made for
  ready,      \* _monitor_ready
  published,  \* the monitor whose session is _monitor_session
  mlock,      \* _monitor_lock
  plock,      \* _persistent_lock
  owner,      \* whose session holds the lock file
  pc,         \* where each task is suspended
  op,         \* what each client asked for
  waits,      \* the monitor a client has stopped
  uses,       \* the session a task sends a command on, or closes
  opening,    \* threads that open a session for a cancelled monitor
  strays,     \* history: monitors a client forgot together with the one it had stopped,
              \* or started beside an exclusive operation without _persistent_lock
  requests, faults

lockVars == <<mlock, plock>>
monitorVars == <<current, stop, event, strays>>
taskVars == <<monitorVars, ready>>
vars == <<taskVars, published, lockVars, owner, pc, op, waits, uses, opening, requests, faults>>

\* monitor: started and not run yet; opening a session and configuring it, waiting for _monitor_lock to
\* publish it, to read, or in the finally; reporting, closing, sleeping.
MonitorPc == {"none", "start", "open", "configure", "publish", "announce", "turn", "report", "close",
              "closing", "sleep"}
\* client: waiting for _monitor_ready, a lock, or the monitor's end; at work.
ClientPc == {"idle", "ready", "lock", "command", "short", "short_run", "plock", "stopping",
             "cancelled", "operation", "running", "probe"}

TypeOK ==
  /\ current \in Monitors \cup {NoTask}
  /\ stop \subseteq Monitors /\ strays \subseteq Monitors /\ ready \in BOOLEAN
  /\ event \in [Monitors -> Monitors \cup {NoTask}]
  /\ published \in Monitors \cup {NoTask}
  /\ mlock \in Lock /\ plock \in Lock
  /\ owner \in Task \cup {NoTask, Lost, Leaving}
  /\ pc \in [Task -> MonitorPc \cup ClientPc]
  /\ \A g \in Monitors : pc[g] \in MonitorPc
  /\ op \in [Clients -> Ops \cup {"none"}]
  /\ waits \in [Clients -> Monitors \cup {NoTask}]
  /\ uses \in [Task -> Monitors \cup {NoTask}]
  /\ opening \in Nat /\ requests \in 0..MaxRequests /\ faults \in 0..MaxFaults

Init ==
  /\ current = CHOOSE g \in Monitors : TRUE
  /\ pc = [t \in Task |-> IF t = current THEN "start" ELSE IF t \in Monitors THEN "none" ELSE "idle"]
  /\ event = [g \in Monitors |-> NoTask]
  /\ stop = {} /\ strays = {} /\ ready = FALSE
  /\ published = NoTask
  /\ mlock = Unlocked /\ plock = Unlocked
  /\ owner = NoTask
  /\ op = [c \in Clients |-> "none"]
  /\ waits = [c \in Clients |-> NoTask]
  /\ uses = [t \in Task |-> NoTask]
  /\ opening = 0 /\ requests = 0 /\ faults = 0

-----------------------------------------------------------------------------
(* Helpers *)

Alive(g) == pc[g] # "none"
Monitoring == current # NoTask /\ Alive(current)

\* What stop.is_set() says to monitor g.
Told(g) == event[g] \in stop
\* A monitor that stop_monitor has cancelled ends with its finally.
Cancelled(g) == \E c \in Clients : pc[c] = "cancelled" /\ waits[c] = g

Fault(f) == f \in Faults /\ faults < MaxFaults /\ faults' = faults + 1
Goto(t, p) == pc' = [pc EXCEPT ![t] = p]

\* DeviceOwnerLock.acquire does not wait: who finds the file locked fails.
Own(t) == owner = NoTask /\ owner' = t

\* The end of an await that failed, in the try of _monitor_loop or its finally.
EnterClose(g) ==
  /\ ready' = FALSE
  /\ mlock' = Acquire(mlock, g)
  /\ Goto(g, "close")

\* An exception: reported unless the monitor is being stopped anyway.
Failed(g) ==
  IF Told(g) THEN EnterClose(g)
  ELSE Goto(g, "report") /\ UNCHANGED <<ready, mlock>>

-----------------------------------------------------------------------------
(* _monitor_loop *)

\* The first step reads _monitor_stop, which another start or stop may have
\* replaced since: it is always that of _monitor_task.
Begin(g) ==
  /\ pc[g] = "start"
  /\ event' = [event EXCEPT ![g] = current]
  /\ Goto(g, IF current \in stop \cup {NoTask} THEN "none" ELSE "open")
  /\ UNCHANGED <<current, stop, ready, strays, published, lockVars, owner, op, waits, uses,
                 opening, requests, faults>>

\* _open_monitor_session: fails while another session holds the lock file.
Open(g) ==
  /\ pc[g] = "open"
  /\ \/ Own(g) /\ Goto(g, "configure") /\ UNCHANGED <<ready, mlock, faults>>
     \/ owner # NoTask /\ Failed(g) /\ UNCHANGED <<owner, faults>>
     \/ owner = NoTask /\ Fault("open") /\ Failed(g) /\ UNCHANGED owner
  /\ UNCHANGED <<monitorVars, published, plock, op, waits, uses, opening, requests>>

\* _configure_direct_sms and _enable_caller_id: when the first raises, the
\* session is in no variable any more.
Configure(g) ==
  /\ pc[g] = "configure"
  /\ \/ /\ mlock' = Acquire(mlock, g)
        /\ Goto(g, "publish")
        /\ UNCHANGED <<owner, ready, faults>>
     \/ Fault("configure") /\ owner' = Lost /\ Failed(g)
  /\ UNCHANGED <<monitorVars, published, plock, op, waits, uses, opening, requests>>

Publish(g) ==
  /\ pc[g] = "publish" /\ mlock.holder = g
  /\ published' = g
  /\ mlock' = Release(mlock)
  /\ ready' = TRUE
  /\ Goto(g, "announce")
  /\ UNCHANGED <<monitorVars, plock, owner, op, waits, uses, opening, requests, faults>>

\* "module.connected" is published; _read_monitor begins.
Announce(g) ==
  /\ pc[g] = "announce"
  /\ IF Told(g) THEN EnterClose(g)
     ELSE mlock' = Acquire(mlock, g) /\ Goto(g, "turn") /\ UNCHANGED ready
  /\ UNCHANGED <<monitorVars, published, plock, owner, op, waits, uses, opening, requests, faults>>

\* One read under _monitor_lock, at most half a second.
Read(g) ==
  /\ pc[g] = "turn" /\ mlock.holder = g
  /\ owner = g
  /\ IF Told(g)
     THEN /\ ready' = FALSE
          /\ mlock' = Acquire(Release(mlock), g)
          /\ Goto(g, "close")
     ELSE /\ mlock' = Acquire(Release(mlock), g)
          /\ UNCHANGED <<ready, pc>>
  /\ UNCHANGED <<monitorVars, published, plock, owner, op, waits, uses, opening, requests, faults>>

\* The module is gone, or another task has closed the session.
ReadFails(g) ==
  /\ pc[g] = "turn" /\ mlock.holder = g
  /\ IF owner = g THEN Fault("read") ELSE UNCHANGED faults
  /\ IF Told(g)
     THEN /\ ready' = FALSE
          /\ mlock' = Acquire(Release(mlock), g)
          /\ Goto(g, "close")
     ELSE /\ mlock' = Release(mlock)
          /\ Goto(g, "report")
          /\ UNCHANGED ready
  /\ UNCHANGED <<monitorVars, published, plock, owner, op, waits, uses, opening, requests>>

Report(g) ==
  /\ pc[g] = "report"
  /\ EnterClose(g)
  /\ UNCHANGED <<monitorVars, published, plock, owner, op, waits, uses, opening, requests, faults>>

\* Where the loop goes after the finally.
AfterClose(g) == IF Told(g) \/ Cancelled(g) THEN "none" ELSE "sleep"

\* Mutant: the session is closed before _monitor_lock is taken.
CloseUnlocked(g) ==
  /\ pc[g] = "close"
  /\ mlock' = Withdraw(mlock, g)
  /\ published' = NoTask
  /\ uses' = [uses EXCEPT ![g] = published]
  /\ Goto(g, IF published = NoTask THEN AfterClose(g) ELSE "closing")
  /\ UNCHANGED <<taskVars, plock, owner, op, waits, opening, requests, faults>>

\* Mutant: _monitor_session keeps the session that is closed.
CloseKeepsSession(g) ==
  /\ pc[g] = "close" /\ mlock.holder = g
  /\ mlock' = Release(mlock)
  /\ uses' = [uses EXCEPT ![g] = published]
  /\ Goto(g, IF published = NoTask THEN AfterClose(g) ELSE "closing")
  /\ UNCHANGED <<taskVars, published, plock, owner, op, waits, opening, requests, faults>>

\* _close_monitor_session takes whatever session is published.
Close(g) ==
  /\ pc[g] = "close" /\ mlock.holder = g
  /\ mlock' = Release(mlock)
  /\ published' = NoTask
  /\ uses' = [uses EXCEPT ![g] = published]
  /\ Goto(g, IF published = NoTask THEN AfterClose(g) ELSE "closing")
  /\ UNCHANGED <<taskVars, plock, owner, op, waits, opening, requests, faults>>

\* Mutant: the handle is closed and the lock file kept.
ClosedKeepsOwner(g) ==
  /\ pc[g] = "closing"
  /\ uses' = [uses EXCEPT ![g] = NoTask]
  /\ Goto(g, AfterClose(g))
  /\ UNCHANGED <<taskVars, published, lockVars, owner, op, waits, opening, requests, faults>>

Closed(g) ==
  /\ pc[g] = "closing"
  /\ owner' = IF owner = uses[g] THEN NoTask ELSE owner
  /\ uses' = [uses EXCEPT ![g] = NoTask]
  /\ Goto(g, AfterClose(g))
  /\ UNCHANGED <<taskVars, published, lockVars, op, waits, opening, requests, faults>>

\* The two seconds between attempts, cut short by a stop.
Sleep(g) ==
  /\ pc[g] = "sleep"
  /\ Goto(g, IF Told(g) THEN "none" ELSE "open")
  /\ UNCHANGED <<taskVars, published, lockVars, owner, op, waits, uses, opening, requests, faults>>

Monitor(g) ==
  Begin(g) \/ Open(g) \/ Configure(g) \/ Publish(g) \/ Announce(g) \/ Read(g) \/ ReadFails(g) \/ Report(g)
  \/ Close(g) \/ Closed(g) \/ Sleep(g)

\* The thread of a cancelled monitor still opens its session, for nobody; one
\* that was closing a session still closes it.
OrphanOpens ==
  /\ opening > 0 /\ opening' = opening - 1
  /\ owner' = IF owner = NoTask THEN Lost ELSE owner
  /\ UNCHANGED <<taskVars, published, lockVars, pc, op, waits, uses, requests, faults>>

OrphanCloses ==
  /\ owner = Leaving /\ owner' = NoTask
  /\ UNCHANGED <<taskVars, published, lockVars, pc, op, waits, uses, opening, requests, faults>>

-----------------------------------------------------------------------------
(* start_monitor and stop_monitor *)

Finish(c, new) ==
  /\ pc' = [t \in Task |-> IF t = c THEN "idle" ELSE IF t = new THEN "start" ELSE pc[t]]
  /\ op' = [op EXCEPT ![c] = "none"]
  /\ waits' = [waits EXCEPT ![c] = NoTask]
  /\ uses' = [uses EXCEPT ![c] = NoTask]

\* Who works on the port in the place of the monitor it has stopped or has not found.
Working(c) ==
  pc[c] \in {"operation", "running"} /\ (waits[c] # NoTask \/ op[c] = "exclusive")

\* stop_monitor forgets _monitor_task at its end, whichever that is by then.
Forgotten(c) == IF Monitoring /\ current # waits[c] THEN {current} ELSE {}

\* A monitor started by c runs beside an exclusive operation that c did not wait for.
Beside(c) == op[c] \in {"at", "reconnect"} /\ \E d \in Clients \ {c} : Working(d)

\* A task that is nobody's: not awaited, and no other looks at its event.  Which
\* of them is taken for a new one makes no difference.
Unused(c, g) ==
  /\ ~Alive(g)
  /\ \A d \in Clients \ {c} : waits[d] # g
  /\ \A h \in Monitors : Alive(h) => event[h] # g

\* A client that has stopped a monitor starts one, unless there is one.
StartAndFinish(c, cur) ==
  LET left == strays \cup (IF cur = current THEN {} ELSE Forgotten(c)) IN
  IF waits[c] # NoTask /\ (cur = NoTask \/ ~Alive(cur))
  THEN LET g == CHOOSE h \in Monitors : Unused(c, h) IN
         /\ \E h \in Monitors : Unused(c, h)
         /\ current' = g /\ stop' = stop \ {g} /\ ready' = FALSE
         /\ strays' = (left \ {g}) \cup (IF Beside(c) THEN {g} ELSE {})
         /\ UNCHANGED event
         /\ Finish(c, g)
  ELSE current' = cur /\ strays' = left /\ UNCHANGED <<stop, event, ready>> /\ Finish(c, NoTask)

\* stop_monitor up to its wait.
BeginStop(c) ==
  /\ ready' = FALSE
  /\ stop' = stop \cup {current}
  /\ waits' = [waits EXCEPT ![c] = current]
  /\ Goto(c, "stopping")
  /\ UNCHANGED <<current, event, strays>>

\* Mutant: without waiting for the monitor.
StoppedEarly(c) ==
  /\ pc[c] \in {"stopping", "cancelled"}
  /\ \/ op[c] = "at" /\ StartAndFinish(c, NoTask)
     \/ /\ op[c] # "at"
        /\ current' = NoTask /\ strays' = strays \cup Forgotten(c)
        /\ Goto(c, IF op[c] = "reconnect" THEN "probe" ELSE "operation")
        /\ UNCHANGED <<stop, event, ready, op, waits, uses>>
  /\ UNCHANGED <<published, lockVars, owner, opening, requests, faults>>

\* ... the monitor has ended: whoever waited forgets the current one.
Stopped(c) ==
  /\ pc[c] \in {"stopping", "cancelled"} /\ ~Alive(waits[c])
  /\ \/ op[c] = "at" /\ StartAndFinish(c, NoTask)
     \/ /\ op[c] # "at"
        /\ current' = NoTask /\ strays' = strays \cup Forgotten(c)
        /\ Goto(c, IF op[c] = "reconnect" THEN "probe" ELSE "operation")
        /\ UNCHANGED <<stop, event, ready, op, waits, uses>>
  /\ UNCHANGED <<published, lockVars, owner, opening, requests, faults>>

\* ... or it takes more than three seconds and is cancelled where it is.  A
\* session that is not published yet is lost; a cancelled finally leaves the
\* published one where it is.
StopTimesOut(c) ==
  /\ pc[c] = "stopping"
  /\ LET g == waits[c] IN
     /\ pc[g] \in Slow
     /\ owner' = IF pc[g] \in {"configure", "publish"} /\ owner = g THEN Lost
                 ELSE IF pc[g] = "closing" /\ owner = uses[g] THEN Leaving ELSE owner
     /\ opening' = IF pc[g] = "open" THEN opening + 1 ELSE opening
     /\ IF pc[g] \in {"close", "closing", "sleep"}
        THEN /\ mlock' = Withdraw(mlock, g)
             /\ pc' = [pc EXCEPT ![c] = "cancelled", ![g] = "none"]
             /\ UNCHANGED ready
        ELSE /\ mlock' = Acquire(Withdraw(mlock, g), g)
             /\ pc' = [pc EXCEPT ![c] = "cancelled", ![g] = "close"]
             /\ ready' = FALSE
  /\ UNCHANGED <<monitorVars, published, plock, op, waits, uses, requests, faults>>

-----------------------------------------------------------------------------
(* Clients *)

\* send_sms takes the port for itself only while a monitor runs.
Request(c, o) ==
  /\ pc[c] = "idle"
  /\ requests < MaxRequests /\ requests' = requests + 1
  /\ op' = [op EXCEPT ![c] = o]
  /\ \/ /\ o = "at" /\ Monitoring
        /\ Goto(c, "ready") /\ UNCHANGED <<taskVars, lockVars, waits>>
     \/ /\ o = "at" /\ ~Monitoring
        /\ mlock' = Acquire(mlock, c)
        /\ Goto(c, "lock") /\ UNCHANGED <<taskVars, plock, waits>>
     \/ /\ o = "exclusive" \/ (o = "sms" /\ Monitoring)
        /\ plock' = Acquire(plock, c)
        /\ Goto(c, "plock") /\ UNCHANGED <<taskVars, mlock, waits>>
     \/ /\ o = "sms" /\ ~Monitoring
        /\ Goto(c, "operation") /\ UNCHANGED <<taskVars, lockVars, waits>>
     \/ /\ o = "reconnect" /\ Monitoring
        /\ BeginStop(c) /\ UNCHANGED lockVars
     \/ /\ o = "reconnect" /\ ~Monitoring
        /\ Goto(c, "probe") /\ UNCHANGED <<taskVars, lockVars, waits>>
  /\ UNCHANGED <<published, owner, uses, opening, faults>>

Ready(c) ==
  /\ pc[c] = "ready" /\ ready
  /\ mlock' = Acquire(mlock, c)
  /\ Goto(c, "lock")
  /\ UNCHANGED <<taskVars, published, plock, owner, op, waits, uses, opening, requests, faults>>

ReadyTimesOut(c) ==
  /\ pc[c] = "ready" /\ ~ready
  /\ Finish(c, NoTask)
  /\ UNCHANGED <<taskVars, published, lockVars, owner, opening, requests, faults>>

\* at, with _monitor_lock: on the monitor's session, or on one of its own if
\* there is no monitor.
Locked(c) ==
  /\ pc[c] = "lock" /\ mlock.holder = c
  /\ \/ /\ published # NoTask
        /\ uses' = [uses EXCEPT ![c] = published]
        /\ Goto(c, "command") /\ UNCHANGED <<mlock, op, waits>>
     \/ /\ published = NoTask /\ Monitoring
        /\ mlock' = Release(mlock)
        /\ Finish(c, NoTask)
     \/ /\ published = NoTask /\ ~Monitoring
        /\ Goto(c, "short") /\ UNCHANGED <<mlock, op, waits, uses>>
  /\ UNCHANGED <<taskVars, published, plock, owner, opening, requests, faults>>

Command(c) ==
  /\ pc[c] = "command" /\ owner = uses[c]
  /\ mlock' = Release(mlock)
  /\ Finish(c, NoTask)
  /\ UNCHANGED <<taskVars, published, plock, owner, opening, requests, faults>>

\* Mutant: the monitor is restarted inside the async with of _monitor_lock.
CommandFailsLocked(c) ==
  /\ pc[c] = "command"
  /\ IF owner = uses[c] THEN Fault("command") ELSE UNCHANGED faults
  /\ IF Monitoring THEN BeginStop(c) /\ UNCHANGED <<mlock, op, uses>>
     ELSE mlock' = Release(mlock) /\ Finish(c, NoTask) /\ UNCHANGED taskVars
  /\ UNCHANGED <<published, plock, owner, opening, requests>>

\* No answer in time, or an exception: the monitor is restarted.
CommandFails(c) ==
  /\ pc[c] = "command"
  /\ IF owner = uses[c] THEN Fault("command") ELSE UNCHANGED faults
  /\ mlock' = Release(mlock)
  /\ IF Monitoring THEN BeginStop(c) /\ UNCHANGED <<op, uses>>
     ELSE Finish(c, NoTask) /\ UNCHANGED taskVars
  /\ UNCHANGED <<published, plock, owner, opening, requests>>

\* _command_short: a session for one command, or none if the port is taken.
Short(c) ==
  /\ pc[c] = "short"
  /\ \/ /\ Own(c)
        /\ Goto(c, "short_run") /\ UNCHANGED <<mlock, op, waits, uses>>
     \/ /\ owner # NoTask
        /\ mlock' = Release(mlock)
        /\ Finish(c, NoTask) /\ UNCHANGED owner
  /\ UNCHANGED <<taskVars, published, plock, opening, requests, faults>>

ShortDone(c) ==
  /\ pc[c] = "short_run"
  /\ owner' = NoTask
  /\ mlock' = Release(mlock)
  /\ Finish(c, NoTask)
  /\ UNCHANGED <<taskVars, published, plock, opening, requests, faults>>

\* Mutant: _persistent_lock is released before the monitor is stopped.
ExclusiveUnlocked(c) ==
  /\ pc[c] = "plock" /\ plock.holder = c
  /\ plock' = Release(plock)
  /\ IF Monitoring THEN BeginStop(c) ELSE Goto(c, "operation") /\ UNCHANGED <<taskVars, waits>>
  /\ UNCHANGED <<published, mlock, owner, op, uses, opening, requests, faults>>

\* run_exclusive, _persistent_at with _persistent_lock.
Exclusive(c) ==
  /\ pc[c] = "plock" /\ plock.holder = c
  /\ IF Monitoring THEN BeginStop(c) ELSE Goto(c, "operation") /\ UNCHANGED <<taskVars, waits>>
  /\ UNCHANGED <<published, lockVars, owner, op, uses, opening, requests, faults>>

\* The end of run_exclusive, also of one that failed.
EndExclusive(c) ==
  /\ StartAndFinish(c, current)
  /\ plock' = IF plock.holder = c THEN Release(plock) ELSE plock
  /\ UNCHANGED <<published, mlock, opening, requests>>

Operation(c) ==
  /\ pc[c] = "operation"
  /\ \/ /\ Own(c)
        /\ Goto(c, "running")
        /\ UNCHANGED <<taskVars, published, lockVars, op, waits, uses, opening, requests>>
     \/ owner # NoTask /\ EndExclusive(c) /\ UNCHANGED owner
  /\ UNCHANGED faults

\* The work is done and its session closed; a persistent command may open a
\* second one after the module has come back.
Running(c) ==
  /\ pc[c] = "running" /\ owner' = NoTask
  /\ \/ EndExclusive(c) /\ UNCHANGED faults
     \/ /\ op[c] = "exclusive" /\ faults < MaxFaults /\ faults' = faults + 1
        /\ Goto(c, "operation")
        /\ UNCHANGED <<taskVars, published, lockVars, op, waits, uses, opening, requests>>

\* reconnect_module: the probe opens nothing.
Probe(c) ==
  /\ pc[c] = "probe"
  /\ StartAndFinish(c, current)
  /\ UNCHANGED <<published, lockVars, owner, opening, requests, faults>>

Client(c) ==
  Ready(c) \/ ReadyTimesOut(c) \/ Locked(c) \/ Command(c) \/ CommandFails(c) \/ Short(c)
  \/ ShortDone(c) \/ Exclusive(c) \/ Operation(c) \/ Running(c) \/ Probe(c) \/ Stopped(c)

Next ==
  \/ \E g \in Monitors : Monitor(g)
  \/ \E c \in Clients : Client(c) \/ StopTimesOut(c) \/ \E o \in Ops : Request(c, o)
  \/ OrphanOpens \/ OrphanCloses

Spec == Init /\ [][Next]_vars

\* Tasks and threads that can go on do, and a sleeping or waiting task wakes.
FairSpec ==
  /\ Spec
  /\ \A g \in Monitors : WF_vars(Monitor(g))
  /\ \A c \in Clients : WF_vars(Client(c)) /\ WF_vars(StopTimesOut(c))
  /\ WF_vars(OrphanOpens) /\ WF_vars(OrphanCloses)

-----------------------------------------------------------------------------
(* Properties *)

\* "Run a synchronous USB owner operation without racing the AT monitor" (the
\* docstring of run_exclusive): no monitor lives while such an operation has the
\* port.  It fails: who restarts the monitor after a failed AT command or in
\* reconnect_module does not take _persistent_lock.
ExclusiveAlone == \A c \in Clients : Working(c) => \A g \in Monitors : ~Alive(g)

\* Exclusive operations never meet a monitor that one of them has started or not
\* waited for: only those that an AT command's restart or a reconnect leaves behind.
ExclusiveOrdered == \A c \in Clients : Working(c) => \A g \in Monitors : Alive(g) => g \in strays

\* Beside the monitor _monitor_task refers to live only strays: a client forgot
\* them together with the monitor it had stopped, because another had started
\* one meanwhile, or an AT command or a reconnect started them beside an
\* exclusive operation.
OneMonitor == \A g \in Monitors : Alive(g) => g = current \/ g \in strays

\* However clients and monitors cross, an operation with a session of its own has
\* the port to itself: no command runs on a published session, none is published.
PortHasOneUser == \A c \in Clients :
  pc[c] \in {"short_run", "running"} =>
    /\ owner = c /\ published = NoTask
    /\ \A d \in Clients \ {c} : pc[d] \notin {"command", "short_run", "running"}

\* A session is not closed under a command that uses it, by the monitor that
\* ends, by a cancelled one, or by the next monitor.
CommandKeepsSession == \A c \in Clients : pc[c] = "command" => owner = uses[c]

\* Every request ends: no client waits for ever for a lock, for a monitor to get
\* ready or for one to end.
EveryRequestEnds == \A c \in Clients : pc[c] # "idle" ~> pc[c] = "idle"

\* After requests and faults a monitor reads from the module again, unless the
\* lock file was lost with a session that nobody can close.
MonitorReturns == []<>(owner = Lost \/ (ready /\ published # NoTask /\ owner = published))
=============================================================================

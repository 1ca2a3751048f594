------------------------ MODULE AudioService_proofs ------------------------
(***************************************************************************)
(* Maintenance is alone, the adapter is left free, and a diagnostic leaves *)
(* the audio of a call alone, for every number of sockets and every bound. *)
(***************************************************************************)
EXTENDS AudioService, AsyncLock_proofs

Users   == {Ring, Client, Admin}
Adapter == AdapterStart \cup AdapterStop
Labels  == {"idle", "stream", "finish", "gather", "inbound", "attach", "hangup", "create",
            "maintain", "at"} \cup Adapter

(* What the argument needs of the types.                                   *)
Types ==
  /\ operation_lock \in Lock
  /\ pc \in [Task -> Labels] /\ starting \in [Task -> BOOLEAN]
  /\ stream_task \in Socket \cup {NoTask}

(* A task other than a socket is inside the adapter, or runs a maintenance *)
(* command, only while it holds the operation lock.                        *)
HoldsLock ==
  \A t \in Users : pc[t] \in Adapter \cup {"at"} => operation_lock.holder = t

(* ... and is inside the adapter only for a live call; audio belongs to    *)
(* one as well.                                                            *)
LiveCall ==
  /\ \A t \in Users : pc[t] \in Adapter => call # "none"
  /\ attached => call # "none"

IInv == Types /\ HoldsLock /\ LiveCall /\ MaintenanceAlone

-----------------------------------------------------------------------------
(* Whoever queues for the operation lock takes it from nobody.             *)
LEMMA Queues ==
  ASSUME IInv, NEW t \in Users, pc[t] \notin Adapter \cup {"at"},
         operation_lock' = Acquire(operation_lock, t),
         NEW label \in Labels, label \notin Adapter \cup {"at"},
         pc' = [pc EXCEPT ![t] = label]
  PROVE  operation_lock' \in Lock /\ pc' \in [Task -> Labels] /\ HoldsLock'
<1>1. t \in Task /\ operation_lock \in Lock /\ pc \in [Task -> Labels]
  BY TaskAssumption DEF IInv, Types, Users
<1>2. operation_lock' \in Lock
  BY <1>1, AcquireType
<1>3. pc' \in [Task -> Labels]
  BY <1>1
<1>4. ASSUME NEW u \in Users, pc'[u] \in Adapter \cup {"at"}
      PROVE  operation_lock'.holder = u
  <2>1. u # t /\ pc'[u] = pc[u] /\ u \in Task
    BY <1>1, <1>4, TaskAssumption DEF Users
  <2>2. operation_lock.holder = u
    BY <1>4, <2>1 DEF IInv, HoldsLock
  <2>3. operation_lock.holder # NoTask
    BY <2>1, <2>2, NoTaskAssumption
  <2> QED  BY <1>1, <2>2, <2>3, AcquireHolder
<1> QED  BY <1>2, <1>3, <1>4 DEF HoldsLock

(* While a task holds the lock and leaves, no other is inside.             *)
LEMMA Leaves ==
  ASSUME IInv, NEW t \in Users, operation_lock.holder = t,
         operation_lock' = Release(operation_lock), pc' = [pc EXCEPT ![t] = "idle"]
  PROVE  /\ operation_lock' \in Lock /\ pc' \in [Task -> Labels] /\ HoldsLock'
         /\ \A u \in Users : pc'[u] \notin Adapter \cup {"at"}
<1>1. t \in Task /\ operation_lock \in Lock /\ pc \in [Task -> Labels]
  BY TaskAssumption DEF IInv, Types, Users
<1>2. operation_lock' \in Lock
  BY <1>1, ReleaseType
<1>3. \A u \in Users : pc'[u] \notin Adapter \cup {"at"}
  BY <1>1, TaskAssumption DEF IInv, HoldsLock, Users, Adapter, AdapterStart, AdapterStop
<1>4. pc' \in [Task -> Labels]
  BY <1>1 DEF Labels
<1> QED  BY <1>2, <1>3, <1>4 DEF HoldsLock

(* A step inside the adapter keeps its task inside.                        *)
LEMMA StaysInside ==
  ASSUME IInv, NEW t \in Task, pc[t] \in Adapter, NEW label \in Adapter, Within(t, label),
         UNCHANGED <<stream_task, session, restart_pending>>
  PROVE  IInv'
<1>1. label \in Labels
  BY DEF Labels
<1> QED
  BY <1>1, TaskAssumption DEF IInv, Types, HoldsLock, LiveCall, MaintenanceAlone, Idle, Within, Goto,
     callv, Users, Adapter, AdapterStart, AdapterStop

(* The return from start_web or stop, in a socket or for a call.           *)
LEMMA ReturnsStep ==
  ASSUME IInv, NEW t \in Task, pc[t] \in Adapter, NEW ok, Returns(t, ok),
         UNCHANGED <<stream_task, session, restart_pending>>
  PROVE  IInv'
<1>1. CASE t \in Socket
  <2>1. PICK label \in {"stream", "finish"} : Goto(t, label)
    BY <1>1 DEF Returns
  <2>2. UNCHANGED <<call, attached, operation_lock, starting>>
    BY <1>1, TaskAssumption DEF Returns, callv
  <2>3. pc' \in [Task -> Labels] /\ \A u \in Users : pc'[u] = pc[u]
    BY <1>1, <2>1, TaskAssumption DEF Goto, IInv, Types, Users, Labels
  <2> QED
    BY <2>2, <2>3 DEF IInv, Types, HoldsLock, LiveCall, MaintenanceAlone, Idle, Users
<1>2. CASE t \notin Socket
  <2>1. t \in Users /\ operation_lock.holder = t /\ call # "none"
    BY <1>2, TaskAssumption DEF IInv, HoldsLock, LiveCall, Users
  <2>2. operation_lock' = Release(operation_lock) /\ pc' = [pc EXCEPT ![t] = "idle"]
    BY <1>2 DEF Returns, Goto
  <2>3. attached' => call' # "none"
    BY <1>2 DEF Returns
  <2>4. starting' = starting
    BY DEF Returns
  <2>5. ~restart_pending
    BY <2>1 DEF IInv, MaintenanceAlone, Idle
  <2> QED
    BY <2>1, <2>2, <2>3, <2>4, <2>5, Leaves DEF IInv, Types, LiveCall, MaintenanceAlone, Users
<1> QED  BY <1>1, <1>2

LEMMA AdapterSteps == ASSUME IInv, NEW t \in Task, AdapterStep(t) PROVE IInv'
<1> USE DEF Holds, Adapter, AdapterStart, AdapterStop, diag, StartRaises
<1>1. CASE Begin(t)       BY <1>1, ReturnsStep, StaysInside DEF Begin
<1>2. CASE StartVoice(t)  BY <1>2, StaysInside DEF StartVoice
<1>3. CASE OpenAlsa(t)    BY <1>3, StaysInside DEF OpenAlsa
<1>4. CASE Announce(t)    BY <1>4, ReturnsStep, StaysInside DEF Announce
<1>5. CASE StopWorkers(t) BY <1>5, StaysInside DEF StopWorkers
<1>6. CASE JoinWorkers(t) BY <1>6, ReturnsStep, StaysInside DEF JoinWorkers
<1>7. CASE CloseAlsa(t)   BY <1>7, StaysInside DEF CloseAlsa
<1>8. CASE StopVoice(t)   BY <1>8, ReturnsStep DEF StopVoice
<1> QED
  BY <1>1, <1>2, <1>3, <1>4, <1>5, <1>6, <1>7, <1>8 DEF AdapterStep

-----------------------------------------------------------------------------
(* A step of a socket's task, or of the timer, outside the adapter.        *)
LEMMA SocketStep ==
  ASSUME IInv, NEW w \in Socket, NEW label \in Labels, pc' = [pc EXCEPT ![w] = label],
         starting' \in [Task -> BOOLEAN], stream_task' \in Socket \cup {NoTask},
         session # 0 \/ session' = 0,
         UNCHANGED <<call, attached, operation_lock, restart_pending>>
  PROVE  IInv'
<1>1. pc' \in [Task -> Labels] /\ \A u \in Users : pc'[u] = pc[u]
  BY TaskAssumption DEF IInv, Types, Users
<1> QED
  BY <1>1 DEF IInv, Types, HoldsLock, LiveCall, MaintenanceAlone, Idle, Users

LEMMA DiagnosticSteps ==
  ASSUME IInv, NEW w \in Socket,
         RunDiagnostic(w) \/ StreamEnds(w) \/ CancelStream(w) \/ FinishRun(w)
  PROVE  IInv'
<1>1. "begin" \in Labels /\ "stop" \in Labels /\ "idle" \in Labels
  BY DEF Labels, Adapter, AdapterStart, AdapterStop
<1>2. starting \in [Task -> BOOLEAN] /\ stream_task \in Socket \cup {NoTask} /\ w \in Task
  BY TaskAssumption DEF IInv, Types
<1>3. CASE RunDiagnostic(w)
  BY <1>1, <1>2, <1>3, SocketStep DEF RunDiagnostic, CallStart, Goto, callv
<1>4. CASE StreamEnds(w) \/ CancelStream(w)
  BY <1>1, <1>2, <1>4, SocketStep DEF StreamEnds, CancelStream, CallStop, Goto, callv, diag
<1>5. CASE FinishRun(w)
  BY <1>1, <1>2, <1>5, SocketStep DEF FinishRun, Goto, callv
<1> QED  BY <1>3, <1>4, <1>5

LEMMA ExpireStep == IInv /\ Expire => IInv'
  BY DEF Expire, tasks, callv, IInv, Types, HoldsLock, LiveCall, MaintenanceAlone, Idle

(* A task that queues for the operation lock.                              *)
LEMMA QueueStep ==
  ASSUME IInv, NEW t \in Users, pc[t] \notin Adapter \cup {"at"},
         operation_lock' = Acquire(operation_lock, t),
         NEW label \in Labels, label \notin Adapter \cup {"at"},
         pc' = [pc EXCEPT ![t] = label],
         stream_task' \in Socket \cup {NoTask}, session' \in {session, 0},
         UNCHANGED <<call, attached, starting, restart_pending>>
  PROVE  IInv'
<1>1. operation_lock' \in Lock /\ pc' \in [Task -> Labels] /\ HoldsLock'
  BY Queues
<1>2. \A u \in Users : pc'[u] \in Adapter \cup {"at"} => pc'[u] = pc[u]
  BY TaskAssumption DEF IInv, Types, Users
<1>3. pc'[Admin] = "at" => pc[Admin] = "at"
  BY <1>2 DEF Users
<1> QED
  BY <1>1, <1>2, <1>3 DEF IInv, Types, LiveCall, MaintenanceAlone, Idle, Users

LEMMA ProceedStep ==
  ASSUME IInv, NEW t \in {Ring, Admin}, pc[t] \in {"idle", "gather"}, Proceed(t),
         stream_task' \in Socket \cup {NoTask}, session' \in {session, 0},
         UNCHANGED <<call, attached, starting, restart_pending>>
  PROVE  IInv'
<1>1. PICK label \in {"inbound", "hangup"} : pc' = [pc EXCEPT ![t] = label]
  BY DEF Proceed
<1>2. label \in Labels /\ label \notin Adapter \cup {"at"} /\ pc[t] \notin Adapter \cup {"at"}
  BY DEF Labels, Adapter, AdapterStart, AdapterStop
<1> QED  BY <1>1, <1>2, QueueStep DEF Proceed, Users

(* Cancelling a stream moves only its task, which is a socket.             *)
LEMMA StopDiagnosticStep ==
  ASSUME IInv, NEW t \in {Ring, Admin}, pc[t] = "idle", StopDiagnostic(t)
  PROVE  IInv'
<1>1. session' = 0 /\ stream_task' = NoTask /\ UNCHANGED <<call, attached, starting, restart_pending>>
  BY DEF StopDiagnostic, callv
<1>2. CASE stream_task = NoTask /\ Proceed(t)
  BY <1>1, <1>2, ProceedStep
<1>3. CASE stream_task # NoTask
  <2>1. stream_task \in Socket /\ stream_task # t /\ t \in Task /\ stream_task \in Task
    BY <1>3, TaskAssumption DEF IInv, Types
  <2>2. operation_lock' = operation_lock
    BY <1>3 DEF StopDiagnostic
  <2>3. PICK label \in {"finish", pc[stream_task]} :
          pc' = [pc EXCEPT ![t] = "gather", ![stream_task] = label]
    BY <1>3, <2>1 DEF StopDiagnostic, IInv, Types
  <2>4. pc' \in [Task -> Labels]
    BY <2>1, <2>3 DEF IInv, Types, Labels
  <2>5. \A u \in Users : pc'[u] = pc[u] \/ pc'[u] = "gather"
    BY <2>1, <2>3, TaskAssumption DEF IInv, Types, Users
  <2>6. "gather" \notin Adapter \cup {"at"}
    BY DEF Adapter, AdapterStart, AdapterStop
  <2> QED
    BY <1>1, <2>2, <2>4, <2>5, <2>6
    DEF IInv, Types, HoldsLock, LiveCall, MaintenanceAlone, Idle, Users
<1> QED  BY <1>2, <1>3 DEF StopDiagnostic

LEMMA GatheredStep ==
  ASSUME IInv, NEW t \in {Ring, Admin}, Gathered(t)
  PROVE  IInv'
<1>1. stream_task \in Socket \cup {NoTask}
  BY DEF IInv, Types
<1> QED  BY <1>1, ProceedStep DEF Gathered, callv, diag

-----------------------------------------------------------------------------
(* The holder of the operation lock leaves it.                             *)
LEMMA LeaveStep ==
  ASSUME IInv, NEW t \in Users, operation_lock.holder = t,
         operation_lock' = Release(operation_lock), pc' = [pc EXCEPT ![t] = "idle"],
         attached' => call' # "none",
         restart_pending' => call' = "none" /\ session' = 0,
         UNCHANGED <<starting, stream_task>>
  PROVE  IInv'
  BY Leaves DEF IInv, Types, LiveCall, MaintenanceAlone, Idle, Users

LEMMA RegisterStep == ASSUME IInv, RegisterCall PROVE IInv'
<1>1. Ring \in Users /\ restart_pending => call = "none" /\ session = 0
  BY DEF Users, IInv, MaintenanceAlone, Idle
<1> QED  BY <1>1, LeaveStep DEF RegisterCall, Goto, diag, IInv, LiveCall, Users

LEMMA CreateStep == ASSUME IInv, CreateDiagnostic PROVE IInv'
  BY LeaveStep DEF CreateDiagnostic, Goto, callv, IInv, LiveCall, MaintenanceAlone, Idle, Users

LEMMA RestartServiceStep == ASSUME IInv, RestartService PROVE IInv'
  BY LeaveStep DEF RestartService, Goto, callv, diag, IInv, LiveCall, MaintenanceAlone, Idle, Users

LEMMA AtEndsStep == ASSUME IInv, AtEnds PROVE IInv'
<1>1. operation_lock.holder = Admin
  BY DEF AtEnds, IInv, HoldsLock, Users
<1> QED
  BY <1>1, LeaveStep DEF AtEnds, Goto, callv, diag, IInv, LiveCall, MaintenanceAlone, Idle, Users

(* The holder goes on inside its operation.                                *)
LEMMA EnterStep ==
  ASSUME IInv, NEW t \in Users, operation_lock.holder = t, NEW label \in Adapter \cup {"at"},
         pc' = [pc EXCEPT ![t] = label],
         label = "at" => call = "none" /\ session = 0, label # "at" => call # "none",
         starting' \in [Task -> BOOLEAN],
         UNCHANGED <<operation_lock, call, attached, session, stream_task, restart_pending>>
  PROVE  IInv'
<1>1. label \in Labels
  BY DEF Labels
<1>2. pc' \in [Task -> Labels] /\ pc'[t] = label /\ \A u \in Users : u # t => pc'[u] = pc[u]
  BY <1>1, TaskAssumption DEF IInv, Types, Users
<1>3. "at" \notin Adapter
  BY DEF Adapter, AdapterStart, AdapterStop
<1> QED
  BY <1>2, <1>3 DEF IInv, Types, HoldsLock, LiveCall, MaintenanceAlone, Idle, Users

LEMMA MaintenanceAtStep == ASSUME IInv, MaintenanceAt PROVE IInv'
<1>1. CASE Goto(Admin, "at") /\ Idle /\ UNCHANGED operation_lock
  BY <1>1, EnterStep DEF MaintenanceAt, Goto, Idle, callv, diag, IInv, Types, Users
<1>2. CASE Goto(Admin, "idle") /\ operation_lock' = Release(operation_lock)
  BY <1>2, LeaveStep
  DEF MaintenanceAt, Goto, callv, diag, IInv, LiveCall, MaintenanceAlone, Idle, Users
<1> QED  BY <1>1, <1>2 DEF MaintenanceAt

LEMMA AttachStep == ASSUME IInv, AttachAudio PROVE IInv'
<1>1. CASE call # "none" /\ CallStart(Client) /\ UNCHANGED operation_lock
  <2>1. "begin" \in Adapter /\ "begin" # "at" /\ Client \in Users
    BY DEF Adapter, AdapterStart, Users
  <2>2. starting' \in [Task -> BOOLEAN]
    BY <1>1 DEF CallStart, IInv, Types
  <2> QED
    BY <1>1, <2>1, <2>2, EnterStep DEF AttachAudio, CallStart, Goto, callv, diag
<1>2. CASE operation_lock' = Release(operation_lock) /\ Goto(Client, "idle") /\ UNCHANGED starting
  BY <1>2, LeaveStep
  DEF AttachAudio, Goto, callv, diag, IInv, LiveCall, MaintenanceAlone, Idle, Users
<1> QED  BY <1>1, <1>2 DEF AttachAudio

LEMMA HangupStep == ASSUME IInv, NEW t \in {Client, Admin}, Hangup(t) PROVE IInv'
<1>1. CASE attached /\ CallStop(t) /\ UNCHANGED <<operation_lock, call>>
  <2>1. "stop" \in Adapter /\ "stop" # "at" /\ t \in Users /\ call # "none"
    BY <1>1 DEF Adapter, AdapterStop, Users, IInv, LiveCall
  <2>2. starting' \in [Task -> BOOLEAN]
    BY <1>1 DEF CallStop, IInv, Types
  <2> QED
    BY <1>1, <2>1, <2>2, EnterStep DEF Hangup, CallStop, Goto, diag
<1>2. CASE ~attached /\ call' = "none" /\ operation_lock' = Release(operation_lock)
           /\ Goto(t, "idle") /\ UNCHANGED starting
  BY <1>2, LeaveStep DEF Hangup, Goto, diag, IInv, MaintenanceAlone, Idle, Users
<1> QED  BY <1>1, <1>2 DEF Hangup

LEMMA RequestSteps ==
  ASSUME IInv,
         \/ \E label \in {"attach", "hangup"} : ClientRequest(label)
         \/ \E label \in {"create", "maintain"} : AdminRequest(label)
  PROVE  IInv'
<1>1. \A label \in {"attach", "hangup", "create", "maintain", "idle"} :
        label \in Labels /\ label \notin Adapter \cup {"at"}
  BY DEF Labels, Adapter, AdapterStart, AdapterStop
<1>2. stream_task \in Socket \cup {NoTask}
  BY DEF IInv, Types
<1>3. ASSUME NEW label \in {"attach", "hangup"}, ClientRequest(label) PROVE IInv'
  BY <1>1, <1>2, <1>3, QueueStep DEF ClientRequest, Goto, callv, diag, Users
<1>4. ASSUME NEW label \in {"create", "maintain"}, AdminRequest(label) PROVE IInv'
  BY <1>1, <1>2, <1>4, QueueStep DEF AdminRequest, Goto, callv, diag, Users
<1> QED  BY <1>3, <1>4

LEMMA RestartFailsStep == IInv /\ RestartFails => IInv'
  BY DEF RestartFails, tasks, callv, diag, IInv, Types, HoldsLock, LiveCall, MaintenanceAlone, Idle

LEMMA InitIInv == Init => IInv
<1> SUFFICES ASSUME Init PROVE IInv
  OBVIOUS
<1>1. operation_lock \in Lock
  BY DEF Init, Unlocked, Lock
<1>2. pc \in [Task -> Labels] /\ starting \in [Task -> BOOLEAN]
  BY DEF Init, Labels
<1>3. \A t \in Users : pc[t] \notin Adapter \cup {"at"}
  BY TaskAssumption DEF Init, Users, Adapter, AdapterStart, AdapterStop
<1> QED
  BY <1>1, <1>2, <1>3 DEF Init, IInv, Types, HoldsLock, LiveCall, MaintenanceAlone, Idle, Users

LEMMA NextIInv == IInv /\ [Next]_vars => IInv'
<1> SUFFICES ASSUME IInv, [Next]_vars PROVE IInv'
  OBVIOUS
<1>1. ASSUME NEW t \in Task, Continue(t) PROVE IInv'
  <2>1. Ring \notin Socket /\ Admin \notin Socket /\ Client \notin Socket
    BY TaskAssumption
  <2>2. CASE AdapterStep(t)
    BY <2>2, AdapterSteps
  <2>3. CASE t \in {Ring, Admin} /\ Gathered(t)
    BY <2>3, GatheredStep
  <2>4. CASE t \in Socket /\ (CancelStream(t) \/ FinishRun(t))
    BY <2>4, DiagnosticSteps
  <2>5. CASE RegisterCall
    BY <2>5, RegisterStep
  <2>6. CASE AttachAudio
    BY <2>6, AttachStep
  <2>7. CASE t \in {Client, Admin} /\ Hangup(t)
    BY <2>7, HangupStep
  <2>8. CASE CreateDiagnostic \/ MaintenanceAt \/ AtEnds \/ RestartService
    BY <2>8, CreateStep, MaintenanceAtStep, AtEndsStep, RestartServiceStep
  <2> QED
    BY <1>1, <2>2, <2>3, <2>4, <2>5, <2>6, <2>7, <2>8 DEF Continue
<1>2. ASSUME NEW w \in Socket, RunDiagnostic(w) \/ StreamEnds(w) PROVE IInv'
  BY <1>2, DiagnosticSteps
<1>3. CASE Expire
  BY <1>3, ExpireStep
<1>4. CASE NewCall
  BY <1>4, StopDiagnosticStep DEF NewCall
<1>5. CASE Reconnect
  BY <1>5, StopDiagnosticStep DEF Reconnect
<1>6. CASE RestartFails
  BY <1>6, RestartFailsStep
<1>7. CASE UNCHANGED vars
  BY <1>7 DEF vars, tasks, callv, diag, IInv, Types, HoldsLock, LiveCall, MaintenanceAlone, Idle
<1> QED
  BY <1>1, <1>2, <1>3, <1>4, <1>5, <1>6, <1>7, RequestSteps DEF Next

(* A maintenance command or a pending restart never meets a live call or a *)
(* diagnostic.                                                             *)
THEOREM Alone == Spec => []MaintenanceAlone
<1>1. IInv => MaintenanceAlone
  BY DEF IInv
<1> QED  BY <1>1, InitIInv, NextIInv, PTL DEF Spec
-----------------------------------------------------------------------------
(* What the adapter holds, and for whom                                      *)

(* A task inside the adapter has its place at the lifecycle lock, and past *)
(* the first step of a start or stop it is the holder.                     *)
LockPlaces ==
  /\ lifecycle_lock \in Lock /\ NeverIdle(lifecycle_lock)
  /\ \A t \in Task : pc[t] \in Adapter => HasPlace(lifecycle_lock, t)
  /\ \A t \in Task : pc[t] \in Adapter \ {"begin", "stop"} => lifecycle_lock.holder = t

(* What a stop has undone when it is at its later steps; a start that      *)
(* stops again will raise.                                                 *)
Stages ==
  /\ raising \in [Task -> BOOLEAN]
  /\ \A t \in Task :
       /\ pc[t] \in {"join", "close", "unvoice"} => ~bridge
       /\ pc[t] \in {"close", "unvoice"} => ~workers
       /\ pc[t] = "unvoice" => ~alsa
       /\ pc[t] \in AdapterStart => starting[t]
       /\ pc[t] \in AdapterStop /\ starting[t] => raising[t]

(* The tasks of a call start only for a client without audio, and stop     *)
(* only attached audio.                                                    *)
CallUse ==
  /\ pc[Ring] \notin Adapter
  /\ \A t \in Users : pc[t] \in Adapter => IF starting[t] THEN t = Client /\ ~attached ELSE attached

(* Whatever is on was left on, is in use, or somebody is about to switch   *)
(* it off.                                                                 *)
Owed ==
  \/ On \subseteq left \/ attached
  \/ \E w \in Socket : pc[w] = "stream"
  \/ \E t \in Task : pc[t] \in Adapter \ {"begin"}

(* With a module runtime the voice route belongs to one session: that of   *)
(* a stream, from its start to its stop, or that of the call.  A start is  *)
(* only under way while there is no session.                               *)
Streams(w)  == pc[w] = "stream" \/ (pc[w] \in AdapterStop /\ ~starting[w])
StartsUp(t) == pc[t] \in {"voice", "open", "announce"} \/ (pc[t] \in AdapterStop /\ starting[t])
Route ==
  /\ bridge => voice
  /\ \A w \in Socket : Streams(w) => voice /\ user = w
  /\ attached => voice /\ user = Client
  /\ \A t \in Task : StartsUp(t) => /\ lifecycle_lock.holder = t /\ ~attached
                                    /\ \A w \in Socket : ~Streams(w)
                                    /\ bridge => user = t
  /\ \A t \in Task : pc[t] \in {"open", "announce"} => voice
  /\ \A t \in Task : pc[t] = "announce" => user = t

AInv == LockPlaces /\ Stages /\ CallUse /\ Owed /\ (configured => Route)

LEMMA Tasks ==
  /\ Socket \subseteq Task /\ Users \subseteq Task /\ Client # Ring /\ Client # Admin /\ Ring # Admin
  /\ \A t \in Task : t \in Socket \/ t \in Users
  /\ \A t \in Users : t \notin Socket
  /\ Ring \in Users /\ Client \in Users /\ Admin \in Users /\ NoTask \notin Task
BY TaskAssumption, NoTaskAssumption DEF Users

-----------------------------------------------------------------------------
(* Steps outside the adapter                                                 *)

Untouched == UNCHANGED <<configured, alsa, voice, mode, bridge, workers, user>>

(* Nobody enters or leaves the adapter or a stream.                        *)
Aside ==
  /\ Untouched /\ UNCHANGED <<left, attached, lifecycle_lock, starting, raising>>
  /\ \A t \in Task : \/ pc'[t] = pc[t]
                     \/ pc[t] \notin Adapter \cup {"stream"} /\ pc'[t] \notin Adapter \cup {"stream"}

LEMMA AsideStep == ASSUME AInv, Aside PROVE AInv'
<1> USE Tasks
<1>0. \A t \in Task : /\ pc'[t] \in Adapter \cup {"stream"} => pc'[t] = pc[t]
                      /\ pc[t] \in Adapter \cup {"stream"} => pc'[t] = pc[t]
  BY DEF Aside
<1>1. UNCHANGED <<configured, alsa, voice, mode, bridge, workers, user, left, attached,
                  lifecycle_lock, starting, raising>>
  BY DEF Aside, Untouched
<1>2. LockPlaces'  BY <1>0, <1>1 DEF AInv, LockPlaces
<1>3. Stages'  BY <1>0, <1>1 DEF AInv, Stages, Adapter, AdapterStart, AdapterStop
<1>4. CallUse'  BY <1>0, <1>1 DEF AInv, CallUse
<1>5. Owed'  BY <1>0, <1>1 DEF AInv, Owed, On
<1>6. ASSUME configured, Route PROVE Route'
  <2>1. \A w \in Task : Streams(w)' <=> Streams(w)
    BY <1>0, <1>1 DEF Streams, Adapter, AdapterStop
  <2>2. \A t \in Task : StartsUp(t)' <=> StartsUp(t)
    BY <1>0, <1>1 DEF StartsUp, Adapter, AdapterStart, AdapterStop
  <2>3. \A t \in Task : pc'[t] \in {"open", "announce"} => pc'[t] = pc[t]
    BY <1>0 DEF Adapter, AdapterStart
  <2> QED  BY <1>1, <1>6, <2>1, <2>2, <2>3 DEF Route
<1> QED  BY <1>1, <1>2, <1>3, <1>4, <1>5, <1>6 DEF AInv

(* A task asks for a start, or for the stop of what it has started.        *)
Enters(t, label) ==
  /\ Untouched /\ UNCHANGED <<left, attached>>
  /\ lifecycle_lock' = Acquire(lifecycle_lock, t)
  /\ pc' = [pc EXCEPT ![t] = label]
  /\ starting' = [starting EXCEPT ![t] = label = "begin"]
  /\ raising' = [raising EXCEPT ![t] = FALSE]
  /\ \/ t \in Socket /\ label = "begin" /\ pc[t] = "idle"
     \/ t \in Socket /\ label = "stop" /\ pc[t] = "stream"
     \/ t = Client /\ label = "begin" /\ pc[t] = "attach" /\ ~attached
     \/ t \in {Client, Admin} /\ label = "stop" /\ pc[t] = "hangup" /\ attached

LEMMA EntersStep ==
  ASSUME IInv, AInv, NEW t \in Task, NEW label \in {"begin", "stop"}, Enters(t, label)
  PROVE  AInv'
<1> USE Tasks
<1>0. /\ pc'[t] = label /\ starting'[t] = (label = "begin") /\ pc[t] \notin Adapter
      /\ \A u \in Task \ {t} : pc'[u] = pc[u] /\ starting'[u] = starting[u]
  BY DEF Enters, IInv, Types, Adapter, AdapterStart, AdapterStop
<1>1. UNCHANGED <<configured, alsa, voice, mode, bridge, workers, user, left, attached>>
  BY DEF Enters, Untouched
<1>2. LockPlaces'
  <2>1. lifecycle_lock \in Lock /\ NeverIdle(lifecycle_lock)  BY DEF AInv, LockPlaces
  <2>2. /\ lifecycle_lock' \in Lock /\ NeverIdle(lifecycle_lock)' /\ HasPlace(lifecycle_lock, t)'
        /\ \A u \in Task : HasPlace(lifecycle_lock, u) => HasPlace(lifecycle_lock, u)'
    BY <2>1, AcquireType, AcquirePlaces DEF Enters
  <2>3. \A u \in Task : lifecycle_lock.holder = u => lifecycle_lock'.holder = u
    BY <2>1, AcquireHolder DEF Enters
  <2> QED  BY <1>0, <2>2, <2>3 DEF AInv, LockPlaces
<1>3. Stages'
  <2>1. raising' \in [Task -> BOOLEAN] /\ \A u \in Task \ {t} : raising'[u] = raising[u]
    BY DEF AInv, Stages, Enters
  <2> QED  BY <1>0, <1>1, <2>1 DEF AInv, Stages, AdapterStart, AdapterStop
<1>4. CallUse'
  <2>1. pc'[Ring] \notin Adapter  BY <1>0 DEF AInv, CallUse, Enters
  <2>2. ASSUME NEW u \in Users, pc'[u] \in Adapter
        PROVE  IF starting'[u] THEN u = Client /\ ~attached' ELSE attached'
    <3>1. CASE u = t
      <4>1. t \notin Socket  BY <2>2, <3>1
      <4>2. CASE label = "begin"
        <5>1. starting'[t] /\ t = Client /\ ~attached  BY <1>0, <4>1, <4>2 DEF Enters
        <5> QED  BY <1>1, <3>1, <5>1
      <4>3. CASE label = "stop"
        <5>1. ~starting'[t] /\ attached  BY <1>0, <4>1, <4>3 DEF Enters
        <5> QED  BY <1>1, <3>1, <5>1
      <4> QED  BY <4>2, <4>3
    <3>2. CASE u # t  BY <1>0, <1>1, <2>2, <3>2 DEF AInv, CallUse
    <3> QED  BY <3>1, <3>2
  <2> QED  BY <2>1, <2>2 DEF CallUse
<1>5. Owed'
  <2>1. \A u \in Task \ {t} : pc'[u] = pc[u]  BY <1>0
  <2>2. pc[t] = "stream" => pc'[t] \in Adapter \ {"begin"}
    BY <1>0 DEF Enters, Adapter, AdapterStop
  <2>3. \A w \in Socket : pc[w] = "stream" => pc'[w] = "stream" \/ pc'[w] \in Adapter \ {"begin"}
    BY <2>1, <2>2
  <2>4. \A u \in Task : pc[u] \in Adapter \ {"begin"} => pc'[u] \in Adapter \ {"begin"}
    BY <1>0, <2>1
  <2> QED  BY <1>1, <2>3, <2>4 DEF AInv, Owed, On
<1>6. ASSUME configured, Route PROVE Route'
  <2>1. \A w \in Socket : Streams(w)' => Streams(w)
    BY <1>0 DEF Streams, Enters, AdapterStop
  <2>2. \A u \in Task : StartsUp(u)' => StartsUp(u) /\ u # t
    BY <1>0 DEF StartsUp, AdapterStop
  <2>3. \A u \in Task : lifecycle_lock.holder = u => lifecycle_lock'.holder = u
    BY AcquireHolder DEF Enters, AInv, LockPlaces
  <2>4. \A u \in Task : pc'[u] \in {"open", "announce"} => pc'[u] = pc[u]
    BY <1>0
  <2> QED  BY <1>1, <1>6, <2>1, <2>2, <2>3, <2>4 DEF Route
<1> QED  BY <1>1, <1>2, <1>3, <1>4, <1>5, <1>6 DEF AInv

(* A diagnostic is cancelled, inside the adapter or not.                   *)
LEMMA CancelStep ==
  ASSUME IInv, AInv, NEW t \in {Ring, Admin}, pc[t] = "idle", StopDiagnostic(t), stream_task # NoTask
  PROVE  AInv'
<1> USE Tasks
<1> DEFINE w == stream_task
<1>0. w \in Socket /\ w # t /\ t \in Users  BY DEF IInv, Types
<1>1. pc' = [pc EXCEPT ![t] = "gather", ![w] = IF pc[w] \in Adapter THEN "finish" ELSE pc[w]]
  BY <1>0 DEF StopDiagnostic, Adapter, IInv, Types
<1>2. /\ lifecycle_lock' = Withdraw(lifecycle_lock, w)
      /\ left' = IF pc[w] \in Adapter /\ pc[w] # "begin" THEN On ELSE left
      /\ UNCHANGED <<configured, alsa, voice, mode, bridge, workers, user, attached, starting, raising>>
  BY <1>0 DEF StopDiagnostic, Adapter, callv
<1>3. /\ pc'[t] = "gather" /\ pc'[w] = (IF pc[w] \in Adapter THEN "finish" ELSE pc[w])
      /\ \A u \in Task \ {t, w} : pc'[u] = pc[u]
  <2>1. pc \in [Task -> Labels] /\ w \in Task /\ t \in Task  BY <1>0 DEF IInv, Types
  <2> HIDE DEF w
  <2> QED  BY <1>0, <1>1, <2>1
<1>4. \A l \in {"gather", "finish", "idle"} : l \notin Adapter \cup {"stream"}
  BY DEF Adapter, AdapterStart, AdapterStop
<1>5. \A u \in Task : pc'[u] \in Adapter \cup {"stream"} => pc'[u] = pc[u] /\ (u = w => pc[u] \notin Adapter)
  BY <1>3, <1>4
<1>6. LockPlaces'
  <2>1. lifecycle_lock \in Lock /\ NeverIdle(lifecycle_lock) /\ w \in Task  BY <1>0 DEF AInv, LockPlaces
  <2>2. /\ lifecycle_lock' \in Lock /\ NeverIdle(lifecycle_lock)'
        /\ \A u \in Task \ {w} : HasPlace(lifecycle_lock, u) => HasPlace(lifecycle_lock, u)'
    BY <1>2, <2>1, WithdrawType, WithdrawPlaces
  <2>3. \A u \in Task \ {w} : lifecycle_lock.holder = u => lifecycle_lock'.holder = u
    BY <1>2, <2>1, WithdrawHolder
  <2> QED  BY <1>5, <2>2, <2>3 DEF AInv, LockPlaces
<1>7. Stages'  BY <1>2, <1>5 DEF AInv, Stages, Adapter, AdapterStart, AdapterStop
<1>8. CallUse'  BY <1>2, <1>5 DEF AInv, CallUse
<1>9. Owed'
  <2>1. \A u \in Socket : pc[u] = "stream" => pc'[u] = "stream"
    <3>1. "stream" \notin Adapter  BY DEF Adapter, AdapterStart, AdapterStop
    <3>2. \A u \in Socket : u # t  BY <1>0
    <3> QED  BY <1>3, <3>1, <3>2
  <2>2. \A u \in Task : pc[u] \in Adapter \ {"begin"} => pc'[u] \in Adapter \ {"begin"} \/ left' = On
    BY <1>2, <1>3, <1>4
  <2>3. On' = On /\ left' \in {left, On}  BY <1>2 DEF On
  <2> QED  BY <1>2, <2>1, <2>2, <2>3 DEF AInv, Owed
<1>10. ASSUME configured, Route PROVE Route'
  <2>1. \A u \in Socket : Streams(u)' => Streams(u)
    BY <1>2, <1>5 DEF Streams, Adapter, AdapterStop
  <2>2. \A u \in Task : StartsUp(u)' => StartsUp(u) /\ u # w
    BY <1>2, <1>5 DEF StartsUp, Adapter, AdapterStart, AdapterStop
  <2>3. \A u \in Task \ {w} : lifecycle_lock.holder = u => lifecycle_lock'.holder = u
    BY <1>0, <1>2, WithdrawHolder DEF AInv, LockPlaces
  <2>4. \A u \in Task : pc'[u] \in {"open", "announce"} => pc'[u] = pc[u]
    BY <1>5 DEF Adapter, AdapterStart
  <2> QED  BY <1>2, <1>10, <2>1, <2>2, <2>3, <2>4 DEF Route
<1> QED  BY <1>2, <1>6, <1>7, <1>8, <1>9, <1>10 DEF AInv

-----------------------------------------------------------------------------
(* Steps inside the adapter                                                  *)

(* The holder of the lifecycle lock steps; the others wait.                *)
Steps(t) ==
  /\ pc[t] \in Adapter /\ lifecycle_lock.holder = t
  /\ \A u \in Task \ {t} : pc'[u] = pc[u]
  /\ UNCHANGED <<configured, starting>>

(* What t has to answer for.                                               *)
RouteOf(t) ==
  /\ bridge' => voice'
  /\ \A w \in Socket \ {t} : Streams(w) => voice' /\ user' = w
  /\ t \in Socket /\ Streams(t)' => voice' /\ user' = t
  /\ attached' => voice' /\ user' = Client
  /\ StartsUp(t)' => /\ lifecycle_lock'.holder = t /\ ~attached'
                     /\ \A w \in Socket \ {t} : ~Streams(w)
                     /\ bridge' => user' = t
  /\ pc'[t] \in {"open", "announce"} => voice'
  /\ pc'[t] = "announce" => user' = t

LEMMA RouteStep ==
  ASSUME AInv, Route, NEW t \in Task, Steps(t), Stages', RouteOf(t)
  PROVE  Route'
<1> USE Tasks
<1>1. \A w \in Socket \ {t} : Streams(w)' <=> Streams(w)  BY DEF Streams, Steps
<1>2. \A u \in Task \ {t} : ~StartsUp(u)' /\ pc'[u] \notin {"open", "announce"}
  BY DEF StartsUp, Steps, Route
<1>3. StartsUp(t)' => ~Streams(t)'
  BY DEF StartsUp, Streams, AdapterStop
<1>4. \A w \in Socket : Streams(w)' => voice' /\ user' = w
  BY <1>1 DEF RouteOf
<1>5. \A u \in Task : StartsUp(u)' => /\ u = t /\ lifecycle_lock'.holder = u /\ ~attached'
                                      /\ \A w \in Socket : ~Streams(w)'
                                      /\ bridge' => user' = u
  BY <1>1, <1>2, <1>3 DEF RouteOf
<1> QED  BY <1>2, <1>4, <1>5 DEF RouteOf, Route

(* A start or a stop goes on.                                              *)
LEMMA WithinStep ==
  ASSUME IInv, AInv, NEW t \in Task, pc[t] \in Adapter, lifecycle_lock.holder = t,
         NEW label \in Adapter \ {"begin"}, Within(t, label), UNCHANGED configured,
         label \in {"join", "close", "unvoice"} => ~bridge',
         label \in {"close", "unvoice"} => ~workers',
         label = "unvoice" => ~alsa',
         label \in AdapterStart => starting[t],
         raising' \in {raising, [raising EXCEPT ![t] = TRUE]},
         label \in AdapterStop /\ starting[t] => raising'[t],
         configured /\ Route /\ pc'[t] = label => RouteOf(t)
  PROVE  AInv'
<1> USE Tasks
<1>0. /\ pc'[t] = label /\ \A u \in Task \ {t} : pc'[u] = pc[u]
      /\ UNCHANGED <<lifecycle_lock, starting, attached>>
  BY DEF Within, Goto, IInv, Types, callv
<1>1. LockPlaces'  BY <1>0 DEF AInv, LockPlaces
<1>2. Stages'
  <2>1. \A u \in Task \ {t} : pc[u] \notin {"join", "close", "unvoice"}
    BY DEF AInv, LockPlaces, Adapter, AdapterStop
  <2>2. raising' \in [Task -> BOOLEAN] /\ \A u \in Task \ {t} : raising'[u] = raising[u]
    BY DEF AInv, Stages
  <2> QED  BY <1>0, <2>1, <2>2 DEF AInv, Stages
<1>3. CallUse'  BY <1>0 DEF AInv, CallUse
<1>4. Owed'  BY <1>0 DEF Owed
<1>5. Steps(t)  BY <1>0 DEF Steps
<1>6. configured' => Route'  BY <1>0, <1>2, <1>5, RouteStep DEF AInv
<1> QED  BY <1>1, <1>2, <1>3, <1>4, <1>6 DEF AInv

(* A start or a stop is over.                                              *)
LEMMA OverStep ==
  ASSUME IInv, AInv, NEW t \in Task, pc[t] \in Adapter, lifecycle_lock.holder = t,
         NEW ok \in BOOLEAN, Returns(t, ok), UNCHANGED configured,
         t \in Socket => UNCHANGED attached, Owed', configured /\ Route => RouteOf(t)
  PROVE  AInv'
<1> USE Tasks
<1>0. /\ pc'[t] \in {"stream", "finish", "idle"} /\ \A u \in Task \ {t} : pc'[u] = pc[u]
      /\ UNCHANGED <<starting, raising>> /\ lifecycle_lock' = Release(lifecycle_lock)
  BY DEF Returns, Goto, IInv, Types
<1>1. pc'[t] \notin Adapter  BY <1>0 DEF Adapter, AdapterStart, AdapterStop
<1>2. LockPlaces'
  <2>1. lifecycle_lock \in Lock  BY DEF AInv, LockPlaces
  <2>2. /\ lifecycle_lock' \in Lock /\ NeverIdle(lifecycle_lock)'
        /\ \A u \in Task \ {t} : HasPlace(lifecycle_lock, u) => HasPlace(lifecycle_lock, u)'
    BY <1>0, <2>1, ReleaseType, ReleasePlaces
  <2>3. \A u \in Task \ {t} : pc[u] \notin Adapter \ {"begin", "stop"}  BY DEF AInv, LockPlaces
  <2> QED  BY <1>0, <1>1, <2>2, <2>3 DEF AInv, LockPlaces
<1>3. Stages'
  <2>1. \A u \in Task \ {t} : pc[u] \notin {"join", "close", "unvoice"}
    BY DEF AInv, LockPlaces, Adapter, AdapterStop
  <2>2. pc'[t] \notin {"join", "close", "unvoice"} /\ pc'[t] \notin AdapterStart \cup AdapterStop
    BY <1>0 DEF AdapterStart, AdapterStop
  <2> QED  BY <1>0, <2>1, <2>2 DEF AInv, Stages
<1>4. CallUse'
  <2>1. CASE t \in Socket
    BY <1>0, <2>1 DEF AInv, CallUse
  <2>2. CASE t \in Users
    <3>1. \A u \in Users \ {t} : pc[u] \notin Adapter  BY <2>2 DEF IInv, HoldsLock
    <3> QED  BY <1>0, <1>1, <3>1 DEF AInv, CallUse
  <2> QED  BY <2>1, <2>2
<1>5. Steps(t)  BY <1>0 DEF Steps
<1>6. configured' => Route'  BY <1>3, <1>5, RouteStep DEF AInv
<1> QED  BY <1>2, <1>3, <1>4, <1>6 DEF AInv

(* The steps of start_web.                                                 *)
LEMMA StartSteps ==
  ASSUME IInv, AInv, NEW t \in Task, Begin(t) \/ StartVoice(t) \/ OpenAlsa(t) \/ Announce(t)
  PROVE  AInv'
<1> USE Tasks
<1>0. /\ pc[t] \in AdapterStart /\ pc[t] \in Adapter /\ lifecycle_lock.holder = t /\ starting[t]
      /\ UNCHANGED configured
  BY DEF Begin, StartVoice, OpenAlsa, Announce, Holds, AInv, Stages, Adapter, AdapterStart
<1>1. t \in Socket \/ (t = Client /\ ~attached)  BY <1>0 DEF AInv, CallUse
<1>2. {"voice", "open", "announce", "stop"} \subseteq Adapter \ {"begin"}
  BY DEF Adapter, AdapterStart, AdapterStop
<1>n. \A label \in {"voice", "open", "announce"} : label \notin AdapterStop  BY DEF AdapterStop
<1>p. \A label : Goto(t, label) => pc'[t] = label  BY DEF Goto, IInv, Types
<1>o. \A u \in Task \ {t} : (\E label : Goto(t, label)) => pc'[u] = pc[u]  BY DEF Goto, IInv, Types
\* A start that fails after it began: the route, if it is up, is its own.
<1>r. ASSUME StartRaises(t), UNCHANGED adapter,
             configured /\ Route => StartsUp(t) \/ ~voice
      PROVE  AInv'
  <2>1. /\ Within(t, "stop") /\ "stop" \in Adapter \ {"begin"} /\ "stop" \notin AdapterStart
        /\ raising' = [raising EXCEPT ![t] = TRUE] /\ raising'[t]
    BY <1>2, <1>r DEF StartRaises, AdapterStart, AInv, Stages
  <2>2. UNCHANGED <<lifecycle_lock, starting, attached, bridge, voice, user>> /\ pc'[t] = "stop"
    BY <1>r, <1>p, <2>1 DEF Within, callv, adapter
  <2>3. ASSUME configured, Route PROVE RouteOf(t)
    <3>1. /\ ~attached /\ (bridge => user = t) /\ \A w \in Socket \ {t} : ~Streams(w)
      BY <1>r, <2>3 DEF Route
    <3>2. StartsUp(t)' /\ ~Streams(t)'  BY <1>0, <2>2 DEF StartsUp, Streams, AdapterStop
    <3> QED  BY <1>0, <2>2, <2>3, <3>1, <3>2 DEF RouteOf, Route
  <2> QED  BY <1>0, <2>1, <2>3, WithinStep
<1>3. CASE Begin(t)
  <2>1. CASE voice /\ Returns(t, FALSE) /\ UNCHANGED adapter
    <3>1. /\ pc'[t] \in {"finish", "idle"} /\ \A u \in Task \ {t} : pc'[u] = pc[u]
          /\ UNCHANGED starting
      BY <2>1, <1>0, <1>1, <1>p, <1>o DEF Returns
    <3>2. (attached' <=> attached) /\ (t \in Socket => UNCHANGED attached)
      BY <1>0, <1>1, <2>1 DEF Returns, callv
    <3>3. UNCHANGED <<alsa, voice, mode, bridge, workers, user, left>>  BY <2>1 DEF adapter
    <3>4. pc[t] = "begin"  BY <1>3 DEF Begin, Holds
    <3>5. Owed'
      BY <3>1, <3>2, <3>3, <3>4 DEF AInv, Owed, On
    <3>6. ASSUME Route PROVE RouteOf(t)
      <4>1. ~StartsUp(t)' /\ ~Streams(t)'  BY <3>1 DEF StartsUp, Streams, AdapterStop
      <4> QED  BY <3>1, <3>2, <3>3, <3>6, <4>1 DEF RouteOf, Route
    <3> QED  BY <1>0, <2>1, <3>2, <3>5, <3>6, OverStep
  <2>2. CASE ~voice /\ StartRaises(t) /\ UNCHANGED adapter
    BY <1>r, <2>2
  <2>3. CASE /\ ~voice /\ ~bridge /\ Within(t, IF configured THEN "voice" ELSE "open")
             /\ UNCHANGED <<raising, voice, mode, bridge, workers, user, left>>
    <3>1. PICK label \in {"voice", "open"} : Within(t, label) /\ (configured <=> label = "voice")
      BY <2>3
    <3>2. label \in (Adapter \ {"begin"}) \ AdapterStop /\ pc'[t] = label
      BY <1>2, <1>p, <3>1 DEF Within, AdapterStop
    <3>3. ASSUME configured, Route PROVE RouteOf(t)
      <4>1. pc'[t] = "voice" /\ UNCHANGED <<attached, lifecycle_lock>>
        BY <3>1, <3>2, <3>3 DEF Within, callv
      <4>2. ~attached /\ \A w \in Socket : ~Streams(w)  BY <2>3, <3>3 DEF Route
      <4> QED  BY <1>0, <2>3, <4>1, <4>2 DEF RouteOf, Streams, AdapterStop
    <3> QED  BY <1>0, <2>3, <3>1, <3>2, <3>3, WithinStep
  <2> QED  BY <1>3, <2>1, <2>2, <2>3 DEF Begin
<1>4. CASE StartVoice(t)
  <2>0. configured /\ Route => StartsUp(t)  BY <1>4 DEF StartVoice, Holds, StartsUp
  <2>1. CASE /\ Within(t, "open") /\ voice' = TRUE
             /\ UNCHANGED <<raising, mode, bridge, workers, user, left>>
    <3>1. pc'[t] = "open" /\ UNCHANGED <<attached, lifecycle_lock>>
      BY <1>p, <2>1 DEF Within, callv
    <3>2. ASSUME configured, Route PROVE RouteOf(t)
      <4>1. /\ ~attached /\ (bridge => user = t) /\ \A w \in Socket \ {t} : ~Streams(w)
        BY <2>0, <3>2 DEF Route
      <4> QED  BY <1>0, <2>1, <3>1, <4>1 DEF RouteOf, Streams, AdapterStop
    <3> QED  BY <1>0, <1>2, <1>n, <2>1, <3>2, WithinStep
  <2>2. CASE StartRaises(t) /\ UNCHANGED adapter  BY <1>r, <2>0, <2>2
  <2> QED  BY <1>4, <2>1, <2>2 DEF StartVoice
<1>5. CASE OpenAlsa(t)
  <2>0. configured /\ Route => StartsUp(t)  BY <1>5 DEF OpenAlsa, Holds, StartsUp
  <2>1. CASE Within(t, "announce") /\ bridge' = TRUE /\ user' = t /\ UNCHANGED <<raising, voice>>
    <3>1. pc'[t] = "announce" /\ UNCHANGED <<attached, lifecycle_lock>>
      BY <1>p, <2>1 DEF Within, callv
    <3>2. ASSUME configured, Route PROVE RouteOf(t)
      <4>1. /\ ~attached /\ \A w \in Socket \ {t} : ~Streams(w)
        BY <2>0, <3>2 DEF Route
      <4>2. voice  BY <1>5, <3>2 DEF OpenAlsa, Holds, Route
      <4> QED  BY <1>0, <2>1, <3>1, <4>1, <4>2 DEF RouteOf, Streams, AdapterStop
    <3> QED  BY <1>0, <1>2, <1>n, <2>1, <3>2, WithinStep
  <2>2. CASE StartRaises(t) /\ UNCHANGED adapter  BY <1>r, <2>0, <2>2
  <2> QED  BY <1>5, <2>1, <2>2 DEF OpenAlsa
<1>6. CASE Announce(t)
  <2>0. configured /\ Route => StartsUp(t)  BY <1>6 DEF Announce, Holds, StartsUp
  <2>1. CASE Returns(t, TRUE)
    <3>0. UNCHANGED <<alsa, voice, mode, bridge, workers, user, left>>
      BY <1>6 DEF Announce, adapter
    <3>1. /\ pc'[t] \in {"stream", "idle"} /\ \A u \in Task \ {t} : pc'[u] = pc[u]
          /\ UNCHANGED starting
      BY <2>1, <1>0, <1>1, <1>p, <1>o DEF Returns
    <3>2. /\ t \in Socket => pc'[t] = "stream" /\ UNCHANGED attached
          /\ t \notin Socket => attached' /\ t = Client
      BY <1>0, <1>1, <1>p, <2>1 DEF Returns, callv
    <3>3. Owed'  BY <3>2 DEF Owed
    <3>4. ASSUME configured, Route PROVE RouteOf(t)
      <4>1. /\ ~attached /\ \A w \in Socket \ {t} : ~Streams(w)
        BY <2>0, <3>4 DEF Route
      <4>2. voice /\ user = t  BY <1>6, <3>4 DEF Announce, Holds, Route
      <4>3. ~StartsUp(t)'  BY <3>1 DEF StartsUp, AdapterStop
      <4> QED  BY <3>0, <3>1, <3>2, <4>1, <4>2, <4>3 DEF RouteOf
    <3> QED  BY <1>0, <2>1, <3>2, <3>3, <3>4, OverStep
  <2>2. CASE StartRaises(t)
    BY <1>6, <1>r, <2>0, <2>2 DEF Announce
  <2> QED  BY <1>6, <2>1, <2>2 DEF Announce
<1> QED  BY <1>3, <1>4, <1>5, <1>6

(* The steps of _stop_unlocked, on the way out or after a failed start.    *)
LEMMA StopSteps ==
  ASSUME IInv, AInv, NEW t \in Task,
         StopWorkers(t) \/ JoinWorkers(t) \/ CloseAlsa(t) \/ StopVoice(t)
  PROVE  AInv'
<1> USE Tasks
<1>0. /\ pc[t] \in AdapterStop /\ pc[t] \in Adapter /\ lifecycle_lock.holder = t
      /\ UNCHANGED configured
  BY DEF StopWorkers, JoinWorkers, CloseAlsa, StopVoice, Holds, Adapter, AdapterStop
<1>1. starting[t] \in BOOLEAN /\ raising[t] \in BOOLEAN /\ (starting[t] => raising[t])
  BY <1>0 DEF IInv, Types, AInv, Stages
<1>2. \A label \in {"join", "close", "unvoice"} : label \in Adapter \ {"begin"} /\ label \notin AdapterStart
  BY DEF Adapter, AdapterStart, AdapterStop
<1>p. \A label : Goto(t, label) => pc'[t] = label  BY DEF Goto, IInv, Types
<1>o. \A u \in Task \ {t} : (\E label : Goto(t, label)) => pc'[u] = pc[u]  BY DEF Goto, IInv, Types
\* With a module runtime, whoever stops stops the only session there is.
<1>s. ASSUME configured, Route
      PROVE  /\ \A w \in Socket \ {t} : ~Streams(w)
             /\ t \in Socket => ~attached
             /\ t \in Users => t # Ring
             /\ ~starting[t] => voice
  <2>1. CASE starting[t]
    <3>1. StartsUp(t)  BY <1>0, <2>1 DEF StartsUp
    <3> QED  BY <1>0, <1>s, <2>1, <3>1 DEF Route, AInv, CallUse
  <2>2. CASE ~starting[t] /\ t \in Socket
    <3>1. Streams(t)  BY <1>0, <2>2 DEF Streams
    <3>2. voice /\ user = t  BY <1>s, <2>2, <3>1 DEF Route
    <3> QED  BY <1>s, <2>2, <3>2 DEF Route
  <2>3. CASE ~starting[t] /\ t \in Users
    <3>1. attached /\ t # Ring  BY <1>0, <2>3 DEF AInv, CallUse
    <3>2. voice /\ user = Client  BY <1>s, <3>1 DEF Route
    <3> QED  BY <1>s, <2>3, <3>1, <3>2 DEF Route
  <2> QED  BY <1>1, <2>1, <2>2, <2>3
\* A step of the stop, before the voice route.
<1>w. ASSUME NEW label \in {"join", "close", "unvoice"}, Within(t, label), ~bridge',
             raising' \in {raising, [raising EXCEPT ![t] = TRUE]},
             UNCHANGED <<voice, user>>, label \in {"close", "unvoice"} => ~workers',
             label = "unvoice" => ~alsa'
      PROVE  AInv'
  <2>0. pc'[t] = label /\ UNCHANGED <<attached, lifecycle_lock, starting>>
    BY <1>p, <1>w DEF Within, callv
  <2>1. ASSUME configured, Route PROVE RouteOf(t)
    <3>1. t \in Socket /\ Streams(t)' => Streams(t)
      BY <1>0, <2>0 DEF Streams
    <3>2. StartsUp(t)' => StartsUp(t)
      BY <1>0, <2>0 DEF StartsUp, AdapterStop
    <3>3. pc'[t] \notin {"open", "announce"}  BY <2>0
    <3> QED  BY <1>s, <1>w, <2>0, <2>1, <3>1, <3>2, <3>3 DEF RouteOf, Route
  <2>2. starting[t] => raising'[t]  BY <1>1, <1>w DEF AInv, Stages
  <2> QED  BY <1>0, <1>2, <1>w, <2>1, <2>2, WithinStep
\* The end of the stop.
<1>e. ASSUME NEW ok \in BOOLEAN, Returns(t, ok), ~bridge', Owed',
             starting[t] /\ ok => FALSE
      PROVE  AInv'
  <2>1. /\ pc'[t] \in {"finish", "idle"} /\ \A u \in Task \ {t} : pc'[u] = pc[u]
        /\ UNCHANGED starting
    BY <1>1, <1>e, <1>p, <1>o DEF Returns
  <2>2. /\ t \in Socket => UNCHANGED attached
        /\ t \notin Socket => ~attached'
    BY <1>1, <1>e DEF Returns, callv
  <2>3. ASSUME configured, Route PROVE RouteOf(t)
    <3>1. ~attached'  BY <1>s, <2>2, <2>3
    <3>2. ~StartsUp(t)' /\ ~Streams(t)'  BY <2>1 DEF StartsUp, Streams, AdapterStop
    <3> QED  BY <1>e, <1>s, <2>1, <2>3, <3>1, <3>2 DEF RouteOf
  <2> QED  BY <1>0, <1>e, <2>2, <2>3, OverStep
<1>3. CASE StopWorkers(t)
  BY <1>3, <1>w DEF StopWorkers
<1>4. CASE JoinWorkers(t)
  <2>0. ~bridge  BY <1>4 DEF JoinWorkers, Holds, AInv, Stages
  <2>1. CASE /\ Within(t, "close") /\ workers' = FALSE
             /\ UNCHANGED <<raising, alsa, voice, mode, bridge, user, left, bounds>>
    BY <1>w, <2>0, <2>1
  <2>2. CASE /\ Returns(t, FALSE) /\ left' = {"alsa", "voice", "mode", "workers"}
             /\ UNCHANGED <<alsa, voice, mode, bridge, workers, user>>
    <3>1. Owed'  BY <2>0, <2>2 DEF Owed, On
    <3> QED  BY <1>e, <2>0, <2>2, <3>1
  <2> QED  BY <1>4, <2>1, <2>2 DEF JoinWorkers
<1>5. CASE CloseAlsa(t)
  <2>0. ~bridge /\ ~workers  BY <1>5 DEF CloseAlsa, Holds, AInv, Stages
  <2> QED  BY <1>5, <1>w, <2>0 DEF CloseAlsa
<1>6. CASE StopVoice(t)
  <2>0. ~bridge /\ ~workers /\ ~alsa  BY <1>6 DEF StopVoice, Holds, AInv, Stages
  <2>1. CASE voice' = FALSE /\ Returns(t, ~raising[t])
    <3>1. Owed'  BY <1>6, <2>0, <2>1 DEF StopVoice, Owed, On
    <3> QED  BY <1>1, <1>6, <1>e, <2>0, <2>1, <3>1 DEF StopVoice
  <2>2. CASE Returns(t, FALSE) /\ left' = {"voice"}
    <3>1. Owed'  BY <1>6, <2>0, <2>2 DEF StopVoice, Owed, On
    <3> QED  BY <1>6, <1>e, <2>0, <2>2, <3>1 DEF StopVoice
  <2> QED  BY <1>6, <2>1, <2>2 DEF StopVoice
<1> QED  BY <1>3, <1>4, <1>5, <1>6

-----------------------------------------------------------------------------
(* The invariant, and what it is for                                         *)

(* A task that goes from one place outside the adapter to another.         *)
LEMMA GotoAside ==
  ASSUME IInv, AInv, NEW t \in Task, NEW label, label \notin Adapter \cup {"stream"},
         pc[t] \notin Adapter \cup {"stream"}, pc' = [pc EXCEPT ![t] = label], Untouched,
         UNCHANGED <<left, attached, lifecycle_lock, starting, raising>>
  PROVE  AInv'
<1>1. Aside  BY DEF Aside, IInv, Types
<1> QED  BY <1>1, AsideStep

LEMMA Outside ==
  /\ \A label \in {"idle", "finish", "gather", "inbound", "attach", "hangup", "create", "maintain", "at"} :
       label \notin Adapter \cup {"stream"}
BY DEF Adapter, AdapterStart, AdapterStop

LEMMA SocketAInv ==
  ASSUME IInv, AInv, NEW w \in Socket,
         RunDiagnostic(w) \/ StreamEnds(w) \/ CancelStream(w) \/ FinishRun(w)
  PROVE  AInv'
<1> USE Tasks DEF Untouched, adapter
<1>1. CASE RunDiagnostic(w)
  <2>1. Enters(w, "begin")  BY <1>1 DEF RunDiagnostic, CallStart, Goto, Enters, callv
  <2> QED  BY <2>1, EntersStep
<1>2. CASE StreamEnds(w) \/ CancelStream(w)
  <2>1. Enters(w, "stop")  BY <1>2 DEF StreamEnds, CancelStream, CallStop, Goto, Enters, callv
  <2> QED  BY <2>1, EntersStep
<1>3. CASE FinishRun(w)
  BY <1>3, Outside, GotoAside DEF FinishRun, Goto, callv
<1> QED  BY <1>1, <1>2, <1>3

LEMMA StopDiagnosticAInv ==
  ASSUME IInv, AInv, NEW t \in {Ring, Admin}, pc[t] = "idle", StopDiagnostic(t)
  PROVE  AInv'
<1> USE Tasks DEF Untouched
<1>1. CASE stream_task # NoTask  BY <1>1, CancelStep
<1>2. CASE stream_task = NoTask
  <2>1. Proceed(t) /\ UNCHANGED <<lifecycle_lock, left>>  BY <1>2 DEF StopDiagnostic
  <2>2. PICK label \in {"inbound", "hangup"} : pc' = [pc EXCEPT ![t] = label]  BY <2>1 DEF Proceed
  <2> QED  BY <2>1, <2>2, Outside, GotoAside DEF StopDiagnostic, callv
<1> QED  BY <1>1, <1>2

LEMMA UsersAInv ==
  ASSUME IInv, AInv,
         \/ \E t \in {Ring, Admin} : Gathered(t)
         \/ RegisterCall \/ AttachAudio
         \/ \E t \in {Client, Admin} : Hangup(t)
         \/ CreateDiagnostic \/ MaintenanceAt \/ AtEnds \/ RestartService
         \/ \E label \in {"attach", "hangup"} : ClientRequest(label)
         \/ \E label \in {"create", "maintain"} : AdminRequest(label)
  PROVE  AInv'
<1> USE Tasks, Outside DEF Untouched, adapter, callv
<1>1. ASSUME NEW t \in {Ring, Admin}, Gathered(t) PROVE AInv'
  <2>1. PICK label \in {"inbound", "hangup"} : pc' = [pc EXCEPT ![t] = label]
    BY <1>1 DEF Gathered, Proceed
  <2> QED  BY <1>1, <2>1, GotoAside DEF Gathered
<1>2. CASE RegisterCall  BY <1>2, GotoAside DEF RegisterCall, Goto
<1>3. CASE AttachAudio
  <2>1. CASE ~attached /\ CallStart(Client)
    <3>1. Enters(Client, "begin")  BY <1>3, <2>1 DEF AttachAudio, CallStart, Goto, Enters
    <3> QED  BY <3>1, EntersStep
  <2>2. CASE Goto(Client, "idle") /\ UNCHANGED <<lifecycle_lock, starting, raising>>
    BY <1>3, <2>2, GotoAside DEF AttachAudio, Goto
  <2> QED  BY <1>3, <2>1, <2>2 DEF AttachAudio
<1>4. ASSUME NEW t \in {Client, Admin}, Hangup(t) PROVE AInv'
  <2>1. CASE attached /\ CallStop(t)
    <3>1. Enters(t, "stop")  BY <1>4, <2>1 DEF Hangup, CallStop, Goto, Enters
    <3> QED  BY <3>1, EntersStep
  <2>2. CASE Goto(t, "idle") /\ UNCHANGED <<lifecycle_lock, starting, raising>>
    BY <1>4, <2>2, GotoAside DEF Hangup, Goto
  <2> QED  BY <1>4, <2>1, <2>2 DEF Hangup
<1>5. CASE CreateDiagnostic  BY <1>5, GotoAside DEF CreateDiagnostic, Goto
<1>6. CASE MaintenanceAt
  <2>1. PICK label \in {"at", "idle"} : Goto(Admin, label)  BY <1>6 DEF MaintenanceAt
  <2> QED  BY <1>6, <2>1, GotoAside DEF MaintenanceAt, Goto
<1>7. CASE AtEnds  BY <1>7, GotoAside DEF AtEnds, Goto
<1>8. CASE RestartService  BY <1>8, GotoAside DEF RestartService, Goto
<1>9. ASSUME NEW label \in {"attach", "hangup"}, ClientRequest(label) PROVE AInv'
  BY <1>9, GotoAside DEF ClientRequest, Goto
<1>10. ASSUME NEW label \in {"create", "maintain"}, AdminRequest(label) PROVE AInv'
  BY <1>10, GotoAside DEF AdminRequest, Goto
<1> QED  BY <1>1, <1>2, <1>3, <1>4, <1>5, <1>6, <1>7, <1>8, <1>9, <1>10

LEMMA InitAInv == Init => AInv
<1> SUFFICES ASSUME Init PROVE AInv  OBVIOUS
<1> USE Tasks
<1>1. \A t \in Task : pc[t] = "idle" /\ "idle" \notin Adapter
  BY DEF Init, Adapter, AdapterStart, AdapterStop
<1>2. lifecycle_lock \in Lock /\ NeverIdle(lifecycle_lock)  BY DEF Init, Unlocked, Lock, NeverIdle
<1>3. \A t \in Task : pc[t] \notin AdapterStart \cup AdapterStop  BY <1>1 DEF Adapter
<1>4. LockPlaces /\ Stages /\ CallUse /\ Owed
  BY <1>1, <1>2, <1>3 DEF Init, LockPlaces, Stages, CallUse, Owed, On
<1>5. \A t \in Task : ~Streams(t) /\ ~StartsUp(t)
  BY <1>1, <1>3 DEF Streams, StartsUp
<1>6. Route  BY <1>1, <1>5 DEF Init, Route
<1> QED  BY <1>4, <1>6 DEF AInv

LEMMA NextAInv == IInv /\ AInv /\ [Next]_vars => AInv'
<1> SUFFICES ASSUME IInv, AInv, [Next]_vars PROVE AInv'  OBVIOUS
<1>1. ASSUME NEW t \in Task, Continue(t) PROVE AInv'
  <2>1. CASE AdapterStep(t)  BY <2>1, StartSteps, StopSteps DEF AdapterStep
  <2>2. CASE ~AdapterStep(t)
    <3>1. CASE t \in Socket /\ (CancelStream(t) \/ FinishRun(t))  BY <3>1, SocketAInv
    <3>2. CASE \/ t \in {Ring, Admin} /\ Gathered(t)
               \/ RegisterCall \/ AttachAudio
               \/ t \in {Client, Admin} /\ Hangup(t)
               \/ CreateDiagnostic \/ MaintenanceAt \/ AtEnds \/ RestartService
      BY <3>2, UsersAInv
    <3> QED  BY <1>1, <2>2, <3>1, <3>2 DEF Continue
  <2> QED  BY <2>1, <2>2
<1>2. ASSUME NEW w \in Socket, RunDiagnostic(w) \/ StreamEnds(w) PROVE AInv'
  BY <1>2, SocketAInv
<1>3. CASE Expire \/ RestartFails \/ UNCHANGED vars
  <2>1. Aside
    BY <1>3 DEF Expire, RestartFails, vars, tasks, callv, adapter, Aside, Untouched
  <2> QED  BY <2>1, AsideStep
<1>4. CASE NewCall  BY <1>4, StopDiagnosticAInv DEF NewCall
<1>5. CASE Reconnect  BY <1>5, StopDiagnosticAInv DEF Reconnect
<1> QED  BY <1>1, <1>2, <1>3, <1>4, <1>5, UsersAInv DEF Next

(* What is on is in use, about to be switched off, or was left on by the   *)
(* last stop that raised or by a task that was cancelled since.            *)
THEOREM AdapterInvariant == Spec => [](IInv /\ AInv)
<1>1. Init => IInv /\ AInv  BY InitIInv, InitAInv
<1>2. IInv /\ AInv /\ [Next]_vars => IInv' /\ AInv'  BY NextIInv, NextAInv
<1> QED  BY <1>1, <1>2, PTL DEF Spec

(* When no start, stop or session is under way, nothing is on but what the *)
(* last stop that raised could not confirm, or what was on when a task was *)
(* cancelled inside the adapter since (bridge.py:107 cleans up after an    *)
(* Exception only); a stop that goes through leaves nothing.               *)
THEOREM Released == Spec => []AdapterFree
<1>1. AInv => AdapterFree
  <2> SUFFICES ASSUME AInv, lifecycle_lock.holder = NoTask, ~InUse PROVE On \subseteq left
    BY DEF AdapterFree
  <2>1. lifecycle_lock.queue = <<>>  BY DEF AInv, LockPlaces, NeverIdle
  <2>2. \A t \in Task : ~HasPlace(lifecycle_lock, t)
    <3>1. DOMAIN lifecycle_lock.queue = {}  BY <2>1
    <3>2. \A t \in Task : t # lifecycle_lock.holder  BY Tasks
    <3> QED  BY <3>1, <3>2 DEF HasPlace
  <2>3. \A t \in Task : pc[t] \notin Adapter  BY <2>2 DEF AInv, LockPlaces
  <2> QED  BY <2>3 DEF AInv, Owed, InUse
<1> QED  BY <1>1, AdapterInvariant, PTL

(* With a module runtime only the call itself, or a reconnect, stops the   *)
(* audio of a call; without one a diagnostic that starts late stops it too *)
(* (bridge.py:117).                                                        *)
THEOREM Undisturbed == Spec => CallAudioUndisturbed
<1> DEFINE Keeps == configured /\ user = Client /\ bridge /\ ~bridge'
                      => lifecycle_lock.holder \in {Client, Admin}
<1>1. IInv /\ AInv /\ [Next]_vars => [Keeps]_vars
  <2> SUFFICES ASSUME IInv, AInv, [Next]_vars, configured, user = Client, bridge, ~bridge'
               PROVE  lifecycle_lock.holder \in {Client, Admin}
    OBVIOUS
  <2> USE Tasks
  <2>1. PICK t \in Task : StopWorkers(t)
    <3>1. ASSUME NEW t \in Task, Continue(t) PROVE StopWorkers(t)
      BY <3>1 DEF Continue, AdapterStep, Begin, StartVoice, OpenAlsa, Announce, JoinWorkers, CloseAlsa,
         StopVoice, CancelStream, FinishRun, Gathered, RegisterCall, AttachAudio, Hangup,
         CreateDiagnostic, MaintenanceAt, AtEnds, RestartService, adapter
    <3> QED
      BY <3>1 DEF Next, RunDiagnostic, StreamEnds, Expire, NewCall, Reconnect, StopDiagnostic,
         RestartFails, ClientRequest, AdminRequest, adapter, vars
  <2>2. lifecycle_lock.holder = t /\ pc[t] \in AdapterStop /\ pc[t] \in Adapter /\ starting[t] \in BOOLEAN
    BY <2>1 DEF StopWorkers, Holds, AdapterStop, Adapter, IInv, Types
  <2>3. t \notin Socket
    <3>1. CASE starting[t]
      BY <2>2, <3>1 DEF AInv, Route, StartsUp
    <3>2. CASE ~starting[t]
      BY <2>2, <3>2 DEF AInv, Route, Streams
    <3> QED  BY <2>2, <3>1, <3>2
  <2>4. t # Ring  BY <2>2 DEF AInv, CallUse
  <2> QED  BY <2>2, <2>3, <2>4 DEF Users
<1> QED  BY <1>1, AdapterInvariant, PTL DEF Spec, CallAudioUndisturbed

=============================================================================

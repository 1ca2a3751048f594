----------------------- MODULE CallController_proofs -----------------------
(***************************************************************************)
(* Safety of CallController, for every number of clients, sockets, devices *)
(* and calls, and that it implements CallLifecycle.                        *)
(*                                                                         *)
(* First its types, and an invariant about locks and calls (IInv).  A step *)
(* is taken by one task.  Either that task holds _operation_lock, and then *)
(* no other task is inside an operation that could notice (HolderAlone),   *)
(* or it does not, and then it leaves the call and the flags as they are   *)
(* (Bystander).                                                            *)
(*                                                                         *)
(* Then what a call leaves behind, who keeps it alive and what the history *)
(* says of it (Core).  Locks, queues and the fields of a call record are   *)
(* forgotten first: each step has one of eighteen shapes (Shape), and      *)
(* every invariant of that part is proved shape by shape.                  *)
(***************************************************************************)
EXTENDS CallController, AsyncLock_proofs

-----------------------------------------------------------------------------
(* Types *)

Pc == Locked \cup Queued \cup Loose
TaskTypes == pc \in [Task -> Pc] /\ job \in [Task -> Job]
LockTypes == op \in Lock /\ hang \in Lock

\* A record in another state of the life cycle is a call record.
LEMMA InStateType ==
  ASSUME NEW c \in CallRecord, NEW s \in CallState,
         NEW r \in {"none", "hangup", "timeout", "disconnected", "socket", "error", "restart"}
  PROVE  InState(c, s, r) \in CallRecord
<1> DEFINE d == IF s \in {"active"} \cup Terminal THEN "none" ELSE c.due
<1>1. d \in {"none", "ahead", "past"}  BY DEF CallRecord
<1> HIDE DEF d
<1>2. InState(c, s, r) = [c EXCEPT !.state = s, !.why = r, !.due = d]  BY DEF InState, d
<1> QED  BY <1>1, <1>2 DEF CallRecord

\* A recovered call is a call record.
LEMMA EndedType == \A c \in CallRecord : InState(c, "ended", "restart") \in CallRecord
BY InStateType DEF CallState, Terminal

\* A transition of the live call keeps the types.
LEMMA MovedType ==
  ASSUME call \in [Call -> CallRecord], NEW s \in CallState,
         NEW r \in {"none", "hangup", "timeout", "disconnected", "socket", "error", "restart"}
  PROVE  Moved(s, r) \in [Call -> CallRecord]
<1>1. \A c \in CallRecord : InState(c, s, r) \in CallRecord  BY InStateType
<1>2. Moved(s, r) = [c \in Call |-> IF c = active THEN InState(call[active], s, r) ELSE call[c]]
  BY DEF Moved
<1> QED  BY <1>1, <1>2

\* The timer task is withdrawn from a lock, and from its suspension point.
LEMMA TimerGoneType ==
  ASSUME NEW L \in Lock, NEW t \in Task
  PROVE  TimerGone(L, t) \in Lock
BY WithdrawType, TaskAssumption DEF TimerGone

\* Stopping the timer task keeps the types.
LEMMA StoppedType ==
  ASSUME NEW S, NEW f \in [Task -> S], NEW t \in Task, NEW idle \in S
  PROVE  Stopped(f, t, idle) \in [Task -> S]
BY DEF Stopped

\* Idle is a job.
LEMMA IdleType == Idle \in Job
BY DataAssumption DEF Idle, Job

\* Goto keeps the types of the tasks.
LEMMA GotoType ==
  ASSUME TaskTypes, LockTypes, NEW t \in Task, NEW p \in Pc, Goto(t, p)
  PROVE  TaskTypes' /\ LockTypes'
BY DEF TaskTypes, LockTypes, Goto

\* Return keeps the types of the tasks.
LEMMA ReturnType ==
  ASSUME TaskTypes, LockTypes, NEW t \in Task, Return(t)
  PROVE  TaskTypes' /\ LockTypes'
BY IdleType, ReleaseType DEF TaskTypes, LockTypes, Return, Pc, Loose

\* EnterHangup keeps the types of the tasks.
LEMMA EnterHangupType ==
  ASSUME TaskTypes, LockTypes, NEW t \in Task, NEW j \in Job, NEW L \in Lock,
         EnterHangup(t, j, L)
  PROVE  TaskTypes' /\ LockTypes'
BY AcquireType DEF TaskTypes, LockTypes, EnterHangup, Pc, Queued

\* CloseSocket keeps the types of the tasks.
LEMMA CloseSocketType ==
  ASSUME TaskTypes, LockTypes, NEW s \in Task, NEW L \in Lock, CloseSocket(s, L)
  PROVE  TaskTypes' /\ LockTypes'
<1> DEFINE j == [op |-> "socket_closed", call |-> job[s].call, inst |-> NoInst]
<1>1. j \in Job  BY DEF TaskTypes, Job, HangupOp
<1>2. CASE Live /\ active = job[s].call
  BY <1>1, <1>2, EnterHangupType DEF CloseSocket
<1>3. CASE ~(Live /\ active = job[s].call)
  BY <1>3, IdleType DEF CloseSocket, TaskTypes, LockTypes, Pc, Loose
<1> QED  BY <1>2, <1>3

\* BeginCleanup keeps the types.
LEMMA BeginCleanupType ==
  ASSUME TypeOK, NEW t \in Task, BeginCleanup(t)
  PROVE  TaskTypes' /\ LockTypes' /\ timer' = 0 /\ call' \in [Call -> CallRecord]
<1>1. op' \in Lock /\ hang' \in Lock
  BY TimerGoneType DEF BeginCleanup, TypeOK
<1>2. Stopped(pc, t, "idle") \in [Task -> Pc]
  BY StoppedType DEF TypeOK, Pc, Loose
<1>3. pc' \in [Task -> Pc]
  BY <1>2 DEF BeginCleanup, Pc, Locked
<1>4. job' \in [Task -> Job]
  BY IdleType, StoppedType DEF BeginCleanup, TypeOK
<1>5. call' \in [Call -> CallRecord]
  <2>1. call' = [c \in Call |-> IF c = active THEN [call[c] EXCEPT !.over = TRUE] ELSE call[c]]
    BY DEF BeginCleanup, TypeOK
  <2>2. \A c \in CallRecord : [c EXCEPT !.over = TRUE] \in CallRecord  BY DEF CallRecord
  <2> QED  BY <2>1, <2>2 DEF TypeOK
<1> QED  BY <1>1, <1>3, <1>4, <1>5 DEF TaskTypes, LockTypes, BeginCleanup

\* What TypeOK says beside TaskTypes and LockTypes.
CoreTypes ==
  /\ active \in 0..MaxCalls /\ call \in [Call -> CallRecord]
  /\ saved \in [Call -> CallState] /\ flags \in Flags /\ timer \in 0..MaxCalls
EnvTypes ==
  /\ leg \in {"idle", "ringing", "dialing", "up"} /\ audio \in {"off", "on"}
  /\ urcs \in Seq({"ring", "connected", "disconnected"})
  /\ faults \in 0..MaxFaults /\ crashes \in 0..MaxCrashes

\* TypeOK in the three parts the steps are checked by.
LEMMA TypeParts ==
  /\ TypeOK <=> CoreTypes /\ EnvTypes /\ TaskTypes /\ LockTypes
  /\ TypeOK' <=> CoreTypes' /\ EnvTypes' /\ TaskTypes' /\ LockTypes'
BY DEF TypeOK, CoreTypes, EnvTypes, TaskTypes, LockTypes, Pc

\* A failed service is counted within its bound.
LEMMA FailsType ==
  ASSUME EnvTypes, NEW service, Fails(service)
  PROVE  faults' \in 0..MaxFaults
BY DataAssumption DEF Fails, EnvTypes

\* The constants in the form the steps need.
LEMMA Bounds == MaxCalls \in Nat /\ MaxFaults \in Nat /\ MaxCrashes \in Nat /\ 0 \notin Call
BY DataAssumption DEF Call

\* A row is written with the state of the active call.
LEMMA SavedType ==
  ASSUME CoreTypes
  PROVE  [saved EXCEPT ![active] = call[active].state] \in [Call -> CallState]
<1>1. \A c \in Call : call[c].state \in CallState  BY DEF CoreTypes, CallRecord
<1> QED  BY <1>1 DEF CoreTypes

\* Steps that leave the core variables alone keep their types.
LEMMA SameCore == ASSUME CoreTypes, UNCHANGED coreVars PROVE CoreTypes'
BY DEF CoreTypes, coreVars

\* Steps that leave the environment alone keep its types.
LEMMA SameEnv == ASSUME EnvTypes, UNCHANGED envVars PROVE EnvTypes'
BY DEF EnvTypes, envVars

\* Every step of an operation keeps the types.
LEMMA OperationType ==
  ASSUME TypeOK, NEW t \in Task, Operation(t)
  PROVE  TypeOK'
<1> USE TypeParts, Bounds
<1>0. CoreTypes /\ EnvTypes /\ TaskTypes /\ LockTypes  OBVIOUS
<1>1. CASE StartRefused(t)
  BY <1>1, <1>0, ReturnType DEF StartRefused, coreVars, envVars, lockVars, CoreTypes, EnvTypes
<1>2. CASE Start(t)
  <2>1. TaskTypes' /\ LockTypes'  BY <1>2, <1>0, GotoType DEF Start, Pc, Locked
  <2>2. CoreTypes'
    <3> DEFINE in == job[t].op = "start_inbound"
               r == [dir |-> IF in THEN "inbound" ELSE "outbound",
                     front |-> IF in THEN Frontend ELSE IF job[t].inst = NoInst THEN "web" ELSE "app",
                     state |-> IF in THEN "ringing_cellular" ELSE "waiting_client",
                     owner |-> job[t].inst, due |-> "ahead", why |-> "none", over |-> FALSE]
    <3>1. active + 1 \in 1..MaxCalls  BY <1>2, <1>0 DEF Start, CoreTypes
    <3>2. job[t].inst \in Inst \cup {NoInst}  BY <1>0 DEF TaskTypes, Job
    <3>3. r \in CallRecord
      BY <3>2, DataAssumption DEF CallRecord, CallState, LiveState
    <3>4. call' = [call EXCEPT ![active + 1] = r]  BY <1>2 DEF Start
    <3>5. flags' = [NoFlags EXCEPT !.started = in]  BY <1>2 DEF Start
    <3>6. flags' \in Flags  BY <3>5 DEF Flags, NoFlags
    <3>7. call' \in [Call -> CallRecord]  BY <1>0, <3>3, <3>4 DEF CoreTypes
    <3>8. active' = active + 1 /\ UNCHANGED <<saved, timer>>  BY <1>2 DEF Start
    <3> QED  BY <1>0, <3>1, <3>6, <3>7, <3>8 DEF CoreTypes
  <2>3. EnvTypes'  BY <1>2, <1>0, SameEnv DEF Start
  <2> QED  BY <2>1, <2>2, <2>3
<1>3. CASE RingAgain(t)
  <2>1. TaskTypes' /\ LockTypes'  BY <1>3, <1>0, GotoType DEF RingAgain, Pc, Locked
  <2>2. CoreTypes'  BY <1>3, <1>0, SameCore DEF RingAgain
  <2>3. EnvTypes'  BY <1>3, <1>0, SameEnv DEF RingAgain
  <2> QED  BY <2>1, <2>2, <2>3
<1>4. CASE StartRecord(t)
  <2>1. TaskTypes' /\ LockTypes'
    <3>1. op' \in Lock /\ hang' \in Lock
      BY <1>4, <1>0, WithdrawType, ReleaseType, TaskAssumption DEF StartRecord, LockTypes, Return
    <3>2. TaskTypes'  BY <1>4, <1>0, IdleType DEF StartRecord, TaskTypes, Pc, Loose, Return
    <3> QED  BY <3>1, <3>2 DEF LockTypes
  <2>2. CoreTypes'  BY <1>4, <1>0, SavedType DEF StartRecord, CoreTypes
  <2>3. EnvTypes'  BY <1>4, <1>0, SameEnv DEF StartRecord
  <2> QED  BY <2>1, <2>2, <2>3
<1>5. CASE StartRecordFails(t)
  <2>1. TaskTypes' /\ LockTypes'  BY <1>5, <1>0, ReturnType DEF StartRecordFails
  <2>2. CoreTypes'  BY <1>5, <1>0, SameCore DEF StartRecordFails
  <2>3. EnvTypes'  BY <1>5, <1>0, FailsType DEF StartRecordFails, EnvTypes, envVars
  <2> QED  BY <2>1, <2>2, <2>3
<1>6. CASE Claim(t)
  <2>1. TaskTypes' /\ LockTypes'  BY <1>6, <1>0, GotoType DEF Claim, Pc, Locked
  <2>2. CoreTypes'
    <3> DEFINE r == [InState(call[active], "waiting_client", "none")
                       EXCEPT !.owner = job[t].inst, !.due = "ahead"]
    <3>1. active \in Call  BY <1>6, <1>0 DEF Claim, ValidCall, Live, CoreTypes, Call
    <3>2. InState(call[active], "waiting_client", "none") \in CallRecord
      BY <1>0, <3>1, MovedType DEF Moved, CoreTypes, CallState, LiveState
    <3>3. job[t].inst \in Inst \cup {NoInst}  BY <1>0 DEF TaskTypes, Job
    <3>4. r \in CallRecord  BY <3>2, <3>3 DEF CallRecord
    <3>5. call' = [call EXCEPT ![active] = r]  BY <1>6 DEF Claim
    <3> QED  BY <1>6, <1>0, <3>4, <3>5 DEF Claim, CoreTypes
  <2>3. EnvTypes'  BY <1>6, <1>0, SameEnv DEF Claim
  <2> QED  BY <2>1, <2>2, <2>3
<1>7. CASE AnswerRefused(t)
  <2>1. TaskTypes' /\ LockTypes'  BY <1>7, <1>0, ReturnType DEF AnswerRefused
  <2>2. CoreTypes'  BY <1>7, <1>0, SameCore DEF AnswerRefused
  <2>3. EnvTypes'  BY <1>7, <1>0, SameEnv DEF AnswerRefused
  <2> QED  BY <2>1, <2>2, <2>3
<1>8. CASE AnswerWeb(t)
  BY <1>8, <1>0, GotoType DEF AnswerWeb, coreVars, envVars, lockVars, CoreTypes, EnvTypes, Pc, Locked
<1>9. CASE ClaimRecord(t)
  <2>1. TaskTypes' /\ LockTypes'
    <3>1. op' \in Lock /\ hang' \in Lock
      BY <1>9, <1>0, WithdrawType, ReleaseType, TaskAssumption DEF ClaimRecord, LockTypes, Return
    <3>2. TaskTypes'  BY <1>9, <1>0, IdleType DEF ClaimRecord, TaskTypes, Pc, Loose, Return
    <3> QED  BY <3>1, <3>2 DEF LockTypes
  <2>2. CoreTypes'  BY <1>9, <1>0, SavedType DEF ClaimRecord, CoreTypes
  <2>3. EnvTypes'  BY <1>9, <1>0, FailsType DEF ClaimRecord, EnvTypes
  <2> QED  BY <2>1, <2>2, <2>3
<1>10. CASE Dtmf(t)
  <2>1. TaskTypes' /\ LockTypes'  BY <1>10, <1>0, GotoType, ReturnType DEF Dtmf, Pc, Locked
  <2>2. CoreTypes'  BY <1>10, <1>0, SameCore DEF Dtmf
  <2>3. EnvTypes'  BY <1>10, <1>0, SameEnv DEF Dtmf
  <2> QED  BY <2>1, <2>2, <2>3
<1>11. CASE DtmfDone(t)
  BY <1>11, <1>0, ReturnType DEF DtmfDone, coreVars, envVars, lockVars, CoreTypes, EnvTypes
<1>12. CASE StopAudio(t)
  BY <1>12, <1>0, ReturnType, GotoType, FailsType, SavedType DEF StopAudio, coreVars, envVars, lockVars, CoreTypes, EnvTypes, Pc, Locked
<1>13. CASE StopLeg(t)
  BY <1>13, <1>0, ReturnType, GotoType, FailsType, SavedType DEF StopLeg, coreVars, envVars, lockVars, CoreTypes, EnvTypes, Pc, Locked
<1>14. CASE Conclude(t)
  <2>1. TaskTypes' /\ LockTypes'  BY <1>14, <1>0, GotoType, ReturnType, CloseSocketType, ReleaseType DEF Conclude, LockTypes, Pc, Locked
  <2>2. CoreTypes'
    <3>1. Moved("ended", Reason(job[t])) \in [Call -> CallRecord]
      BY <1>0, MovedType DEF CoreTypes, CallState, Terminal, Reason
    <3>2. Moved("failed", "error") \in [Call -> CallRecord]
      BY <1>0, MovedType DEF CoreTypes, CallState, Terminal
    <3>3. call' \in [Call -> CallRecord]  BY <1>14, <1>0, <3>1, <3>2 DEF Conclude, CoreTypes
    <3> QED  BY <1>14, <1>0, <3>3 DEF Conclude, CoreTypes, NoFlags, Flags
  <2>3. EnvTypes'  BY <1>14, <1>0, SameEnv DEF Conclude
  <2> QED  BY <2>1, <2>2, <2>3
<1>15. CASE EndRecord(t)
  <2>1. TaskTypes' /\ LockTypes'  
    <3>1. CASE job[t].op \in HangupOp
      BY <1>15, <1>0, <3>1, ReleaseType, IdleType DEF EndRecord, TaskTypes, LockTypes, Pc, Loose
    <3>2. CASE job[t].op \notin HangupOp /\ t \in Sockets
      BY <1>15, <1>0, <3>2, CloseSocketType, ReleaseType DEF EndRecord, LockTypes
    <3>3. CASE job[t].op \notin HangupOp /\ t \notin Sockets
      BY <1>15, <1>0, <3>3, ReturnType DEF EndRecord
    <3> QED  BY <3>1, <3>2, <3>3
  <2>2. CoreTypes'  BY <1>15, <1>0, SavedType DEF EndRecord, CoreTypes, coreVars
  <2>3. EnvTypes'  BY <1>15, <1>0, FailsType DEF EndRecord, EnvTypes, envVars
  <2> QED  BY <2>1, <2>2, <2>3
<1>16. CASE HangupNext(t)
  <2>1. TaskTypes' /\ LockTypes'  BY <1>16, <1>0, AcquireType DEF HangupNext, TaskTypes, LockTypes, Pc, Queued
  <2>2. CoreTypes'  BY <1>16, <1>0, SameCore DEF HangupNext
  <2>3. EnvTypes'  BY <1>16, <1>0, SameEnv DEF HangupNext
  <2> QED  BY <2>1, <2>2, <2>3
<1>17. CASE Hangup(t)
  <2>1. TaskTypes' /\ LockTypes'  BY <1>17, BeginCleanupType DEF Hangup
  <2>2. CoreTypes'  BY <1>17, <1>0, BeginCleanupType, Bounds DEF Hangup, CoreTypes
  <2>3. EnvTypes'  BY <1>17, <1>0, SameEnv DEF Hangup
  <2> QED  BY <2>1, <2>2, <2>3
<1>18. CASE HangupRefused(t)
  <2>1. TaskTypes' /\ LockTypes'  BY <1>18, <1>0, ReleaseType, IdleType DEF HangupRefused, TaskTypes, LockTypes, Pc, Loose
  <2>2. CoreTypes'  BY <1>18, <1>0 DEF HangupRefused, CoreTypes, coreVars
  <2>3. EnvTypes'  BY <1>18, <1>0, SameEnv DEF HangupRefused
  <2> QED  BY <2>1, <2>2, <2>3
<1>19. CASE Answered(t)
  <2>1. TaskTypes' /\ LockTypes'  
    <3>1. op' \in Lock /\ hang' \in Lock  BY <1>19, <1>0, TimerGoneType, ReleaseType DEF Answered, LockTypes, Return
    <3>2. Stopped(pc, t, "idle") \in [Task -> Pc] /\ Stopped(job, t, Idle) \in [Task -> Job]
      BY <1>0, StoppedType, IdleType DEF TaskTypes, Pc, Loose
    <3>3. TaskTypes'  BY <1>19, <1>0, <3>2, IdleType DEF Answered, TaskTypes, Pc, Locked, Loose, Return
    <3> QED  BY <3>1, <3>3 DEF LockTypes
  <2>2. CoreTypes'  
    <3>1. call' \in [Call -> CallRecord]  BY <1>19, <1>0, MovedType DEF Answered, CoreTypes, CallState, LiveState
    <3> QED  BY <1>19, <1>0, <3>1 DEF Answered, CoreTypes
  <2>3. EnvTypes'  BY <1>19, <1>0 DEF Answered, EnvTypes, envVars
  <2> QED  BY <2>1, <2>2, <2>3
<1>20. CASE AnswerLegFails(t)
  <2>1. TaskTypes' /\ LockTypes'  BY <1>20, BeginCleanupType DEF AnswerLegFails
  <2>2. CoreTypes'  BY <1>20, <1>0, BeginCleanupType, Bounds DEF AnswerLegFails, CoreTypes
  <2>3. EnvTypes'  BY <1>20, <1>0, FailsType DEF AnswerLegFails, EnvTypes, envVars
  <2> QED  BY <2>1, <2>2, <2>3
<1>21. CASE MediaRecord(t)
  <2>1. TaskTypes' /\ LockTypes'  BY <1>21, <1>0, ReturnType, ReleaseType DEF MediaRecord, TaskTypes, LockTypes, Pc, Loose
  <2>2. CoreTypes'  BY <1>21, <1>0, SavedType DEF MediaRecord, CoreTypes, coreVars
  <2>3. EnvTypes'  BY <1>21, <1>0, SameEnv DEF MediaRecord
  <2> QED  BY <2>1, <2>2, <2>3
<1>22. CASE MediaRecordFails(t)
  <2>1. TaskTypes' /\ LockTypes'  BY <1>22, BeginCleanupType DEF MediaRecordFails
  <2>2. CoreTypes'  BY <1>22, <1>0, BeginCleanupType, Bounds DEF MediaRecordFails, CoreTypes
  <2>3. EnvTypes'  BY <1>22, <1>0, FailsType DEF MediaRecordFails, EnvTypes, envVars
  <2> QED  BY <2>1, <2>2, <2>3
<1>23. CASE Connected(t)
  <2>1. TaskTypes' /\ LockTypes'  
    <3>1. op' \in Lock /\ hang' \in Lock  BY <1>23, <1>0, TimerGoneType, ReleaseType DEF Connected, LockTypes, Return
    <3>2. Stopped(pc, t, "idle") \in [Task -> Pc] /\ Stopped(job, t, Idle) \in [Task -> Job]
      BY <1>0, StoppedType, IdleType DEF TaskTypes, Pc, Loose
    <3>3. TaskTypes'  BY <1>23, <1>0, <3>2, IdleType DEF Connected, TaskTypes, Pc, Locked, Loose, Return
    <3> QED  BY <3>1, <3>3 DEF LockTypes
  <2>2. CoreTypes'  
    <3>1. call' \in [Call -> CallRecord]  BY <1>23, <1>0, MovedType DEF Connected, CoreTypes, CallState, LiveState
    <3> QED  BY <1>23, <1>0, <3>1 DEF Connected, CoreTypes
  <2>3. EnvTypes'  BY <1>23, <1>0, SameEnv DEF Connected
  <2> QED  BY <2>1, <2>2, <2>3
<1>24. CASE ConnectRecord(t)
  <2>1. TaskTypes' /\ LockTypes'  BY <1>24, <1>0, ReturnType DEF ConnectRecord
  <2>2. CoreTypes'  BY <1>24, <1>0, SavedType DEF ConnectRecord, CoreTypes, coreVars
  <2>3. EnvTypes'  BY <1>24, <1>0, FailsType DEF ConnectRecord, EnvTypes, envVars
  <2> QED  BY <2>1, <2>2, <2>3
<1> QED  BY <1>1, <1>2, <1>3, <1>4, <1>5, <1>6, <1>7, <1>8, <1>9, <1>10, <1>11, <1>12, <1>13, <1>14, <1>15, <1>16, <1>17, <1>18, <1>19, <1>20, <1>21, <1>22, <1>23, <1>24 DEF Operation

\* Every step of a socket keeps the types.
LEMMA SocketType ==
  ASSUME TypeOK, NEW t \in Sockets, SocketStep(t) \/ Connect(t) \/ StreamEnds(t)
  PROVE  TypeOK'
<1> USE TypeParts, Bounds
<1>0. CoreTypes /\ EnvTypes /\ TaskTypes /\ LockTypes  OBVIOUS
<1>t. t \in Task  BY TaskAssumption
<1>1. CASE Run(t)
  <2>1. TaskTypes' /\ LockTypes'  BY <1>1, <1>0, <1>t, AcquireType DEF Run, TaskTypes, LockTypes, Pc, Queued, Loose
  <2>2. CoreTypes'  BY <1>1, <1>0, SameCore DEF Run
  <2>3. EnvTypes'  BY <1>1, <1>0, SameEnv DEF Run
  <2> QED  BY <2>1, <2>2, <2>3
<1>2. CASE Reserve(t)
  <2>1. TaskTypes' /\ LockTypes'
    <3>1. CASE OwnedBy(job[t].call, job[t].inst) /\ ~flags.reserved /\ ~flags.attached
      <4>1. op' \in Lock  BY <1>2, <1>0, <1>t, <3>1, AcquireType, ReleaseType DEF Reserve, LockTypes
      <4>2. pc' \in [Task -> Pc] /\ UNCHANGED <<hang, job>>
        BY <1>2, <1>0, <1>t, <3>1 DEF Reserve, TaskTypes, Pc, Queued, Loose
      <4> QED  BY <1>0, <4>1, <4>2 DEF TaskTypes, LockTypes
    <3>2. CASE ~(OwnedBy(job[t].call, job[t].inst) /\ ~flags.reserved /\ ~flags.attached)
      BY <1>2, <1>0, <1>t, <3>2, ReturnType DEF Reserve
    <3> QED  BY <3>1, <3>2
  <2>2. CoreTypes'  BY <1>2, <1>0 DEF Reserve, CoreTypes, Flags
  <2>3. EnvTypes'  BY <1>2, <1>0, SameEnv DEF Reserve
  <2> QED  BY <2>1, <2>2, <2>3
<1>3. CASE FirstPCM(t)
  <2>1. TaskTypes' /\ LockTypes'
    <3>1. CASE CloseSocket(t, op)  BY <1>0, <1>t, <3>1, CloseSocketType DEF LockTypes
    <3>2. CASE ~CloseSocket(t, op)
      BY <1>3, <1>0, <1>t, <3>2, AcquireType DEF FirstPCM, TaskTypes, LockTypes, Pc, Queued, Loose
    <3> QED  BY <3>1, <3>2
  <2>2. CoreTypes'  BY <1>3, <1>0, SameCore DEF FirstPCM
  <2>3. EnvTypes'  BY <1>3, <1>0, SameEnv DEF FirstPCM
  <2> QED  BY <2>1, <2>2, <2>3
<1>4. CASE Attach(t)
  <2>1. TaskTypes' /\ LockTypes'  BY <1>4, <1>0, <1>t, GotoType, CloseSocketType, ReleaseType DEF Attach, LockTypes, Pc, Locked
  <2>2. CoreTypes'  BY <1>4, <1>0, SameCore DEF Attach
  <2>3. EnvTypes'  BY <1>4, <1>0, SameEnv DEF Attach
  <2> QED  BY <2>1, <2>2, <2>3
<1>5. CASE AudioStarted(t)
  <2>1. TaskTypes' /\ LockTypes'
    <3>1. CASE Goto(t, "dial") \/ Goto(t, "attach_leg")
      BY <1>0, <1>t, <3>1, GotoType DEF Pc, Locked
    <3>2. CASE ~(Goto(t, "dial") \/ Goto(t, "attach_leg"))
      BY <1>5, <1>0, <1>t, <3>2, ReleaseType DEF AudioStarted, TaskTypes, LockTypes, Pc, Queued, Loose
    <3> QED  BY <3>1, <3>2
  <2>2. CoreTypes'
    <3>1. flags' \in Flags  BY <1>5, <1>0 DEF AudioStarted, CoreTypes, Flags
    <3> QED  BY <1>5, <1>0, <3>1 DEF AudioStarted, CoreTypes
  <2>3. EnvTypes'  BY <1>5, <1>0 DEF AudioStarted, EnvTypes, envVars
  <2> QED  BY <2>1, <2>2, <2>3
<1>6. CASE AudioStartFails(t)
  <2>1. TaskTypes' /\ LockTypes'  BY <1>6, <1>t, BeginCleanupType DEF AudioStartFails
  <2>2. CoreTypes'  BY <1>6, <1>0, <1>t, BeginCleanupType, Bounds DEF AudioStartFails, CoreTypes
  <2>3. EnvTypes'  BY <1>6, <1>0, FailsType DEF AudioStartFails, EnvTypes, envVars
  <2> QED  BY <2>1, <2>2, <2>3
<1>7. CASE DialFails(t)
  <2>1. TaskTypes' /\ LockTypes'  BY <1>7, <1>t, BeginCleanupType DEF DialFails
  <2>2. CoreTypes'  BY <1>7, <1>0, <1>t, BeginCleanupType, Bounds DEF DialFails, CoreTypes
  <2>3. EnvTypes'  BY <1>7, <1>0, FailsType DEF DialFails, EnvTypes, envVars
  <2> QED  BY <2>1, <2>2, <2>3
<1>8. CASE Dial(t)
  <2>1. TaskTypes' /\ LockTypes'  BY <1>8, <1>0, <1>t, GotoType DEF Dial, Pc, Locked
  <2>2. CoreTypes'
    <3>1. call' \in [Call -> CallRecord]  BY <1>8, <1>0, MovedType DEF Dial, CoreTypes, CallState, LiveState
    <3> QED  BY <1>8, <1>0, <3>1 DEF Dial, CoreTypes
  <2>3. EnvTypes'  BY <1>8, <1>0 DEF Dial, EnvTypes, envVars
  <2> QED  BY <2>1, <2>2, <2>3
<1>9. CASE Connect(t)
  <2>1. TaskTypes' /\ LockTypes'
    <3> DEFINE j == [op |-> "socket", call |-> active, inst |-> call[active].owner]
    <3>1. active \in Call  BY <1>9, <1>0 DEF Connect, Live, CoreTypes, Call
    <3>2. j \in Job  BY <1>0, <3>1 DEF CoreTypes, CallRecord, Job, Call
    <3> QED  BY <1>9, <1>0, <1>t, <3>2 DEF Connect, lockVars, TaskTypes, LockTypes, Pc, Loose
  <2>2. CoreTypes'  BY <1>9, <1>0, SameCore DEF Connect
  <2>3. EnvTypes'  BY <1>9, <1>0, SameEnv DEF Connect
  <2> QED  BY <2>1, <2>2, <2>3
<1>10. CASE StreamEnds(t)
  <2>1. TaskTypes' /\ LockTypes'  BY <1>10, <1>0, <1>t, CloseSocketType DEF StreamEnds, LockTypes
  <2>2. CoreTypes'  BY <1>10, <1>0, SameCore DEF StreamEnds
  <2>3. EnvTypes'  BY <1>10, <1>0, SameEnv DEF StreamEnds
  <2> QED  BY <2>1, <2>2, <2>3
<1> QED  BY <1>1, <1>2, <1>3, <1>4, <1>5, <1>6, <1>7, <1>8, <1>9, <1>10 DEF SocketStep

\* Requests, callbacks, the poller, the timer and the environment keep the types.
LEMMA OutsideType ==
  ASSUME TypeOK,
         (\E t \in Clients : Request(t)) \/ Callback \/ Poll \/ PollRead \/ TimerFires \/ Environment
  PROVE  TypeOK'
<1> USE TypeParts, Bounds
<1>0. CoreTypes /\ EnvTypes /\ TaskTypes /\ LockTypes  OBVIOUS
<1>t. Modem \in Task /\ Poller \in Task /\ Timer \in Task  BY TaskAssumption
<1>1. ASSUME NEW t \in Clients, Request(t) PROVE TypeOK'
  <2>0. t \in Task  BY TaskAssumption
  <2>1. PICK j \in Job :
          \/ EnterHangup(t, j, op)
          \/ /\ job' = [job EXCEPT ![t] = j] /\ pc' = [pc EXCEPT ![t] = "want_op"]
             /\ op' = Acquire(op, t) /\ UNCHANGED hang
    <3>1. PICK i \in Inst \cup {NoInst}, c \in 0..active,
               name \in {"start_outbound", "answer", "dtmf", "client_hangup", "hangup"} :
            LET j == [op |-> name, call |-> c, inst |-> i] IN
            \/ EnterHangup(t, j, op)
            \/ /\ job' = [job EXCEPT ![t] = j] /\ pc' = [pc EXCEPT ![t] = "want_op"]
               /\ op' = Acquire(op, t) /\ UNCHANGED hang
      BY <1>1 DEF Request
    <3>2. c \in 0..MaxCalls  BY <1>0 DEF CoreTypes
    <3>3. [op |-> name, call |-> c, inst |-> i] \in Job  BY <3>2 DEF Job, HangupOp
    <3> QED  BY <3>1, <3>3
  <2>2. TaskTypes' /\ LockTypes'
    <3>1. CASE EnterHangup(t, j, op)  BY <1>0, <2>0, <3>1, EnterHangupType DEF LockTypes
    <3>2. CASE ~EnterHangup(t, j, op)
      BY <1>0, <2>0, <2>1, <3>2, AcquireType DEF TaskTypes, LockTypes, Pc, Queued
    <3> QED  BY <3>1, <3>2
  <2>3. CoreTypes' /\ EnvTypes'  BY <1>0, <1>1, SameCore, SameEnv DEF Request
  <2> QED  BY <2>2, <2>3
<1>2. CASE Callback
  <2>1. TaskTypes' /\ LockTypes'
    <3> DEFINE j == [op |-> "disconnected", call |-> 0, inst |-> NoInst]
               k == [op |-> IF Head(urcs) = "ring" THEN "start_inbound" ELSE "connected",
                     call |-> 0, inst |-> NoInst]
    <3>1. j \in Job /\ k \in Job  BY DEF Job, HangupOp
    <3>2. CASE Head(urcs) = "disconnected"
      BY <1>2, <1>0, <1>t, <3>1, <3>2, EnterHangupType DEF Callback, LockTypes
    <3>3. CASE Head(urcs) # "disconnected"
      <4>1. job' = [job EXCEPT ![Modem] = k] /\ pc' = [pc EXCEPT ![Modem] = "want_op"]
            /\ op' = Acquire(op, Modem) /\ UNCHANGED hang
        BY <1>2, <3>3 DEF Callback
      <4> QED  BY <1>0, <1>t, <3>1, <4>1, AcquireType DEF TaskTypes, LockTypes, Pc, Queued
    <3> QED  BY <3>2, <3>3
  <2>2. CoreTypes'  BY <1>2, <1>0, SameCore DEF Callback
  <2>3. EnvTypes'
    <3>1. Tail(urcs) \in Seq({"ring", "connected", "disconnected"})
      BY <1>2, <1>0 DEF Callback, EnvTypes
    <3> QED  BY <1>2, <1>0, <3>1 DEF Callback, EnvTypes
  <2> QED  BY <2>1, <2>2, <2>3
<1>3. CASE Poll
  <2>1. TaskTypes' /\ LockTypes'
    <3>1. [op |-> "poll", call |-> 0, inst |-> NoInst] \in Job  BY DEF Job
    <3> QED  BY <1>3, <1>0, <1>t, <3>1 DEF Poll, lockVars, TaskTypes, LockTypes, Pc, Loose
  <2>2. CoreTypes'  BY <1>3, <1>0, SameCore DEF Poll
  <2>3. EnvTypes'  BY <1>3, <1>0, SameEnv DEF Poll
  <2> QED  BY <2>1, <2>2, <2>3
<1>4. CASE PollRead
  <2>1. TaskTypes' /\ LockTypes'
    <3>1. [job EXCEPT ![Poller].op = "connected"] \in [Task -> Job]  BY <1>0, <1>t DEF TaskTypes, Job
    <3>2. CASE leg = "up"
      BY <1>4, <1>0, <1>t, <3>1, <3>2, AcquireType DEF PollRead, TaskTypes, LockTypes, Pc, Queued
    <3>3. CASE leg # "up"
      BY <1>4, <1>0, <1>t, <3>3, IdleType DEF PollRead, TaskTypes, LockTypes, Pc, Loose
    <3> QED  BY <3>2, <3>3
  <2>2. CoreTypes'  BY <1>4, <1>0, SameCore DEF PollRead
  <2>3. EnvTypes'  BY <1>4, <1>0, SameEnv DEF PollRead
  <2> QED  BY <2>1, <2>2, <2>3
<1>5. CASE TimerFires
  <2>1. TaskTypes' /\ LockTypes'
    <3>1. [op |-> "timeout", call |-> timer, inst |-> NoInst] \in Job
      BY <1>0 DEF Job, HangupOp, CoreTypes
    <3> QED  BY <1>5, <1>0, <1>t, <3>1, EnterHangupType DEF TimerFires, LockTypes
  <2>2. CoreTypes'  BY <1>5, <1>0, SameCore DEF TimerFires
  <2>3. EnvTypes'  BY <1>5, <1>0, SameEnv DEF TimerFires
  <2> QED  BY <2>1, <2>2, <2>3
<1>6. CASE Expire
  <2>1. TaskTypes' /\ LockTypes'  BY <1>6, <1>0 DEF Expire, lockVars, TaskTypes, LockTypes
  <2>2. CoreTypes'
    <3>1. active \in Call  BY <1>6, <1>0 DEF Expire, Live, CoreTypes, Call
    <3>2. [call[active] EXCEPT !.due = "past"] \in CallRecord  BY <1>0, <3>1 DEF CoreTypes, CallRecord
    <3>3. call' = [call EXCEPT ![active] = [call[active] EXCEPT !.due = "past"]]  BY <1>6 DEF Expire
    <3> QED  BY <1>6, <1>0, <3>2, <3>3 DEF Expire, CoreTypes
  <2>3. EnvTypes'  BY <1>6, <1>0, SameEnv DEF Expire
  <2> QED  BY <2>1, <2>2, <2>3
<1>7. CASE Restart
  <2>1. TaskTypes' /\ LockTypes'  BY <1>7, IdleType DEF Restart, TaskTypes, LockTypes, Pc, Loose, Lock, Unlocked
  <2>2. CoreTypes'
    <3>1. \A r \in CallRecord : Recovered(r) \in CallRecord
      BY EndedType DEF Recovered, CallRecord
    <3>2. call' = [c \in Call |-> IF call[c].state \in LiveState THEN Recovered(call[c]) ELSE call[c]]
      BY <1>7 DEF Restart
    <3>3. call' \in [Call -> CallRecord]  BY <1>0, <3>1, <3>2 DEF CoreTypes
    <3>4. saved' \in [Call -> CallState]  BY <1>7, <1>0 DEF Restart, CoreTypes, CallState, Terminal
    <3> QED  BY <1>7, <1>0, <3>3, <3>4 DEF Restart, CoreTypes, NoFlags, Flags
  <2>3. EnvTypes'
    BY <1>7, <1>0 DEF Restart, EnvTypes
  <2> QED  BY <2>1, <2>2, <2>3
<1>8. CASE RemoteCalls
  <2>1. TaskTypes' /\ LockTypes'  BY <1>8, <1>0 DEF RemoteCalls, lockVars, TaskTypes, LockTypes
  <2>2. CoreTypes'  BY <1>8, <1>0, SameCore DEF RemoteCalls
  <2>3. EnvTypes'  BY <1>8, <1>0 DEF RemoteCalls, Notify, EnvTypes
  <2> QED  BY <2>1, <2>2, <2>3
<1>9. CASE RingsAgain
  <2>1. TaskTypes' /\ LockTypes'  BY <1>9, <1>0 DEF RingsAgain, lockVars, TaskTypes, LockTypes
  <2>2. CoreTypes'  BY <1>9, <1>0, SameCore DEF RingsAgain
  <2>3. EnvTypes'  BY <1>9, <1>0 DEF RingsAgain, Notify, EnvTypes
  <2> QED  BY <2>1, <2>2, <2>3
<1>10. CASE RemoteAnswers
  <2>1. TaskTypes' /\ LockTypes'  BY <1>10, <1>0 DEF RemoteAnswers, lockVars, TaskTypes, LockTypes
  <2>2. CoreTypes'  BY <1>10, <1>0, SameCore DEF RemoteAnswers
  <2>3. EnvTypes'  BY <1>10, <1>0 DEF RemoteAnswers, Notify, EnvTypes
  <2> QED  BY <2>1, <2>2, <2>3
<1>11. CASE RemoteHangsUp
  <2>1. TaskTypes' /\ LockTypes'  BY <1>11, <1>0 DEF RemoteHangsUp, lockVars, TaskTypes, LockTypes
  <2>2. CoreTypes'  BY <1>11, <1>0, SameCore DEF RemoteHangsUp
  <2>3. EnvTypes'  BY <1>11, <1>0 DEF RemoteHangsUp, Notify, EnvTypes
  <2> QED  BY <2>1, <2>2, <2>3
<1>12. CASE OtherIndicator
  <2>1. TaskTypes' /\ LockTypes'  BY <1>12, <1>0 DEF OtherIndicator, lockVars, TaskTypes, LockTypes
  <2>2. CoreTypes'  BY <1>12, <1>0, SameCore DEF OtherIndicator
  <2>3. EnvTypes'  BY <1>12, <1>0 DEF OtherIndicator, Notify, EnvTypes
  <2> QED  BY <2>1, <2>2, <2>3
<1> QED  BY <1>1, <1>2, <1>3, <1>4, <1>5, <1>6, <1>7, <1>8, <1>9, <1>10, <1>11, <1>12 DEF Environment

\* The initial states are well typed.
LEMMA InitType == Init => TypeOK
<1>1. Init => CoreTypes
  BY Bounds DEF Init, CoreTypes, NoCall, CallRecord, CallState, LiveState, Terminal, NoFlags, Flags
<1>2. Init => EnvTypes  BY Bounds DEF Init, EnvTypes
<1>3. Init => TaskTypes /\ LockTypes
  BY IdleType DEF Init, TaskTypes, LockTypes, Lock, Unlocked, Pc, Loose
<1> QED  BY <1>1, <1>2, <1>3, TypeParts

\* The type invariant: every variable of the controller, its tasks and its locks
\* stays in its type whatever the number of tasks, devices and calls.
THEOREM TypeCorrect == Spec => []TypeOK
<1>1. Init => TypeOK  BY InitType
<1>2. TypeOK /\ [Next]_vars => TypeOK'
  <2> SUFFICES ASSUME TypeOK, [Next]_vars PROVE TypeOK'  OBVIOUS
  <2>1. CASE UNCHANGED vars  BY <2>1 DEF vars, TypeOK
  <2>2. CASE Next  BY <2>2, OperationType, SocketType, OutsideType DEF Next
  <2> QED  BY <2>1, <2>2
<1> QED  BY <1>1, <1>2, PTL DEF Spec

-----------------------------------------------------------------------------
(* The inductive invariant                                                 *)

TaskInv(t) == HoldsLock(t) /\ KnowsCall(t)
CallInv == OneLiveCall /\ ActiveExists /\ MediaAgrees

\* The invariant task by task, unprimed and primed.
LEMMA InvParts ==
  /\ IInv <=> TypeOK /\ CallInv /\ \A t \in Task : TaskInv(t)
  /\ IInv' <=> TypeOK' /\ CallInv' /\ \A t \in Task : TaskInv(t)'
BY DEF IInv, CallInv, TaskInv

\* Apart from t, tasks stay where they are; the timer may be stopped.
Moves(t) == \A u \in Task \ {t} : (pc'[u] = pc[u] /\ job'[u] = job[u]) \/ pc'[u] = "idle"

\* What Goto does to pc, job and the locks.
LEMMA GotoMoves ==
  ASSUME TypeOK, NEW t \in Task, NEW p, Goto(t, p)
  PROVE  Moves(t) /\ pc'[t] = p /\ job'[t] = job[t] /\ op' = op
BY DEF TypeOK, Goto, Moves

\* What Return does: t is idle and has released the operation lock.
LEMMA ReturnMoves ==
  ASSUME TypeOK, NEW t \in Task, Return(t)
  PROVE  Moves(t) /\ pc'[t] = "idle"
BY DEF TypeOK, Return, Moves

\* What EnterHangup does: t waits for one of the two locks.
LEMMA EnterHangupMoves ==
  ASSUME TypeOK, NEW t \in Task, NEW j, NEW L, EnterHangup(t, j, L)
  PROVE  /\ Moves(t) /\ pc'[t] \in {"want_hangup", "hangup_op"} /\ job'[t] = j
         /\ op' = L \/ op' = Acquire(L, t)
BY DEF TypeOK, EnterHangup, Moves

\* What CloseSocket does: t is idle or in hangup().
LEMMA CloseSocketMoves ==
  ASSUME TypeOK, NEW s \in Task, NEW L, CloseSocket(s, L)
  PROVE  /\ Moves(s)
         /\ pc'[s] = "idle" \/ (pc'[s] \in {"want_hangup", "hangup_op"} /\ job'[s].op \in HangupOp)
         /\ op' = L \/ op' = Acquire(L, s)
<1>1. CASE Live /\ active = job[s].call
  BY <1>1, EnterHangupMoves DEF CloseSocket, HangupOp
<1>2. CASE ~(Live /\ active = job[s].call)
  BY <1>2 DEF CloseSocket, TypeOK, Moves
<1> QED  BY <1>1, <1>2

\* What BeginCleanup does to the tasks: t goes on, the timer is stopped.
LEMMA BeginCleanupMoves ==
  ASSUME TypeOK, NEW t \in Task, op.holder = t, BeginCleanup(t)
  PROVE  Moves(t) /\ pc'[t] \in Cleaning /\ job'[t] = job[t] /\ op'.holder = t
<1>1. op'.holder = t
  <2>1. CASE t = Timer  BY <2>1 DEF BeginCleanup, TimerGone
  <2>2. CASE t # Timer
    <3>1. op' = Withdraw(op, Timer)  BY <2>2 DEF BeginCleanup, TimerGone
    <3> QED  BY <2>2, <3>1, WithdrawHolder, TaskAssumption DEF TypeOK
  <2> QED  BY <2>1, <2>2
<1>2. /\ pc' = [Stopped(pc, t, "idle") EXCEPT ![t] =
                  IF flags.attached THEN "stop_audio"
                  ELSE IF flags.started THEN "stop_leg" ELSE "cleaned"]
      /\ job' = Stopped(job, t, Idle)
  BY DEF BeginCleanup
<1>3. CASE t = Timer
  BY <1>1, <1>2, <1>3 DEF Stopped, TypeOK, Moves, Cleaning
<1>4. CASE t # Timer
  BY <1>1, <1>2, <1>4 DEF Stopped, TypeOK, Moves, Cleaning
<1> QED  BY <1>3, <1>4

\* A task that holds the operation lock is the only one inside an operation, so
\* its step can only disturb what it relies on itself.
LEMMA HolderAlone ==
  ASSUME TypeOK, \A u \in Task : TaskInv(u), NEW t \in Task, op.holder = t,
         Moves(t), TaskInv(t)'
  PROVE  \A u \in Task : TaskInv(u)'
<1> SUFFICES ASSUME NEW u \in Task, u # t PROVE TaskInv(u)'  OBVIOUS
<1>1. pc[u] \notin Locked  BY DEF TaskInv, HoldsLock
<1>2. pc'[u] \notin Locked  BY <1>1 DEF Moves, Locked
<1>3. pc'[u] \in {"want_hangup", "hangup_op"} => job'[u].op \in HangupOp
  BY DEF Moves, TaskInv, KnowsCall
<1> QED  BY <1>2, <1>3 DEF TaskInv, HoldsLock, KnowsCall, Locked, Cleaning

\* A task that does not take the lock from its holder and leaves the call alone
\* disturbs nobody.
LEMMA Bystander ==
  ASSUME TypeOK, \A u \in Task : TaskInv(u), NEW t \in Task,
         Moves(t), UNCHANGED <<active, call, flags>>,
         op.holder \in Task \ {t} => op'.holder = op.holder,
         TaskInv(t)'
  PROVE  \A u \in Task : TaskInv(u)'
<1> SUFFICES ASSUME NEW u \in Task, u # t PROVE TaskInv(u)'  OBVIOUS
<1>1. CASE pc'[u] = "idle"
  BY <1>1 DEF TaskInv, HoldsLock, KnowsCall, Locked, Cleaning
<1>2. CASE pc'[u] = pc[u] /\ job'[u] = job[u]
  <2>1. HoldsLock(u)'
    BY <1>2 DEF TaskInv, HoldsLock, Live
  <2>2. KnowsCall(u)'
    BY <1>2 DEF TaskInv, KnowsCall, Dir, Waiting
  <2> QED  BY <2>1, <2>2 DEF TaskInv
<1> QED  BY <1>1, <1>2 DEF Moves

\* A task outside every operation relies on nothing, unless it waits to hang up.
LEMMA Outside ==
  ASSUME NEW t \in Task,
         pc'[t] \in Queued \cup Loose,
         pc'[t] \in {"want_hangup", "hangup_op"} => job'[t].op \in HangupOp
  PROVE  TaskInv(t)'
BY DEF TaskInv, HoldsLock, KnowsCall, Locked, Queued, Loose, Cleaning

\* Steps that leave the call alone keep what is said of it.
LEMMA CallInvSame ==
  ASSUME CallInv, UNCHANGED <<active, call, flags>>
  PROVE  CallInv'
BY DEF CallInv, OneLiveCall, ActiveExists, MediaAgrees, Live, Dir, Waiting

\* Which fields a transition changes.
LEMMA MovedEffect ==
  ASSUME TypeOK, Live, NEW s, NEW r, call' = Moved(s, r)
  PROVE  /\ active \in Call
         /\ \A c \in Call \ {active} : call'[c] = call[c]
         /\ call'[active].state = s
         /\ call'[active].dir = call[active].dir
         /\ call'[active].front = call[active].front
         /\ call'[active].owner = call[active].owner
<1>1. active \in Call  BY DEF TypeOK, Live, Call
<1>2. call[active] \in CallRecord  BY <1>1 DEF TypeOK
<1>3. call' = [call EXCEPT ![active] = InState(call[active], s, r)]  BY DEF Moved
<1>4. call'[active] = InState(call[active], s, r) /\ \A c \in Call \ {active} : call'[c] = call[c]
  BY <1>1, <1>3 DEF TypeOK
<1>5. /\ InState(call[active], s, r).state = s
      /\ InState(call[active], s, r).dir = call[active].dir
      /\ InState(call[active], s, r).front = call[active].front
      /\ InState(call[active], s, r).owner = call[active].owner
  BY <1>2 DEF InState, CallRecord
<1> QED  BY <1>1, <1>4, <1>5

\* Cleanup and expiry change no field the invariant speaks of.
SameCalls ==
  \A c \in Call : /\ call'[c].state = call[c].state /\ call'[c].owner = call[c].owner
                  /\ call'[c].dir = call[c].dir /\ call'[c].front = call[c].front

\* What BeginCleanup does to the calls: the live one keeps everything but its end event.
LEMMA CleanupEffect ==
  ASSUME TypeOK, NEW t \in Task, BeginCleanup(t)
  PROVE  SameCalls
<1>1. call' = [call EXCEPT ![active] = [call[active] EXCEPT !.over = TRUE]]  BY DEF BeginCleanup
<1>2. \A c \in Call : call[c] \in CallRecord  BY DEF TypeOK
<1>3. \A c \in CallRecord :
        /\ [c EXCEPT !.over = TRUE].state = c.state /\ [c EXCEPT !.over = TRUE].owner = c.owner
        /\ [c EXCEPT !.over = TRUE].dir = c.dir /\ [c EXCEPT !.over = TRUE].front = c.front
  BY DEF CallRecord
<1> SUFFICES ASSUME NEW c \in Call
             PROVE /\ call'[c].state = call[c].state /\ call'[c].owner = call[c].owner
                   /\ call'[c].dir = call[c].dir /\ call'[c].front = call[c].front
  BY DEF SameCalls
<1>4. CASE c = active  BY <1>1, <1>2, <1>3, <1>4 DEF TypeOK
<1>5. CASE c # active  BY <1>1, <1>5 DEF TypeOK
<1> QED  BY <1>4, <1>5

\* What Expire does to the calls: only a deadline passes.
LEMMA ExpireEffect ==
  ASSUME TypeOK, Expire
  PROVE  SameCalls
<1>1. call' = [call EXCEPT ![active] = [call[active] EXCEPT !.due = "past"]]  BY DEF Expire
<1>2. \A c \in Call : call[c] \in CallRecord  BY DEF TypeOK
<1>3. \A c \in CallRecord :
        /\ [c EXCEPT !.due = "past"].state = c.state /\ [c EXCEPT !.due = "past"].owner = c.owner
        /\ [c EXCEPT !.due = "past"].dir = c.dir /\ [c EXCEPT !.due = "past"].front = c.front
  BY DEF CallRecord
<1> SUFFICES ASSUME NEW c \in Call
             PROVE /\ call'[c].state = call[c].state /\ call'[c].owner = call[c].owner
                   /\ call'[c].dir = call[c].dir /\ call'[c].front = call[c].front
  BY DEF SameCalls
<1>4. CASE c = active  BY <1>1, <1>2, <1>3, <1>4 DEF TypeOK
<1>5. CASE c # active  BY <1>1, <1>5 DEF TypeOK
<1> QED  BY <1>4, <1>5

\* The conjuncts about calls read only these fields.
LEMMA CallInvSameFields ==
  ASSUME TypeOK, CallInv, SameCalls, UNCHANGED <<active, flags>>
  PROVE  CallInv' /\ (Live' <=> Live)
<1>1. active = 0 \/ active \in Call  BY DEF TypeOK, Call
<1>2. Live' <=> Live  BY <1>1 DEF Live, SameCalls
<1>3. OneLiveCall'  BY DEF CallInv, OneLiveCall, SameCalls
<1>4. ActiveExists'  BY <1>1 DEF CallInv, ActiveExists, SameCalls
<1>5. MediaAgrees'
  <2> SUFFICES ASSUME Live' PROVE MediaAgrees'  BY DEF MediaAgrees
  <2>1. active \in Call /\ Live  BY <1>1, <1>2 DEF Live
  <2> QED  BY <2>1 DEF CallInv, MediaAgrees, SameCalls, Dir, Waiting
<1> QED  BY <1>2, <1>3, <1>4, <1>5 DEF CallInv

\* Every path into cleanup keeps the invariant: the call is live, and an outbound
\* call that cleanup does not end for a hang-up has not been connected.
LEMMA CleanupInv ==
  ASSUME TypeOK, CallInv, \A u \in Task : TaskInv(u), NEW t \in Task,
         op.holder = t, Live, BeginCleanup(t), UNCHANGED <<active, flags>>,
         job[t].op \notin HangupOp => (Dir("outbound") => Waiting)
  PROVE  CallInv' /\ \A u \in Task : TaskInv(u)'
<1>1. Moves(t) /\ pc'[t] \in Cleaning /\ job'[t] = job[t] /\ op'.holder = t
  BY BeginCleanupMoves
<1>2. SameCalls  BY CleanupEffect
<1>3. CallInv' /\ Live'  BY <1>2, CallInvSameFields
<1>4. active \in Call  BY DEF TypeOK, Live, Call
<1>5. Dir("outbound")' <=> Dir("outbound")  BY <1>2, <1>4 DEF Dir, SameCalls
<1>6. Waiting' <=> Waiting  BY <1>2, <1>4 DEF Waiting, SameCalls
<1>7. TaskInv(t)'
  BY <1>1, <1>3, <1>5, <1>6 DEF TaskInv, HoldsLock, KnowsCall, Cleaning, Live
<1> QED  BY <1>1, <1>3, <1>7, HolderAlone

\* Every step of an operation keeps the invariant.
LEMMA OperationInv ==
  ASSUME IInv, NEW t \in Task, Operation(t)
  PROVE  CallInv' /\ \A u \in Task : TaskInv(u)'
<1> USE TypeParts, Bounds
<1>0. TypeOK /\ CallInv /\ (\A u \in Task : TaskInv(u)) /\ TaskInv(t)  BY InvParts
<1>a. active # 0 => active \in Call  BY <1>0 DEF TypeOK, Call
<1>1. CASE StartRefused(t)
  <2>1. op.holder = t  BY <1>1 DEF StartRefused, Enter
  <2>2. Moves(t)  BY <1>1, <1>0, ReturnMoves DEF StartRefused
  <2>3. TaskInv(t)'  BY <1>1, <1>0, ReturnMoves, Outside DEF StartRefused, Loose
  <2>4. CallInv'  BY <1>1, <1>0, CallInvSame DEF StartRefused, coreVars
  <2> QED  BY <1>0, <2>1, <2>2, <2>3, <2>4, HolderAlone
<1>2. CASE Start(t)
  <2> DEFINE in == job[t].op = "start_inbound"
             r == [dir |-> IF in THEN "inbound" ELSE "outbound",
                   front |-> IF in THEN Frontend ELSE IF job[t].inst = NoInst THEN "web" ELSE "app",
                   state |-> IF in THEN "ringing_cellular" ELSE "waiting_client",
                   owner |-> job[t].inst, due |-> "ahead", why |-> "none", over |-> FALSE]
  <2>1. op.holder = t /\ ~Live /\ Goto(t, "start_record") /\ active' = active + 1
    BY <1>2 DEF Start, Enter
  <2>2. Moves(t) /\ pc'[t] = "start_record" /\ op' = op  BY <1>0, <2>1, GotoMoves
  <2>3. active' \in Call /\ active' # 0  BY <1>2, <1>0 DEF Start, TypeOK, Call
  <2>4. call' = [call EXCEPT ![active'] = r]  BY <1>2, <2>1 DEF Start
  <2>5. call'[active'] = r /\ \A c \in Call \ {active'} : call'[c] = call[c]
    BY <1>0, <2>3, <2>4 DEF TypeOK
  <2>6. flags'.attached = FALSE  BY <1>2 DEF Start, NoFlags
  <2>7. /\ r.state = IF in THEN "ringing_cellular" ELSE "waiting_client"
        /\ r.dir = IF in THEN "inbound" ELSE "outbound"
    OBVIOUS
  <2> HIDE DEF r
  <2>8. Live'  BY <2>3, <2>5, <2>7 DEF Live, Terminal
  <2>9. TaskInv(t)'  BY <2>1, <2>2, <2>3, <2>8 DEF TaskInv, HoldsLock, KnowsCall, Cleaning
  <2>10. OneLiveCall'
    <3> SUFFICES ASSUME NEW c \in Call, call'[c].state \in LiveState PROVE c = active'
      BY DEF OneLiveCall
    <3>1. CASE c # active'
      <4>1. c = active  BY <1>0, <2>5, <3>1 DEF CallInv, OneLiveCall
      <4>2. call[c].state \in Terminal  BY <2>1, <4>1, Bounds DEF Live
      <4> QED  BY <2>5, <3>1, <4>2 DEF LiveState, Terminal
    <3> QED  BY <3>1
  <2>11. ActiveExists' /\ MediaAgrees'
    BY <2>5, <2>6, <2>7 DEF ActiveExists, MediaAgrees, Dir, Waiting
  <2>12. CallInv'  BY <2>10, <2>11 DEF CallInv
  <2> QED  BY <1>0, <2>1, <2>2, <2>9, <2>12, HolderAlone
<1>3. CASE RingAgain(t)
  <2>1. op.holder = t  BY <1>3 DEF RingAgain, Enter
  <2>2. Moves(t)  BY <1>3, <1>0, GotoMoves DEF RingAgain
  <2>3. TaskInv(t)'
    <3>1. pc'[t] = "connect_record" /\ op' = op  BY <1>3, <1>0, GotoMoves DEF RingAgain
    <3>2. Live' /\ active' # 0  BY <1>3 DEF RingAgain, Live, coreVars
    <3> QED  BY <2>1, <3>1, <3>2 DEF TaskInv, HoldsLock, KnowsCall, Cleaning
  <2>4. CallInv'  BY <1>3, <1>0, CallInvSame DEF RingAgain, coreVars
  <2> QED  BY <1>0, <2>1, <2>2, <2>3, <2>4, HolderAlone
<1>4. CASE StartRecord(t)
  <2>1. op.holder = t  BY <1>4, <1>0 DEF StartRecord, TaskInv, HoldsLock, Locked
  <2>2. Moves(t)  BY <1>4, <1>0, ReturnMoves DEF StartRecord, TypeOK, Moves
  <2>3. TaskInv(t)'  BY <1>4, <1>0, ReturnMoves, Outside DEF StartRecord, TypeOK, Loose
  <2>4. CallInv'  BY <1>4, <1>0, CallInvSame DEF StartRecord, coreVars
  <2> QED  BY <1>0, <2>1, <2>2, <2>3, <2>4, HolderAlone
<1>5. CASE ClaimRecord(t)
  <2>1. op.holder = t  BY <1>5, <1>0 DEF ClaimRecord, TaskInv, HoldsLock, Locked
  <2>2. Moves(t)  BY <1>5, <1>0, ReturnMoves DEF ClaimRecord, TypeOK, Moves
  <2>3. TaskInv(t)'  BY <1>5, <1>0, ReturnMoves, Outside DEF ClaimRecord, TypeOK, Loose
  <2>4. CallInv'  BY <1>5, <1>0, CallInvSame DEF ClaimRecord, coreVars
  <2> QED  BY <1>0, <2>1, <2>2, <2>3, <2>4, HolderAlone
<1>6. CASE StartRecordFails(t)
  <2>1. op.holder = t  BY <1>6, <1>0 DEF StartRecordFails, TaskInv, HoldsLock, Locked
  <2>2. Moves(t)  BY <1>6, <1>0, ReturnMoves DEF StartRecordFails
  <2>3. TaskInv(t)'  BY <1>6, <1>0, ReturnMoves, Outside DEF StartRecordFails, Loose
  <2>4. CallInv'  BY <1>6, <1>0, CallInvSame DEF StartRecordFails, coreVars
  <2> QED  BY <1>0, <2>1, <2>2, <2>3, <2>4, HolderAlone
<1>7. CASE Claim(t)
  <2> DEFINE r == [InState(call[active], "waiting_client", "none")
                     EXCEPT !.owner = job[t].inst, !.due = "ahead"]
  <2>1. op.holder = t /\ Live /\ Goto(t, "answer_record") /\ job[t].inst # NoInst
    BY <1>7 DEF Claim, Enter, ValidCall
  <2>2. Moves(t) /\ pc'[t] = "answer_record" /\ op' = op  BY <1>0, <2>1, GotoMoves
  <2>3. active \in Call /\ call[active] \in CallRecord  BY <1>0, <1>a, <2>1 DEF Live, TypeOK
  <2>4. call' = [call EXCEPT ![active] = r] /\ UNCHANGED <<active, flags>>  BY <1>7 DEF Claim
  <2>5. call'[active] = r /\ \A c \in Call \ {active} : call'[c] = call[c]
    BY <1>0, <2>3, <2>4 DEF TypeOK
  <2>6. /\ r.state = "waiting_client" /\ r.owner = job[t].inst
        /\ r.dir = call[active].dir
    <3>1. InState(call[active], "waiting_client", "none") \in CallRecord
      BY <2>3, InStateType DEF CallState, LiveState
    <3>2. /\ InState(call[active], "waiting_client", "none").state = "waiting_client"
          /\ InState(call[active], "waiting_client", "none").dir = call[active].dir
      BY <2>3 DEF InState, CallRecord
    <3> QED  BY <3>1, <3>2 DEF CallRecord
  <2> HIDE DEF r
  <2>7. Live'  BY <2>1, <2>4, <2>5, <2>6 DEF Live, Terminal
  <2>8. TaskInv(t)'  BY <2>1, <2>2, <2>4, <2>7 DEF TaskInv, HoldsLock, KnowsCall, Cleaning, Live
  <2>9. OneLiveCall'  BY <1>0, <2>4, <2>5 DEF CallInv, OneLiveCall
  <2>10. ActiveExists' /\ MediaAgrees'
    BY <2>1, <2>4, <2>5, <2>6 DEF ActiveExists, MediaAgrees, Dir, Waiting
  <2>11. CallInv'  BY <2>9, <2>10 DEF CallInv
  <2> QED  BY <1>0, <2>1, <2>2, <2>8, <2>11, HolderAlone
<1>8. CASE AnswerRefused(t)
  <2>1. op.holder = t  BY <1>8 DEF AnswerRefused, Enter
  <2>2. Moves(t)  BY <1>8, <1>0, ReturnMoves DEF AnswerRefused
  <2>3. TaskInv(t)'  BY <1>8, <1>0, ReturnMoves, Outside DEF AnswerRefused, Loose
  <2>4. CallInv'  BY <1>8, <1>0, CallInvSame DEF AnswerRefused, coreVars
  <2> QED  BY <1>0, <2>1, <2>2, <2>3, <2>4, HolderAlone
<1>9. CASE AnswerWeb(t)
  <2>1. op.holder = t  BY <1>9 DEF AnswerWeb, Enter
  <2>2. Moves(t)  BY <1>9, <1>0, GotoMoves DEF AnswerWeb
  <2>3. TaskInv(t)'
    <3>1. pc'[t] = "answer_leg" /\ op' = op  BY <1>9, <1>0, GotoMoves DEF AnswerWeb
    <3>2. Live' /\ active' # 0  BY <1>9 DEF AnswerWeb, ValidCall, Live, coreVars
    <3>3. Dir("inbound")' /\ call'[active'].front = "web"  BY <1>9 DEF AnswerWeb, Dir, coreVars
    <3> QED  BY <2>1, <3>1, <3>2, <3>3 DEF TaskInv, HoldsLock, KnowsCall, Cleaning
  <2>4. CallInv'  BY <1>9, <1>0, CallInvSame DEF AnswerWeb, coreVars
  <2> QED  BY <1>0, <2>1, <2>2, <2>3, <2>4, HolderAlone
<1>10. CASE Dtmf(t)
  <2>1. op.holder = t  BY <1>10 DEF Dtmf, Enter
  <2>2. Moves(t)  BY <1>10, <1>0, GotoMoves, ReturnMoves DEF Dtmf
  <2>3. TaskInv(t)'
    <3>1. CASE Return(t)  BY <1>0, <3>1, ReturnMoves, Outside DEF Loose
    <3>2. CASE ~Return(t)
      <4>1. pc'[t] = "dtmf_sent" /\ op' = op /\ job'[t] = job[t]  BY <1>10, <1>0, <3>2, GotoMoves DEF Dtmf
      <4>2. /\ active = job[t].call /\ call[active].owner = job[t].inst
            /\ call[active].state = "active" /\ flags.attached /\ Live
        BY <1>10, <3>2 DEF Dtmf, OwnedBy, ValidCall
      <4>3. UNCHANGED <<active, call, flags>>  BY <1>10 DEF Dtmf, coreVars
      <4> QED  BY <2>1, <4>1, <4>2, <4>3 DEF TaskInv, HoldsLock, KnowsCall, Cleaning, Live
    <3> QED  BY <3>1, <3>2
  <2>4. CallInv'  BY <1>10, <1>0, CallInvSame DEF Dtmf, coreVars
  <2> QED  BY <1>0, <2>1, <2>2, <2>3, <2>4, HolderAlone
<1>11. CASE DtmfDone(t)
  <2>1. op.holder = t  BY <1>11, <1>0 DEF DtmfDone, TaskInv, HoldsLock, Locked
  <2>2. Moves(t)  BY <1>11, <1>0, ReturnMoves DEF DtmfDone
  <2>3. TaskInv(t)'  BY <1>11, <1>0, ReturnMoves, Outside DEF DtmfDone, Loose
  <2>4. CallInv'  BY <1>11, <1>0, CallInvSame DEF DtmfDone, coreVars
  <2> QED  BY <1>0, <2>1, <2>2, <2>3, <2>4, HolderAlone
<1>12. CASE StopAudio(t)
  <2>1. op.holder = t  BY <1>12, <1>0 DEF StopAudio, TaskInv, HoldsLock, Locked
  <2>2. Moves(t)  BY <1>12, <1>0, GotoMoves DEF StopAudio
  <2>3. TaskInv(t)'
    <3>1. pc'[t] \in Cleaning /\ op' = op /\ job'[t] = job[t] /\ pc[t] \in Cleaning
      BY <1>12, <1>0, GotoMoves DEF StopAudio, Cleaning
    <3>2. UNCHANGED <<active, call, flags>>  BY <1>12 DEF StopAudio, coreVars
    <3> QED  BY <1>0, <2>1, <3>1, <3>2 DEF TaskInv, HoldsLock, KnowsCall, Cleaning, Locked, Live, Dir, Waiting
  <2>4. CallInv'  BY <1>12, <1>0, CallInvSame DEF StopAudio, coreVars
  <2> QED  BY <1>0, <2>1, <2>2, <2>3, <2>4, HolderAlone
<1>13. CASE StopLeg(t)
  <2>1. op.holder = t  BY <1>13, <1>0 DEF StopLeg, TaskInv, HoldsLock, Locked
  <2>2. Moves(t)  BY <1>13, <1>0, GotoMoves DEF StopLeg
  <2>3. TaskInv(t)'
    <3>1. pc'[t] \in Cleaning /\ op' = op /\ job'[t] = job[t] /\ pc[t] \in Cleaning
      BY <1>13, <1>0, GotoMoves DEF StopLeg, Cleaning
    <3>2. UNCHANGED <<active, call, flags>>  BY <1>13 DEF StopLeg, coreVars
    <3> QED  BY <1>0, <2>1, <3>1, <3>2 DEF TaskInv, HoldsLock, KnowsCall, Cleaning, Locked, Live, Dir, Waiting
  <2>4. CallInv'  BY <1>13, <1>0, CallInvSame DEF StopLeg, coreVars
  <2> QED  BY <1>0, <2>1, <2>2, <2>3, <2>4, HolderAlone
<1>14. CASE Conclude(t)
  <2>1. op.holder = t /\ Live  BY <1>14, <1>0 DEF Conclude, TaskInv, HoldsLock, Locked
  <2>2. pc[t] \in Cleaning /\ flags' = NoFlags /\ UNCHANGED active  BY <1>14 DEF Conclude, Cleaning
  <2>3. ASSUME NEW r, call' = Moved("ended", r) \/ call' = Moved("failed", r), Goto(t, "end_record")
        PROVE  CallInv' /\ \A u \in Task : TaskInv(u)'
    <3>1. Moves(t) /\ pc'[t] = "end_record" /\ op' = op  BY <1>0, <2>3, GotoMoves
    <3>2. PICK s \in Terminal : call' = Moved(s, r)  BY <2>3 DEF Terminal
    <3>3. /\ active \in Call /\ call'[active].state \in Terminal
          /\ \A c \in Call \ {active} : call'[c] = call[c]
      BY <1>0, <2>1, <3>2, MovedEffect
    <3>4. CallInv'
      BY <1>0, <2>2, <3>3 DEF CallInv, OneLiveCall, ActiveExists, MediaAgrees, Live, Terminal, LiveState
    <3>5. TaskInv(t)'
      BY <2>1, <2>2, <3>1 DEF TaskInv, HoldsLock, KnowsCall, Cleaning, Live
    <3> QED  BY <1>0, <2>1, <3>1, <3>4, <3>5, HolderAlone
  <2>4. CASE /\ job[t].op \notin HangupOp /\ call[active].front = "app" /\ UNCHANGED call
             /\ IF t \in Sockets THEN CloseSocket(t, Release(op)) ELSE Return(t)
    <3>1. CallInv'
      <4>1. Dir("outbound") => Waiting  BY <1>0, <2>2, <2>4 DEF TaskInv, KnowsCall
      <4>2. flags'.attached = FALSE  BY <2>2 DEF NoFlags
      <4> QED  BY <1>0, <2>2, <2>4, <4>1, <4>2
               DEF CallInv, OneLiveCall, ActiveExists, MediaAgrees, Live, Dir, Waiting
    <3>2. Moves(t) /\ TaskInv(t)'
      <4>1. CASE t \in Sockets
        BY <1>0, <2>4, <4>1, CloseSocketMoves, Outside DEF Queued, Loose
      <4>2. CASE t \notin Sockets
        BY <1>0, <2>4, <4>2, ReturnMoves, Outside DEF Loose
      <4> QED  BY <4>1, <4>2
    <3> QED  BY <1>0, <2>1, <3>1, <3>2, HolderAlone
  <2> QED  BY <1>14, <2>3, <2>4 DEF Conclude
<1>15. CASE EndRecord(t)
  <2>1. op.holder = t  BY <1>15, <1>0 DEF EndRecord, TaskInv, HoldsLock, Locked
  <2>2. Moves(t)
    <3>1. CASE job[t].op \in HangupOp  BY <1>15, <1>0, <3>1 DEF EndRecord, TypeOK, Moves
    <3>2. CASE job[t].op \notin HangupOp  BY <1>15, <1>0, <3>2, CloseSocketMoves, ReturnMoves DEF EndRecord
    <3> QED  BY <3>1, <3>2
  <2>3. TaskInv(t)'
    <3>1. CASE job[t].op \in HangupOp  BY <1>15, <1>0, <3>1, Outside DEF EndRecord, TypeOK, Loose
    <3>2. CASE job[t].op \notin HangupOp
      BY <1>15, <1>0, <3>2, CloseSocketMoves, ReturnMoves, Outside DEF EndRecord, Loose, Queued
    <3> QED  BY <3>1, <3>2
  <2>4. CallInv'  BY <1>15, <1>0, CallInvSame DEF EndRecord, coreVars
  <2> QED  BY <1>0, <2>1, <2>2, <2>3, <2>4, HolderAlone
<1>16. CASE HangupNext(t)
  <2>1. pc' = [pc EXCEPT ![t] = "hangup_op"] /\ job' = job /\ op' = Acquire(op, t)
        /\ UNCHANGED <<active, call, flags>> /\ pc[t] = "want_hangup"
    BY <1>16 DEF HangupNext, coreVars
  <2>2. Moves(t) /\ pc'[t] = "hangup_op" /\ job'[t].op \in HangupOp
    BY <1>0, <2>1 DEF TypeOK, Moves, TaskInv, KnowsCall
  <2>3. op.holder \in Task \ {t} => op'.holder = op.holder
    BY <1>0, <2>1, AcquireHolder, NoTaskAssumption DEF TypeOK
  <2>4. TaskInv(t)'  BY <2>2, Outside DEF Queued
  <2> QED  BY <1>0, <2>1, <2>2, <2>3, <2>4, Bystander, CallInvSame
<1>17. CASE Hangup(t)
  <2>1. op.holder = t /\ Live /\ BeginCleanup(t) /\ UNCHANGED <<active, flags>>
    BY <1>17 DEF Hangup, MayHangup
  <2>2. job[t].op \in HangupOp  BY <1>17, <1>0 DEF Hangup, TaskInv, KnowsCall
  <2> QED  BY <1>0, <2>1, <2>2, CleanupInv
<1>18. CASE HangupRefused(t)
  <2>1. op.holder = t  BY <1>18 DEF HangupRefused
  <2>2. Moves(t)  BY <1>18, <1>0 DEF HangupRefused, TypeOK, Moves
  <2>3. TaskInv(t)'  BY <1>18, <1>0, Outside DEF HangupRefused, TypeOK, Loose
  <2>4. CallInv'  BY <1>18, <1>0, CallInvSame DEF HangupRefused
  <2> QED  BY <1>0, <2>1, <2>2, <2>3, <2>4, HolderAlone
<1>19. CASE Answered(t)
  <2>1. op.holder = t /\ Live /\ Dir("inbound")
    BY <1>19, <1>0 DEF Answered, TaskInv, HoldsLock, KnowsCall, Locked
  <2>2. Moves(t) /\ pc'[t] \in {"attach_record", "active_record"}
    BY <1>19, <1>0 DEF Answered, Stopped, TypeOK, Moves
  <2>3. op'.holder = t
    BY <1>19, <1>0, <2>1, WithdrawHolder, TaskAssumption DEF Answered, TimerGone, TypeOK
  <2>4. call' = Moved("active", "none") /\ UNCHANGED <<active, flags>>  BY <1>19 DEF Answered
  <2>5. /\ active \in Call /\ call'[active].state = "active"
        /\ call'[active].dir = call[active].dir
        /\ call'[active].front = call[active].front
        /\ call'[active].owner = call[active].owner
        /\ \A c \in Call \ {active} : call'[c] = call[c]
    BY <1>0, <2>1, <2>4, MovedEffect
  <2>6. call[active].front = "app" => call[active].owner # NoInst
    BY <1>19, <1>0, <2>1 DEF Answered, TaskInv, KnowsCall, CallInv, MediaAgrees
  <2>7. CallInv'
    BY <1>0, <2>1, <2>4, <2>5, <2>6 DEF CallInv, OneLiveCall, ActiveExists, MediaAgrees, Live, Dir, Terminal
  <2>8. Live' /\ Dir("inbound")' /\ active' # 0  BY <2>1, <2>4, <2>5 DEF Live, Dir, Terminal
  <2>9. TaskInv(t)'
    BY <2>2, <2>3, <2>8 DEF TaskInv, HoldsLock, KnowsCall, Cleaning, Dir
  <2> QED  BY <1>0, <2>1, <2>2, <2>7, <2>9, HolderAlone
<1>20. CASE AnswerLegFails(t)
  <2>1. op.holder = t /\ Live /\ Dir("inbound")
    BY <1>20, <1>0 DEF AnswerLegFails, TaskInv, HoldsLock, KnowsCall, Locked
  <2>2. BeginCleanup(t) /\ UNCHANGED <<active, flags>>  BY <1>20 DEF AnswerLegFails
  <2> QED  BY <1>0, <2>1, <2>2, CleanupInv DEF Dir
<1>21. CASE MediaRecord(t)
  <2>1. op.holder = t  BY <1>21, <1>0 DEF MediaRecord, TaskInv, HoldsLock, Locked
  <2>2. Moves(t)  BY <1>21, <1>0, ReturnMoves DEF MediaRecord, TypeOK, Moves
  <2>3. TaskInv(t)'  BY <1>21, <1>0, ReturnMoves, Outside DEF MediaRecord, TypeOK, Loose
  <2>4. CallInv'  BY <1>21, <1>0, CallInvSame DEF MediaRecord
  <2> QED  BY <1>0, <2>1, <2>2, <2>3, <2>4, HolderAlone
<1>22. CASE MediaRecordFails(t)
  <2>1. op.holder = t /\ Live  BY <1>22, <1>0 DEF MediaRecordFails, TaskInv, HoldsLock, Locked
  <2>2. Dir("outbound") => Waiting
    BY <1>22, <1>0 DEF MediaRecordFails, TaskInv, KnowsCall, Dir
  <2>3. BeginCleanup(t) /\ UNCHANGED <<active, flags>>  BY <1>22 DEF MediaRecordFails
  <2> QED  BY <1>0, <2>1, <2>2, <2>3, CleanupInv
<1>23. CASE Connected(t)
  <2>1. op.holder = t  BY <1>23 DEF Connected, Enter
  <2>2. CASE ~(Live /\ flags.attached)
    <3>1. Return(t) /\ UNCHANGED <<active, call, flags>>  BY <1>23, <2>2 DEF Connected
    <3> QED  BY <1>0, <2>1, <3>1, ReturnMoves, Outside, HolderAlone, CallInvSame DEF Loose
  <2>3. CASE Live /\ flags.attached
    <3>1. Moves(t) /\ pc'[t] = "connect_record"
      BY <1>23, <1>0, <2>3 DEF Connected, Stopped, TypeOK, Moves
    <3>2. op'.holder = t
      BY <1>23, <1>0, <2>1, <2>3, WithdrawHolder, TaskAssumption DEF Connected, TimerGone, TypeOK
    <3>3. call' = Moved("active", "none") /\ UNCHANGED <<active, flags>>  BY <1>23, <2>3 DEF Connected
    <3>4. /\ active \in Call /\ call'[active].state = "active"
          /\ call'[active].dir = call[active].dir
          /\ call'[active].front = call[active].front
          /\ call'[active].owner = call[active].owner
          /\ \A c \in Call \ {active} : call'[c] = call[c]
      BY <1>0, <2>3, <3>3, MovedEffect
    <3>5. CallInv'
      BY <1>0, <2>3, <3>3, <3>4 DEF CallInv, OneLiveCall, ActiveExists, MediaAgrees, Live, Dir, Terminal
    <3>6. Live' /\ active' # 0  BY <2>3, <3>3, <3>4 DEF Live, Terminal
    <3>7. TaskInv(t)'  BY <3>1, <3>2, <3>6 DEF TaskInv, HoldsLock, KnowsCall, Cleaning
    <3> QED  BY <1>0, <2>1, <3>1, <3>5, <3>7, HolderAlone
  <2> QED  BY <2>2, <2>3
<1>24. CASE ConnectRecord(t)
  <2>1. op.holder = t  BY <1>24, <1>0 DEF ConnectRecord, TaskInv, HoldsLock, Locked
  <2>2. Moves(t)  BY <1>24, <1>0, ReturnMoves DEF ConnectRecord
  <2>3. TaskInv(t)'  BY <1>24, <1>0, ReturnMoves, Outside DEF ConnectRecord, Loose
  <2>4. CallInv'  BY <1>24, <1>0, CallInvSame DEF ConnectRecord
  <2> QED  BY <1>0, <2>1, <2>2, <2>3, <2>4, HolderAlone
<1> QED  BY <1>1, <1>2, <1>3, <1>4, <1>5, <1>6, <1>7, <1>8, <1>9, <1>10, <1>11, <1>12, <1>13, <1>14, <1>15, <1>16, <1>17, <1>18, <1>19, <1>20, <1>21, <1>22, <1>23, <1>24 DEF Operation

\* Every step of a socket keeps the invariant.
LEMMA SocketInv ==
  ASSUME IInv, NEW t \in Sockets, SocketStep(t) \/ Connect(t) \/ StreamEnds(t)
  PROVE  CallInv' /\ \A u \in Task : TaskInv(u)'
<1>t. t \in Task  BY TaskAssumption
<1>0. TypeOK /\ CallInv /\ (\A u \in Task : TaskInv(u)) /\ TaskInv(t)  BY <1>t, InvParts
<1>b. op \in Lock  BY <1>0 DEF TypeOK
<1>1. CASE Run(t)
  <2>1. Moves(t) /\ TaskInv(t)'  BY <1>0, <1>t, <1>1, Outside DEF Run, TypeOK, Moves, Queued
  <2>2. op.holder \in Task \ {t} => op'.holder = op.holder  BY <1>b, <1>t, <1>1, AcquireHolder, NoTaskAssumption DEF Run, lockVars
  <2> QED  BY <1>0, <1>t, <1>1, <2>1, <2>2, Bystander, CallInvSame DEF Run, coreVars
<1>2. CASE Reserve(t)
  <2>1. op.holder = t /\ UNCHANGED <<active, call>>  BY <1>2 DEF Reserve
  <2>2. CASE ~(OwnedBy(job[t].call, job[t].inst) /\ ~flags.reserved /\ ~flags.attached)
    <3>1. Return(t) /\ UNCHANGED flags  BY <1>2, <2>2 DEF Reserve
    <3> QED  BY <1>0, <1>t, <2>1, <3>1, ReturnMoves, Outside, HolderAlone, CallInvSame DEF Loose
  <2>3. CASE OwnedBy(job[t].call, job[t].inst) /\ ~flags.reserved /\ ~flags.attached
    <3>1. Moves(t) /\ TaskInv(t)'
      BY <1>0, <1>t, <1>2, <2>3, Outside DEF Reserve, TypeOK, Moves, Queued, Loose
    <3>2. flags' = [flags EXCEPT !.reserved = TRUE]  BY <1>2, <2>3 DEF Reserve
    <3>3. flags'.attached = flags.attached  BY <1>0, <3>2 DEF TypeOK, Flags
    <3>4. CallInv'
      BY <1>0, <2>1, <3>3 DEF CallInv, OneLiveCall, ActiveExists, MediaAgrees, Live, Dir, Waiting
    <3> QED  BY <1>0, <1>t, <2>1, <3>1, <3>4, HolderAlone
  <2> QED  BY <2>2, <2>3
<1>3. CASE FirstPCM(t)
  <2>1. Moves(t) /\ TaskInv(t)'
    <3>1. CASE CloseSocket(t, op)
      BY <1>0, <1>t, <3>1, CloseSocketMoves, Outside DEF Queued, Loose
    <3>2. CASE ~CloseSocket(t, op)
      BY <1>0, <1>t, <1>3, <3>2, Outside DEF FirstPCM, TypeOK, Moves, Queued
    <3> QED  BY <3>1, <3>2
  <2>2. op.holder \in Task \ {t} => op'.holder = op.holder
    BY <1>0, <1>b, <1>t, <1>3, CloseSocketMoves, AcquireHolder, NoTaskAssumption DEF FirstPCM
  <2> QED  BY <1>0, <1>t, <1>3, <2>1, <2>2, Bystander, CallInvSame DEF FirstPCM, coreVars
<1>4. CASE Attach(t)
  <2>1. op.holder = t /\ UNCHANGED <<active, call, flags>>  BY <1>4 DEF Attach, coreVars
  <2>2. CASE ~(OwnedBy(job[t].call, job[t].inst) /\ ~flags.attached)
    <3>1. CloseSocket(t, Release(op))  BY <1>4, <2>2 DEF Attach
    <3> QED  BY <1>0, <1>t, <2>1, <3>1, CloseSocketMoves, Outside, HolderAlone, CallInvSame
             DEF Loose, Queued
  <2>3. CASE OwnedBy(job[t].call, job[t].inst) /\ ~flags.attached
    <3>1. Goto(t, "audio_start")  BY <1>4, <2>3 DEF Attach
    <3>2. Moves(t) /\ pc'[t] = "audio_start" /\ op' = op  BY <1>0, <1>t, <3>1, GotoMoves
    <3>3. /\ Live /\ active # 0
          /\ call[active].front = "app" => call[active].owner # NoInst
          /\ Dir("outbound") => Waiting
      <4>1. Live /\ active # 0  BY <2>3 DEF OwnedBy, ValidCall, Live
      <4>2. call[active].front = "app" => call[active].owner # NoInst
        BY <2>3 DEF OwnedBy, ValidCall
      <4>3. Dir("outbound") => Waiting  BY <1>0, <2>3, <4>1 DEF CallInv, MediaAgrees
      <4> QED  BY <4>1, <4>2, <4>3
    <3>4. TaskInv(t)'
      BY <2>1, <3>2, <3>3 DEF TaskInv, HoldsLock, KnowsCall, Cleaning, Live, Dir, Waiting
    <3> QED  BY <1>0, <1>t, <2>1, <3>2, <3>4, HolderAlone, CallInvSame
  <2> QED  BY <2>2, <2>3
<1>5. CASE AudioStarted(t)
  <2>1. op.holder = t /\ Live /\ UNCHANGED <<active, call>>
    BY <1>0, <1>5 DEF AudioStarted, TaskInv, HoldsLock, Locked
  <2>2. /\ Dir("outbound") => Waiting
        /\ call[active].front = "app" => call[active].owner # NoInst
    BY <1>0, <1>5 DEF AudioStarted, TaskInv, KnowsCall
  <2>3. flags'.attached = TRUE
    BY <1>0, <1>5 DEF AudioStarted, TypeOK, Flags
  <2>4. CallInv'
    BY <1>0, <2>1, <2>2, <2>3 DEF CallInv, OneLiveCall, ActiveExists, MediaAgrees, Live, Dir, Waiting
  <2>5. Live' /\ active' # 0  BY <2>1 DEF Live
  <2>6. CASE Dir("outbound")
    <3>1. Goto(t, "dial")  BY <1>5, <2>6 DEF AudioStarted, Dir
    <3>2. Moves(t) /\ pc'[t] = "dial" /\ op' = op  BY <1>0, <1>t, <3>1, GotoMoves
    <3>3. TaskInv(t)'
      BY <2>1, <2>2, <2>5, <2>6, <3>2 DEF TaskInv, HoldsLock, KnowsCall, Cleaning, Dir, Waiting
    <3> QED  BY <1>0, <1>t, <2>1, <2>4, <3>2, <3>3, HolderAlone
  <2>7. CASE ~Dir("outbound") /\ call[active].front = "app"
    <3>1. Goto(t, "attach_leg")  BY <1>5, <2>7 DEF AudioStarted, Dir
    <3>2. Moves(t) /\ pc'[t] = "attach_leg" /\ op' = op  BY <1>0, <1>t, <3>1, GotoMoves
    <3>3. Dir("inbound")
      BY <1>0, <2>1, <2>7 DEF TypeOK, CallRecord, Live, Call, Dir
    <3>4. TaskInv(t)'
      BY <2>1, <2>3, <2>5, <3>2, <3>3 DEF TaskInv, HoldsLock, KnowsCall, Cleaning, Dir, Waiting
    <3> QED  BY <1>0, <1>t, <2>1, <2>4, <3>2, <3>4, HolderAlone
  <2>8. CASE ~Dir("outbound") /\ call[active].front # "app"
    <3>1. Moves(t) /\ TaskInv(t)'
      BY <1>0, <1>t, <1>5, <2>8, Outside DEF AudioStarted, Dir, TypeOK, Moves, Loose
    <3> QED  BY <1>0, <1>t, <2>1, <2>4, <3>1, HolderAlone
  <2> QED  BY <2>6, <2>7, <2>8
<1>6. CASE AudioStartFails(t)
  <2>1. op.holder = t /\ Live  BY <1>0, <1>6 DEF AudioStartFails, TaskInv, HoldsLock, Locked
  <2>2. Dir("outbound") => Waiting  BY <1>0, <1>6 DEF AudioStartFails, TaskInv, KnowsCall
  <2>3. BeginCleanup(t) /\ UNCHANGED <<active, flags>>  BY <1>6 DEF AudioStartFails
  <2> QED  BY <1>0, <1>t, <2>1, <2>2, <2>3, CleanupInv
<1>7. CASE DialFails(t)
  <2>1. op.holder = t /\ Live  BY <1>0, <1>7 DEF DialFails, TaskInv, HoldsLock, Locked
  <2>2. Dir("outbound") => Waiting  BY <1>0, <1>7 DEF DialFails, TaskInv, KnowsCall
  <2>3. BeginCleanup(t) /\ UNCHANGED <<active, flags>>  BY <1>7 DEF DialFails
  <2> QED  BY <1>0, <1>t, <2>1, <2>2, <2>3, CleanupInv
<1>8. CASE Dial(t)
  <2>1. op.holder = t /\ Live /\ Dir("outbound")
    BY <1>0, <1>8 DEF Dial, TaskInv, HoldsLock, KnowsCall, Locked
  <2>2. Goto(t, "attach_record") /\ call' = Moved("waiting_cellular", "none") /\ UNCHANGED <<active, flags>>
    BY <1>8 DEF Dial
  <2>3. Moves(t) /\ pc'[t] = "attach_record" /\ op' = op  BY <1>0, <1>t, <2>2, GotoMoves
  <2>4. /\ active \in Call /\ call'[active].state = "waiting_cellular"
        /\ call'[active].dir = call[active].dir
        /\ call'[active].front = call[active].front
        /\ call'[active].owner = call[active].owner
        /\ \A c \in Call \ {active} : call'[c] = call[c]
    BY <1>0, <2>1, <2>2, MovedEffect
  <2>5. CallInv'
    BY <1>0, <2>1, <2>2, <2>4
    DEF CallInv, OneLiveCall, ActiveExists, MediaAgrees, Live, Dir, Waiting, Terminal
  <2>6. Live' /\ active' # 0 /\ Waiting'  BY <2>1, <2>2, <2>4 DEF Live, Terminal, Waiting
  <2>7. TaskInv(t)'  BY <2>1, <2>3, <2>6 DEF TaskInv, HoldsLock, KnowsCall, Cleaning
  <2> QED  BY <1>0, <1>t, <2>1, <2>3, <2>5, <2>7, HolderAlone
<1>9. CASE Connect(t)
  <2>1. Moves(t) /\ TaskInv(t)'  BY <1>0, <1>t, <1>9, Outside DEF Connect, TypeOK, Moves, Loose
  <2>2. op.holder \in Task \ {t} => op'.holder = op.holder  BY <1>9 DEF Connect, lockVars
  <2> QED  BY <1>0, <1>t, <1>9, <2>1, <2>2, Bystander, CallInvSame DEF Connect, coreVars
<1>10. CASE StreamEnds(t)
  <2>1. Moves(t) /\ TaskInv(t)'  BY <1>0, <1>t, <1>10, CloseSocketMoves, Outside DEF StreamEnds, Queued, Loose
  <2>2. op.holder \in Task \ {t} => op'.holder = op.holder  BY <1>0, <1>b, <1>t, <1>10, CloseSocketMoves, AcquireHolder, NoTaskAssumption DEF StreamEnds
  <2> QED  BY <1>0, <1>t, <1>10, <2>1, <2>2, Bystander, CallInvSame DEF StreamEnds, coreVars
<1> QED  BY <1>1, <1>2, <1>3, <1>4, <1>5, <1>6, <1>7, <1>8, <1>9, <1>10 DEF SocketStep

\* A task without the operation lock that only queues or goes idle keeps the invariant.
LEMMA QueueInv ==
  ASSUME IInv, NEW t \in Task, Moves(t), UNCHANGED coreVars,
         op' = op \/ op' = Acquire(op, t),
         pc'[t] \in Queued \cup Loose,
         pc'[t] \in {"want_hangup", "hangup_op"} => job'[t].op \in HangupOp
  PROVE  CallInv' /\ \A u \in Task : TaskInv(u)'
<1>1. TypeOK /\ CallInv /\ (\A u \in Task : TaskInv(u))  BY InvParts
<1>2. op.holder \in Task \ {t} => op'.holder = op.holder
  BY <1>1, AcquireHolder, NoTaskAssumption DEF TypeOK
<1>3. TaskInv(t)'  BY Outside
<1> QED  BY <1>1, <1>2, <1>3, Bystander, CallInvSame DEF coreVars

\* Nothing a step of the environment changes is part of the invariant.
LEMMA OutsideInv ==
  ASSUME IInv,
         (\E t \in Clients : Request(t)) \/ Callback \/ Poll \/ PollRead \/ TimerFires \/ Environment
  PROVE  CallInv' /\ \A u \in Task : TaskInv(u)'
<1>t. Modem \in Task /\ Poller \in Task /\ Timer \in Task  BY TaskAssumption
<1>0. TypeOK /\ CallInv /\ (\A u \in Task : TaskInv(u))  BY InvParts
<1>1. ASSUME NEW t \in Clients, Request(t) PROVE CallInv' /\ \A u \in Task : TaskInv(u)'
  <2>0. t \in Task  BY TaskAssumption
  <2>1. PICK j :
          \/ j.op \in HangupOp /\ EnterHangup(t, j, op)
          \/ /\ job' = [job EXCEPT ![t] = j] /\ pc' = [pc EXCEPT ![t] = "want_op"]
             /\ op' = Acquire(op, t)
    BY <1>1 DEF Request
  <2>2. UNCHANGED coreVars  BY <1>1 DEF Request
  <2>3. CASE j.op \in HangupOp /\ EnterHangup(t, j, op)
    BY <1>0, <2>0, <2>2, <2>3, EnterHangupMoves, QueueInv DEF Queued
  <2>4. CASE ~(j.op \in HangupOp /\ EnterHangup(t, j, op))
    <3>1. Moves(t) /\ pc'[t] = "want_op" /\ op' = Acquire(op, t)
      BY <1>0, <2>0, <2>1, <2>4 DEF TypeOK, Moves
    <3> QED  BY <2>0, <2>2, <3>1, QueueInv DEF Queued
  <2> QED  BY <2>3, <2>4
<1>2. CASE Callback
  <2>1. UNCHANGED coreVars  BY <1>2 DEF Callback
  <2>2. CASE Head(urcs) = "disconnected"
    BY <1>0, <1>t, <1>2, <2>1, <2>2, EnterHangupMoves, QueueInv DEF Callback, HangupOp, Queued
  <2>3. CASE Head(urcs) # "disconnected"
    <3>1. Moves(Modem) /\ pc'[Modem] = "want_op" /\ op' = Acquire(op, Modem)
      BY <1>0, <1>t, <1>2, <2>3 DEF Callback, TypeOK, Moves
    <3> QED  BY <1>t, <2>1, <3>1, QueueInv DEF Queued
  <2> QED  BY <2>2, <2>3
<1>3. CASE Poll
  <2>1. Moves(Poller) /\ pc'[Poller] = "poll_read" /\ op' = op /\ UNCHANGED coreVars
    BY <1>0, <1>t, <1>3 DEF Poll, TypeOK, Moves, lockVars
  <2> QED  BY <1>t, <2>1, QueueInv DEF Loose
<1>4. CASE PollRead
  <2>1. /\ Moves(Poller) /\ pc'[Poller] \in {"want_op", "idle"} /\ UNCHANGED coreVars
        /\ op' = op \/ op' = Acquire(op, Poller)
    BY <1>0, <1>t, <1>4 DEF PollRead, TypeOK, Moves
  <2> QED  BY <1>t, <2>1, QueueInv DEF Loose, Queued
<1>5. CASE TimerFires
  <2>1. UNCHANGED coreVars  BY <1>5 DEF TimerFires
  <2> QED  BY <1>0, <1>t, <1>5, <2>1, EnterHangupMoves, QueueInv DEF TimerFires, HangupOp, Queued
<1>6. CASE Expire
  <2>1. SameCalls  BY <1>0, <1>6, ExpireEffect
  <2>2. UNCHANGED <<active, flags, op, pc, job>> /\ Live  BY <1>6 DEF Expire, lockVars
  <2>3. CallInv' /\ Live'  BY <1>0, <2>1, <2>2, CallInvSameFields
  <2>4. active \in Call  BY <1>0, <2>2 DEF TypeOK, Live, Call
  <2>5. ASSUME NEW u \in Task PROVE TaskInv(u)'
    <3>1. TaskInv(u)  BY <1>0
    <3>2. /\ \A d : Dir(d)' <=> Dir(d)
          /\ Waiting' <=> Waiting
          /\ call'[active].state = call[active].state
          /\ call'[active].owner = call[active].owner
          /\ call'[active].front = call[active].front
      BY <2>1, <2>2, <2>4 DEF SameCalls, Dir, Waiting
    <3>3. HoldsLock(u)'  BY <2>2, <2>3, <3>1 DEF TaskInv, HoldsLock
    <3>4. KnowsCall(u)'  BY <2>2, <3>1, <3>2 DEF TaskInv, KnowsCall
    <3> QED  BY <3>3, <3>4 DEF TaskInv
  <2> QED  BY <2>3, <2>5
<1>7. CASE Restart
  <2>1. ASSUME NEW u \in Task PROVE TaskInv(u)'
    BY <1>7 DEF Restart, TaskInv, HoldsLock, KnowsCall, Locked, Cleaning
  <2>2. call' = [c \in Call |-> IF call[c].state \in LiveState THEN Recovered(call[c]) ELSE call[c]]
        /\ UNCHANGED active
    BY <1>7 DEF Restart
  <2>3. \A c \in Call : call'[c].state \notin LiveState /\ (call[c].state # "none" => call'[c].state # "none")
    <3>1. \A r \in CallRecord : Recovered(r).state = "ended"
      BY EndedType DEF Recovered, InState, CallRecord
    <3> QED  BY <1>0, <2>2, <3>1 DEF TypeOK, LiveState
  <2>4. active = 0 \/ active \in Call  BY <1>0 DEF TypeOK, Call
  <2>5. ActiveExists'  BY <1>0, <2>2, <2>3, <2>4 DEF CallInv, ActiveExists
  <2>6. ~Live'
    <3> SUFFICES ASSUME active # 0 PROVE call'[active].state \in Terminal  BY <2>2 DEF Live
    <3>1. call'[active] \in CallRecord
      BY <1>0, <1>7, <2>2, <2>4, OutsideType DEF Environment, TypeOK
    <3> QED  BY <2>2, <2>3, <2>4, <2>5, <3>1 DEF ActiveExists, CallRecord, CallState
  <2> QED  BY <2>1, <2>3, <2>5, <2>6 DEF CallInv, OneLiveCall, MediaAgrees
<1>8. CASE RemoteCalls \/ RingsAgain \/ RemoteAnswers \/ RemoteHangsUp \/ OtherIndicator
  <2>1. UNCHANGED <<active, call, flags, op, pc, job>>
    BY <1>8 DEF RemoteCalls, RingsAgain, RemoteAnswers, RemoteHangsUp, OtherIndicator, coreVars, lockVars
  <2>2. Moves(Modem)  BY <2>1 DEF Moves
  <2>3. TaskInv(Modem)'
    BY <1>0, <1>t, <2>1 DEF TaskInv, HoldsLock, KnowsCall, Live, Dir, Waiting
  <2> QED  BY <1>0, <1>t, <2>1, <2>2, <2>3, Bystander, CallInvSame
<1> QED  BY <1>1, <1>2, <1>3, <1>4, <1>5, <1>6, <1>7, <1>8 DEF Environment

\* Every step keeps the inductive invariant.
LEMMA StepInv ==
  ASSUME IInv, [Next]_vars
  PROVE  IInv'
<1>0. TypeOK /\ CallInv /\ (\A u \in Task : TaskInv(u))  BY InvParts
<1>1. CASE UNCHANGED vars
  <2>1. TypeOK'  BY <1>0, <1>1 DEF vars, TypeOK
  <2>2. CallInv'  BY <1>0, <1>1, CallInvSame DEF vars
  <2>3. \A u \in Task : TaskInv(u)'
    BY <1>0, <1>1 DEF vars, TaskInv, HoldsLock, KnowsCall, Live, Dir, Waiting
  <2> QED  BY <2>1, <2>2, <2>3, InvParts
<1>2. CASE Next
  <2>1. TypeOK'  BY <1>0, <1>2, OperationType, SocketType, OutsideType DEF Next
  <2>2. CallInv' /\ \A u \in Task : TaskInv(u)'
    BY <1>2, OperationInv, SocketInv, OutsideInv DEF Next
  <2> QED  BY <2>1, <2>2, InvParts
<1> QED  BY <1>1, <1>2

\* The invariant holds initially.
LEMMA InitInv == Init => IInv
<1> SUFFICES ASSUME Init PROVE IInv  OBVIOUS
<1>1. TypeOK  BY InitType
<1>2. CallInv
  BY DEF Init, CallInv, OneLiveCall, ActiveExists, MediaAgrees, Live, NoCall, LiveState
<1>3. \A u \in Task : TaskInv(u)
  BY DEF Init, TaskInv, HoldsLock, KnowsCall, Locked, Cleaning
<1> QED  BY <1>1, <1>2, <1>3, InvParts

\* The inductive invariant holds in every behaviour.
THEOREM Inductive == Spec => []IInv
<1> QED  BY InitInv, StepInv, PTL DEF Spec

\* Two calls never live at once, however many requests, rings, hang-ups and
\* timeouts race for the two locks.
THEOREM SingleCall == Spec => []OneLiveCall
<1>1. IInv => OneLiveCall  BY DEF IInv
<1> QED  BY <1>1, Inductive, PTL

\* A keypad tone is in flight only inside the active call, and for the owner, it
\* was requested for.
THEOREM DtmfSafe == Spec => []DtmfInsideCall
<1>1. IInv => DtmfInsideCall
  <2> SUFFICES ASSUME IInv, NEW t \in Clients, pc[t] = "dtmf_sent"
               PROVE  /\ Live /\ active = job[t].call
                      /\ call[active].state = "active" /\ call[active].owner = job[t].inst
                      /\ flags.attached
    BY DEF DtmfInsideCall
  <2>1. TaskInv(t)  BY TaskAssumption, InvParts
  <2> QED  BY <2>1 DEF TaskInv, HoldsLock, KnowsCall, Locked
<1> QED  BY <1>1, Inductive, PTL

-----------------------------------------------------------------------------
(* CallController implements CallLifecycle: with locks, timers, sockets and *)
(* the modem forgotten, every step hands out the next call, claims it, moves *)
(* it forward, or does nothing.                                            *)

StateOf == [c \in Call |-> call[c].state]
OwnerOf == [c \in Call |-> call[c].owner]
AbstractStep == Lifecycle!Next \/ UNCHANGED <<active, StateOf, OwnerOf>>

\* The abstract Live is the coordinator's.
LEMMA AbstractLive ==
  ASSUME TypeOK
  PROVE  Lifecycle!Live <=> Live
<1>1. active = 0 \/ active \in Call  BY DEF TypeOK, Call
<1> QED  BY <1>1 DEF Lifecycle!Live, Live, Lifecycle!Terminal, Terminal

\* A step that keeps the active call, and state and owner of every call, is a stutter.
LEMMA Stutters ==
  ASSUME TypeOK, SameCalls, UNCHANGED active
  PROVE  AbstractStep
<1>1. StateOf' = StateOf /\ OwnerOf' = OwnerOf
  BY DEF SameCalls, StateOf, OwnerOf
<1> QED  BY <1>1 DEF AbstractStep

\* So is a step that leaves the calls alone.
LEMMA SameStutters ==
  ASSUME TypeOK, UNCHANGED <<active, call>>
  PROVE  AbstractStep
BY Stutters DEF SameCalls

\* A transition of the live call to its own state or forward is an Advance.
LEMMA MovedForward ==
  ASSUME TypeOK, Live, UNCHANGED active, NEW s, NEW r, call' = Moved(s, r),
         s \in Lifecycle!Forward(call[active].state) \/ s = call[active].state
  PROVE  AbstractStep
<1>1. /\ active \in Call /\ call'[active].state = s
      /\ call'[active].owner = call[active].owner
      /\ \A c \in Call \ {active} : call'[c] = call[c]
  BY MovedEffect
<1>2. OwnerOf' = OwnerOf  BY <1>1 DEF OwnerOf
<1>3. StateOf' = [StateOf EXCEPT ![active] = s]  BY <1>1 DEF StateOf
<1>4. CASE s = call[active].state
  <2>1. StateOf' = StateOf  BY <1>1, <1>4 DEF StateOf
  <2> QED  BY <1>2, <2>1 DEF AbstractStep
<1>5. CASE s \in Lifecycle!Forward(call[active].state)
  <2>1. StateOf[active] = call[active].state  BY <1>1 DEF StateOf
  <2>2. Lifecycle!Advance
    BY <1>2, <1>3, <1>5, <2>1, AbstractLive DEF Lifecycle!Advance, StateOf, OwnerOf
  <2> QED  BY <2>2 DEF AbstractStep, Lifecycle!Next
<1> QED  BY <1>4, <1>5

\* What a live call may become.
LEMMA MayEnd ==
  ASSUME TypeOK, ActiveExists, Live
  PROVE  /\ {"ended", "failed"} \subseteq Lifecycle!Forward(call[active].state)
         /\ "active" \in Lifecycle!Forward(call[active].state) \/ call[active].state = "active"
<1>1. active \in Call  BY DEF TypeOK, Live, Call
<1>2. call[active].state \in {"ringing_cellular", "waiting_client", "waiting_cellular", "active"}
  BY <1>1 DEF TypeOK, CallRecord, CallState, LiveState, Live, ActiveExists
<1> QED  BY <1>2 DEF Lifecycle!Forward, Lifecycle!Terminal

\* Starting the cleanup of a call is a stutter: only its end event is new.
LEMMA CleanupStutters ==
  ASSUME TypeOK, NEW t \in Task, BeginCleanup(t), UNCHANGED active
  PROVE  AbstractStep
BY CleanupEffect, Stutters

\* A new call is a Create.
LEMMA StartCreates ==
  ASSUME IInv, NEW t \in Task, Start(t)
  PROVE  AbstractStep
<1> DEFINE in == job[t].op = "start_inbound"
           s == IF in THEN "ringing_cellular" ELSE "waiting_client"
           r == [dir |-> IF in THEN "inbound" ELSE "outbound",
                 front |-> IF in THEN Frontend ELSE IF job[t].inst = NoInst THEN "web" ELSE "app",
                 state |-> s, owner |-> job[t].inst,
                 due |-> "ahead", why |-> "none", over |-> FALSE]
<1>0. TypeOK  BY DEF IInv
<1>1. ~Live /\ active < MaxCalls /\ active' = active + 1  BY DEF Start
<1>2. active + 1 \in Call  BY <1>0, <1>1, Bounds DEF TypeOK, Call
<1>3. call' = [call EXCEPT ![active + 1] = r]  BY DEF Start
<1>4. /\ r.state = s /\ r.owner = job[t].inst
      /\ s \in {"ringing_cellular", "waiting_client"}
  OBVIOUS
<1>5. job[t].inst \in Inst \cup {NoInst}  BY <1>0 DEF TypeOK, Job
<1> HIDE DEF r, s
<1>6. /\ StateOf' = [StateOf EXCEPT ![active + 1] = s]
      /\ OwnerOf' = [OwnerOf EXCEPT ![active + 1] = job[t].inst]
  BY <1>0, <1>2, <1>3, <1>4 DEF StateOf, OwnerOf, TypeOK
<1>7. ~Lifecycle!Live  BY <1>0, <1>1, AbstractLive
<1>8. Lifecycle!Create(s, job[t].inst)
  BY <1>1, <1>6, <1>7 DEF Lifecycle!Create, StateOf, OwnerOf
<1> QED  BY <1>4, <1>5, <1>8 DEF AbstractStep, Lifecycle!Next, Lifecycle!Create

\* A claim is a Claim: only a ringing call that nobody owns gets an owner.
LEMMA ClaimClaims ==
  ASSUME IInv, NEW t \in Task, Claim(t)
  PROVE  AbstractStep
<1> DEFINE r == [InState(call[active], "waiting_client", "none")
                   EXCEPT !.owner = job[t].inst, !.due = "ahead"]
<1>0. TypeOK /\ MediaAgrees  BY DEF IInv
<1>1. /\ Live /\ Dir("inbound") /\ call[active].front = "app" /\ call[active].owner = NoInst
      /\ job[t].inst # NoInst /\ UNCHANGED active
  BY DEF Claim, ValidCall, Dir
<1>2. active \in Call /\ call[active] \in CallRecord  BY <1>0, <1>1 DEF TypeOK, Live, Call
<1>3. call[active].state = "ringing_cellular"  BY <1>0, <1>1 DEF MediaAgrees
<1>4. call' = [call EXCEPT ![active] = r]  BY DEF Claim
<1>5. r.state = "waiting_client" /\ r.owner = job[t].inst
  <2>1. InState(call[active], "waiting_client", "none") \in CallRecord
    BY <1>2, InStateType DEF CallState, LiveState
  <2>2. InState(call[active], "waiting_client", "none").state = "waiting_client"
    BY <1>2 DEF InState, CallRecord
  <2> QED  BY <2>1, <2>2 DEF CallRecord
<1>6. job[t].inst \in Inst  BY <1>0, <1>1 DEF TypeOK, Job
<1> HIDE DEF r
<1>7. /\ StateOf' = [StateOf EXCEPT ![active] = "waiting_client"]
      /\ OwnerOf' = [OwnerOf EXCEPT ![active] = job[t].inst]
  BY <1>0, <1>2, <1>4, <1>5 DEF StateOf, OwnerOf, TypeOK
<1>8. StateOf[active] = "ringing_cellular" /\ OwnerOf[active] = NoInst
  BY <1>1, <1>2, <1>3 DEF StateOf, OwnerOf
<1>9. Lifecycle!Claim(job[t].inst)
  BY <1>0, <1>1, <1>7, <1>8, AbstractLive DEF Lifecycle!Claim, StateOf, OwnerOf
<1> QED  BY <1>6, <1>9 DEF AbstractStep, Lifecycle!Next, Lifecycle!Claim

\* Every step of an operation is an abstract step.
LEMMA OperationSteps ==
  ASSUME IInv, NEW t \in Task, Operation(t)
  PROVE  AbstractStep
<1>0. TypeOK /\ ActiveExists /\ TaskInv(t)  BY InvParts DEF IInv
<1>1. CASE StartRefused(t)  BY <1>0, <1>1, SameStutters DEF StartRefused, coreVars
<1>2. CASE RingAgain(t)  BY <1>0, <1>2, SameStutters DEF RingAgain, coreVars
<1>3. CASE StartRecord(t)  BY <1>0, <1>3, SameStutters DEF StartRecord, coreVars
<1>4. CASE StartRecordFails(t)  BY <1>0, <1>4, SameStutters DEF StartRecordFails, coreVars
<1>5. CASE AnswerRefused(t)  BY <1>0, <1>5, SameStutters DEF AnswerRefused, coreVars
<1>6. CASE AnswerWeb(t)  BY <1>0, <1>6, SameStutters DEF AnswerWeb, coreVars
<1>7. CASE ClaimRecord(t)  BY <1>0, <1>7, SameStutters DEF ClaimRecord, coreVars
<1>8. CASE Dtmf(t)  BY <1>0, <1>8, SameStutters DEF Dtmf, coreVars
<1>9. CASE DtmfDone(t)  BY <1>0, <1>9, SameStutters DEF DtmfDone, coreVars
<1>10. CASE StopAudio(t)  BY <1>0, <1>10, SameStutters DEF StopAudio, coreVars
<1>11. CASE StopLeg(t)  BY <1>0, <1>11, SameStutters DEF StopLeg, coreVars
<1>12. CASE EndRecord(t)  BY <1>0, <1>12, SameStutters DEF EndRecord, coreVars
<1>13. CASE HangupNext(t)  BY <1>0, <1>13, SameStutters DEF HangupNext, coreVars
<1>14. CASE HangupRefused(t)  BY <1>0, <1>14, SameStutters DEF HangupRefused, coreVars
<1>15. CASE MediaRecord(t)  BY <1>0, <1>15, SameStutters DEF MediaRecord, coreVars
<1>16. CASE ConnectRecord(t)  BY <1>0, <1>16, SameStutters DEF ConnectRecord, coreVars
<1>17. CASE Hangup(t)  BY <1>0, <1>17, CleanupStutters DEF Hangup
<1>18. CASE AnswerLegFails(t)  BY <1>0, <1>18, CleanupStutters DEF AnswerLegFails
<1>19. CASE MediaRecordFails(t)  BY <1>0, <1>19, CleanupStutters DEF MediaRecordFails
<1>20. CASE Start(t)  BY <1>20, StartCreates
<1>21. CASE Claim(t)  BY <1>21, ClaimClaims
<1>22. CASE Conclude(t)
  <2>1. Live /\ UNCHANGED active
    BY <1>0, <1>22 DEF Conclude, TaskInv, HoldsLock, Locked
  <2>2. CASE UNCHANGED call  BY <1>0, <2>1, <2>2, SameStutters
  <2>3. CASE call' = Moved("ended", Reason(job[t]))  BY <1>0, <2>1, <2>3, MayEnd, MovedForward
  <2>4. CASE call' = Moved("failed", "error")  BY <1>0, <2>1, <2>4, MayEnd, MovedForward
  <2> QED  BY <1>22, <2>2, <2>3, <2>4 DEF Conclude
<1>23. CASE Answered(t)
  <2>1. Live /\ UNCHANGED active /\ call' = Moved("active", "none")
    BY <1>0, <1>23 DEF Answered, TaskInv, HoldsLock, Locked
  <2> QED  BY <1>0, <2>1, MayEnd, MovedForward
<1>24. CASE Connected(t)
  <2>1. CASE Live /\ flags.attached
    <3>1. UNCHANGED active /\ call' = Moved("active", "none")  BY <1>24, <2>1 DEF Connected
    <3> QED  BY <1>0, <2>1, <3>1, MayEnd, MovedForward
  <2>2. CASE ~(Live /\ flags.attached)
    BY <1>0, <1>24, <2>2, SameStutters DEF Connected
  <2> QED  BY <2>1, <2>2
<1> QED  BY <1>1, <1>2, <1>3, <1>4, <1>5, <1>6, <1>7, <1>8, <1>9, <1>10, <1>11, <1>12, <1>13, <1>14, <1>15, <1>16, <1>17, <1>18, <1>19, <1>20, <1>21, <1>22, <1>23, <1>24 DEF Operation

\* Every step of a socket is an abstract step.
LEMMA SocketSteps ==
  ASSUME IInv, NEW t \in Sockets, SocketStep(t) \/ Connect(t) \/ StreamEnds(t)
  PROVE  AbstractStep
<1>t. t \in Task  BY TaskAssumption
<1>0. TypeOK /\ ActiveExists /\ TaskInv(t)  BY <1>t, InvParts DEF IInv
<1>1. CASE Run(t)  BY <1>0, <1>1, SameStutters DEF Run, coreVars
<1>2. CASE Reserve(t)  BY <1>0, <1>2, SameStutters DEF Reserve, coreVars
<1>3. CASE FirstPCM(t)  BY <1>0, <1>3, SameStutters DEF FirstPCM, coreVars
<1>4. CASE Attach(t)  BY <1>0, <1>4, SameStutters DEF Attach, coreVars
<1>5. CASE AudioStarted(t)  BY <1>0, <1>5, SameStutters DEF AudioStarted, coreVars
<1>6. CASE Connect(t)  BY <1>0, <1>6, SameStutters DEF Connect, coreVars
<1>7. CASE StreamEnds(t)  BY <1>0, <1>7, SameStutters DEF StreamEnds, coreVars
<1>8. CASE AudioStartFails(t)  BY <1>0, <1>t, <1>8, CleanupStutters DEF AudioStartFails
<1>9. CASE DialFails(t)  BY <1>0, <1>t, <1>9, CleanupStutters DEF DialFails
<1>10. CASE Dial(t)
  <2>1. Live /\ UNCHANGED active /\ call' = Moved("waiting_cellular", "none") /\ Waiting
    BY <1>0, <1>10 DEF Dial, TaskInv, HoldsLock, KnowsCall, Locked
  <2>2. \/ "waiting_cellular" \in Lifecycle!Forward(call[active].state)
        \/ call[active].state = "waiting_cellular"
    BY <2>1 DEF Waiting, Lifecycle!Forward
  <2> QED  BY <1>0, <2>1, <2>2, MovedForward
<1> QED  BY <1>1, <1>2, <1>3, <1>4, <1>5, <1>6, <1>7, <1>8, <1>9, <1>10 DEF SocketStep

\* A restart ends the live call; no other call is live.
LEMMA RestartEnds ==
  ASSUME IInv, Restart
  PROVE  AbstractStep
<1>0. TypeOK /\ ActiveExists /\ OneLiveCall  BY DEF IInv
<1>1. call' = [c \in Call |-> IF call[c].state \in LiveState THEN Recovered(call[c]) ELSE call[c]]
      /\ UNCHANGED active
  BY DEF Restart
<1>2. \A r \in CallRecord : Recovered(r).state = "ended" /\ Recovered(r).owner = r.owner
  BY EndedType DEF Recovered, InState, CallRecord
<1>3. OwnerOf' = OwnerOf  BY <1>0, <1>1, <1>2 DEF OwnerOf, TypeOK
<1>4. CASE Live
  <2>1. active \in Call  BY <1>0, <1>4 DEF TypeOK, Live, Call
  <2>2. call[active].state \in LiveState
    BY <1>0, <1>4, <2>1 DEF TypeOK, CallRecord, CallState, Live, ActiveExists
  <2>3. StateOf' = [StateOf EXCEPT ![active] = "ended"]
    BY <1>0, <1>1, <1>2, <2>1, <2>2 DEF StateOf, TypeOK, OneLiveCall
  <2>4. StateOf[active] = call[active].state  BY <2>1 DEF StateOf
  <2>5. Lifecycle!Advance
    BY <1>0, <1>1, <1>3, <1>4, <2>3, <2>4, MayEnd, AbstractLive
    DEF Lifecycle!Advance, StateOf, OwnerOf
  <2> QED  BY <2>5 DEF AbstractStep, Lifecycle!Next
<1>5. CASE ~Live
  <2>1. \A c \in Call : call[c].state \notin LiveState
    BY <1>0, <1>5 DEF OneLiveCall, Live, Call, LiveState, Terminal
  <2>2. call' = [c \in Call |-> call[c]]  BY <1>1, <2>1
  <2> QED  BY <1>0, <1>1, <2>2, Stutters DEF SameCalls
<1> QED  BY <1>4, <1>5

\* Requests, callbacks, timer and environment are abstract steps.
LEMMA OutsideSteps ==
  ASSUME IInv,
         (\E t \in Clients : Request(t)) \/ Callback \/ Poll \/ PollRead \/ TimerFires \/ Environment
  PROVE  AbstractStep
<1>0. TypeOK  BY DEF IInv
<1>1. CASE Expire  BY <1>0, <1>1, ExpireEffect, Stutters DEF Expire
<1>2. CASE Restart  BY <1>2, RestartEnds
<1>3. CASE ~Expire /\ ~Restart
  BY <1>0, <1>3, SameStutters
  DEF Request, Callback, Poll, PollRead, TimerFires, Environment, RemoteCalls, RingsAgain,
      RemoteAnswers, RemoteHangsUp, OtherIndicator, coreVars
<1> QED  BY <1>1, <1>2, <1>3

\* The call controller implements the life cycle: for every number of tasks,
\* devices and calls, its steps only create, claim and advance calls.
THEOREM Implements == Spec => LifecycleSpec
<1>1. Init => Lifecycle!Init
  BY DEF Init, NoCall, Lifecycle!Init, Call, Lifecycle!Call
<1>2. IInv /\ [Next]_vars => [Lifecycle!Next]_(Lifecycle!vars)
  <2> SUFFICES ASSUME IInv, [Next]_vars PROVE Lifecycle!Next \/ UNCHANGED Lifecycle!vars
    OBVIOUS
  <2>1. AbstractStep
    <3>1. CASE UNCHANGED vars  BY <3>1, SameStutters DEF vars, IInv
    <3>2. CASE Next  BY <3>2, OperationSteps, SocketSteps, OutsideSteps DEF Next
    <3> QED  BY <3>1, <3>2
  <2> QED  BY <2>1 DEF AbstractStep, Lifecycle!vars, StateOf, OwnerOf
<1> QED  BY <1>1, <1>2, Inductive, PTL DEF Spec, LifecycleSpec, Lifecycle!Spec

-----------------------------------------------------------------------------
AttachPc == {"audio_start", "dial", "attach_leg", "attach_record"}
Closing  == {"want_hangup", "hangup_op"}

-----------------------------------------------------------------------------
(* The invariant every other one rests on                                  *)

(* What a task at each suspension point knows beyond KnowsCall.            *)
Path(t) ==
  /\ pc[t] \in Cleaning => timer = 0 /\ call[active].over
  /\ pc[t] \in Cleaning /\ job[t].op \notin HangupOp /\ call[active].front = "app"
       => t \in Sockets /\ job[t].call = active
  /\ pc[t] = "end_record" => ~Live
  /\ pc[t] \in {"start_record", "answer_record"} => call[active].state # "active"
  /\ pc[t] = "audio_start" => ~flags.attached
  /\ pc[t] \in {"dial", "attach_leg", "answer_leg"} => flags.attached
  /\ pc[t] = "active_record" => call[active].front = "web"
  /\ pc[t] \in AttachPc => t \in Sockets /\ job[t].call = active
  /\ pc[t] \in {"pcm", "want_attach", "stream"} => t \in Sockets

(* The timer task only ever hangs up, and the call it is armed for.        *)
TimerPath ==
  /\ pc[Timer] \in {"idle", "end_record"} \cup Closing \cup Cleaning
  /\ pc[Timer] # "idle" => job[Timer].op = "timeout"
  /\ pc[Timer] \in Closing => job[Timer].call = timer

(* Flags and timer are those of a live call; jobs name calls that exist.   *)
Settled ==
  /\ timer \in {0, active}
  /\ ~Live => flags = NoFlags /\ timer = 0
  /\ \A t \in Task : job[t].call \in 0..active

(* The reservation is what makes a socket the only one of its call.        *)
Uses(s) ==
  /\ Live /\ ~call[active].over /\ job[s].call = active
  /\ Holding(s) \/ job[s].op = "socket_closed"
Reserved == \A s \in Sockets : Uses(s) =>
  flags.reserved /\ \A r \in Sockets : Uses(r) => r = s

(* Attached audio is on, and a socket of the call is there to end it,      *)
(* unless somebody is ending it already.                                   *)
Keeps(s) ==
  /\ job[s].call = active
  /\ \/ pc[s] \in {"dial", "attach_leg", "attach_record", "stream"}
     \/ pc[s] \in Closing /\ job[s].op = "socket_closed"
CleanupRuns == \E t \in Task : pc[t] \in Cleaning
AttachedBy ==
  flags.attached => CleanupRuns \/ (audio = "on" /\ \E s \in Sockets : Keeps(s))

(* An incoming call rings where the gateway was told to send it.           *)
Routed == Live /\ Dir("inbound") => call[active].front = Frontend

Core ==
  /\ \A t \in Task : Path(t)
  /\ TimerPath /\ Settled /\ Reserved /\ AttachedBy /\ Routed

-----------------------------------------------------------------------------
(* The shapes of a step                                                    *)

(* The tasks beside t stay where they are; the timer stays, or is stopped. *)
Stay(u) == pc'[u] = pc[u] /\ job'[u] = job[u]
OthersStay(t) == \A u \in Task \ {t} : Stay(u)
TimerStops(t) ==
  /\ \A u \in Task \ {t, Timer} : Stay(u)
  /\ t # Timer => pc'[Timer] = "idle" /\ job'[Timer] = Idle

(* The live call moves to state s.                                         *)
Becomes(s) ==
  /\ Live /\ active' = active /\ active \in Call
  /\ call'[active].state = s
  /\ call'[active].dir = call[active].dir /\ call'[active].front = call[active].front
  /\ call'[active].over = call[active].over
  /\ \A c \in Call \ {active} : call'[c] = call[c]

(* t waits, or goes idle, without having done anything.                    *)
Waits(t) ==
  /\ UNCHANGED <<active, call, saved, flags, leg, audio, crashes>> /\ OthersStay(t)
  /\ pc[t] \in Queued \cup Loose \cup {"start_record", "answer_record", "dtmf_sent"}
  /\ pc[t] = "start_record" => "save" \in Failing
  /\ pc[t] = "answer_record" => "record" \in Failing
  /\ pc'[t] \in (Queued \cup Loose) \ {"pcm", "stream"}
  /\ pc'[t] = "want_attach" => pc[t] = "pcm" /\ job'[t] = job[t]
  /\ job'[t].op = "socket_closed" =>
       job'[t].call = job[t].call /\ (Holding(t) \/ job[t].op = "socket_closed")
  /\ Live /\ active = job[t].call
       /\ (pc[t] = "stream" \/ (pc[t] \in Closing /\ job[t].op = "socket_closed"))
     => pc'[t] \in Closing /\ job'[t].op = "socket_closed" /\ job'[t].call = active
  /\ job'[t].call \in 0..active
  /\ t = Timer =>
       /\ pc'[t] \in {"idle"} \cup Closing
       /\ pc'[t] # "idle" => job'[t].op = "timeout" /\ job'[t].call = timer'
  /\ timer' = timer \/ (t = Timer /\ timer' = 0 /\ pc'[t] = "idle" /\ ~(Live /\ timer = active))

(* t enters an operation.                                                  *)
Enters(t) ==
  /\ UNCHANGED <<active, call, saved, flags, timer, leg, audio, crashes>> /\ OthersStay(t)
  /\ op.holder = t /\ Live /\ job'[t] = job[t]
  /\ \/ pc[t] = "want_op" /\ pc'[t] \in {"connect_record", "dtmf_sent"}
     \/ pc[t] = "want_op" /\ pc'[t] = "answer_leg" /\ flags.attached
     \/ pc[t] = "want_attach" /\ pc'[t] = "audio_start" /\ ~flags.attached /\ job[t].call = active

(* t starts to clean up.                                                   *)
Cleans(t) ==
  /\ UNCHANGED <<active, saved, flags, audio, crashes>> /\ TimerStops(t)
  /\ op.holder = t /\ Live /\ job'[t] = job[t] /\ timer' = 0
  /\ \/ pc[t] = "hangup_op" /\ job[t].op \in HangupOp /\ MayHangup(job[t])
     \/ pc[t] \in {"audio_start", "dial", "attach_leg", "answer_leg"}
     \/ pc[t] \in {"attach_record", "active_record"} /\ "save" \in Failing
  /\ pc'[t] = IF flags.attached THEN "stop_audio" ELSE IF flags.started THEN "stop_leg" ELSE "cleaned"
  /\ SameCalls /\ call'[active].over
  /\ \/ leg' = leg
     \/ leg' = "up" /\ Dir("inbound")
     \/ leg' = "dialing" /\ pc[t] = "dial"

Starts(t) ==
  /\ UNCHANGED <<saved, timer, leg, audio, crashes>> /\ OthersStay(t)
  /\ op.holder = t /\ ~Live /\ job'[t] = job[t]
  /\ pc[t] = "want_op" /\ pc'[t] = "start_record"
  /\ active' = active + 1 /\ active' \in Call
  /\ \A c \in Call \ {active'} : call'[c] = call[c]
  /\ call'[active'].state \in {"ringing_cellular", "waiting_client"} /\ ~call'[active'].over
  /\ call'[active'].dir = "inbound" => call'[active'].front = Frontend /\ flags'.started
  /\ ~flags'.attached

(* _arm_timeout after a record.                                            *)
Arms(t) ==
  /\ UNCHANGED <<active, call, flags, leg, audio, crashes>> /\ TimerStops(t)
  /\ op.holder = t /\ Live /\ pc[t] \in {"start_record", "answer_record"}
  /\ pc'[t] = "idle" /\ job'[t] = Idle /\ timer' = active
  /\ saved' = [saved EXCEPT ![active] = call[active].state]

Claims(t) ==
  /\ UNCHANGED <<saved, flags, timer, leg, audio, crashes>> /\ OthersStay(t)
  /\ op.holder = t /\ job'[t] = job[t] /\ pc[t] = "want_op" /\ pc'[t] = "answer_record"
  /\ Becomes("waiting_client") /\ call[active].state # "active"

Silences(t) ==
  /\ UNCHANGED <<active, call, saved, flags, timer, leg, crashes>> /\ OthersStay(t)
  /\ op.holder = t /\ job'[t] = job[t] /\ pc[t] = "stop_audio"
  /\ pc'[t] = IF flags.started THEN "stop_leg" ELSE "cleaned"
  /\ audio' = "off" \/ (audio' = audio /\ "audio_stop" \in Failing)

HangsUp(t) ==
  /\ UNCHANGED <<active, call, saved, flags, timer, audio, crashes>> /\ OthersStay(t)
  /\ op.holder = t /\ job'[t] = job[t] /\ pc[t] = "stop_leg" /\ pc'[t] = "cleaned"
  /\ leg' = "idle" \/ (leg' = leg /\ "hangup" \in Failing)

Concludes(t) ==
  /\ UNCHANGED <<saved, timer, leg, audio, crashes>> /\ OthersStay(t)
  /\ op.holder = t /\ pc[t] = "cleaned" /\ flags' = NoFlags
  /\ \/ /\ \E s \in Terminal : Becomes(s)
        /\ pc'[t] = "end_record" /\ job'[t] = job[t]
     \/ /\ UNCHANGED <<active, call>>
        /\ job[t].op \notin HangupOp /\ call[active].front = "app" /\ t \in Sockets
        /\ pc'[t] \in Closing /\ job'[t].op = "socket_closed" /\ job'[t].call = active

Ends(t) ==
  /\ UNCHANGED <<active, call, flags, timer, leg, audio, crashes>> /\ OthersStay(t)
  /\ op.holder = t /\ pc[t] = "end_record" /\ pc'[t] = "idle" /\ job'[t] = Idle
  /\ \/ saved' = [saved EXCEPT ![active] = call[active].state]
     \/ saved' = saved /\ "record" \in Failing

Answers(t) ==
  /\ UNCHANGED <<saved, flags, audio, crashes>> /\ TimerStops(t)
  /\ op.holder = t /\ job'[t] = job[t] /\ Becomes("active") /\ timer' = 0 /\ leg' = "up"
  /\ flags.attached
  /\ \/ pc[t] = "attach_leg" /\ pc'[t] = "attach_record"
     \/ pc[t] = "answer_leg" /\ pc'[t] = "active_record" /\ call[active].front = "web"

(* _record after audio was attached, or the call connected.                *)
Records(t) ==
  /\ UNCHANGED <<active, call, flags, timer, leg, audio, crashes>> /\ OthersStay(t)
  /\ op.holder = t
  /\ \/ pc[t] = "attach_record" /\ pc'[t] = "stream" /\ job'[t] = job[t]
     \/ pc[t] \in {"active_record", "connect_record"} /\ pc'[t] = "idle" /\ job'[t] = Idle
  /\ \/ saved' = [saved EXCEPT ![active] = call[active].state]
     \/ saved' = saved /\ "record" \in Failing

Connects(t) ==
  /\ UNCHANGED <<saved, flags, leg, audio, crashes>> /\ TimerStops(t)
  /\ op.holder = t /\ job'[t] = job[t] /\ pc[t] = "want_op" /\ pc'[t] = "connect_record"
  /\ Becomes("active") /\ timer' = 0 /\ flags.attached

Reserves(t) ==
  /\ UNCHANGED <<active, call, saved, timer, leg, audio, crashes>> /\ OthersStay(t)
  /\ op.holder = t /\ job'[t] = job[t] /\ t \in Sockets /\ Live
  /\ pc[t] = "want_reserve" /\ pc'[t] \in {"pcm", "want_attach"}
  /\ ~flags.reserved /\ flags'.reserved
  /\ flags'.attached = flags.attached /\ flags'.started = flags.started

Opens(t) ==
  /\ UNCHANGED <<active, call, saved, timer, leg, crashes>> /\ OthersStay(t)
  /\ op.holder = t /\ Live /\ job'[t] = job[t] /\ pc[t] = "audio_start" /\ audio' = "on"
  /\ flags'.attached /\ flags'.reserved = flags.reserved
  /\ flags'.started = (flags.started \/ Dir("outbound"))
  /\ \/ pc'[t] = "dial" /\ Dir("outbound")
     \/ pc'[t] \in {"attach_leg", "stream"} /\ Dir("inbound")

Dials(t) ==
  /\ UNCHANGED <<saved, flags, timer, audio, crashes>> /\ OthersStay(t)
  /\ op.holder = t /\ job'[t] = job[t] /\ pc[t] = "dial" /\ pc'[t] = "attach_record"
  /\ Becomes("waiting_cellular") /\ call[active].state # "active" /\ leg' = "dialing"

(* The network, the clock, or nothing.                                     *)
World ==
  /\ UNCHANGED <<active, saved, flags, timer, audio, crashes, pc, job>>
  /\ SameCalls
  /\ active # 0 => call'[active].over = call[active].over
  /\ leg' = leg \/ leg' \in {"idle", "ringing"} \/ (leg = "dialing" /\ leg' = "up")

Restarts ==
  /\ UNCHANGED <<active, leg>> /\ ~Live' /\ timer' = 0 /\ flags' = NoFlags /\ audio' = "off"
  /\ crashes' = crashes + 1
  /\ \A t \in Task : pc'[t] = "idle" /\ job'[t] = Idle
  /\ \A c \in Call : saved'[c] = IF saved[c] \in LiveState THEN "ended" ELSE saved[c]
  /\ \A c \in Call : call'[c].state = IF call[c].state \in LiveState THEN "ended" ELSE call[c].state

TaskShape(t) ==
  \/ Waits(t) \/ Enters(t) \/ Cleans(t) \/ Starts(t) \/ Arms(t) \/ Claims(t) \/ Silences(t)
  \/ HangsUp(t) \/ Concludes(t) \/ Ends(t) \/ Answers(t) \/ Records(t) \/ Connects(t)
  \/ Reserves(t) \/ Opens(t) \/ Dials(t)

-----------------------------------------------------------------------------
(* Every step has a shape                                                  *)

\* What Goto, Return, EnterHangup and CloseSocket do to the tasks.
LEMMA GotoStays ==
  ASSUME TypeOK, NEW t \in Task, NEW p, Goto(t, p)
  PROVE  OthersStay(t) /\ pc'[t] = p /\ job'[t] = job[t]
BY DEF TypeOK, Goto, OthersStay, Stay

LEMMA ReturnStays ==
  ASSUME TypeOK, NEW t \in Task, Return(t)
  PROVE  OthersStay(t) /\ pc'[t] = "idle" /\ job'[t] = Idle
BY DEF TypeOK, Return, OthersStay, Stay

LEMMA EnterHangupStays ==
  ASSUME TypeOK, NEW t \in Task, NEW j, NEW L, EnterHangup(t, j, L)
  PROVE  OthersStay(t) /\ pc'[t] \in Closing /\ job'[t] = j
BY DEF TypeOK, EnterHangup, OthersStay, Stay, Closing

LEMMA CloseSocketStays ==
  ASSUME TypeOK, NEW s \in Task, NEW L, CloseSocket(s, L)
  PROVE  /\ OthersStay(s)
         /\ IF Live /\ active = job[s].call
            THEN pc'[s] \in Closing /\ job'[s].op = "socket_closed" /\ job'[s].call = job[s].call
            ELSE pc'[s] = "idle" /\ job'[s] = Idle
<1>1. CASE Live /\ active = job[s].call
  BY <1>1, EnterHangupStays DEF CloseSocket
<1>2. CASE ~(Live /\ active = job[s].call)
  BY <1>2 DEF CloseSocket, TypeOK, OthersStay, Stay
<1> QED  BY <1>1, <1>2

\* A cleanup stops the timer and sets the end event of the live call.
LEMMA CleanupStays ==
  ASSUME TypeOK, NEW t \in Task, Live, BeginCleanup(t)
  PROVE  /\ TimerStops(t) /\ job'[t] = job[t] /\ timer' = 0
         /\ pc'[t] = IF flags.attached THEN "stop_audio"
                     ELSE IF flags.started THEN "stop_leg" ELSE "cleaned"
         /\ SameCalls /\ call'[active].over
<1>1. SameCalls  BY CleanupEffect
<1>2. timer' = 0  BY DEF BeginCleanup
<1>3. active \in Call /\ call[active] \in CallRecord  BY DEF TypeOK, Live, Call
<1>4. call'[active].over
  <2>1. call' = [call EXCEPT ![active] = [call[active] EXCEPT !.over = TRUE]]  BY DEF BeginCleanup
  <2>2. call'[active] = [call[active] EXCEPT !.over = TRUE]  BY <1>3, <2>1 DEF TypeOK
  <2> QED  BY <1>3, <2>2 DEF CallRecord
<1>5. /\ pc' = [Stopped(pc, t, "idle") EXCEPT ![t] =
                  IF flags.attached THEN "stop_audio"
                  ELSE IF flags.started THEN "stop_leg" ELSE "cleaned"]
      /\ job' = Stopped(job, t, Idle)
  BY DEF BeginCleanup
<1>6. Timer \in Task  BY TaskAssumption
<1>7. /\ TimerStops(t) /\ job'[t] = job[t]
      /\ pc'[t] = IF flags.attached THEN "stop_audio"
                  ELSE IF flags.started THEN "stop_leg" ELSE "cleaned"
  BY <1>5, <1>6 DEF Stopped, TypeOK, TimerStops, Stay
<1> QED  BY <1>1, <1>2, <1>4, <1>7

\* A transition of the live call in full.
LEMMA MovedBecomes ==
  ASSUME TypeOK, Live, NEW s, NEW r, UNCHANGED active, call' = Moved(s, r)
  PROVE  Becomes(s)
<1>1. /\ active \in Call /\ \A c \in Call \ {active} : call'[c] = call[c]
      /\ call'[active].state = s /\ call'[active].dir = call[active].dir
      /\ call'[active].front = call[active].front
  BY MovedEffect
<1>2. call'[active].over = call[active].over
  <2>1. call[active] \in CallRecord  BY <1>1 DEF TypeOK
  <2>2. call'[active] = InState(call[active], s, r)  BY <1>1 DEF Moved, TypeOK
  <2>3. InState(call[active], s, r).over = call[active].over  BY <2>1 DEF InState, CallRecord
  <2> QED  BY <2>2, <2>3
<1> QED  BY <1>1, <1>2 DEF Becomes

\* What the operation lock protects, task by task.
LEMMA CoreParts ==
  ASSUME IInv, Core, NEW t \in Task
  PROVE  /\ TypeOK /\ HoldsLock(t) /\ KnowsCall(t) /\ Path(t) /\ TimerPath /\ Settled
         /\ job[t].call \in 0..active /\ Timer \in Task
         /\ active = 0 \/ active \in Call
         /\ t = Timer => pc[t] \in {"idle", "end_record"} \cup Closing \cup Cleaning
BY TaskAssumption, DataAssumption DEF IInv, Core, Settled, TimerPath, TypeOK, Call

\* Every step of an operation has a shape.
LEMMA OperationShape ==
  ASSUME IInv, Core, NEW t \in Task, Operation(t)
  PROVE  TaskShape(t)
<1>0. /\ TypeOK /\ HoldsLock(t) /\ KnowsCall(t) /\ Path(t) /\ TimerPath /\ Settled
      /\ job[t].call \in 0..active /\ Timer \in Task
      /\ active = 0 \/ active \in Call
      /\ t = Timer => pc[t] \in {"idle", "end_record"} \cup Closing \cup Cleaning
  BY CoreParts
<1>a. Idle.op = "none" /\ Idle.call = 0 /\ 0 \in 0..active
  BY <1>0 DEF Idle, TypeOK
<1>b. ASSUME Return(t), UNCHANGED <<active, call, saved, flags, timer, leg, audio, crashes>>,
             pc[t] \in {"want_op", "want_reserve", "start_record", "answer_record", "dtmf_sent"},
             pc[t] = "start_record" => "save" \in Failing,
             pc[t] = "answer_record" => "record" \in Failing
      PROVE  Waits(t)
  BY <1>0, <1>a, <1>b, ReturnStays DEF Waits, Queued, Loose, Closing
<1>1. CASE StartRefused(t)
  BY <1>1, <1>b DEF StartRefused, Enter, coreVars, envVars, TaskShape
<1>2. CASE StartRecordFails(t)
  BY <1>2, <1>b DEF StartRecordFails, Fails, coreVars, TaskShape
<1>3. CASE AnswerRefused(t)
  BY <1>3, <1>b DEF AnswerRefused, Enter, coreVars, envVars, TaskShape
<1>4. CASE DtmfDone(t)
  BY <1>4, <1>b DEF DtmfDone, coreVars, envVars, TaskShape
<1>5. CASE Dtmf(t)
  <2>1. CASE Return(t)
    BY <1>5, <2>1, <1>b DEF Dtmf, Enter, coreVars, envVars, TaskShape
  <2>2. CASE ~Return(t)
    <3>1. Goto(t, "dtmf_sent") /\ Live /\ op.holder = t /\ pc[t] = "want_op"
      BY <1>5, <2>2 DEF Dtmf, Enter, OwnedBy, ValidCall
    <3> QED  BY <1>0, <1>5, <3>1, GotoStays DEF Dtmf, coreVars, envVars, TaskShape, Enters
  <2> QED  BY <2>1, <2>2
<1>6. CASE RingAgain(t)
  BY <1>0, <1>6, GotoStays DEF RingAgain, Enter, coreVars, envVars, TaskShape, Enters
<1>7. CASE AnswerWeb(t)
  BY <1>0, <1>7, GotoStays DEF AnswerWeb, Enter, ValidCall, coreVars, envVars, TaskShape, Enters
<1>8. CASE HangupNext(t)
  <2>1. /\ pc' = [pc EXCEPT ![t] = "hangup_op"] /\ job' = job /\ pc[t] = "want_hangup"
        /\ UNCHANGED <<active, call, saved, flags, timer, leg, audio, crashes>>
    BY <1>8 DEF HangupNext, coreVars, envVars
  <2>2. OthersStay(t) /\ pc'[t] = "hangup_op"  BY <1>0, <2>1 DEF OthersStay, Stay, TypeOK
  <2>3. t = Timer => job[t].op = "timeout" /\ job[t].call = timer
    BY <1>0, <2>1 DEF TimerPath, Closing
  <2> QED  BY <1>0, <2>1, <2>2, <2>3 DEF Waits, TaskShape, Queued, Loose, Closing
<1>9. CASE HangupRefused(t)
  <2>1. /\ pc' = [pc EXCEPT ![t] = "idle"] /\ job' = [job EXCEPT ![t] = Idle]
        /\ UNCHANGED <<active, call, saved, flags, leg, audio, crashes>>
        /\ timer' = IF t = Timer THEN 0 ELSE timer
        /\ ~MayHangup(job[t]) /\ pc[t] = "hangup_op"
    BY <1>9 DEF HangupRefused, envVars
  <2>2. OthersStay(t) /\ pc'[t] = "idle" /\ job'[t] = Idle
    BY <1>0, <2>1 DEF OthersStay, Stay, TypeOK
  <2>3. ~(Live /\ active = job[t].call /\ job[t].op # "client_hangup")
    BY <2>1 DEF MayHangup
  <2>4. t = Timer => job[t].op = "timeout" /\ job[t].call = timer
    BY <1>0, <2>1 DEF TimerPath, Closing
  <2> QED  BY <1>0, <1>a, <2>1, <2>2, <2>3, <2>4 DEF Waits, TaskShape, Queued, Loose, Closing
<1>10. CASE Start(t)
  <2> DEFINE in == job[t].op = "start_inbound"
             r == [dir |-> IF in THEN "inbound" ELSE "outbound",
                   front |-> IF in THEN Frontend ELSE IF job[t].inst = NoInst THEN "web" ELSE "app",
                   state |-> IF in THEN "ringing_cellular" ELSE "waiting_client",
                   owner |-> job[t].inst, due |-> "ahead", why |-> "none", over |-> FALSE]
  <2>1. op.holder = t /\ ~Live /\ Goto(t, "start_record") /\ active' = active + 1 /\ pc[t] = "want_op"
    BY <1>10 DEF Start, Enter
  <2>2. OthersStay(t) /\ pc'[t] = "start_record" /\ job'[t] = job[t]  BY <1>0, <2>1, GotoStays
  <2>3. active' \in Call  BY <1>10, <1>0, Bounds DEF Start, TypeOK, Call
  <2>4. call' = [call EXCEPT ![active'] = r]  BY <1>10, <2>1 DEF Start
  <2>5. call'[active'] = r /\ \A c \in Call \ {active'} : call'[c] = call[c]
    BY <1>0, <2>3, <2>4 DEF TypeOK
  <2>6. flags'.attached = FALSE /\ flags'.started = in  BY <1>10 DEF Start, NoFlags
  <2>7. /\ r.state \in {"ringing_cellular", "waiting_client"} /\ ~r.over
        /\ r.dir = "inbound" => r.front = Frontend /\ in
    OBVIOUS
  <2> HIDE DEF r, in
  <2>8. UNCHANGED <<saved, timer, leg, audio, crashes>>  BY <1>10 DEF Start, envVars
  <2> QED  BY <2>1, <2>2, <2>3, <2>5, <2>6, <2>7, <2>8 DEF Starts, TaskShape
<1>11. CASE StartRecord(t)
  <2>1. op.holder = t /\ Live  BY <1>0, <1>11 DEF StartRecord, HoldsLock, Locked
  <2>2. TimerStops(t) /\ pc'[t] = "idle" /\ job'[t] = Idle
    BY <1>0, <1>11 DEF StartRecord, TypeOK, TimerStops, Stay
  <2> QED  BY <1>11, <2>1, <2>2 DEF StartRecord, Arms, TaskShape, envVars
<1>12. CASE ClaimRecord(t)
  <2>1. op.holder = t /\ Live  BY <1>0, <1>12 DEF ClaimRecord, HoldsLock, Locked
  <2>2. CASE Fails("record") /\ Return(t) /\ UNCHANGED <<saved, timer>>
    BY <1>12, <1>b, <2>2 DEF ClaimRecord, Fails, TaskShape
  <2>3. CASE ~(Fails("record") /\ Return(t) /\ UNCHANGED <<saved, timer>>)
    <3>1. TimerStops(t) /\ pc'[t] = "idle" /\ job'[t] = Idle
      BY <1>0, <1>12, <2>3 DEF ClaimRecord, TypeOK, TimerStops, Stay
    <3> QED  BY <1>12, <2>1, <2>3, <3>1 DEF ClaimRecord, Arms, TaskShape
  <2> QED  BY <2>2, <2>3
<1>13. CASE Claim(t)
  <2> DEFINE r == [InState(call[active], "waiting_client", "none")
                     EXCEPT !.owner = job[t].inst, !.due = "ahead"]
  <2>1. op.holder = t /\ Live /\ Goto(t, "answer_record") /\ pc[t] = "want_op"
    BY <1>13 DEF Claim, Enter, ValidCall
  <2>2. OthersStay(t) /\ pc'[t] = "answer_record" /\ job'[t] = job[t]  BY <1>0, <2>1, GotoStays
  <2>3. active \in Call /\ call[active] \in CallRecord  BY <1>0, <2>1 DEF Live, TypeOK
  <2>4. call' = [call EXCEPT ![active] = r] /\ UNCHANGED <<active, saved, flags, timer, leg, audio, crashes>>
    BY <1>13 DEF Claim, envVars
  <2>5. call'[active] = r /\ \A c \in Call \ {active} : call'[c] = call[c]
    BY <1>0, <2>3, <2>4 DEF TypeOK
  <2>6. /\ r.state = "waiting_client" /\ r.dir = call[active].dir
        /\ r.front = call[active].front /\ r.over = call[active].over
    <3>1. InState(call[active], "waiting_client", "none") \in CallRecord
      BY <2>3, InStateType DEF CallState, LiveState
    <3>2. /\ InState(call[active], "waiting_client", "none").state = "waiting_client"
          /\ InState(call[active], "waiting_client", "none").dir = call[active].dir
          /\ InState(call[active], "waiting_client", "none").front = call[active].front
          /\ InState(call[active], "waiting_client", "none").over = call[active].over
      BY <2>3 DEF InState, CallRecord
    <3> QED  BY <3>1, <3>2 DEF CallRecord
  <2> HIDE DEF r
  <2>7. Becomes("waiting_client")  BY <2>1, <2>3, <2>4, <2>5, <2>6 DEF Becomes
  <2>8. call[active].state # "active"
    BY <1>13, <2>1 DEF Claim, IInv, MediaAgrees, Dir
  <2> QED  BY <2>1, <2>2, <2>4, <2>7, <2>8 DEF Claims, TaskShape
<1>14. CASE StopAudio(t)
  <2>1. op.holder = t  BY <1>0, <1>14 DEF StopAudio, HoldsLock, Locked
  <2>2. audio' = "off" \/ (audio' = audio /\ "audio_stop" \in Failing)
    BY <1>14 DEF StopAudio, Fails
  <2> QED  BY <1>0, <1>14, <2>1, <2>2, GotoStays DEF StopAudio, coreVars, Silences, TaskShape
<1>15. CASE StopLeg(t)
  <2>1. op.holder = t  BY <1>0, <1>15 DEF StopLeg, HoldsLock, Locked
  <2>2. leg' = "idle" \/ (leg' = leg /\ "hangup" \in Failing)
    BY <1>15 DEF StopLeg, Fails
  <2> QED  BY <1>0, <1>15, <2>1, <2>2, GotoStays DEF StopLeg, coreVars, HangsUp, TaskShape
<1>16. CASE Conclude(t)
  <2>1. /\ op.holder = t /\ Live /\ pc[t] = "cleaned" /\ flags' = NoFlags
        /\ UNCHANGED <<active, saved, timer, leg, audio, crashes>>
    BY <1>0, <1>16 DEF Conclude, HoldsLock, Locked, envVars
  <2>2. CASE /\ \E r : call' = Moved("ended", r) \/ call' = Moved("failed", r)
             /\ Goto(t, "end_record")
    <3>1. \E s \in Terminal : Becomes(s)  BY <1>0, <2>1, <2>2, MovedBecomes DEF Terminal
    <3> QED  BY <1>0, <2>1, <2>2, <3>1, GotoStays DEF Concludes, TaskShape
  <2>3. CASE /\ job[t].op \notin HangupOp /\ call[active].front = "app" /\ UNCHANGED call
             /\ IF t \in Sockets THEN CloseSocket(t, Release(op)) ELSE Return(t)
    <3>1. t \in Sockets /\ job[t].call = active
      BY <1>0, <2>1, <2>3 DEF Path, Cleaning
    <3> QED  BY <1>0, <2>1, <2>3, <3>1, CloseSocketStays DEF Concludes, TaskShape
  <2> QED  BY <1>16, <2>2, <2>3 DEF Conclude
<1>17. CASE EndRecord(t)
  <2>1. op.holder = t /\ ~Live  BY <1>0, <1>17 DEF EndRecord, HoldsLock, Locked, Path
  <2>2. OthersStay(t) /\ pc'[t] = "idle" /\ job'[t] = Idle
    <3>1. CASE job[t].op \in HangupOp
      BY <1>0, <1>17, <3>1 DEF EndRecord, TypeOK, OthersStay, Stay
    <3>2. CASE job[t].op \notin HangupOp
      BY <1>0, <1>17, <2>1, <3>2, CloseSocketStays, ReturnStays DEF EndRecord
    <3> QED  BY <3>1, <3>2
  <2>3. \/ saved' = [saved EXCEPT ![active] = call[active].state]
        \/ saved' = saved /\ "record" \in Failing
    BY <1>17 DEF EndRecord, Fails
  <2> QED  BY <1>17, <2>1, <2>2, <2>3 DEF EndRecord, Ends, TaskShape
<1>18. CASE Hangup(t)
  <2>1. /\ op.holder = t /\ Live /\ pc[t] = "hangup_op"
        /\ job[t].op \in HangupOp /\ MayHangup(job[t])
    BY <1>0, <1>18 DEF Hangup, MayHangup, KnowsCall
  <2> QED  BY <1>0, <1>18, <2>1, CleanupStays DEF Hangup, envVars, Cleans, TaskShape
<1>19. CASE Answered(t)
  <2>1. /\ op.holder = t /\ Live /\ flags.attached
        /\ pc[t] = "answer_leg" => call[active].front = "web"
    BY <1>0, <1>19 DEF Answered, HoldsLock, Locked, Path, KnowsCall
  <2>2. Becomes("active")  BY <1>0, <1>19, <2>1, MovedBecomes DEF Answered
  <2>3. /\ TimerStops(t) /\ job'[t] = job[t]
        /\ pc'[t] = IF pc[t] = "attach_leg" THEN "attach_record" ELSE "active_record"
    BY <1>0, <1>19 DEF Answered, Stopped, TypeOK, TimerStops, Stay
  <2> QED  BY <1>19, <2>1, <2>2, <2>3 DEF Answered, Answers, TaskShape
<1>20. CASE AnswerLegFails(t)
  <2>1. op.holder = t /\ Live /\ Dir("inbound")
    BY <1>0, <1>20 DEF AnswerLegFails, HoldsLock, Locked, KnowsCall
  <2>2. leg' = leg \/ leg' = "up"  BY <1>20 DEF AnswerLegFails
  <2> QED  BY <1>0, <1>20, <2>1, <2>2, CleanupStays DEF AnswerLegFails, Cleans, TaskShape
<1>21. CASE MediaRecord(t)
  <2>1. op.holder = t  BY <1>0, <1>21 DEF MediaRecord, HoldsLock, Locked
  <2>2. CASE pc[t] = "attach_record"
    <3>1. OthersStay(t) /\ pc'[t] = "stream" /\ job'[t] = job[t]
      BY <1>0, <1>21, <2>2 DEF MediaRecord, TypeOK, OthersStay, Stay
    <3> QED  BY <1>21, <2>1, <2>2, <3>1 DEF MediaRecord, envVars, Records, TaskShape
  <2>3. CASE pc[t] = "active_record"
    BY <1>0, <1>21, <2>1, <2>3, ReturnStays DEF MediaRecord, envVars, Records, TaskShape
  <2> QED  BY <1>21, <2>2, <2>3 DEF MediaRecord
<1>22. CASE MediaRecordFails(t)
  <2>1. op.holder = t /\ Live  BY <1>0, <1>22 DEF MediaRecordFails, HoldsLock, Locked
  <2> QED  BY <1>0, <1>22, <2>1, CleanupStays DEF MediaRecordFails, Fails, Cleans, TaskShape
<1>23. CASE Connected(t)
  <2>1. CASE Live /\ flags.attached
    <3>1. Becomes("active")  BY <1>0, <1>23, <2>1, MovedBecomes DEF Connected
    <3>2. TimerStops(t) /\ job'[t] = job[t] /\ pc'[t] = "connect_record" /\ pc[t] = "want_op"
      BY <1>0, <1>23, <2>1 DEF Connected, Enter, Stopped, TypeOK, TimerStops, Stay
    <3> QED  BY <1>23, <2>1, <3>1, <3>2 DEF Connected, Enter, envVars, Connects, TaskShape
  <2>2. CASE ~(Live /\ flags.attached)
    BY <1>23, <2>2, <1>b DEF Connected, Enter, envVars, TaskShape
  <2> QED  BY <2>1, <2>2
<1>24. CASE ConnectRecord(t)
  <2>1. op.holder = t  BY <1>0, <1>24 DEF ConnectRecord, HoldsLock, Locked
  <2>2. \/ saved' = [saved EXCEPT ![active] = call[active].state]
        \/ saved' = saved /\ "record" \in Failing
    BY <1>24 DEF ConnectRecord, Fails
  <2> QED  BY <1>0, <1>24, <2>1, <2>2, ReturnStays DEF ConnectRecord, Records, TaskShape
<1> QED
  BY <1>1, <1>2, <1>3, <1>4, <1>5, <1>6, <1>7, <1>8, <1>9, <1>10, <1>11, <1>12, <1>13, <1>14, <1>15,
     <1>16, <1>17, <1>18, <1>19, <1>20, <1>21, <1>22, <1>23, <1>24 DEF Operation

\* Every step of an audio socket has a shape.
LEMMA SocketShape ==
  ASSUME IInv, Core, NEW t \in Sockets, SocketStep(t) \/ Connect(t) \/ StreamEnds(t)
  PROVE  TaskShape(t)
<1>t. t \in Task /\ t # Timer  BY TaskAssumption
<1>0. /\ TypeOK /\ HoldsLock(t) /\ KnowsCall(t) /\ Path(t) /\ job[t].call \in 0..active
      /\ active = 0 \/ active \in Call
  BY <1>t, CoreParts
<1>a. Idle.op = "none" /\ Idle.call = 0 /\ 0 \in 0..active
  BY <1>0 DEF Idle, TypeOK
<1>b. ASSUME UNCHANGED <<active, call, saved, flags, timer, leg, audio, crashes>>, OthersStay(t),
             pc[t] \in {"accepted", "want_reserve", "pcm", "want_attach", "idle"},
             \/ pc'[t] = "want_reserve" /\ pc[t] = "accepted" /\ job'[t] = job[t]
             \/ pc'[t] = "want_attach" /\ pc[t] = "pcm" /\ job'[t] = job[t]
             \/ pc'[t] = "accepted" /\ job'[t].op = "socket" /\ job'[t].call = active
             \/ pc'[t] = "idle" /\ job'[t] = Idle
      PROVE  TaskShape(t)
  <2>1. job'[t].call \in 0..active
    BY <1>0, <1>a, <1>b DEF TypeOK
  <2> QED  BY <1>t, <1>0, <1>a, <1>b, <2>1 DEF Waits, TaskShape, Queued, Loose, Closing, Holding
<1>c. ASSUME UNCHANGED <<active, call, saved, flags, timer, leg, audio, crashes>>,
             pc[t] \in {"pcm", "want_attach", "stream"},
             NEW L, CloseSocket(t, L)
      PROVE  TaskShape(t)
  <2>1. /\ OthersStay(t)
        /\ IF Live /\ active = job[t].call
           THEN pc'[t] \in Closing /\ job'[t].op = "socket_closed" /\ job'[t].call = job[t].call
           ELSE pc'[t] = "idle" /\ job'[t] = Idle
    BY <1>t, <1>0, <1>c, CloseSocketStays
  <2>2. job'[t].call \in 0..active  BY <1>0, <1>a, <2>1
  <2> QED  BY <1>t, <1>0, <1>a, <1>c, <2>1, <2>2 DEF Waits, TaskShape, Queued, Loose, Closing, Holding
<1>1. CASE Run(t)
  <2>1. OthersStay(t) /\ pc'[t] = "want_reserve" /\ job'[t] = job[t] /\ pc[t] = "accepted"
    BY <1>t, <1>0, <1>1 DEF Run, TypeOK, OthersStay, Stay
  <2> QED  BY <1>1, <1>b, <2>1 DEF Run, coreVars, envVars
<1>2. CASE Reserve(t)
  <2>1. CASE OwnedBy(job[t].call, job[t].inst) /\ ~flags.reserved /\ ~flags.attached
    <3>1. /\ OthersStay(t) /\ pc'[t] \in {"pcm", "want_attach"} /\ job'[t] = job[t]
          /\ pc[t] = "want_reserve" /\ op.holder = t
      BY <1>t, <1>0, <1>2, <2>1 DEF Reserve, TypeOK, OthersStay, Stay
    <3>2. Live  BY <2>1 DEF OwnedBy, ValidCall
    <3>3. flags'.reserved /\ flags'.attached = flags.attached /\ flags'.started = flags.started
      BY <1>0, <1>2, <2>1 DEF Reserve, TypeOK, Flags
    <3> QED  BY <1>2, <2>1, <3>1, <3>2, <3>3 DEF Reserve, Reserves, TaskShape, envVars
  <2>2. CASE ~(OwnedBy(job[t].call, job[t].inst) /\ ~flags.reserved /\ ~flags.attached)
    <3>1. Return(t) /\ UNCHANGED flags  BY <1>2, <2>2 DEF Reserve
    <3> QED  BY <1>t, <1>0, <1>2, <1>b, <3>1, ReturnStays DEF Reserve, envVars
  <2> QED  BY <2>1, <2>2
<1>3. CASE FirstPCM(t)
  <2>1. CASE CloseSocket(t, op)
    BY <1>3, <1>c, <2>1 DEF FirstPCM, coreVars, envVars
  <2>2. CASE ~CloseSocket(t, op)
    <3>1. OthersStay(t) /\ pc'[t] = "want_attach" /\ job'[t] = job[t] /\ pc[t] = "pcm"
      BY <1>t, <1>0, <1>3, <2>2 DEF FirstPCM, TypeOK, OthersStay, Stay
    <3> QED  BY <1>3, <1>b, <3>1 DEF FirstPCM, coreVars, envVars
  <2> QED  BY <2>1, <2>2
<1>4. CASE Attach(t)
  <2>1. CASE OwnedBy(job[t].call, job[t].inst) /\ ~flags.attached
    <3>1. Goto(t, "audio_start") /\ Live /\ job[t].call = active /\ op.holder = t /\ pc[t] = "want_attach"
      BY <1>4, <2>1 DEF Attach, OwnedBy, ValidCall
    <3> QED  BY <1>t, <1>0, <1>4, <2>1, <3>1, GotoStays
             DEF Attach, Enters, TaskShape, coreVars, envVars
  <2>2. CASE ~(OwnedBy(job[t].call, job[t].inst) /\ ~flags.attached)
    BY <1>4, <1>c, <2>2 DEF Attach, coreVars, envVars
  <2> QED  BY <2>1, <2>2
<1>5. CASE AudioStarted(t)
  <2>1. op.holder = t /\ Live /\ pc[t] = "audio_start" /\ UNCHANGED <<active, call, saved, timer, leg, crashes>>
    BY <1>0, <1>5 DEF AudioStarted, HoldsLock, Locked
  <2>2. /\ flags'.attached /\ flags'.reserved = flags.reserved
        /\ flags'.started = (flags.started \/ Dir("outbound"))
    BY <1>0, <1>5 DEF AudioStarted, TypeOK, Flags, Dir
  <2>3. Dir("inbound") \/ Dir("outbound")
    BY <1>0, <2>1 DEF TypeOK, CallRecord, Live, Dir
  <2>4. /\ OthersStay(t) /\ job'[t] = job[t]
        /\ \/ pc'[t] = "dial" /\ Dir("outbound")
           \/ pc'[t] \in {"attach_leg", "stream"} /\ ~Dir("outbound")
    BY <1>t, <1>0, <1>5 DEF AudioStarted, Goto, Dir, TypeOK, OthersStay, Stay
  <2> QED  BY <1>5, <2>1, <2>2, <2>3, <2>4 DEF AudioStarted, Opens, TaskShape
<1>6. CASE AudioStartFails(t)
  <2>1. op.holder = t /\ Live  BY <1>0, <1>6 DEF AudioStartFails, HoldsLock, Locked
  <2> QED  BY <1>t, <1>0, <1>6, <2>1, CleanupStays DEF AudioStartFails, Cleans, TaskShape
<1>7. CASE DialFails(t)
  <2>1. op.holder = t /\ Live  BY <1>0, <1>7 DEF DialFails, HoldsLock, Locked
  <2>2. leg' = leg \/ leg' = "dialing"  BY <1>7 DEF DialFails
  <2> QED  BY <1>t, <1>0, <1>7, <2>1, <2>2, CleanupStays DEF DialFails, Cleans, TaskShape
<1>8. CASE Dial(t)
  <2>1. op.holder = t /\ Live /\ Waiting
    BY <1>0, <1>8 DEF Dial, HoldsLock, KnowsCall, Locked
  <2>2. Becomes("waiting_cellular")  BY <1>0, <1>8, <2>1, MovedBecomes DEF Dial
  <2> QED  BY <1>t, <1>0, <1>8, <2>1, <2>2, GotoStays DEF Dial, Waiting, Dials, TaskShape
<1>9. CASE Connect(t)
  <2>1. /\ OthersStay(t) /\ pc'[t] = "accepted" /\ pc[t] = "idle"
        /\ job'[t].op = "socket" /\ job'[t].call = active
    BY <1>t, <1>0, <1>9 DEF Connect, TypeOK, OthersStay, Stay
  <2> QED  BY <1>9, <1>b, <2>1 DEF Connect, coreVars, envVars
<1>10. CASE StreamEnds(t)
  BY <1>10, <1>c DEF StreamEnds, coreVars, envVars
<1> QED  BY <1>1, <1>2, <1>3, <1>4, <1>5, <1>6, <1>7, <1>8, <1>9, <1>10 DEF SocketStep

\* A restart forgets every task, and the calls of the dead process are over.
LEMMA RestartShape ==
  ASSUME IInv, Restart
  PROVE  Restarts
<1>0. TypeOK /\ ActiveExists  BY DEF IInv
<1>1. call' = [c \in Call |-> IF call[c].state \in LiveState THEN Recovered(call[c]) ELSE call[c]]
      /\ UNCHANGED <<active, leg>>
  BY DEF Restart
<1>2. \A r \in CallRecord : Recovered(r).state = "ended"
  BY EndedType DEF Recovered, InState, CallRecord
<1>3. \A c \in Call : call'[c].state = IF call[c].state \in LiveState THEN "ended" ELSE call[c].state
  BY <1>0, <1>1, <1>2 DEF TypeOK
<1>4. active = 0 \/ active \in Call  BY <1>0 DEF TypeOK, Call
<1>5. ~Live'
  <2> SUFFICES ASSUME active # 0 PROVE call'[active].state \in Terminal  BY <1>1 DEF Live
  <2>1. call[active].state \in CallState \ {"none"}
    BY <1>0, <1>4 DEF ActiveExists, TypeOK, CallRecord
  <2> QED  BY <1>3, <1>4, <2>1 DEF CallState, Terminal
<1>6. \A c \in Call : saved'[c] = IF saved[c] \in LiveState THEN "ended" ELSE saved[c]
  BY <1>0 DEF Restart, TypeOK
<1>7. \A t \in Task : pc'[t] = "idle" /\ job'[t] = Idle  BY DEF Restart
<1> QED  BY <1>1, <1>3, <1>5, <1>6, <1>7 DEF Restart, Restarts

\* Requests, callbacks and polls only wait; the network and the clock touch no task.
LEMMA OutsideShape ==
  ASSUME IInv, Core,
         (\E t \in Clients : Request(t)) \/ Callback \/ Poll \/ PollRead \/ TimerFires \/ Environment
  PROVE  (\E t \in Task : TaskShape(t)) \/ World \/ Restarts
<1>t. /\ Modem \in Task /\ Poller \in Task /\ Timer \in Task /\ Modem # Timer /\ Poller # Timer
      /\ Clients \subseteq Task /\ Timer \notin Clients
  BY TaskAssumption
<1>0. TypeOK /\ Settled  BY DEF IInv, Core
<1>a. /\ Idle.op = "none" /\ Idle.call = 0 /\ 0 \in 0..active
      /\ \A t \in Task : job[t].call \in 0..active
  BY <1>0 DEF Idle, TypeOK, Settled
<1>b. ASSUME NEW t \in Task \ {Timer}, OthersStay(t), pc[t] \in {"idle", "poll_read"},
             UNCHANGED <<active, call, saved, flags, timer, leg, audio, crashes>>,
             pc'[t] \in {"idle", "want_op", "poll_read"} \cup Closing,
             job'[t].op # "socket_closed", job'[t].call \in 0..active
      PROVE  Waits(t)
  BY <1>b DEF Waits, Queued, Loose, Closing
<1>1. ASSUME NEW t \in Clients, Request(t) PROVE TaskShape(t)
  <2>0. t \in Task \ {Timer}  BY <1>t
  <2>1. PICK j :
          /\ j.op # "socket_closed" /\ j.call \in 0..active
          /\ \/ EnterHangup(t, j, op)
             \/ job' = [job EXCEPT ![t] = j] /\ pc' = [pc EXCEPT ![t] = "want_op"]
    BY <1>1 DEF Request
  <2>2. OthersStay(t) /\ pc'[t] \in {"want_op"} \cup Closing /\ job'[t] = j
    <3>1. CASE EnterHangup(t, j, op)  BY <1>0, <2>0, <3>1, EnterHangupStays
    <3>2. CASE ~EnterHangup(t, j, op)
      BY <1>0, <2>0, <2>1, <3>2 DEF TypeOK, OthersStay, Stay
    <3> QED  BY <3>1, <3>2
  <2> QED  BY <1>1, <1>b, <2>0, <2>1, <2>2 DEF Request, coreVars, envVars, TaskShape
<1>2. CASE Callback
  <2>1. /\ OthersStay(Modem) /\ pc'[Modem] \in {"want_op"} \cup Closing
        /\ job'[Modem].op # "socket_closed" /\ job'[Modem].call = 0
    <3>1. CASE Head(urcs) = "disconnected"
      BY <1>0, <1>t, <1>2, <3>1, EnterHangupStays DEF Callback
    <3>2. CASE Head(urcs) # "disconnected"
      BY <1>0, <1>t, <1>2, <3>2 DEF Callback, TypeOK, OthersStay, Stay
    <3> QED  BY <3>1, <3>2
  <2> QED  BY <1>a, <1>t, <1>2, <1>b, <2>1 DEF Callback, coreVars, TaskShape
<1>3. CASE Poll
  <2>1. /\ OthersStay(Poller) /\ pc'[Poller] = "poll_read"
        /\ job'[Poller].op # "socket_closed" /\ job'[Poller].call = 0
    BY <1>0, <1>t, <1>3 DEF Poll, TypeOK, OthersStay, Stay
  <2> QED  BY <1>a, <1>t, <1>3, <1>b, <2>1 DEF Poll, coreVars, envVars, TaskShape
<1>4. CASE PollRead
  <2>1. /\ OthersStay(Poller) /\ pc'[Poller] \in {"idle", "want_op"}
        /\ job'[Poller].op # "socket_closed" /\ job'[Poller].call \in 0..active
    <3>1. CASE leg = "up"
      <4>1. /\ job' = [job EXCEPT ![Poller] = [job[Poller] EXCEPT !.op = "connected"]]
            /\ pc' = [pc EXCEPT ![Poller] = "want_op"]
        BY <1>4, <3>1 DEF PollRead
      <4>2. job[Poller] \in Job  BY <1>0, <1>t DEF TypeOK
      <4>3. job'[Poller] = [job[Poller] EXCEPT !.op = "connected"]  BY <1>0, <1>t, <4>1 DEF TypeOK
      <4>4. job'[Poller].op = "connected" /\ job'[Poller].call = job[Poller].call
        BY <4>2, <4>3 DEF Job
      <4> QED  BY <1>0, <1>a, <1>t, <4>1, <4>4 DEF TypeOK, OthersStay, Stay
    <3>2. CASE leg # "up"
      BY <1>0, <1>a, <1>t, <1>4, <3>2 DEF PollRead, TypeOK, OthersStay, Stay
    <3> QED  BY <3>1, <3>2
  <2> QED  BY <1>a, <1>t, <1>4, <1>b, <2>1 DEF PollRead, coreVars, envVars, TaskShape
<1>5. CASE TimerFires
  <2> DEFINE j == [op |-> "timeout", call |-> timer, inst |-> NoInst]
  <2>1. EnterHangup(Timer, j, op) /\ UNCHANGED <<coreVars, envVars>> /\ pc[Timer] = "idle"
    BY <1>5 DEF TimerFires
  <2>2. OthersStay(Timer) /\ pc'[Timer] \in Closing /\ job'[Timer] = j
    BY <1>0, <1>t, <2>1, EnterHangupStays
  <2>3. job'[Timer].op = "timeout" /\ job'[Timer].call = timer  BY <2>2
  <2>4. timer \in 0..active  BY <1>0 DEF Settled, TypeOK
  <2> HIDE DEF j
  <2> QED  BY <1>t, <2>1, <2>2, <2>3, <2>4 DEF coreVars, envVars, Waits, TaskShape, Queued, Loose, Closing
<1>6. CASE Expire
  <2>1. SameCalls  BY <1>0, <1>6, ExpireEffect
  <2>2. active # 0 => call'[active].over = call[active].over
    <3>1. call' = [call EXCEPT ![active] = [call[active] EXCEPT !.due = "past"]]  BY <1>6 DEF Expire
    <3>2. active \in Call  BY <1>0, <1>6 DEF Expire, TypeOK, Live, Call
    <3>3. call[active] \in CallRecord  BY <1>0, <3>2 DEF TypeOK
    <3>4. call'[active] = [call[active] EXCEPT !.due = "past"]  BY <1>0, <3>1, <3>2 DEF TypeOK
    <3> QED  BY <3>3, <3>4 DEF CallRecord
  <2> QED  BY <1>6, <2>1, <2>2 DEF Expire, envVars, World
<1>7. CASE RemoteCalls \/ RingsAgain \/ RemoteAnswers \/ RemoteHangsUp \/ OtherIndicator
  BY <1>7 DEF RemoteCalls, RingsAgain, RemoteAnswers, RemoteHangsUp, OtherIndicator,
              coreVars, World, SameCalls
<1>8. CASE Restart
  BY <1>8, RestartShape
<1> QED  BY <1>1, <1>2, <1>3, <1>4, <1>5, <1>6, <1>7, <1>8, <1>t DEF Environment

\* Every step has a shape.
LEMMA Shape ==
  ASSUME IInv, Core, [Next]_vars
  PROVE  (\E t \in Task : TaskShape(t)) \/ World \/ Restarts
<1>1. CASE UNCHANGED vars
  BY <1>1 DEF vars, World, SameCalls
<1>2. CASE Next
  <2>1. Sockets \subseteq Task  BY TaskAssumption
  <2> QED  BY <1>2, <2>1, OperationShape, SocketShape, OutsideShape DEF Next
<1> QED  BY <1>1, <1>2

-----------------------------------------------------------------------------
(* Core is inductive                                                       *)

Owned(t) == op.holder = t /\ \A u \in Task \ {t} : pc[u] \notin Locked
Quietly(t) == \A u \in Task \ {t} : Stay(u) \/ (u = Timer /\ pc'[u] = "idle" /\ job'[u] = Idle)

\* Every shape but Waits is taken with the operation lock, so nobody else is
\* inside an operation; no shape moves another task than t and the timer.
LEMMA ShapeOwned ==
  ASSUME IInv, NEW t \in Task, TaskShape(t)
  PROVE  (Waits(t) \/ Owned(t)) /\ Quietly(t)
<1>1. \A u \in Task : HoldsLock(u)  BY DEF IInv
<1>2. Waits(t) \/ Owned(t)
  BY <1>1 DEF HoldsLock, Owned, TaskShape, Enters, Cleans, Starts, Arms, Claims, Silences, HangsUp,
     Concludes, Ends, Answers, Records, Connects, Reserves, Opens, Dials
<1>3. OthersStay(t) \/ TimerStops(t)
  BY DEF TaskShape, Waits, Enters, Cleans, Starts, Arms, Claims, Silences, HangsUp,
     Concludes, Ends, Answers, Records, Connects, Reserves, Opens, Dials
<1> QED  BY <1>2, <1>3 DEF OthersStay, TimerStops, Quietly

\* Path, for the task that takes the step.
LEMMA PathOwn ==
  ASSUME IInv, Core, NEW t \in Task, TaskShape(t)
  PROVE  Path(t)'
<1>0. TypeOK /\ HoldsLock(t) /\ KnowsCall(t) /\ Path(t) /\ (active = 0 \/ active \in Call)
  BY CoreParts
<1> USE <1>0
<1>1. CASE Waits(t)
  BY <1>1 DEF Waits, Path, Queued, Loose, Cleaning, AttachPc
<1>2. CASE Enters(t)
  BY <1>2 DEF Enters, Path, Cleaning, AttachPc
<1>3. CASE Cleans(t)
  <2>1. /\ pc'[t] \in Cleaning /\ active \in Call /\ call'[active].front = call[active].front
        /\ timer' = 0 /\ call'[active].over
    BY <1>3 DEF Cleans, Cleaning, SameCalls, Live
  <2>2. job'[t].op \notin HangupOp /\ call'[active].front = "app" => t \in Sockets /\ job'[t].call = active
    BY <1>3, <2>1 DEF Cleans, Path, KnowsCall, AttachPc
  <2> QED  BY <1>3, <2>1, <2>2 DEF Cleans, Path, Cleaning, AttachPc
<1>4. CASE Starts(t)
  BY <1>4 DEF Starts, Path, Cleaning, AttachPc
<1>5. CASE Arms(t) \/ Ends(t)
  BY <1>5 DEF Arms, Ends, Path, Cleaning, AttachPc
<1>6. CASE Claims(t)
  BY <1>6 DEF Claims, Becomes, Path, Cleaning, AttachPc
<1>7. CASE Silences(t)
  BY <1>7 DEF Silences, Path, Cleaning, AttachPc
<1>8. CASE HangsUp(t)
  BY <1>8 DEF HangsUp, Path, Cleaning, AttachPc
<1>9. CASE Concludes(t)
  BY <1>9 DEF Concludes, Becomes, Path, Cleaning, AttachPc, Closing, Live
<1>10. CASE Answers(t)
  BY <1>10 DEF Answers, Becomes, Path, Cleaning, AttachPc
<1>11. CASE Records(t)
  BY <1>11 DEF Records, Path, Cleaning, AttachPc
<1>12. CASE Connects(t)
  BY <1>12 DEF Connects, Path, Cleaning, AttachPc
<1>13. CASE Reserves(t)
  BY <1>13 DEF Reserves, Path, Cleaning, AttachPc
<1>14. CASE Opens(t)
  BY <1>14 DEF Opens, Path, Cleaning, AttachPc
<1>15. CASE Dials(t)
  BY <1>15 DEF Dials, Becomes, Path, Cleaning, AttachPc
<1> QED  BY <1>1, <1>2, <1>3, <1>4, <1>5, <1>6, <1>7, <1>8, <1>9, <1>10, <1>11, <1>12, <1>13, <1>14,
            <1>15 DEF TaskShape

\* Path, for every task.
LEMMA PathKept ==
  ASSUME IInv, Core, NEW t \in Task, TaskShape(t)
  PROVE  \A u \in Task : Path(u)'
<1> SUFFICES ASSUME NEW u \in Task, u # t PROVE Path(u)'  BY PathOwn
<1>0. Path(u)  BY DEF Core
<1>1. CASE pc'[u] = "idle"
  BY <1>1 DEF Path, Cleaning, AttachPc
<1>2. CASE Stay(u) /\ Waits(t)
  BY <1>0, <1>2 DEF Stay, Waits, Path, Live
<1>3. CASE Stay(u) /\ Owned(t)
  BY <1>0, <1>3 DEF Stay, Owned, Path, Locked, Cleaning, AttachPc
<1> QED  BY <1>1, <1>2, <1>3, ShapeOwned DEF Quietly

\* TimerPath: the timer task is stopped whenever the timer is armed anew, and
\* its own steps are those of hangup().
LEMMA TimerKept ==
  ASSUME IInv, Core, NEW t \in Task, TaskShape(t)
  PROVE  TimerPath'
<1>0. /\ TimerPath /\ Timer \in Task
      /\ t = Timer => pc[t] \in {"idle", "end_record"} \cup Closing \cup Cleaning
  BY CoreParts
<1> USE <1>0 DEF TimerPath
<1>1. CASE t # Timer
  <2>1. CASE Stay(Timer) /\ timer' = timer  BY <2>1 DEF Stay
  <2>2. CASE pc'[Timer] = "idle"  BY <2>2, IdleType DEF Closing
  <2>3. (Stay(Timer) /\ timer' = timer) \/ pc'[Timer] = "idle"
    BY <1>1 DEF TaskShape, Waits, Enters, Cleans, Starts, Arms, Claims, Silences, HangsUp,
       Concludes, Ends, Answers, Records, Connects, Reserves, Opens, Dials, OthersStay, TimerStops
  <2> QED  BY <2>1, <2>2, <2>3
<1>2. CASE t = Timer
  <2>1. \/ Waits(t) \/ Cleans(t) \/ Silences(t) \/ HangsUp(t) \/ Concludes(t) \/ Ends(t)
    BY <1>2 DEF TaskShape, Enters, Starts, Arms, Claims, Answers, Records, Connects, Reserves,
       Opens, Dials, Closing, Cleaning
  <2>2. CASE Waits(t)  BY <1>2, <2>2 DEF Waits, Closing
  <2>3. CASE Cleans(t)  BY <1>2, <2>3 DEF Cleans, Closing, Cleaning
  <2>4. CASE Silences(t) \/ HangsUp(t)  BY <1>2, <2>4 DEF Silences, HangsUp, Closing, Cleaning
  <2>5. CASE Concludes(t) \/ Ends(t)  BY <1>2, <2>5 DEF Concludes, Ends, Closing, Cleaning, HangupOp
  <2> QED  BY <2>1, <2>2, <2>3, <2>4, <2>5
<1> QED  BY <1>1, <1>2

\* Settled: the end of a call clears the flags after cleanup stopped the timer.
LEMMA SettledKept ==
  ASSUME IInv, Core, NEW t \in Task, TaskShape(t)
  PROVE  Settled'
<1>0. /\ TypeOK /\ Path(t) /\ Settled /\ (active = 0 \/ active \in Call) /\ active \in Nat
      /\ \A u \in Task : job[u].call \in 0..active
  BY CoreParts DEF Settled, TypeOK
<1>a. Idle.call = 0  BY DEF Idle
<1>1. active' = active \/ (Starts(t) /\ active' = active + 1)
  BY DEF TaskShape, Waits, Enters, Cleans, Starts, Arms, Claims, Silences, HangsUp, Becomes,
     Concludes, Ends, Answers, Records, Connects, Reserves, Opens, Dials
<1>2. job'[t] = job[t] \/ job'[t] = Idle \/ job'[t].call \in 0..active
  BY <1>0 DEF TaskShape, Waits, Enters, Cleans, Starts, Arms, Claims, Silences, HangsUp,
     Concludes, Ends, Answers, Records, Connects, Reserves, Opens, Dials
<1>3. \A u \in Task : job'[u].call \in 0..active'
  <2> TAKE u \in Task
  <2>1. job'[u] = job[u] \/ job'[u] = Idle \/ job'[u].call \in 0..active
    BY <1>2, ShapeOwned DEF Quietly, Stay
  <2>2. job'[u].call \in 0..active  BY <1>0, <1>a, <2>1
  <2> QED  BY <1>0, <1>1, <2>2
<1>4. timer' \in {0, active'} /\ (~Live' => flags' = NoFlags /\ timer' = 0)
  <2> USE <1>0 DEF Settled
  <2>1. CASE Waits(t)  BY <2>1 DEF Waits, Live
  <2>2. CASE Enters(t)  BY <2>2 DEF Enters, Live
  <2>3. CASE Cleans(t)  BY <2>3 DEF Cleans, Live, SameCalls
  <2>4. CASE Starts(t)  BY <2>4, Bounds DEF Starts, Live, Terminal
  <2>5. CASE Arms(t)  BY <2>5 DEF Arms, Live
  <2>6. CASE Claims(t)  BY <2>6 DEF Claims, Becomes, Live, Terminal
  <2>7. CASE Silences(t) \/ HangsUp(t) \/ Ends(t)  BY <2>7 DEF Silences, HangsUp, Ends, Live
  <2>8. CASE Concludes(t)  BY <2>8 DEF Concludes, Becomes, Path, Cleaning
  <2>9. CASE Answers(t)  BY <2>9 DEF Answers, Becomes, Live, Terminal
  <2>10. CASE Records(t)  BY <2>10 DEF Records, Live
  <2>11. CASE Connects(t)  BY <2>11 DEF Connects, Becomes, Live, Terminal
  <2>12. CASE Reserves(t)  BY <2>12 DEF Reserves, Live
  <2>13. CASE Opens(t)  BY <2>13 DEF Opens, Live
  <2>14. CASE Dials(t)  BY <2>14 DEF Dials, Becomes, Live, Terminal
  <2> QED  BY <2>1, <2>2, <2>3, <2>4, <2>5, <2>6, <2>7, <2>8, <2>9, <2>10, <2>11, <2>12, <2>13, <2>14
           DEF TaskShape
<1> QED  BY <1>3, <1>4 DEF Settled

\* A socket becomes one that uses the call only by reserving it, and the
\* reservation is given back only when the call is over.
LEMMA ReservedKept ==
  ASSUME IInv, Core, NEW t \in Task, TaskShape(t)
  PROVE  Reserved'
<1>0. /\ TypeOK /\ HoldsLock(t) /\ Path(t) /\ Settled /\ (active = 0 \/ active \in Call)
      /\ active \in Nat /\ \A u \in Task : job[u].call \in 0..active
  BY CoreParts DEF Settled, TypeOK
<1>a. Reserved /\ Sockets \subseteq Task /\ Timer \notin Sockets  BY TaskAssumption DEF Core
<1>b. SUFFICES \/ flags'.reserved = flags.reserved /\ \A s \in Sockets : Uses(s)' => Uses(s)
               \/ \A s \in Sockets : ~Uses(s)'
               \/ Reserves(t)
  <2>1. CASE Reserves(t)
    <3>1. \A s \in Sockets : ~Uses(s)  BY <1>a, <2>1 DEF Reserves, Reserved
    <3>2. ASSUME NEW s \in Sockets, s # t PROVE ~Uses(s)'
      BY <1>a, <2>1, <3>1, <3>2 DEF Reserves, OthersStay, Stay, Uses, Holding, Live
    <3> QED  BY <2>1, <3>2 DEF Reserves, Reserved
  <2> QED  BY <1>a, <2>1 DEF Reserved
<1>c. \A s \in Sockets \ {t} : Stay(s)  BY <1>a, ShapeOwned DEF Quietly
<1>d. ASSUME Live' => Live, UNCHANGED active,
             active # 0 => call'[active].over = call[active].over, Uses(t)' => Uses(t)
      PROVE  \A s \in Sockets : Uses(s)' => Uses(s)
  BY <1>c, <1>d DEF Uses, Stay, Holding, Live
<1>1. CASE Waits(t)
  <2>1. Uses(t)' => Uses(t)
    BY <1>1 DEF Waits, Uses, Holding, Live, Queued, Loose
  <2> QED  BY <1>1, <1>d, <2>1 DEF Waits, Live
<1>2. CASE Enters(t)
  <2>1. Uses(t)' => Uses(t)  BY <1>2 DEF Enters, Uses, Holding, Live
  <2> QED  BY <1>2, <1>d, <2>1 DEF Enters
<1>3. CASE Cleans(t)  BY <1>3 DEF Cleans, Uses
<1>4. CASE Starts(t)
  <2>1. \A s \in Sockets : job'[s].call # active'
    <3> TAKE s \in Sockets
    <3>1. job'[s] = job[s] /\ job[s].call \in 0..active  BY <1>0, <1>a, <1>c, <1>4 DEF Starts, Stay
    <3> QED  BY <1>0, <1>4, <3>1 DEF Starts
  <2> QED  BY <2>1 DEF Uses
<1>5. CASE Arms(t)
  <2>1. Uses(t)' => Uses(t)  BY <1>5 DEF Arms, Uses, Holding, Live, Idle
  <2> QED  BY <1>5, <1>d, <2>1 DEF Arms
<1>6. CASE Claims(t)
  <2>1. Uses(t)' => Uses(t)  BY <1>6 DEF Claims, Becomes, Uses, Holding
  <2> QED  BY <1>6, <1>d, <2>1 DEF Claims, Becomes
<1>7. CASE Silences(t)
  <2>1. Uses(t)' => Uses(t)  BY <1>7 DEF Silences, Uses, Holding, Live
  <2> QED  BY <1>7, <1>d, <2>1 DEF Silences, Live
<1>8. CASE HangsUp(t)
  <2>1. Uses(t)' => Uses(t)  BY <1>8 DEF HangsUp, Uses, Holding, Live
  <2> QED  BY <1>8, <1>d, <2>1 DEF HangsUp, Live
<1>9. CASE Concludes(t)
  BY <1>0, <1>9 DEF Concludes, Becomes, Uses, Live, Path, Cleaning
<1>10. CASE Ends(t)  BY <1>0, <1>10 DEF Ends, Uses, Live, Path
<1>11. CASE Answers(t)
  <2>1. Uses(t)' => Uses(t)  BY <1>11 DEF Answers, Becomes, Uses, Holding
  <2> QED  BY <1>11, <1>d, <2>1 DEF Answers, Becomes
<1>12. CASE Records(t)
  <2>1. Uses(t)' => Uses(t)  BY <1>12 DEF Records, Uses, Holding, Live, Idle
  <2> QED  BY <1>12, <1>d, <2>1 DEF Records, Live
<1>13. CASE Connects(t)
  <2>1. Uses(t)' => Uses(t)  BY <1>13 DEF Connects, Becomes, Uses, Holding
  <2> QED  BY <1>13, <1>d, <2>1 DEF Connects, Becomes
<1>14. CASE Opens(t)
  <2>1. Uses(t)' => Uses(t)  BY <1>14 DEF Opens, Uses, Holding, Live
  <2> QED  BY <1>14, <1>d, <2>1 DEF Opens
<1>15. CASE Dials(t)
  <2>1. Uses(t)' => Uses(t)  BY <1>15 DEF Dials, Becomes, Uses, Holding
  <2> QED  BY <1>15, <1>d, <2>1 DEF Dials, Becomes
<1> QED  BY <1>1, <1>2, <1>3, <1>4, <1>5, <1>6, <1>7, <1>8, <1>9, <1>10, <1>11, <1>12, <1>13, <1>14,
            <1>15 DEF TaskShape

\* Attached audio keeps a socket that will end it: each step of that socket
\* leads to another such place, and the flag is cleared at the end of a cleanup.
LEMMA AttachedKept ==
  ASSUME IInv, Core, NEW t \in Task, TaskShape(t)
  PROVE  AttachedBy'
<1>0. TypeOK /\ HoldsLock(t) /\ Path(t) /\ Settled /\ AttachedBy  BY CoreParts DEF Core
<1>a. Sockets \subseteq Task /\ Timer \notin Sockets  BY TaskAssumption
<1>b. \A s \in Sockets \ {t} : Stay(s)  BY <1>a, ShapeOwned DEF Quietly
<1>c. ASSUME Owned(t), pc[t] \notin Cleaning, UNCHANGED <<active, audio>>,
             flags'.attached => flags.attached, Keeps(t) => Keeps(t)'
      PROVE  AttachedBy'
  <2> SUFFICES ASSUME flags'.attached PROVE audio' = "on" /\ \E s \in Sockets : Keeps(s)'
    BY DEF AttachedBy
  <2>1. ~CleanupRuns  BY <1>c DEF CleanupRuns, Owned, Locked, Cleaning
  <2>2. PICK s \in Sockets : Keeps(s) /\ audio = "on"  BY <1>0, <1>c, <2>1 DEF AttachedBy
  <2>3. Keeps(s)'  BY <1>b, <1>c, <2>2 DEF Keeps, Stay
  <2> QED  BY <1>c, <2>2, <2>3
<1>d. Waits(t) \/ Owned(t)  BY ShapeOwned
<1>1. CASE Waits(t)
  <2> SUFFICES ASSUME flags.attached PROVE CleanupRuns' \/ (audio = "on" /\ \E s \in Sockets : Keeps(s)')
    BY <1>1 DEF AttachedBy, Waits
  <2>1. Live  BY <1>0 DEF Settled, NoFlags
  <2>2. CASE CleanupRuns
    <3>1. PICK u \in Task : pc[u] \in Cleaning  BY <2>2 DEF CleanupRuns
    <3>2. pc'[u] = pc[u]  BY <1>1, <3>1 DEF Waits, OthersStay, Stay, Cleaning, Queued, Loose
    <3> QED  BY <3>1, <3>2 DEF CleanupRuns
  <2>3. CASE ~CleanupRuns
    <3>1. PICK s \in Sockets : Keeps(s) /\ audio = "on"  BY <1>0, <2>3 DEF AttachedBy
    <3>2. Keeps(s)'
      BY <1>1, <1>b, <2>1, <3>1 DEF Keeps, Stay, Waits, Queued, Loose, Closing
    <3> QED  BY <3>1, <3>2
  <2> QED  BY <2>2, <2>3
<1>2. CASE Enters(t) /\ ~Waits(t)
  BY <1>2, <1>c, <1>d DEF Enters, Keeps, Closing, Cleaning
<1>3. CASE Cleans(t)  BY <1>3 DEF Cleans, AttachedBy, CleanupRuns, Cleaning
<1>4. CASE Starts(t)  BY <1>4 DEF Starts, AttachedBy
<1>5. CASE Arms(t) /\ ~Waits(t)
  BY <1>5, <1>c, <1>d DEF Arms, Keeps, Closing, Cleaning
<1>6. CASE Claims(t) /\ ~Waits(t)
  BY <1>6, <1>c, <1>d DEF Claims, Becomes, Keeps, Closing, Cleaning
<1>7. CASE Silences(t) \/ HangsUp(t)
  BY <1>7 DEF Silences, HangsUp, AttachedBy, CleanupRuns, Cleaning
<1>8. CASE Concludes(t)  BY <1>8 DEF Concludes, AttachedBy, NoFlags
<1>9. CASE Ends(t)  BY <1>0, <1>9 DEF Ends, Path, Settled, NoFlags, AttachedBy
<1>10. CASE Answers(t) /\ ~Waits(t)
  BY <1>10, <1>c, <1>d DEF Answers, Becomes, Keeps, Closing, Cleaning
<1>11. CASE Records(t) /\ ~Waits(t)
  BY <1>11, <1>c, <1>d DEF Records, Keeps, Closing, Cleaning
<1>12. CASE Connects(t) /\ ~Waits(t)
  BY <1>12, <1>c, <1>d DEF Connects, Becomes, Keeps, Closing, Cleaning
<1>13. CASE Reserves(t) /\ ~Waits(t)
  BY <1>13, <1>c, <1>d DEF Reserves, Keeps, Closing, Cleaning
<1>14. CASE Opens(t)
  <2>1. Keeps(t)' /\ t \in Sockets  BY <1>0, <1>14 DEF Opens, Keeps, Path, AttachPc
  <2> QED  BY <1>14, <2>1 DEF Opens, AttachedBy
<1>15. CASE Dials(t) /\ ~Waits(t)
  BY <1>15, <1>c, <1>d DEF Dials, Becomes, Keeps, Closing, Cleaning
<1> QED  BY <1>1, <1>2, <1>3, <1>4, <1>5, <1>6, <1>7, <1>8, <1>9, <1>10, <1>11, <1>12, <1>13, <1>14,
            <1>15 DEF TaskShape

\* Routed: no step changes the front end of a call.
LEMMA RoutedKept ==
  ASSUME IInv, Core, NEW t \in Task, TaskShape(t)
  PROVE  Routed'
<1>0. Routed /\ (active = 0 \/ active \in Call)  BY CoreParts DEF Core
<1>1. CASE Starts(t)  BY <1>1 DEF Starts, Routed, Dir
<1>2. CASE SameCalls /\ UNCHANGED active
  BY <1>0, <1>2 DEF SameCalls, Routed, Live, Dir
<1>3. ASSUME NEW s, Becomes(s) PROVE Routed'
  BY <1>0, <1>3 DEF Becomes, Routed, Live, Dir
<1> QED
  BY <1>1, <1>2, <1>3 DEF TaskShape, Waits, Enters, Cleans, Arms, Claims, Silences, HangsUp,
     Concludes, Ends, Answers, Records, Connects, Reserves, Opens, Dials, SameCalls

\* The network, the clock and a restart keep Core.
LEMMA OutsideCore ==
  ASSUME IInv, Core, World \/ Restarts
  PROVE  Core'
<1>0. TypeOK /\ (active = 0 \/ active \in Call) /\ Timer \in Task /\ Sockets \subseteq Task
      /\ \A u \in Task : HoldsLock(u) /\ Path(u)
  BY TaskAssumption, DataAssumption DEF IInv, Core, TypeOK, Call
<1>1. CASE World
  <2>0. /\ UNCHANGED <<active, flags, timer, audio, pc, job>> /\ SameCalls
        /\ active # 0 => call'[active].over = call[active].over
    BY <1>1 DEF World
  <2>1. Live' <=> Live  BY <1>0, <2>0 DEF SameCalls, Live
  <2>2. ASSUME NEW u \in Task PROVE Path(u)'
    <3>1. CASE pc[u] \notin Locked
      BY <1>0, <1>1, <3>1 DEF World, Path, Locked, Cleaning, AttachPc
    <3>2. CASE pc[u] \in Locked
      <4>1. active \in Call  BY <1>0, <3>2 DEF HoldsLock
      <4> QED  BY <1>0, <2>0, <2>1, <4>1, Bounds DEF SameCalls, Path
    <3> QED  BY <3>1, <3>2
  <2>3. TimerPath' /\ Settled'  BY <1>1, <2>1 DEF Core, World, TimerPath, Settled
  <2>4. \A s \in Sockets : Uses(s)' <=> Uses(s)
    BY <2>0, <2>1 DEF Uses, Live, Holding
  <2>5. Reserved'  BY <1>1, <2>4 DEF Core, Reserved, World
  <2>6. AttachedBy'  BY <1>1 DEF Core, World, AttachedBy, CleanupRuns, Keeps
  <2>7. Routed'  BY <1>0, <2>0, <2>1 DEF Core, SameCalls, Routed, Live, Dir
  <2> QED  BY <2>2, <2>3, <2>5, <2>6, <2>7 DEF Core
<1>2. CASE Restarts
  <2>1. \A u \in Task : Path(u)'  BY <1>2 DEF Restarts, Path, Cleaning, AttachPc
  <2>2. TimerPath'  BY <1>0, <1>2 DEF Restarts, TimerPath, Closing
  <2>3. Settled'  BY <1>0, <1>2 DEF Restarts, Settled, Idle, TypeOK
  <2>4. Reserved' /\ AttachedBy'  BY <1>2 DEF Restarts, Reserved, Uses, AttachedBy, NoFlags
  <2>5. Routed'  BY <1>2 DEF Restarts, Routed
  <2> QED  BY <2>1, <2>2, <2>3, <2>4, <2>5 DEF Core
<1> QED  BY <1>1, <1>2

\* Every step keeps Core.
LEMMA CoreStep ==
  ASSUME IInv, Core, [Next]_vars
  PROVE  Core'
<1>1. CASE World \/ Restarts  BY <1>1, OutsideCore
<1>2. ASSUME NEW t \in Task, TaskShape(t) PROVE Core'
  BY <1>2, PathKept, TimerKept, SettledKept, ReservedKept, AttachedKept, RoutedKept DEF Core
<1> QED  BY <1>1, <1>2, Shape

\* Core holds initially.
LEMMA CoreInit == Init => Core
<1> SUFFICES ASSUME Init PROVE Core  OBVIOUS
<1>0. Timer \in Task /\ Sockets \subseteq Task  BY TaskAssumption
<1>1. \A u \in Task : Path(u)  BY DEF Init, Path, Cleaning, AttachPc
<1>2. TimerPath  BY <1>0 DEF Init, TimerPath, Closing
<1>3. Settled  BY DEF Init, Settled, Idle
<1>4. Reserved /\ AttachedBy  BY DEF Init, Reserved, Uses, Live, AttachedBy, NoFlags
<1>5. Routed  BY DEF Init, Routed, Live
<1> QED  BY <1>1, <1>2, <1>3, <1>4, <1>5 DEF Core

\* Core holds in every behaviour, whatever fails and however often the service
\* restarts.
THEOREM CoreHolds == Spec => []Core
<1>1. IInv /\ Core /\ [Next]_vars => Core'  BY CoreStep
<1> QED  BY <1>1, CoreInit, Inductive, PTL DEF Spec

\* "Only one audio connection per call": the reservation made under the
\* operation lock keeps every other socket off a healthy call.
THEOREM SingleSocket == Spec => []OneSocketPerCall
<1>1. Core => OneSocketPerCall  BY DEF Core, Reserved, Uses, OneSocketPerCall
<1> QED  BY <1>1, CoreHolds, PTL

-----------------------------------------------------------------------------
(* What the properties say more, under what the code needs for it          *)

\* When no operation runs, no task is inside one.
LEMMA QuietTasks ==
  ASSUME IInv, Quiet, NEW t \in Task
  PROVE  pc[t] \notin Locked
<1>1. HoldsLock(t)  BY DEF IInv
<1> QED  BY <1>1, NoTaskAssumption DEF HoldsLock, Quiet

\* An active call keeps its audio and no timer.  A cleanup of an app call that
\* does not end it has found it before it was active.
Media == Live /\ call[active].state = "active" =>
  /\ flags.attached /\ timer = 0
  /\ \A t \in Task : /\ pc[t] # "attach_leg"
                     /\ pc[t] \in Cleaning /\ call[active].front = "app" => job[t].op \in HangupOp

\* One step of a task keeps Media.
LEMMA MediaKept ==
  ASSUME "save" \notin Failing \/ Frontend = "web",
         IInv, Core, Media, NEW t \in Task, TaskShape(t)
  PROVE  Media'
<1>0. /\ TypeOK /\ HoldsLock(t) /\ KnowsCall(t) /\ Path(t) /\ Settled /\ Routed
      /\ active = 0 \/ active \in Call
  BY CoreParts DEF Core
<1>a. Quietly(t) /\ (Waits(t) \/ Owned(t))  BY ShapeOwned
<1>b. ASSUME Owned(t), NEW u \in Task \ {t} PROVE pc'[u] \notin Cleaning /\ pc'[u] # "attach_leg"
  BY <1>a, <1>b DEF Owned, Quietly, Stay, Locked, Cleaning
<1>c. ASSUME ~Waits(t), UNCHANGED active, Live' => Live,
             Live' /\ call'[active].state = "active" =>
               /\ flags'.attached /\ timer' = 0 /\ pc'[t] # "attach_leg"
               /\ pc'[t] \in Cleaning /\ call'[active].front = "app" => job'[t].op \in HangupOp
      PROVE  Media'
  BY <1>a, <1>b, <1>c DEF Media
<1>1. CASE Waits(t)
  <2>1. ASSUME NEW u \in Task
        PROVE  pc'[u] \notin {"attach_leg"} \cup Cleaning \/ (pc'[u] = pc[u] /\ job'[u] = job[u])
    BY <1>1 DEF Waits, OthersStay, Stay, Queued, Loose, Cleaning
  <2> QED  BY <1>1, <2>1 DEF Waits, Media, Live
<1>2. CASE Cleans(t) /\ ~Waits(t)
  <2>1. UNCHANGED <<active, flags>> /\ SameCalls /\ timer' = 0 /\ job'[t] = job[t] /\ Live
        /\ pc'[t] # "attach_leg"
    BY <1>2 DEF Cleans
  <2>2. Live' /\ call'[active].state = call[active].state /\ call'[active].front = call[active].front
    BY <1>0, <2>1 DEF Live, SameCalls
  <2>3. ASSUME call[active].state = "active", call[active].front = "app"
        PROVE  job[t].op \in HangupOp
    <3>1. CASE pc[t] \in {"audio_start", "dial", "attach_leg", "answer_leg", "active_record"}
      BY <1>0, <2>1, <2>3, <3>1 DEF Media, Path, KnowsCall, Waiting
    <3>2. CASE pc[t] = "attach_record" /\ "save" \in Failing
      <4>1. Dir("inbound") => call[active].front = "web"  BY <1>0, <2>1, <3>2 DEF Routed
      <4>2. Dir("inbound") \/ Dir("outbound")
        BY <1>0, <2>1 DEF TypeOK, CallRecord, Live, Dir
      <4> QED  BY <1>0, <2>3, <3>2, <4>1, <4>2 DEF KnowsCall, Waiting
    <3> QED  BY <1>2, <3>1, <3>2 DEF Cleans
  <2>4. call'[active].state = "active" => flags'.attached  BY <2>1, <2>2 DEF Media
  <2> QED  BY <1>2, <1>c, <2>1, <2>2, <2>3, <2>4
<1>3. CASE Starts(t)  BY <1>3 DEF Starts, Media
<1>4. CASE Arms(t) /\ ~Waits(t)
  BY <1>0, <1>4, <1>c DEF Arms, Path, Cleaning, Live
<1>5. CASE (Claims(t) \/ Dials(t)) /\ ~Waits(t)
  BY <1>5, <1>c DEF Claims, Dials, Becomes, Live
<1>6. CASE (Enters(t) \/ Reserves(t)) /\ ~Waits(t)
  BY <1>6, <1>c DEF Enters, Reserves, Media, Cleaning, Live
<1>7. CASE (Silences(t) \/ HangsUp(t)) /\ ~Waits(t)
  BY <1>7, <1>c DEF Silences, HangsUp, Media, Cleaning, Live
<1>8. CASE Concludes(t) /\ ~Waits(t)
  <2>1. CASE \E s \in Terminal : Becomes(s)  BY <2>1 DEF Becomes, Media, Live
  <2>2. CASE UNCHANGED <<active, call>> /\ job[t].op \notin HangupOp /\ call[active].front = "app"
    BY <1>8, <1>c, <2>2 DEF Concludes, Media, Cleaning, Live
  <2> QED  BY <1>8, <2>1, <2>2 DEF Concludes
<1>9. CASE Ends(t)  BY <1>0, <1>9 DEF Ends, Path, Media, Live
<1>10. CASE Answers(t) /\ ~Waits(t)
  BY <1>10, <1>c DEF Answers, Becomes, Cleaning
<1>11. CASE Connects(t) /\ ~Waits(t)
  BY <1>11, <1>c DEF Connects, Becomes, Cleaning
<1>12. CASE Records(t) /\ ~Waits(t)
  BY <1>12, <1>c DEF Records, Media, Cleaning, Live
<1>13. CASE Opens(t) /\ ~Waits(t)
  <2>1. ~(Live /\ call[active].state = "active")  BY <1>0, <1>13 DEF Opens, Media, Path
  <2> QED  BY <1>13, <1>c, <2>1 DEF Opens, Live
<1> QED  BY <1>1, <1>2, <1>3, <1>4, <1>5, <1>6, <1>7, <1>8, <1>9, <1>10, <1>11, <1>12, <1>13 DEF TaskShape

\* An active call has its audio path and a socket that ends it when it closes.
\* "save" failing at the wrong moment leaves an app call active without either,
\* until its socket has ended it; no other failure does.
THEOREM ActiveMedia ==
  ASSUME "save" \notin Failing \/ Frontend = "web"
  PROVE  Spec => []ActiveHasMedia
<1>1. Init => Media  BY DEF Init, Media, Live
<1>2. IInv /\ Core /\ Media /\ [Next]_vars => Media'
  <2> SUFFICES ASSUME IInv, Core, Media, [Next]_vars PROVE Media'  OBVIOUS
  <2>1. CASE World
    <3>1. active = 0 \/ active \in Call  BY DEF IInv, TypeOK, Call
    <3> QED  BY <2>1, <3>1 DEF World, SameCalls, Media, Live
  <2>2. CASE Restarts  BY <2>2 DEF Restarts, Media
  <2> QED  BY <2>1, <2>2, Shape, MediaKept
<1>3. IInv /\ Core /\ Media => ActiveHasMedia
  <2> SUFFICES ASSUME IInv, Core, Media, Quiet, Live, call[active].state = "active"
               PROVE  /\ flags.attached /\ audio = "on" /\ timer = 0
                      /\ \E s \in Sockets : /\ job[s].call = active
                                            /\ pc[s] \in {"stream", "want_hangup", "hangup_op"}
    BY DEF ActiveHasMedia
  <2>1. ~CleanupRuns  BY QuietTasks DEF CleanupRuns, Cleaning, Locked
  <2>2. flags.attached /\ timer = 0  BY DEF Media
  <2>3. PICK s \in Sockets : Keeps(s) /\ audio = "on"  BY <2>1, <2>2 DEF Core, AttachedBy
  <2>4. pc[s] \notin Locked  BY QuietTasks, TaskAssumption
  <2> QED  BY <2>2, <2>3, <2>4 DEF Keeps, Closing, Locked
<1> QED  BY <1>1, <1>2, <1>3, Inductive, CoreHolds, PTL DEF Spec

\* Somebody will end a live call that is not active: the timer, the task that
\* arms it, a cleanup, or the socket a failed attach has sent to hang up.
Pending == Live /\ call[active].state # "active" =>
  \/ timer = active
  \/ \E t \in Task : pc[t] \in {"start_record"} \cup Cleaning
  \/ \E s \in Sockets : job[s].op = "socket_closed" /\ job[s].call = active /\ pc[s] \in Closing

\* One step of a task keeps Pending.
LEMMA PendingKept ==
  ASSUME "save" \notin Failing, IInv, Core, Pending, NEW t \in Task, TaskShape(t)
  PROVE  Pending'
<1>0. /\ TypeOK /\ HoldsLock(t) /\ Path(t) /\ (active = 0 \/ active \in Call)
      /\ Sockets \subseteq Task /\ Timer \notin Sockets
  BY CoreParts, TaskAssumption
<1>a. Quietly(t) /\ (Waits(t) \/ Owned(t))  BY ShapeOwned
<1>b. \A s \in Sockets \ {t} : Stay(s)  BY <1>0, <1>a DEF Quietly
<1>c. ASSUME ~Waits(t), UNCHANGED <<active, timer>>, Live,
             call[active].state = "active" => ~Live' \/ call'[active].state = "active",
             pc[t] \notin {"start_record"} \cup Cleaning \cup Closing
      PROVE  Pending'
  <2> SUFFICES ASSUME Live, call[active].state # "active", timer # active PROVE Pending'
    BY <1>c DEF Pending
  <2>1. ~\E u \in Task : pc[u] \in {"start_record"} \cup Cleaning
    BY <1>a, <1>c DEF Owned, Locked, Cleaning
  <2>2. PICK s \in Sockets : job[s].op = "socket_closed" /\ job[s].call = active /\ pc[s] \in Closing
    BY <2>1 DEF Pending
  <2> QED  BY <1>b, <1>c, <2>2 DEF Stay, Pending
<1>1. CASE Waits(t)
  <2> SUFFICES ASSUME Live, call[active].state # "active" PROVE Pending'
    BY <1>1 DEF Waits, Pending, Live
  <2>1. CASE timer = active  BY <1>1, <2>1 DEF Waits, Pending
  <2>2. CASE \E u \in Task : pc[u] \in {"start_record"} \cup Cleaning
    <3>1. PICK u \in Task : pc[u] \in {"start_record"} \cup Cleaning  BY <2>2
    <3>2. pc'[u] = pc[u]
      BY <1>1, <3>1 DEF Waits, OthersStay, Stay, Queued, Loose, Cleaning
    <3> QED  BY <3>1, <3>2 DEF Pending
  <2>3. CASE \E s \in Sockets : job[s].op = "socket_closed" /\ job[s].call = active /\ pc[s] \in Closing
    <3>1. PICK s \in Sockets : job[s].op = "socket_closed" /\ job[s].call = active /\ pc[s] \in Closing
      BY <2>3
    <3>2. job'[s].op = "socket_closed" /\ job'[s].call = active /\ pc'[s] \in Closing
      BY <1>1, <1>b, <3>1 DEF Waits, Stay
    <3> QED  BY <1>1, <3>2 DEF Waits, Pending
  <2> QED  BY <2>1, <2>2, <2>3 DEF Pending
<1>2. CASE Cleans(t)  BY <1>2 DEF Cleans, Pending, Cleaning
<1>3. CASE Starts(t)  BY <1>3 DEF Starts, Pending
<1>4. CASE Arms(t)  BY <1>4 DEF Arms, Pending
<1>5. CASE (Claims(t) \/ Dials(t)) /\ ~Waits(t)
  BY <1>5, <1>c DEF Claims, Dials, Becomes, Cleaning, Closing
<1>6. CASE (Reserves(t) \/ Enters(t)) /\ ~Waits(t)
  BY <1>6, <1>c DEF Reserves, Enters, Cleaning, Closing, Live
<1>7. CASE Silences(t) \/ HangsUp(t)  BY <1>7 DEF Silences, HangsUp, Pending, Cleaning
<1>8. CASE Concludes(t)
  <2>1. CASE \E s \in Terminal : Becomes(s)  BY <2>1 DEF Becomes, Pending, Live
  <2>2. CASE ~\E s \in Terminal : Becomes(s)  BY <1>8, <2>2 DEF Concludes, Pending
  <2> QED  BY <2>1, <2>2
<1>9. CASE Ends(t)  BY <1>0, <1>9 DEF Ends, Path, Pending, Live
<1>10. CASE Answers(t)  BY <1>10 DEF Answers, Becomes, Pending
<1>11. CASE Connects(t)  BY <1>11 DEF Connects, Becomes, Pending
<1>12. CASE Records(t) /\ ~Waits(t)
  <2>1. Live  BY <1>0, <1>12 DEF Records, HoldsLock, Locked
  <2> QED  BY <1>12, <1>c, <2>1 DEF Records, Cleaning, Closing, Live
<1>13. CASE Opens(t) /\ ~Waits(t)  BY <1>13, <1>c DEF Opens, Cleaning, Closing, Live
<1> QED  BY <1>1, <1>2, <1>3, <1>4, <1>5, <1>6, <1>7, <1>8, <1>9, <1>10, <1>11, <1>12, <1>13 DEF TaskShape

\* A live call that is not active has an armed timeout, or the socket whose
\* attach failed is hanging it up.  The exception is a start or an attach whose
\* record could not be saved: the request fails before the timer is armed.
THEOREM PendingExit ==
  ASSUME "save" \notin Failing
  PROVE  Spec => []PendingHasExit
<1>1. Init => Pending  BY DEF Init, Pending, Live
<1>2. IInv /\ Core /\ Pending /\ [Next]_vars => Pending'
  <2> SUFFICES ASSUME IInv, Core, Pending, [Next]_vars PROVE Pending'  OBVIOUS
  <2>1. CASE World
    <3>1. active = 0 \/ active \in Call  BY DEF IInv, TypeOK, Call
    <3> QED  BY <2>1, <3>1 DEF World, SameCalls, Pending, Live
  <2>2. CASE Restarts  BY <2>2 DEF Restarts, Pending
  <2> QED  BY <2>1, <2>2, Shape, PendingKept
<1>3. IInv /\ Pending => PendingHasExit
  BY QuietTasks DEF PendingHasExit, Pending, Locked, Cleaning
<1> QED  BY <1>1, <1>2, <1>3, Inductive, CoreHolds, PTL DEF Spec

\* Audio is open only while it is attached, and a cleanup has closed it before
\* it goes on to the cellular leg.
AudioOff ==
  /\ audio = "on" => flags.attached
  /\ \A t \in Task : pc[t] \in {"stop_leg", "cleaned"} => audio = "off"

\* One step of a task keeps AudioOff.
LEMMA AudioOffKept ==
  ASSUME "audio_stop" \notin Failing, IInv, Core, AudioOff, NEW t \in Task, TaskShape(t)
  PROVE  AudioOff'
<1>0. TypeOK /\ Settled  BY CoreParts
<1>a. Quietly(t) /\ (Waits(t) \/ Owned(t))  BY ShapeOwned
<1>b. ASSUME Owned(t), NEW u \in Task \ {t} PROVE pc'[u] \notin {"stop_leg", "cleaned"}
  BY <1>a, <1>b DEF Owned, Quietly, Stay, Locked
<1>c. ASSUME ~Waits(t), audio' = "on" => flags'.attached,
             pc'[t] \in {"stop_leg", "cleaned"} => audio' = "off"
      PROVE  AudioOff'
  BY <1>a, <1>b, <1>c DEF AudioOff
<1>1. CASE Waits(t)
  <2>1. ASSUME NEW u \in Task PROVE pc'[u] \notin {"stop_leg", "cleaned"} \/ pc'[u] = pc[u]
    BY <1>1 DEF Waits, OthersStay, Stay, Queued, Loose
  <2> QED  BY <1>1, <2>1 DEF Waits, AudioOff
<1>2. CASE Cleans(t) /\ ~Waits(t)
  <2>1. audio = "off" \/ flags.attached  BY <1>0 DEF AudioOff, TypeOK
  <2> QED  BY <1>2, <1>c, <2>1 DEF Cleans
<1>3. CASE Starts(t) /\ ~Waits(t)
  <2>1. audio # "on"  BY <1>0, <1>3 DEF Starts, Settled, AudioOff, NoFlags
  <2> QED  BY <1>3, <1>c, <2>1 DEF Starts
<1>4. CASE (Silences(t) \/ HangsUp(t)) /\ ~Waits(t)
  BY <1>4, <1>c DEF Silences, HangsUp, AudioOff
<1>5. CASE Concludes(t) /\ ~Waits(t)
  BY <1>5, <1>c DEF Concludes, AudioOff, Closing
<1>6. CASE Opens(t) /\ ~Waits(t)
  BY <1>6, <1>c DEF Opens
<1>7. ASSUME UNCHANGED audio, flags'.attached = flags.attached, ~Waits(t),
             pc'[t] \notin {"stop_leg", "cleaned"}
      PROVE  AudioOff'
  BY <1>7, <1>c DEF AudioOff
<1>8. CASE (Arms(t) \/ Claims(t) \/ Enters(t) \/ Ends(t)) /\ ~Waits(t)
  BY <1>7, <1>8 DEF Arms, Claims, Enters, Ends
<1>9. CASE (Answers(t) \/ Records(t) \/ Connects(t) \/ Reserves(t) \/ Dials(t)) /\ ~Waits(t)
  BY <1>7, <1>9 DEF Answers, Records, Connects, Reserves, Dials
<1> QED  BY <1>1, <1>2, <1>3, <1>4, <1>5, <1>6, <1>8, <1>9 DEF TaskShape

\* Once no call is live and no operation runs, nothing of the call is left,
\* where the adapter obeys stop.
THEOREM NothingLeft ==
  ASSUME "audio_stop" \notin Failing
  PROVE  Spec => []NothingLeftBehind
<1>1. Init => AudioOff  BY DEF Init, AudioOff
<1>2. IInv /\ Core /\ AudioOff /\ [Next]_vars => AudioOff'
  <2> SUFFICES ASSUME IInv, Core, AudioOff, [Next]_vars PROVE AudioOff'  OBVIOUS
  <2>1. CASE World  BY <2>1 DEF World, AudioOff
  <2>2. CASE Restarts  BY <2>2 DEF Restarts, AudioOff
  <2> QED  BY <2>1, <2>2, Shape, AudioOffKept
<1>3. IInv /\ Core /\ AudioOff => NothingLeftBehind
  BY DEF IInv, Core, AudioOff, Settled, NothingLeftBehind, NoFlags, TypeOK
<1> QED  BY <1>1, <1>2, <1>3, Inductive, CoreHolds, PTL DEF Spec

\* A leg the gateway dialled or answered is marked in the flags of a live call
\* until the cleanup that hangs it up has done so.
LegMarked ==
  /\ crashes = 0 /\ leg \in {"dialing", "up"} =>
       Live /\ flags.started /\ \A t \in Task : pc[t] # "cleaned"
  /\ Live /\ Dir("inbound") => flags.started
  /\ \A t \in Task : pc[t] = "dial" => flags.started

\* One step of a task keeps LegMarked.
LEMMA LegMarkedKept ==
  ASSUME Frontend = "web", "hangup" \notin Failing,
         IInv, Core, LegMarked, NEW t \in Task, TaskShape(t)
  PROVE  LegMarked'
<1>0. /\ TypeOK /\ HoldsLock(t) /\ KnowsCall(t) /\ Path(t) /\ Settled /\ Routed
      /\ active = 0 \/ active \in Call
  BY CoreParts DEF Core
<1>a. Quietly(t) /\ (Waits(t) \/ Owned(t))  BY ShapeOwned
<1>b. ASSUME Owned(t), NEW u \in Task \ {t} PROVE pc'[u] # "cleaned" /\ pc'[u] # "dial"
  BY <1>a, <1>b DEF Owned, Quietly, Stay, Locked
<1>c. ASSUME ~Waits(t),
             crashes' = 0 /\ leg' \in {"dialing", "up"} =>
               Live' /\ flags'.started /\ pc'[t] # "cleaned",
             Live' /\ Dir("inbound")' => flags'.started,
             pc'[t] = "dial" => flags'.started
      PROVE  LegMarked'
  BY <1>a, <1>b, <1>c DEF LegMarked
<1>1. CASE Waits(t)
  <2>1. ASSUME NEW u \in Task PROVE pc'[u] \notin {"cleaned", "dial"} \/ pc'[u] = pc[u]
    BY <1>1 DEF Waits, OthersStay, Stay, Queued, Loose
  <2> QED  BY <1>1, <2>1 DEF Waits, LegMarked, Live, Dir
<1>d. ASSUME ~Waits(t), UNCHANGED <<active, leg, crashes>>, flags'.started = flags.started,
             pc'[t] \notin {"cleaned", "dial"}, Live' <=> Live, Dir("inbound")' => Dir("inbound")
      PROVE  LegMarked'
  BY <1>c, <1>d DEF LegMarked
<1>2. CASE Cleans(t) /\ ~Waits(t)
  <2>1. /\ UNCHANGED <<active, flags, crashes>> /\ SameCalls /\ Live
        /\ pc'[t] = "cleaned" => ~flags.started
        /\ pc'[t] # "dial"
        /\ \/ leg' = leg
           \/ leg' = "up" /\ Dir("inbound")
           \/ leg' = "dialing" /\ pc[t] = "dial"
    BY <1>2 DEF Cleans
  <2>2. Live' /\ (Dir("inbound")' <=> Dir("inbound"))
    BY <1>0, <2>1 DEF Live, SameCalls, Dir
  <2>3. crashes = 0 /\ leg' \in {"dialing", "up"} => flags.started
    BY <2>1 DEF LegMarked
  <2>4. Dir("inbound") => flags.started  BY <2>1 DEF LegMarked
  <2> QED  BY <1>2, <1>c, <2>1, <2>2, <2>3, <2>4
<1>3. CASE Starts(t) /\ ~Waits(t)
  BY <1>3, <1>c DEF Starts, LegMarked, Dir
<1>4. CASE Silences(t) /\ ~Waits(t)
  BY <1>4, <1>c DEF Silences, LegMarked, Live, Dir
<1>5. CASE HangsUp(t) /\ ~Waits(t)
  BY <1>5, <1>c DEF HangsUp, LegMarked, Live, Dir
<1>6. CASE Concludes(t) /\ ~Waits(t)
  <2>1. leg \notin {"dialing", "up"} \/ crashes # 0  BY <1>6 DEF Concludes, LegMarked
  <2>2. ~(Live' /\ Dir("inbound")')
    <3>1. CASE \E s \in Terminal : Becomes(s)  BY <3>1 DEF Becomes, Live
    <3>2. CASE UNCHANGED <<active, call>> /\ call[active].front = "app"
      BY <1>0, <3>2 DEF Routed, Live, Dir
    <3> QED  BY <1>6, <3>1, <3>2 DEF Concludes
  <2> QED  BY <1>6, <1>c, <2>1, <2>2 DEF Concludes, Closing
<1>7. CASE Ends(t) /\ ~Waits(t)
  BY <1>7, <1>d DEF Ends, Live, Dir
<1>8. CASE Answers(t) /\ ~Waits(t)
  <2>1. Dir("inbound") /\ Live /\ Live'
    BY <1>0, <1>8 DEF Answers, Becomes, KnowsCall, Live, Terminal
  <2>2. flags.started  BY <2>1 DEF LegMarked
  <2> QED  BY <1>8, <1>c, <2>1, <2>2 DEF Answers
<1>9. CASE Opens(t) /\ ~Waits(t)
  BY <1>9, <1>c DEF Opens, LegMarked, Live, Dir
<1>10. CASE Dials(t) /\ ~Waits(t)
  <2>1. flags.started /\ Live'  BY <1>10 DEF Dials, Becomes, LegMarked, Live, Terminal
  <2> QED  BY <1>10, <1>c, <2>1 DEF Dials
<1>11. CASE (Arms(t) \/ Enters(t) \/ Records(t) \/ Reserves(t)) /\ ~Waits(t)
  BY <1>11, <1>d DEF Arms, Enters, Records, Reserves, Live, Dir
<1>12. CASE (Claims(t) \/ Connects(t)) /\ ~Waits(t)
  BY <1>12, <1>d DEF Claims, Connects, Becomes, Live, Terminal, Dir
<1> QED  BY <1>1, <1>2, <1>3, <1>4, <1>5, <1>6, <1>7, <1>8, <1>9, <1>10, <1>11, <1>12 DEF TaskShape

\* No leg outlives its call, where incoming calls go to the browser, ATH is
\* obeyed and the service has not restarted.  With app calls it can, since a
\* failed attach resets the flags of a call that stays live.
THEOREM NoOrphan ==
  ASSUME Frontend = "web", "hangup" \notin Failing
  PROVE  Spec => []NoOrphanLeg
<1>1. Init => LegMarked  BY DEF Init, LegMarked, Live
<1>2. IInv /\ Core /\ LegMarked /\ [Next]_vars => LegMarked'
  <2> SUFFICES ASSUME IInv, Core, LegMarked, [Next]_vars PROVE LegMarked'  OBVIOUS
  <2>0. (active = 0 \/ active \in Call) /\ crashes \in Nat  BY Bounds DEF IInv, TypeOK, Call
  <2>1. CASE World
    <3>1. (Live' <=> Live) /\ (Live => (Dir("inbound")' <=> Dir("inbound")))
      BY <2>0, <2>1 DEF World, SameCalls, Live, Dir
    <3> QED  BY <2>1, <3>1 DEF World, LegMarked
  <2>2. CASE Restarts  BY <2>0, <2>2 DEF Restarts, LegMarked
  <2> QED  BY <2>1, <2>2, Shape, LegMarkedKept
<1>3. LegMarked => NoOrphanLeg  BY DEF LegMarked, NoOrphanLeg
<1> QED  BY <1>1, <1>2, <1>3, Inductive, CoreHolds, PTL DEF Spec

\* The history lags behind the calls only while the task that moved the live
\* call is on its way to _record; recover_client_calls may call ended what was
\* not recorded before a crash.
Recording == {"start_record", "answer_record", "attach_record", "active_record", "connect_record",
              "end_record"}
Told(c) ==
  \/ saved[c] = call[c].state
  \/ crashes > 0 /\ call[c].state \in Terminal /\ saved[c] \notin LiveState
History == \A c \in Call : Told(c) \/ (c = active /\ \E t \in Task : pc[t] \in Recording)

\* One step of a task keeps History.
LEMMA HistoryKept ==
  ASSUME {"save", "record"} \cap Failing = {}, IInv, Core, History, NEW t \in Task, TaskShape(t)
  PROVE  History'
<1>0. TypeOK /\ HoldsLock(t) /\ Path(t) /\ (active = 0 \/ active \in Call)
  BY CoreParts
<1>a. Quietly(t) /\ (Waits(t) \/ Owned(t))  BY ShapeOwned
<1>b. ASSUME Owned(t), pc[t] \notin Recording, NEW c \in Call PROVE Told(c)
  BY <1>b DEF History, Owned, Recording, Locked
<1>1. CASE Waits(t)
  <2>1. ASSUME NEW u \in Task, pc[u] \in Recording PROVE pc'[u] = pc[u]
    BY <1>1, <2>1 DEF Waits, OthersStay, Stay, Queued, Loose, Recording
  <2> QED  BY <1>1, <2>1 DEF Waits, History, Told
<1>2. CASE Starts(t) /\ Owned(t)
  <2>1. ASSUME NEW c \in Call PROVE Told(c)  BY <1>2, <1>b DEF Starts, Recording
  <2>2. ASSUME NEW c \in Call \ {active'} PROVE Told(c)'  BY <1>2, <2>1 DEF Starts, Told
  <2>3. pc'[t] \in Recording  BY <1>2 DEF Starts, Recording
  <2> QED  BY <2>2, <2>3 DEF History
<1>3. ASSUME Owned(t), pc[t] \notin Recording, NEW s, Becomes(s), pc'[t] \in Recording,
             UNCHANGED <<saved, crashes>>
      PROVE  History'
  <2>1. ASSUME NEW c \in Call \ {active} PROVE Told(c)'
    BY <1>3, <1>b DEF Becomes, Told
  <2> QED  BY <1>3, <2>1 DEF Becomes, History
<1>4. ASSUME Owned(t), pc[t] \notin Recording, SameCalls, UNCHANGED <<active, saved, crashes>>
      PROVE  History'
  BY <1>4, <1>b DEF SameCalls, Told, History
<1>5. ASSUME Owned(t), UNCHANGED <<active, call, crashes>>,
             saved' = [saved EXCEPT ![active] = call[active].state]
      PROVE  History'
  <2>1. ASSUME NEW c \in Call PROVE Told(c)'
    <3>1. CASE c = active  BY <1>0, <1>5, <3>1 DEF Told, TypeOK
    <3>2. CASE c # active  BY <1>0, <1>5, <3>2 DEF Told, TypeOK, History
    <3> QED  BY <3>1, <3>2
  <2> QED  BY <2>1 DEF History
<1>6. CASE (Claims(t) \/ Answers(t) \/ Connects(t) \/ Dials(t)) /\ Owned(t)
  BY <1>3, <1>6 DEF Claims, Answers, Connects, Dials, Recording
<1>7. CASE Cleans(t) /\ Owned(t)
  BY <1>4, <1>7 DEF Cleans, Recording
<1>8. CASE (Enters(t) \/ Silences(t) \/ HangsUp(t) \/ Reserves(t) \/ Opens(t)) /\ Owned(t)
  BY <1>4, <1>8 DEF Enters, Silences, HangsUp, Reserves, Opens, Recording, SameCalls
<1>9. CASE Concludes(t) /\ Owned(t)
  <2>1. pc[t] \notin Recording /\ UNCHANGED <<saved, crashes>>  BY <1>9 DEF Concludes, Recording
  <2>2. CASE (\E s \in Terminal : Becomes(s)) /\ pc'[t] = "end_record"
    BY <1>3, <1>9, <2>1, <2>2 DEF Recording
  <2>3. CASE UNCHANGED <<active, call>>
    BY <1>4, <1>9, <2>1, <2>3 DEF SameCalls
  <2> QED  BY <1>9, <2>2, <2>3 DEF Concludes
<1>10. CASE (Arms(t) \/ Ends(t) \/ Records(t)) /\ Owned(t)
  BY <1>5, <1>10 DEF Arms, Ends, Records
<1> QED  BY <1>a, <1>1, <1>2, <1>6, <1>7, <1>8, <1>9, <1>10 DEF TaskShape

\* Whenever no operation runs, the database agrees with the calls, also after
\* restarts, where its writes succeed.
THEOREM HistoryTrue ==
  ASSUME {"save", "record"} \cap Failing = {}
  PROVE  Spec => []HistoryAgrees
<1>1. Init => History  BY DEF Init, History, Told, NoCall
<1>2. IInv /\ Core /\ History /\ [Next]_vars => History'
  <2> SUFFICES ASSUME IInv, Core, History, [Next]_vars PROVE History'  OBVIOUS
  <2>0. TypeOK /\ (active = 0 \/ active \in Call) /\ crashes \in Nat
    BY Bounds DEF IInv, TypeOK, Call
  <2>1. CASE World  BY <2>1 DEF World, SameCalls, History, Told
  <2>2. CASE Restarts
    <3> SUFFICES ASSUME NEW c \in Call PROVE Told(c)'  BY DEF History
    <3>1. /\ saved'[c] = IF saved[c] \in LiveState THEN "ended" ELSE saved[c]
          /\ call'[c].state = IF call[c].state \in LiveState THEN "ended" ELSE call[c].state
          /\ UNCHANGED active /\ ~Live' /\ crashes' > 0
      BY <2>0, <2>2 DEF Restarts
    <3>2. CASE Told(c)
      BY <3>1, <3>2 DEF Told, LiveState, Terminal
    <3>3. CASE c = active
      <4>1. call'[c].state \in Terminal  BY <2>0, <3>1, <3>3, Bounds DEF Live
      <4> QED  BY <3>1, <4>1 DEF Told, LiveState
    <3> QED  BY <3>2, <3>3 DEF History
  <2> QED  BY <2>1, <2>2, Shape, HistoryKept
<1>3. IInv /\ History => HistoryAgrees
  <2> SUFFICES ASSUME IInv, History, Quiet, NEW c \in Call PROVE Told(c)
    BY DEF HistoryAgrees, Told
  <2> QED  BY QuietTasks DEF History, Recording, Locked
<1> QED  BY <1>1, <1>2, <1>3, Inductive, CoreHolds, PTL DEF Spec

=============================================================================

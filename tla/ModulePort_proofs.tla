-------------------------- MODULE ModulePort_proofs --------------------------
(***************************************************************************)
(* Who has the module's port, for every number of clients, monitors,       *)
(* requests and faults.                                                    *)
(*                                                                         *)
(* Sessions says whose session holds the lock file and who may close it;   *)
(* Turns says which monitors may live beside an operation on the port and  *)
(* beside the current monitor.  Every step is described by what it does to *)
(* the tasks beside the one that takes it (MonitorMoves, ClientMoves); the *)
(* two invariants follow.                                                  *)
(***************************************************************************)
EXTENDS ModulePort, AsyncLock_proofs

-----------------------------------------------------------------------------
(* The inductive invariants                                                  *)

(* At most one session is open for the module's port: the published one,   *)
(* one that is being configured, or one that is being closed.              *)
SessionOf(g) ==
  /\ pc[g] \in {"configure", "publish"} => owner = g /\ published = NoTask
  /\ pc[g] = "closing" =>
       /\ uses[g] # NoTask /\ owner = uses[g] /\ published = NoTask
       /\ \A h \in Monitors \ {g} : pc[h] \notin {"configure", "publish", "closing"}

(* What a client with the port relies on.                                  *)
ClientOf(c) ==
  /\ pc[c] \in {"short_run", "running"} => owner = c
  /\ pc[c] \in {"command", "short", "short_run"} => mlock.holder = c
  /\ pc[c] = "command" => published # NoTask /\ uses[c] = published
  /\ pc[c] \in {"stopping", "cancelled"} => waits[c] # NoTask

Sessions ==
  /\ published # NoTask => owner = published
  /\ \A g \in Monitors : SessionOf(g)
  /\ \A c \in Clients : ClientOf(c)

(* Which request is at which point, and which of them stop the monitor.    *)
Phase(c) ==
  /\ pc[c] = "idle" <=> op[c] = "none"
  /\ pc[c] \in {"ready", "lock", "command", "short", "short_run"} => op[c] = "at"
  /\ pc[c] \in {"plock", "operation", "running"} => op[c] \in {"exclusive", "sms"}
  /\ pc[c] = "probe" => op[c] = "reconnect"
  /\ waits[c] # NoTask => pc[c] \in {"stopping", "cancelled", "operation", "running", "probe"}

(* _persistent_lock is held from before the stop until the next start.     *)
Ordered(c) ==
  /\ waits[c] # NoTask /\ op[c] \in {"exclusive", "sms"} => plock.holder = c
  /\ op[c] = "exclusive" /\ pc[c] \in {"operation", "running"} => plock.holder = c

(* All that lives beside the current monitor, or beside an operation on    *)
(* the port, has been left behind.                                         *)
Turns == OneMonitor /\ ExclusiveOrdered /\ \A c \in Clients : Phase(c) /\ Ordered(c)

-----------------------------------------------------------------------------
(* Types and locks                                                           *)

\* Who is who.
LEMMA Actors ==
  /\ Clients \subseteq Task /\ Monitors \subseteq Task /\ NoTask \notin Task /\ Monitors # {}
  /\ \A c \in Clients : c \notin Monitors
  /\ \A g \in Monitors : g \notin Clients
  /\ Lost \notin Task /\ Leaving \notin Task /\ Lost # NoTask /\ Leaving # NoTask /\ Lost # Leaving
  /\ MaxRequests \in Nat /\ MaxFaults \in Nat
BY NoTaskAssumption, PortAssumption

\* Queueing for a lock, releasing it and being cancelled leave it a lock.
LEMMA LockTypes ==
  ASSUME NEW L \in Lock, NEW t \in Task
  PROVE  /\ Acquire(L, t) \in Lock /\ Release(L) \in Lock /\ Withdraw(L, t) \in Lock
         /\ Acquire(Release(L), t) \in Lock /\ Acquire(Withdraw(L, t), t) \in Lock
BY AcquireType, ReleaseType, WithdrawType

\* Nobody takes a lock from the task that holds it.
LEMMA LockKept ==
  ASSUME NEW L \in Lock, NEW t \in Task, NEW u \in Task \ {t}, L.holder = u
  PROVE  /\ Acquire(L, t).holder = u /\ Withdraw(L, t).holder = u
         /\ Acquire(Withdraw(L, t), t).holder = u
<1>1. u # NoTask  BY NoTaskAssumption
<1>2. Withdraw(L, t) \in Lock /\ Withdraw(L, t).holder = u  BY WithdrawType, WithdrawHolder
<1> QED  BY <1>1, <1>2, AcquireHolder

\* The initial states are typed.
LEMMA InitTyped == Init => TypeOK
<1> SUFFICES ASSUME Init PROVE TypeOK  OBVIOUS
<1>1. mlock \in Lock /\ plock \in Lock  BY DEF Init, Unlocked, Lock
<1>2. /\ current \in Monitors
      /\ pc = [t \in Task |-> IF t = current THEN "start" ELSE IF t \in Monitors THEN "none" ELSE "idle"]
  BY Actors DEF Init
<1>3. pc \in [Task -> MonitorPc \cup ClientPc] /\ \A h \in Monitors : pc[h] \in MonitorPc
  BY <1>2, Actors DEF MonitorPc, ClientPc
<1>4. current \in Monitors \cup {NoTask} /\ opening \in Nat /\ requests \in 0..MaxRequests
      /\ faults \in 0..MaxFaults
  BY <1>2, Actors DEF Init
<1>5. /\ op \in [Clients -> Ops \cup {"none"}] /\ waits \in [Clients -> Monitors \cup {NoTask}]
      /\ uses \in [Task -> Monitors \cup {NoTask}] /\ event \in [Monitors -> Monitors \cup {NoTask}]
  BY DEF Init
<1> QED  BY <1>1, <1>3, <1>4, <1>5 DEF Init, TypeOK

\* A step of a monitor: what it leaves alone, and that it takes no lock from a client.
MonitorMoves(g) ==
  /\ pc[g] # "none"
  /\ UNCHANGED <<current, stop, strays, plock, op, waits, opening, requests>>
  /\ \A t \in Task \ {g} : pc'[t] = pc[t] /\ uses'[t] = uses[t]
  /\ \A c \in Clients : mlock.holder = c => mlock'.holder = c

LEMMA MonitorStep ==
  ASSUME TypeOK, NEW g \in Monitors, Monitor(g)
  PROVE  TypeOK' /\ MonitorMoves(g)
<1> USE Actors DEF Goto, monitorVars
<1>0. g \in Task /\ mlock \in Lock  BY DEF TypeOK
<1>l. /\ Acquire(mlock, g) \in Lock /\ Release(mlock) \in Lock /\ Acquire(Release(mlock), g) \in Lock
      /\ \A c \in Clients : mlock.holder = c => Acquire(mlock, g).holder = c
  BY <1>0, LockTypes, LockKept
<1>p. ASSUME NEW p \in MonitorPc, Goto(g, p)
      PROVE  /\ pc' \in [Task -> MonitorPc \cup ClientPc] /\ \A h \in Monitors : pc'[h] \in MonitorPc
             /\ \A t \in Task \ {g} : pc'[t] = pc[t]
  BY <1>0, <1>p DEF TypeOK
<1>q. ASSUME pc[g] # "none", UNCHANGED <<monitorVars, plock, op, waits, uses, opening, requests>>,
             NEW p \in MonitorPc, Goto(g, p),
             ready' \in BOOLEAN, published' \in Monitors \cup {NoTask}, mlock' \in Lock,
             owner' \in Task \cup {NoTask, Lost, Leaving}, faults' \in 0..MaxFaults,
             \A c \in Clients : mlock.holder = c => mlock'.holder = c
      PROVE  TypeOK' /\ MonitorMoves(g)
  <2>1. /\ pc' \in [Task -> MonitorPc \cup ClientPc] /\ \A h \in Monitors : pc'[h] \in MonitorPc
        /\ \A t \in Task \ {g} : pc'[t] = pc[t]
    BY <1>p, <1>q
  <2> HIDE DEF Goto
  <2> QED  BY <1>q, <2>1 DEF TypeOK, MonitorMoves
<1>f. ASSUME NEW f, Fault(f) PROVE faults' \in 0..MaxFaults
  BY <1>f DEF Fault, TypeOK
<1>e. ASSUME Failed(g)
      PROVE  /\ ready' \in BOOLEAN /\ mlock' \in Lock
             /\ \A c \in Clients : mlock.holder = c => mlock'.holder = c
             /\ \E p \in MonitorPc : Goto(g, p)
  BY <1>e, <1>l, <1>0 DEF Failed, EnterClose, TypeOK, MonitorPc
<1>1. CASE Open(g)
  <2>1. CASE Own(g) /\ Goto(g, "configure") /\ UNCHANGED <<ready, mlock, faults>>
    BY <1>1, <1>0, <1>q, <2>1 DEF Open, Own, TypeOK, MonitorPc
  <2>2. CASE owner # NoTask /\ Failed(g) /\ UNCHANGED <<owner, faults>>
    BY <1>1, <1>0, <1>q, <1>e, <2>2 DEF Open, TypeOK
  <2>3. CASE owner = NoTask /\ Fault("open") /\ Failed(g) /\ UNCHANGED owner
    BY <1>1, <1>0, <1>q, <1>e, <1>f, <2>3 DEF Open, TypeOK
  <2> QED  BY <1>1, <2>1, <2>2, <2>3 DEF Open
<1>2. CASE Configure(g)
  <2>1. CASE mlock' = Acquire(mlock, g) /\ Goto(g, "publish") /\ UNCHANGED <<owner, ready, faults>>
    BY <1>2, <1>0, <1>l, <1>q, <2>1 DEF Configure, TypeOK, MonitorPc
  <2>2. CASE Fault("configure") /\ owner' = Lost /\ Failed(g)
    BY <1>2, <1>0, <1>q, <1>e, <1>f, <2>2 DEF Configure, TypeOK
  <2> QED  BY <1>2, <2>1, <2>2 DEF Configure
<1>3. CASE Publish(g)
  BY <1>3, <1>0, <1>l, <1>q DEF Publish, TypeOK, MonitorPc
<1>4. CASE Announce(g)
  <2>1. CASE Told(g)
    BY <1>4, <1>0, <1>l, <1>q, <2>1 DEF Announce, EnterClose, TypeOK, MonitorPc
  <2>2. CASE ~Told(g)
    BY <1>4, <1>0, <1>l, <1>q, <2>2 DEF Announce, TypeOK, MonitorPc
  <2> QED  BY <2>1, <2>2
<1>5. CASE Read(g)
  <2>1. CASE Told(g)
    BY <1>5, <1>0, <1>l, <1>q, <2>1 DEF Read, TypeOK, MonitorPc
  <2>2. CASE ~Told(g)
    <3>1. Goto(g, "turn")  BY <1>5, <1>0, <2>2 DEF Read, TypeOK
    <3> QED  BY <1>5, <1>0, <1>l, <1>q, <2>2, <3>1 DEF Read, TypeOK, MonitorPc
  <2> QED  BY <2>1, <2>2
<1>6. CASE ReadFails(g)
  <2>0. faults' \in 0..MaxFaults  BY <1>6, <1>f DEF ReadFails, TypeOK
  <2>1. CASE Told(g)
    BY <1>6, <1>0, <1>l, <1>q, <2>0, <2>1 DEF ReadFails, TypeOK, MonitorPc
  <2>2. CASE ~Told(g)
    BY <1>6, <1>0, <1>l, <1>q, <2>0, <2>2 DEF ReadFails, TypeOK, MonitorPc
  <2> QED  BY <2>1, <2>2
<1>7. CASE Report(g)
  BY <1>7, <1>0, <1>l, <1>q DEF Report, EnterClose, TypeOK, MonitorPc
<1>8. CASE Close(g) \/ Closed(g)
  <2>1. PICK p \in MonitorPc : Goto(g, p)
    BY <1>8 DEF Close, Closed, AfterClose, MonitorPc
  <2>2. /\ pc' \in [Task -> MonitorPc \cup ClientPc] /\ \A h \in Monitors : pc'[h] \in MonitorPc
        /\ \A t \in Task \ {g} : pc'[t] = pc[t]
    BY <1>p, <2>1
  <2>3. /\ UNCHANGED <<monitorVars, plock, op, waits, opening, requests, ready, faults>>
        /\ pc[g] # "none" /\ published' \in Monitors \cup {NoTask}
        /\ uses' \in [Task -> Monitors \cup {NoTask}]
        /\ \A t \in Task \ {g} : uses'[t] = uses[t]
        /\ owner' \in Task \cup {NoTask, Lost, Leaving}
        /\ mlock' \in Lock /\ \A c \in Clients : mlock.holder = c => mlock'.holder = c
    BY <1>8, <1>0, <1>l DEF Close, Closed, TypeOK, taskVars, lockVars
  <2> HIDE DEF Goto
  <2> QED  BY <2>2, <2>3 DEF TypeOK, MonitorMoves
<1>9. CASE Sleep(g)
  BY <1>9, <1>0, <1>q DEF Sleep, TypeOK, MonitorPc, taskVars, lockVars
<1>10. CASE Begin(g)
  <2>1. PICK p \in MonitorPc : Goto(g, p)  BY <1>10 DEF Begin, MonitorPc
  <2>2. /\ pc' \in [Task -> MonitorPc \cup ClientPc] /\ \A h \in Monitors : pc'[h] \in MonitorPc
        /\ \A t \in Task \ {g} : pc'[t] = pc[t]
    BY <1>p, <2>1
  <2>3. /\ UNCHANGED <<current, stop, strays, ready, published, mlock, plock, owner, op, waits, uses,
                       opening, requests, faults>>
        /\ pc[g] # "none" /\ event' \in [Monitors -> Monitors \cup {NoTask}]
    BY <1>10 DEF Begin, TypeOK, lockVars
  <2> HIDE DEF Goto
  <2> QED  BY <2>2, <2>3 DEF TypeOK, MonitorMoves
<1> QED  BY <1>10, <1>1, <1>2, <1>3, <1>4, <1>5, <1>6, <1>7, <1>8, <1>9 DEF Monitor

\* A step of client c: the other clients stay where they are and keep their locks,
\* and no session is published, taken back or assigned to a monitor.
ClientMoves(c) ==
  /\ \A d \in Clients \ {c} : /\ pc'[d] = pc[d] /\ op'[d] = op[d]
                              /\ waits'[d] = waits[d] /\ uses'[d] = uses[d]
                              /\ mlock.holder = d => mlock'.holder = d
                              /\ plock.holder = d => plock'.holder = d
  /\ \A g \in Monitors : uses'[g] = uses[g]
  /\ UNCHANGED published

\* What a client's step does to the monitors: nothing, or it starts one.
Same == current' = current /\ \A g \in Monitors : pc'[g] = pc[g]
StartsNew(c) ==
  /\ waits[c] # NoTask
  /\ \E g \in Monitors :
       /\ ~Alive(g) /\ current' = g /\ pc'[g] = "start"
       /\ \A h \in Monitors \ {g} : pc'[h] = pc[h]
Done(c) == pc'[c] = "idle" /\ op'[c] = "none" /\ waits'[c] = NoTask

\* What the type invariant says of the requests.
ClientTypes ==
  /\ pc \in [Task -> MonitorPc \cup ClientPc] /\ \A g \in Monitors : pc[g] \in MonitorPc
  /\ op \in [Clients -> Ops \cup {"none"}]
  /\ waits \in [Clients -> Monitors \cup {NoTask}]
  /\ uses \in [Task -> Monitors \cup {NoTask}]

\* A client goes on at p.
LEMMA GotoMoves ==
  ASSUME TypeOK, NEW c \in Clients, NEW p \in ClientPc, Goto(c, p)
  PROVE  /\ pc' \in [Task -> MonitorPc \cup ClientPc] /\ \A g \in Monitors : pc'[g] \in MonitorPc
         /\ pc'[c] = p /\ \A t \in Task \ {c} : pc'[t] = pc[t]
         /\ \A g \in Monitors : pc'[g] = pc[g]
BY Actors DEF TypeOK, Goto

\* A request ends, and may start a monitor.
LEMMA FinishMoves ==
  ASSUME TypeOK, NEW c \in Clients, NEW g \in Monitors \cup {NoTask}, Finish(c, g)
  PROVE  /\ ClientTypes' /\ Done(c)
         /\ \A d \in Clients \ {c} : /\ pc'[d] = pc[d] /\ op'[d] = op[d]
                                     /\ waits'[d] = waits[d] /\ uses'[d] = uses[d]
         /\ \A h \in Monitors : uses'[h] = uses[h] /\ pc'[h] = IF h = g THEN "start" ELSE pc[h]
<1>1. /\ pc' = [t \in Task |-> IF t = c THEN "idle" ELSE IF t = g THEN "start" ELSE pc[t]]
      /\ op' = [op EXCEPT ![c] = "none"] /\ waits' = [waits EXCEPT ![c] = NoTask]
      /\ uses' = [uses EXCEPT ![c] = NoTask]
  BY DEF Finish
<1>2. /\ pc'[c] = "idle" /\ \A d \in Clients \ {c} : pc'[d] = pc[d]
      /\ \A h \in Monitors : pc'[h] = IF h = g THEN "start" ELSE pc[h]
  BY <1>1, Actors DEF TypeOK
<1>3. /\ pc' \in [Task -> MonitorPc \cup ClientPc] /\ \A h \in Monitors : pc'[h] \in MonitorPc
  BY <1>1, <1>2, Actors DEF TypeOK, MonitorPc, ClientPc
<1>4. /\ op' \in [Clients -> Ops \cup {"none"}] /\ waits' \in [Clients -> Monitors \cup {NoTask}]
      /\ uses' \in [Task -> Monitors \cup {NoTask}]
  BY <1>1, Actors DEF TypeOK
<1>5. /\ op'[c] = "none" /\ waits'[c] = NoTask
      /\ \A d \in Clients \ {c} : op'[d] = op[d] /\ waits'[d] = waits[d] /\ uses'[d] = uses[d]
      /\ \A h \in Monitors : uses'[h] = uses[h]
  BY <1>1, Actors DEF TypeOK
<1> QED  BY <1>2, <1>3, <1>4, <1>5 DEF ClientTypes, Done

\* The monitors left behind when the current one is taken to be cur.
Left(c, cur) == strays \cup (IF cur = current THEN {} ELSE Forgotten(c))

LEMMA LeftType ==
  ASSUME TypeOK, NEW c \in Clients, NEW cur
  PROVE  Left(c, cur) \subseteq Monitors /\ strays \cup Forgotten(c) \subseteq Monitors
BY DEF TypeOK, Left, Forgotten, Monitoring

\* What start_monitor does at the end of a request.
LEMMA StartAndFinishMoves ==
  ASSUME TypeOK, NEW c \in Clients, NEW cur \in Monitors \cup {NoTask}, StartAndFinish(c, cur)
  PROVE  /\ ClientTypes' /\ Done(c)
         /\ current' \in Monitors \cup {NoTask} /\ stop' \subseteq Monitors /\ ready' \in BOOLEAN
         /\ strays' \subseteq Monitors /\ UNCHANGED event
         /\ \A d \in Clients \ {c} : /\ pc'[d] = pc[d] /\ op'[d] = op[d]
                                     /\ waits'[d] = waits[d] /\ uses'[d] = uses[d]
         /\ \A g \in Monitors : uses'[g] = uses[g]
         /\ \/ /\ (cur = NoTask \/ ~Alive(cur)) /\ StartsNew(c)
               /\ strays' = (Left(c, cur) \ {current'}) \cup (IF Beside(c) THEN {current'} ELSE {})
            \/ /\ current' = cur /\ \A g \in Monitors : pc'[g] = pc[g]
               /\ strays' = Left(c, cur)
               /\ waits[c] = NoTask \/ (cur # NoTask /\ Alive(cur))
<1>1. CASE waits[c] # NoTask /\ (cur = NoTask \/ ~Alive(cur))
  <2>1. PICK g \in Monitors :
           /\ ~Alive(g) /\ current' = g /\ stop' = stop \ {g} /\ ready' = FALSE /\ UNCHANGED event
           /\ strays' = (Left(c, cur) \ {g}) \cup (IF Beside(c) THEN {g} ELSE {})
           /\ Finish(c, g)
    BY <1>1 DEF StartAndFinish, Unused, Left
  <2>2. StartsNew(c)  BY <1>1, <2>1, FinishMoves DEF StartsNew
  <2>3. strays' \subseteq Monitors  BY <2>1, LeftType
  <2> QED  BY <1>1, <2>1, <2>2, <2>3, FinishMoves DEF TypeOK
<1>2. CASE ~(waits[c] # NoTask /\ (cur = NoTask \/ ~Alive(cur)))
  <2>1. current' = cur /\ UNCHANGED <<stop, event, ready>> /\ Finish(c, NoTask)
        /\ strays' = Left(c, cur)
    BY <1>2 DEF StartAndFinish, Left
  <2>2. \A g \in Monitors : pc'[g] = pc[g]
    BY <2>1, FinishMoves, Actors
  <2>3. strays' \subseteq Monitors  BY <2>1, LeftType
  <2> QED  BY <1>2, <2>1, <2>2, <2>3, FinishMoves DEF TypeOK
<1> QED  BY <1>1, <1>2

\* The steps of a client have one of two shapes: the request goes on, or it ends.
LockStep(L, M, c) == M = L \/ M = Acquire(L, c) \/ (L.holder = c /\ M = Release(L))

Rest(c) ==
  /\ UNCHANGED <<published, opening>>
  /\ LockStep(mlock, mlock', c) /\ LockStep(plock, plock', c)
  /\ owner' \in {owner, c, NoTask}
  /\ faults' \in 0..MaxFaults /\ requests' \in 0..MaxRequests

GoesOn(c) ==
  /\ \E p \in ClientPc : Goto(c, p)
  /\ op' = op \/ \E o \in Ops : op' = [op EXCEPT ![c] = o]
  /\ uses' = uses \/ uses' = [uses EXCEPT ![c] = published]
  /\ \/ UNCHANGED <<taskVars, waits>>
     \/ Monitoring /\ BeginStop(c)
     \/ /\ current' = NoTask /\ strays' = strays \cup Forgotten(c)
        /\ UNCHANGED <<stop, event, ready, waits>>

Ends(c) ==
  \/ Finish(c, NoTask) /\ UNCHANGED taskVars
  \/ \E cur \in {NoTask, current} : StartAndFinish(c, cur)

\* A lock after a step of c is a lock, and nobody else has lost it.
LEMMA LockStepKeeps ==
  ASSUME NEW L \in Lock, NEW M, NEW c \in Task, LockStep(L, M, c)
  PROVE  M \in Lock /\ \A d \in Task \ {c} : L.holder = d => M.holder = d
BY LockTypes, LockKept DEF LockStep

LEMMA ClientShapes ==
  ASSUME TypeOK, Sessions, NEW c \in Clients, Client(c) \/ \E o \in Ops : Request(c, o)
  PROVE  Rest(c) /\ (GoesOn(c) \/ Ends(c))
<1>t. faults \in 0..MaxFaults /\ requests \in 0..MaxRequests  BY DEF TypeOK
<1>f. ASSUME NEW f, Fault(f) PROVE faults' \in 0..MaxFaults
  BY <1>f, <1>t, Actors DEF Fault
<1>p. {"idle", "ready", "lock", "command", "short", "short_run", "plock", "stopping",
       "operation", "running", "probe"} \subseteq ClientPc
  BY DEF ClientPc
<1>h. pc[c] \in {"command", "short", "short_run"} => mlock.holder = c
  BY DEF Sessions, ClientOf
<1> USE DEF Rest, LockStep, taskVars, monitorVars, lockVars
<1>1. CASE Ready(c)  BY <1>1, <1>t, <1>p DEF Ready, GoesOn
<1>2. CASE ReadyTimesOut(c)  BY <1>2, <1>t DEF ReadyTimesOut, Ends
<1>3. CASE Locked(c)
  <2>1. Rest(c)  BY <1>3, <1>t DEF Locked
  <2>2. GoesOn(c) \/ Ends(c)  BY <1>3, <1>p DEF Locked, GoesOn, Ends
  <2> QED  BY <2>1, <2>2
<1>4. CASE Command(c)  BY <1>4, <1>t, <1>h DEF Command, Ends
<1>5. CASE CommandFails(c)
  <2>1. faults' \in 0..MaxFaults  BY <1>5, <1>t, <1>f DEF CommandFails
  <2>2. CASE Monitoring /\ BeginStop(c) /\ UNCHANGED <<op, uses>>
    <3>1. \E p \in ClientPc : Goto(c, p)  BY <1>p, <2>2 DEF BeginStop
    <3> QED  BY <1>5, <1>t, <1>h, <2>1, <2>2, <3>1 DEF CommandFails, GoesOn
  <2>3. CASE ~Monitoring
    BY <1>5, <1>t, <1>h, <2>1, <2>3 DEF CommandFails, Ends
  <2> QED  BY <1>5, <2>2, <2>3 DEF CommandFails
<1>6. CASE Short(c)
  BY <1>6, <1>t, <1>h, <1>p DEF Short, Own, GoesOn, Ends
<1>7. CASE ShortDone(c)  BY <1>7, <1>t, <1>h DEF ShortDone, Ends
<1>8. CASE Exclusive(c)
  <2>1. CASE Monitoring /\ BeginStop(c)
    <3>1. \E p \in ClientPc : Goto(c, p)  BY <1>p, <2>1 DEF BeginStop
    <3> QED  BY <1>8, <1>t, <2>1, <3>1 DEF Exclusive, GoesOn
  <2>2. CASE ~Monitoring
    BY <1>8, <1>t, <1>p, <2>2 DEF Exclusive, GoesOn
  <2> QED  BY <1>8, <2>1, <2>2 DEF Exclusive
<1>9. CASE Operation(c)
  BY <1>9, <1>t, <1>p DEF Operation, EndExclusive, Own, GoesOn, Ends
<1>10. CASE Running(c)
  <2>1. CASE EndExclusive(c) /\ UNCHANGED faults
    BY <1>10, <1>t, <2>1 DEF Running, EndExclusive, Ends
  <2>2. CASE Goto(c, "operation") /\ faults < MaxFaults /\ faults' = faults + 1
             /\ UNCHANGED <<taskVars, published, lockVars, op, waits, uses, opening, requests>>
    <3>1. faults' \in 0..MaxFaults  BY <1>t, <2>2, Actors
    <3> QED  BY <1>10, <1>t, <1>p, <2>2, <3>1 DEF Running, GoesOn
  <2> QED  BY <1>10, <2>1, <2>2 DEF Running
<1>11. CASE Probe(c)  BY <1>11, <1>t DEF Probe, Ends
<1>12. CASE Stopped(c)  BY <1>12, <1>t, <1>p DEF Stopped, GoesOn, Ends
<1>13. ASSUME NEW o \in Ops, Request(c, o) PROVE Rest(c) /\ GoesOn(c)
  <2>1. requests' \in 0..MaxRequests  BY <1>13, <1>t, Actors DEF Request
  <2>2. Rest(c)  BY <1>13, <1>t, <2>1 DEF Request
  <2>3. \E p \in ClientPc : Goto(c, p)
    BY <1>13, <1>p DEF Request, BeginStop
  <2>4. UNCHANGED uses /\ op' = [op EXCEPT ![c] = o]  BY <1>13 DEF Request
  <2>5. UNCHANGED <<taskVars, waits>> \/ (Monitoring /\ BeginStop(c))
    BY <1>13 DEF Request
  <2> QED  BY <2>2, <2>3, <2>4, <2>5 DEF GoesOn
<1> QED
  BY <1>1, <1>2, <1>3, <1>4, <1>5, <1>6, <1>7, <1>8, <1>9, <1>10, <1>11, <1>12, <1>13 DEF Client

\* The steps of a client are typed, and leave the others to themselves.
LEMMA ClientStep ==
  ASSUME TypeOK, Sessions, NEW c \in Clients, Client(c) \/ \E o \in Ops : Request(c, o)
  PROVE  TypeOK' /\ ClientMoves(c)
<1> USE Actors
<1>0. Rest(c) /\ (GoesOn(c) \/ Ends(c))  BY ClientShapes
<1>1. /\ mlock' \in Lock /\ plock' \in Lock
      /\ \A d \in Clients \ {c} : /\ mlock.holder = d => mlock'.holder = d
                                  /\ plock.holder = d => plock'.holder = d
  BY <1>0, LockStepKeeps DEF Rest, TypeOK
<1>2. /\ published' \in Monitors \cup {NoTask} /\ owner' \in Task \cup {NoTask, Lost, Leaving}
      /\ opening' \in Nat /\ requests' \in 0..MaxRequests /\ faults' \in 0..MaxFaults
      /\ UNCHANGED published
  BY <1>0 DEF Rest, TypeOK
<1>3. CASE GoesOn(c)
  <2>1. PICK p \in ClientPc : Goto(c, p)  BY <1>3 DEF GoesOn
  <2>2. /\ pc' \in [Task -> MonitorPc \cup ClientPc] /\ \A g \in Monitors : pc'[g] \in MonitorPc
        /\ \A d \in Clients \ {c} : pc'[d] = pc[d]
    BY <2>1, GotoMoves
  <2>3. /\ op' \in [Clients -> Ops \cup {"none"}] /\ \A d \in Clients \ {c} : op'[d] = op[d]
        /\ uses' \in [Task -> Monitors \cup {NoTask}]
        /\ \A t \in Task \ {c} : uses'[t] = uses[t]
    BY <1>3 DEF GoesOn, TypeOK
  <2>4. /\ current' \in Monitors \cup {NoTask} /\ stop' \subseteq Monitors /\ ready' \in BOOLEAN
        /\ strays' \subseteq Monitors /\ UNCHANGED event
        /\ waits' \in [Clients -> Monitors \cup {NoTask}]
        /\ \A d \in Clients \ {c} : waits'[d] = waits[d]
    <3>1. CASE UNCHANGED <<taskVars, waits>>  BY <3>1 DEF TypeOK, taskVars, monitorVars
    <3>2. CASE Monitoring /\ BeginStop(c)
      BY <3>2 DEF TypeOK, BeginStop, Monitoring
    <3>3. CASE /\ current' = NoTask /\ strays' = strays \cup Forgotten(c)
               /\ UNCHANGED <<stop, event, ready, waits>>
      BY <3>3, LeftType DEF TypeOK
    <3> QED  BY <1>3, <3>1, <3>2, <3>3 DEF GoesOn
  <2> QED  BY <1>1, <1>2, <2>2, <2>3, <2>4 DEF TypeOK, ClientMoves
<1>4. CASE Ends(c)
  <2>1. CASE Finish(c, NoTask) /\ UNCHANGED taskVars
    BY <1>1, <1>2, <2>1, FinishMoves DEF TypeOK, ClientTypes, ClientMoves, taskVars, monitorVars
  <2>2. CASE \E cur \in {NoTask, current} : StartAndFinish(c, cur)
    <3>1. PICK cur \in Monitors \cup {NoTask} : StartAndFinish(c, cur)  BY <2>2 DEF TypeOK
    <3> QED  BY <1>1, <1>2, <3>1, StartAndFinishMoves DEF TypeOK, ClientTypes, ClientMoves
  <2> QED  BY <1>4, <2>1, <2>2 DEF Ends
<1> QED  BY <1>0, <1>3, <1>4

\* A stop that times out cancels the monitor it waits for.
LEMMA TimeoutStep ==
  ASSUME TypeOK, Sessions, NEW c \in Clients, StopTimesOut(c)
  PROVE  /\ TypeOK' /\ ClientMoves(c)
         /\ waits[c] \in Monitors /\ Alive(waits[c])
         /\ pc[c] = "stopping" /\ pc'[c] = "cancelled"
         /\ pc'[waits[c]] = IF pc[waits[c]] \in {"close", "closing", "sleep"} THEN "none" ELSE "close"
         /\ \A t \in Task \ {c, waits[c]} : pc'[t] = pc[t]
<1> USE Actors
<1> DEFINE g == waits[c]
<1>0. pc[c] = "stopping" /\ g \in Monitors /\ c # g /\ g \in Task /\ pc[g] \in Slow
  BY DEF StopTimesOut, Sessions, ClientOf, TypeOK
<1>1. pc' = [pc EXCEPT ![c] = "cancelled",
                       ![g] = IF pc[g] \in {"close", "closing", "sleep"} THEN "none" ELSE "close"]
  BY DEF StopTimesOut
<1>2. /\ pc' \in [Task -> MonitorPc \cup ClientPc] /\ \A h \in Monitors : pc'[h] \in MonitorPc
      /\ pc'[c] = "cancelled" /\ pc'[g] = IF pc[g] \in {"close", "closing", "sleep"} THEN "none" ELSE "close"
      /\ \A t \in Task \ {c, g} : pc'[t] = pc[t]
  <2> HIDE DEF g
  <2> QED  BY <1>0, <1>1 DEF TypeOK, MonitorPc, ClientPc
<1>3. /\ mlock' \in Lock /\ \A d \in Clients : mlock.holder = d => mlock'.holder = d
  <2>1. mlock \in Lock  BY DEF TypeOK
  <2>2. mlock' = Withdraw(mlock, g) \/ mlock' = Acquire(Withdraw(mlock, g), g)  BY DEF StopTimesOut
  <2> QED  BY <1>0, <2>1, <2>2, LockTypes, LockKept
<1>4. owner' \in Task \cup {NoTask, Lost, Leaving} /\ opening' \in Nat /\ ready' \in BOOLEAN
  <2>1. owner' \in {owner, Lost, Leaving} /\ opening' \in {opening, opening + 1} /\ ready' \in {ready, FALSE}
    BY DEF StopTimesOut
  <2>2. owner \in Task \cup {NoTask, Lost, Leaving} /\ opening \in Nat  BY DEF TypeOK
  <2>3. owner' \in Task \cup {NoTask, Lost, Leaving}  BY <2>1, <2>2
  <2>4. opening' \in Nat  BY <2>1, <2>2
  <2>5. ready' \in BOOLEAN  BY <2>1 DEF TypeOK
  <2> QED  BY <2>3, <2>4, <2>5
<1>5. UNCHANGED <<monitorVars, published, plock, op, waits, uses, requests, faults>>
  BY DEF StopTimesOut
<1>6. Alive(g)  BY <1>0, PortAssumption DEF Alive
<1>7. TypeOK'  BY <1>2, <1>3, <1>4, <1>5 DEF TypeOK, monitorVars
<1>8. ClientMoves(c)  BY <1>0, <1>2, <1>3, <1>5 DEF ClientMoves
<1> QED  BY <1>0, <1>2, <1>6, <1>7, <1>8

-----------------------------------------------------------------------------
(* Whose session it is                                                       *)

\* The steps of a monitor keep Sessions: publishing and closing take turns under
\* _monitor_lock, opening and closing under the lock file.
LEMMA MonitorSessions ==
  ASSUME TypeOK, Sessions, NEW g \in Monitors, Monitor(g)
  PROVE  Sessions'
<1> USE Actors
<1>0. TypeOK' /\ MonitorMoves(g)  BY MonitorStep
<1>a. \A c \in Clients : pc'[c] = pc[c] /\ uses'[c] = uses[c] /\ waits'[c] = waits[c]
  BY <1>0 DEF MonitorMoves
<1>b. \A h \in Monitors \ {g} : pc'[h] = pc[h] /\ uses'[h] = uses[h]
  BY <1>0 DEF MonitorMoves
<1>c. g \in Task /\ published \in Monitors \cup {NoTask} /\ \A h \in Monitors : uses[h] \in Monitors \cup {NoTask}
  BY DEF TypeOK
\* Nothing but g's place changes, and g goes nowhere in particular.
<1>d. ASSUME UNCHANGED <<owner, published, uses>>,
             pc'[g] \notin {"configure", "publish", "closing"}
      PROVE  Sessions'
  <2>1. \A c \in Clients : ClientOf(c)'
    BY <1>0, <1>a, <1>d DEF Sessions, ClientOf, MonitorMoves
  <2>2. \A h \in Monitors : SessionOf(h)'
    BY <1>b, <1>d DEF Sessions, SessionOf
  <2> QED  BY <1>d, <2>1, <2>2 DEF Sessions
<1>e. Failed(g) => pc'[g] \in {"close", "report"}
  BY <1>c DEF Failed, EnterClose, Goto, TypeOK
<1>1. CASE Open(g)
  <2>1. CASE Own(g) /\ Goto(g, "configure")
    <3>1. owner = NoTask /\ owner' = g /\ published = NoTask /\ published' = NoTask
          /\ pc'[g] = "configure"
      BY <1>1, <1>c, <2>1 DEF Open, Own, Goto, TypeOK, Sessions
    <3>2. \A h \in Monitors : pc[h] \notin {"configure", "publish", "closing"}
      BY <3>1 DEF Sessions, SessionOf
    <3>3. \A h \in Monitors : SessionOf(h)'  BY <1>b, <3>1, <3>2 DEF SessionOf
    <3>4. \A c \in Clients : ClientOf(c)'
      BY <1>0, <1>a, <3>1 DEF Sessions, ClientOf, MonitorMoves
    <3> QED  BY <3>1, <3>3, <3>4 DEF Sessions
  <2>2. CASE ~(Own(g) /\ Goto(g, "configure"))
    <3>1. Failed(g) /\ UNCHANGED <<owner, published, uses>>  BY <1>1, <2>2 DEF Open
    <3> QED  BY <1>d, <1>e, <3>1
  <2> QED  BY <2>1, <2>2
<1>2. CASE Configure(g)
  <2>0. owner = g /\ published = NoTask /\ UNCHANGED <<published, uses>>
    BY <1>2 DEF Configure, Sessions, SessionOf
  <2>1. \A c \in Clients : ClientOf(c)'
    BY <1>0, <1>a, <2>0 DEF Sessions, ClientOf, MonitorMoves
  <2>2. \A h \in Monitors \ {g} : pc'[h] \notin {"configure", "publish", "closing"}
    BY <1>b, <1>2, <2>0 DEF Sessions, SessionOf, Configure
  <2>3. \/ pc'[g] = "publish" /\ owner' = g
        \/ pc'[g] \in {"close", "report"}
    BY <1>2, <1>c, <1>e, <2>0 DEF Configure, Goto, TypeOK
  <2> QED  BY <2>0, <2>1, <2>2, <2>3 DEF Sessions, SessionOf
<1>3. CASE Publish(g)
  <2>0. /\ owner = g /\ published = NoTask /\ published' = g /\ UNCHANGED <<owner, uses>>
        /\ pc'[g] = "announce" /\ mlock.holder = g /\ pc[g] = "publish"
    BY <1>3, <1>c DEF Publish, Sessions, SessionOf, Goto, TypeOK
  <2>1. \A c \in Clients : ClientOf(c)'
    BY <1>0, <1>a, <2>0 DEF Sessions, ClientOf, MonitorMoves
  <2>2. \A h \in Monitors \ {g} : pc[h] \notin {"configure", "publish", "closing"}
    BY <2>0 DEF Sessions, SessionOf
  <2> QED  BY <1>b, <2>0, <2>1, <2>2 DEF Sessions, SessionOf
<1>4. CASE Announce(g)
  BY <1>4, <1>c, <1>d DEF Announce, EnterClose, Goto, TypeOK
<1>5. CASE Read(g)
  BY <1>5, <1>c, <1>d DEF Read, Goto, TypeOK
<1>6. CASE ReadFails(g)
  BY <1>6, <1>c, <1>d DEF ReadFails, Goto, TypeOK
<1>7. CASE Report(g)
  BY <1>7, <1>c, <1>d DEF Report, EnterClose, Goto, TypeOK
<1>8. CASE Close(g)
  <2>0. /\ published' = NoTask /\ UNCHANGED owner /\ mlock.holder = g
        /\ pc'[g] = IF published = NoTask THEN AfterClose(g) ELSE "closing"
        /\ uses'[g] = published
    BY <1>8, <1>c DEF Close, Goto, TypeOK
  <2>1. \A c \in Clients : pc[c] \notin {"command", "short", "short_run"}
    BY <2>0 DEF Sessions, ClientOf
  <2>2. \A c \in Clients : ClientOf(c)'
    BY <1>a, <2>0, <2>1 DEF Sessions, ClientOf
  <2>3. CASE published = NoTask
    <3>1. pc'[g] \notin {"configure", "publish", "closing"}  BY <2>0, <2>3 DEF AfterClose
    <3> QED  BY <1>b, <2>0, <2>2, <2>3, <3>1 DEF Sessions, SessionOf
  <2>4. CASE published # NoTask
    <3>1. \A h \in Monitors : pc[h] \notin {"configure", "publish", "closing"}
      BY <2>4 DEF Sessions, SessionOf
    <3> QED  BY <1>b, <2>0, <2>2, <2>4, <3>1 DEF Sessions, SessionOf
  <2> QED  BY <2>3, <2>4
<1>9. CASE Closed(g)
  <2>0. /\ owner' = NoTask /\ owner = uses[g] /\ owner \in Monitors /\ published = NoTask
        /\ UNCHANGED published
        /\ \A h \in Monitors \ {g} : pc[h] \notin {"configure", "publish", "closing"}
    BY <1>9, <1>c DEF Closed, Sessions, SessionOf
  <2>1. pc'[g] \notin {"configure", "publish", "closing"}
    BY <1>9, <1>c DEF Closed, AfterClose, Goto, TypeOK
  <2>2. \A c \in Clients : ClientOf(c)'
    BY <1>0, <1>a, <2>0 DEF Sessions, ClientOf, MonitorMoves
  <2> QED  BY <1>b, <2>0, <2>1, <2>2 DEF Sessions, SessionOf
<1>10. CASE Sleep(g)
  BY <1>10, <1>c, <1>d DEF Sleep, Goto, TypeOK
<1>11. CASE Begin(g)
  BY <1>11, <1>c, <1>d DEF Begin, Goto, TypeOK
<1> QED  BY <1>11, <1>1, <1>2, <1>3, <1>4, <1>5, <1>6, <1>7, <1>8, <1>9, <1>10 DEF Monitor

\* The steps of a client keep Sessions: it closes no session but its own, and
\* opens one only when there is none.
LEMMA ClientSessions ==
  ASSUME TypeOK, Sessions, NEW c \in Clients, Client(c) \/ \E o \in Ops : Request(c, o)
  PROVE  Sessions'
<1> USE Actors
<1>0. TypeOK' /\ ClientMoves(c) /\ Rest(c) /\ (GoesOn(c) \/ Ends(c))
  BY ClientStep, ClientShapes
<1>m. \A g \in Monitors : pc'[g] = pc[g] \/ pc'[g] = "start"
  <2>1. CASE GoesOn(c)  BY <2>1, GotoMoves DEF GoesOn
  <2>2. CASE Finish(c, NoTask)  BY <2>2, FinishMoves
  <2>3. CASE \E cur \in {NoTask, current} : StartAndFinish(c, cur)
    <3>1. PICK cur \in Monitors \cup {NoTask} : StartAndFinish(c, cur)  BY <2>3 DEF TypeOK
    <3> QED  BY <3>1, StartAndFinishMoves DEF StartsNew
  <2> QED  BY <1>0, <2>1, <2>2, <2>3 DEF Ends
<1>p. ASSUME NEW p \in ClientPc, Goto(c, p) PROVE pc'[c] = p
  BY <1>p, GotoMoves
<1>e. ASSUME Ends(c) PROVE pc'[c] = "idle"
  <2>1. CASE Finish(c, NoTask)  BY <2>1, FinishMoves DEF Done
  <2>2. CASE \E cur \in {NoTask, current} : StartAndFinish(c, cur)
    <3>1. PICK cur \in Monitors \cup {NoTask} : StartAndFinish(c, cur)  BY <2>2 DEF TypeOK
    <3> QED  BY <3>1, StartAndFinishMoves DEF Done
  <2> QED  BY <1>e, <2>1, <2>2 DEF Ends
\* The lock file is left alone ...
<1>k. ASSUME UNCHANGED owner, ClientOf(c)' PROVE Sessions'
  <2>1. \A g \in Monitors : SessionOf(g)'
    BY <1>0, <1>k, <1>m DEF Sessions, SessionOf, ClientMoves
  <2>2. \A d \in Clients : ClientOf(d)'
    BY <1>0, <1>k DEF Sessions, ClientOf, ClientMoves
  <2> QED  BY <1>0, <1>k, <2>1, <2>2 DEF Sessions, ClientMoves
\* ... or there is no session but that of c.
<1>o. ASSUME owner \in {NoTask, c}, ClientOf(c)' PROVE Sessions'
  <2>1. published = NoTask /\ UNCHANGED published
    BY <1>0, <1>o DEF Sessions, TypeOK, ClientMoves
  <2>2. \A g \in Monitors : pc[g] \notin {"configure", "publish", "closing"}
    BY <1>o DEF Sessions, SessionOf, TypeOK
  <2>3. \A d \in Clients \ {c} : pc[d] \notin {"command", "short_run", "running"}
    BY <1>o, <2>1 DEF Sessions, ClientOf
  <2>4. \A d \in Clients : ClientOf(d)'
    BY <1>0, <1>o, <2>3 DEF Sessions, ClientOf, ClientMoves
  <2> QED  BY <1>m, <2>1, <2>2, <2>4 DEF Sessions, SessionOf
<1>i. pc'[c] \in {"idle", "ready", "lock", "plock", "operation", "probe"} => ClientOf(c)'
  BY DEF ClientOf
<1>h. ASSUME Monitoring, BeginStop(c) PROVE ClientOf(c)'
  <2>1. pc'[c] = "stopping" /\ waits'[c] = current /\ current # NoTask
    BY <1>h, <1>p DEF BeginStop, Monitoring, TypeOK, ClientPc
  <2> QED  BY <2>1 DEF ClientOf
<1>1. CASE Ready(c)
  BY <1>1, <1>p, <1>i, <1>k DEF Ready, ClientPc
<1>2. CASE ReadyTimesOut(c)
  BY <1>2, <1>e, <1>i, <1>k DEF ReadyTimesOut, Ends, taskVars
<1>3. CASE Locked(c)
  <2>1. CASE published # NoTask /\ uses' = [uses EXCEPT ![c] = published]
             /\ Goto(c, "command") /\ UNCHANGED <<mlock, op, waits>>
    <3>1. pc'[c] = "command" /\ uses'[c] = published /\ mlock'.holder = c /\ published' = published
      BY <1>3, <1>p, <2>1 DEF Locked, ClientPc, TypeOK
    <3> QED  BY <1>3, <1>k, <2>1, <3>1 DEF ClientOf, Locked
  <2>2. CASE Finish(c, NoTask)
    BY <1>3, <1>e, <1>i, <1>k, <2>2 DEF Locked, Ends
  <2>3. CASE Goto(c, "short") /\ UNCHANGED <<mlock, op, waits, uses>>
    <3>1. pc'[c] = "short" /\ mlock'.holder = c
      BY <1>3, <1>p, <2>3 DEF Locked, ClientPc
    <3> QED  BY <1>3, <1>k, <3>1 DEF ClientOf, Locked
  <2> QED  BY <1>3, <2>1, <2>2, <2>3 DEF Locked
<1>4. CASE Command(c)
  BY <1>4, <1>e, <1>i, <1>k DEF Command, Ends
<1>5. CASE CommandFails(c)
  BY <1>5, <1>e, <1>h, <1>i, <1>k DEF CommandFails, Ends
<1>6. CASE Short(c)
  <2>1. CASE Own(c) /\ Goto(c, "short_run") /\ UNCHANGED <<mlock, op, waits, uses>>
    <3>1. pc'[c] = "short_run" /\ owner' = c /\ mlock'.holder = c /\ owner = NoTask
      BY <1>6, <1>p, <2>1 DEF Short, Own, ClientPc, Sessions, ClientOf
    <3> QED  BY <1>o, <3>1 DEF ClientOf
  <2>2. CASE Finish(c, NoTask) /\ UNCHANGED owner
    BY <1>6, <1>e, <1>i, <1>k, <2>2 DEF Short, Ends
  <2> QED  BY <1>6, <2>1, <2>2 DEF Short
<1>7. CASE ShortDone(c)
  <2>1. owner = c  BY <1>7 DEF ShortDone, Sessions, ClientOf
  <2> QED  BY <1>7, <1>e, <1>i, <1>o, <2>1 DEF ShortDone, Ends
<1>8. CASE Exclusive(c)
  BY <1>8, <1>p, <1>h, <1>i, <1>k DEF Exclusive, ClientPc
<1>9. CASE Operation(c)
  <2>1. CASE Own(c) /\ Goto(c, "running")
    <3>1. pc'[c] = "running" /\ owner' = c /\ owner = NoTask
      BY <1>p, <2>1 DEF Own, ClientPc
    <3> QED  BY <1>o, <3>1 DEF ClientOf
  <2>2. CASE EndExclusive(c) /\ UNCHANGED owner
    BY <1>e, <1>i, <1>k, <2>2 DEF EndExclusive, Ends
  <2> QED  BY <1>9, <2>1, <2>2 DEF Operation
<1>10. CASE Running(c)
  <2>1. owner = c  BY <1>10 DEF Running, Sessions, ClientOf
  <2>2. CASE EndExclusive(c)
    BY <1>e, <1>i, <1>o, <2>1, <2>2 DEF EndExclusive, Ends
  <2>3. CASE Goto(c, "operation")
    BY <1>p, <1>i, <1>o, <2>1, <2>3 DEF ClientPc
  <2> QED  BY <1>10, <2>2, <2>3 DEF Running
<1>11. CASE Probe(c)
  BY <1>11, <1>e, <1>i, <1>k DEF Probe, Ends
<1>12. CASE Stopped(c)
  <2>1. CASE StartAndFinish(c, NoTask)
    BY <1>12, <1>e, <1>i, <1>k, <2>1 DEF Stopped, Ends
  <2>2. CASE Goto(c, IF op[c] = "reconnect" THEN "probe" ELSE "operation")
    <3>1. pc'[c] \in {"probe", "operation"}  BY <1>p, <2>2 DEF ClientPc
    <3> QED  BY <1>12, <1>i, <1>k, <3>1 DEF Stopped
  <2> QED  BY <1>12, <2>1, <2>2 DEF Stopped
<1>13. ASSUME NEW o \in Ops, Request(c, o) PROVE Sessions'
  <2>1. UNCHANGED owner  BY <1>13 DEF Request
  <2>2. CASE Monitoring /\ BeginStop(c)  BY <1>h, <1>k, <2>1, <2>2
  <2>3. CASE \E p \in {"ready", "lock", "plock", "operation", "probe"} : Goto(c, p)
    <3>1. pc'[c] \in {"ready", "lock", "plock", "operation", "probe"}
      BY <1>p, <2>3 DEF ClientPc
    <3> QED  BY <1>i, <1>k, <2>1, <3>1
  <2> QED  BY <1>13, <2>2, <2>3 DEF Request
<1> QED
  BY <1>1, <1>2, <1>3, <1>4, <1>5, <1>6, <1>7, <1>8, <1>9, <1>10, <1>11, <1>12, <1>13 DEF Client

\* So do a monitor that is cancelled and the threads it leaves behind.
LEMMA TimeoutSessions ==
  ASSUME TypeOK, Sessions, NEW c \in Clients, StopTimesOut(c)
  PROVE  Sessions'
<1> USE Actors
<1> DEFINE g == waits[c]
<1>0. /\ ClientMoves(c) /\ g \in Monitors /\ Alive(g)
      /\ pc'[c] = "cancelled" /\ pc[c] = "stopping"
      /\ pc'[g] \in {"none", "close"} /\ \A t \in Task \ {c, g} : pc'[t] = pc[t]
  BY TimeoutStep
<1>1. UNCHANGED <<published, waits, uses>> /\ \A d \in Clients : mlock.holder = d => mlock'.holder = d
  <2>1. mlock \in Lock  BY DEF TypeOK
  <2>2. mlock' = Withdraw(mlock, g) \/ mlock' = Acquire(Withdraw(mlock, g), g)  BY DEF StopTimesOut
  <2>3. \A d \in Clients : mlock.holder = d => mlock'.holder = d
    BY <1>0, <2>1, <2>2, LockKept
  <2> QED  BY <2>3 DEF StopTimesOut
<1>2. CASE owner' = owner
  <2>1. \A h \in Monitors : SessionOf(h)'
    BY <1>0, <1>1, <1>2 DEF Sessions, SessionOf
  <2>2. \A d \in Clients : ClientOf(d)'
    <3> SUFFICES ASSUME NEW d \in Clients PROVE ClientOf(d)'  OBVIOUS
    <3>1. CASE d = c  BY <1>0, <1>1, <3>1 DEF Sessions, ClientOf
    <3>2. CASE d # c
      <4>1. pc'[d] = pc[d]  BY <1>0, <3>2
      <4> QED  BY <1>1, <1>2, <4>1 DEF Sessions, ClientOf
    <3> QED  BY <3>1, <3>2
  <2> QED  BY <1>1, <1>2, <2>1, <2>2 DEF Sessions
<1>3. CASE owner' # owner
  <2>0. pc[g] \in {"configure", "publish", "closing"}  BY <1>3 DEF StopTimesOut
  <2>1. published = NoTask /\ owner \in Monitors
    BY <1>0, <2>0 DEF Sessions, SessionOf, TypeOK
  <2>2. \A h \in Monitors \ {g} : pc[h] \notin {"configure", "publish", "closing"}
    BY <1>0, <2>0 DEF Sessions, SessionOf
  <2>3. \A h \in Monitors : SessionOf(h)'
    BY <1>0, <1>1, <2>1, <2>2 DEF SessionOf
  <2>4. \A d \in Clients : pc[d] \notin {"command", "short_run", "running"}
    BY <2>1 DEF Sessions, ClientOf
  <2>5. \A d \in Clients : ClientOf(d)'
    <3> SUFFICES ASSUME NEW d \in Clients PROVE ClientOf(d)'  OBVIOUS
    <3>1. CASE d = c  BY <1>0, <1>1, <3>1 DEF Sessions, ClientOf
    <3>2. CASE d # c
      <4>1. pc'[d] = pc[d]  BY <1>0, <3>2
      <4> QED  BY <1>1, <2>4, <4>1 DEF Sessions, ClientOf
    <3> QED  BY <3>1, <3>2
  <2> QED  BY <1>1, <2>1, <2>3, <2>5 DEF Sessions
<1> QED  BY <1>2, <1>3

\* A thread without a monitor touches the lock file, and nothing else.
LEMMA OrphanStep ==
  ASSUME TypeOK, Sessions, OrphanOpens \/ OrphanCloses
  PROVE  /\ TypeOK' /\ Sessions'
         /\ UNCHANGED <<taskVars, published, lockVars, pc, op, waits, uses, requests, faults>>
<1> USE Actors
<1>0. UNCHANGED <<taskVars, published, lockVars, pc, op, waits, uses, requests, faults>>
  BY DEF OrphanOpens, OrphanCloses
<1>1. owner' \in {owner, NoTask, Lost} /\ (owner' # owner => owner \in {NoTask, Leaving})
  BY DEF OrphanOpens, OrphanCloses
<1>2. opening' \in Nat  BY DEF OrphanOpens, OrphanCloses, TypeOK
<1>3. TypeOK'
  <2>1. owner' \in Task \cup {NoTask, Lost, Leaving}  BY <1>1 DEF TypeOK
  <2> QED  BY <1>0, <1>2, <2>1 DEF TypeOK, taskVars, monitorVars, lockVars
<1>4. CASE owner' = owner
  <2>1. \A g \in Monitors : SessionOf(g)'  BY <1>0, <1>4 DEF Sessions, SessionOf
  <2>2. \A d \in Clients : ClientOf(d)'  BY <1>0, <1>4 DEF Sessions, ClientOf, lockVars
  <2>3. published # NoTask => owner = published  BY DEF Sessions
  <2>4. Sessions'  BY <1>0, <1>4, <2>1, <2>2, <2>3 DEF Sessions
  <2> QED  BY <1>0, <1>3, <2>4
<1>5. CASE owner' # owner
  <2>0. owner \in {NoTask, Leaving}  BY <1>1, <1>5
  <2>1. published = NoTask  BY <2>0 DEF Sessions, TypeOK
  <2>2. \A g \in Monitors : pc[g] \notin {"configure", "publish", "closing"}
    BY <2>0 DEF Sessions, SessionOf, TypeOK
  <2>3. \A d \in Clients : pc[d] \notin {"command", "short_run", "running"}
    BY <2>0, <2>1 DEF Sessions, ClientOf
  <2>4. \A g \in Monitors : SessionOf(g)'  BY <1>0, <2>2 DEF SessionOf
  <2>5. \A d \in Clients : ClientOf(d)'  BY <1>0, <2>3 DEF Sessions, ClientOf, lockVars
  <2>6. published' = NoTask  BY <1>0, <2>1
  <2>7. Sessions'  BY <2>4, <2>5, <2>6 DEF Sessions
  <2> QED  BY <1>0, <1>3, <2>7
<1> QED  BY <1>0, <1>3, <1>4, <1>5

\* Type correctness, and who may hold and close a session: in every reachable
\* state, whatever the clients ask for and whatever fails.
THEOREM SessionsHold == Spec => [](TypeOK /\ Sessions)
<1>1. Init => TypeOK /\ Sessions
  <2> SUFFICES ASSUME Init PROVE Sessions  BY InitTyped
  <2>1. published = NoTask  BY DEF Init
  <2>2. \A g \in Monitors : pc[g] \in {"none", "start"}  BY Actors DEF Init
  <2>3. \A c \in Clients : pc[c] = "idle"  BY Actors DEF Init
  <2> QED  BY <2>1, <2>2, <2>3 DEF Sessions, SessionOf, ClientOf
<1>2. TypeOK /\ Sessions /\ [Next]_vars => TypeOK' /\ Sessions'
  <2> SUFFICES ASSUME TypeOK, Sessions, [Next]_vars PROVE TypeOK' /\ Sessions'  OBVIOUS
  <2>1. ASSUME NEW g \in Monitors, Monitor(g) PROVE TypeOK' /\ Sessions'
    BY <2>1, MonitorStep, MonitorSessions
  <2>2. ASSUME NEW c \in Clients, Client(c) \/ \E o \in Ops : Request(c, o) PROVE TypeOK' /\ Sessions'
    BY <2>2, ClientStep, ClientSessions
  <2>3. ASSUME NEW c \in Clients, StopTimesOut(c) PROVE TypeOK' /\ Sessions'
    BY <2>3, TimeoutStep, TimeoutSessions
  <2>4. CASE OrphanOpens \/ OrphanCloses  BY <2>4, OrphanStep
  <2>5. CASE UNCHANGED vars
    <3>1. TypeOK'  BY <2>5 DEF vars, TypeOK, taskVars, monitorVars, lockVars
    <3>2. Sessions'  BY <2>5 DEF vars, Sessions, SessionOf, ClientOf, taskVars, lockVars
    <3> QED  BY <3>1, <3>2
  <2> QED  BY <2>1, <2>2, <2>3, <2>4, <2>5 DEF Next
<1> QED  BY <1>1, <1>2, PTL DEF Spec

\* No session is closed under a command that uses it: _monitor_lock keeps the
\* monitors away from the published session, the lock file everybody else.
THEOREM CommandSafe == Spec => []CommandKeepsSession
<1>1. TypeOK /\ Sessions => CommandKeepsSession
  BY DEF Sessions, ClientOf, CommandKeepsSession
<1> QED  BY <1>1, SessionsHold, PTL

-----------------------------------------------------------------------------
(* Whose turn it is                                                          *)

\* When c takes current to be none, every monitor that lives is left behind: the
\* one c waited for has ended.
LEMMA AllLeft ==
  ASSUME TypeOK, OneMonitor, NEW c \in Clients, ~Alive(waits[c]), NEW g \in Monitors, Alive(g)
  PROVE  g \in strays \cup Forgotten(c)
BY Actors DEF OneMonitor, Forgotten, Monitoring

\* No monitor comes to life, none that is current or left behind is forgotten, and
\* only a client that has the port to itself, or meets strays, begins to work.
LEMMA CalmTurns ==
  ASSUME TypeOK, Turns, NEW c \in Clients, ClientMoves(c), UNCHANGED current, strays \subseteq strays',
         \A g \in Monitors : Alive(g)' => Alive(g),
         (Phase(c) /\ Ordered(c))',
         Working(c)' => Working(c) \/ ~Monitoring
  PROVE  Turns'
<1> USE Actors
<1>1. OneMonitor'  BY DEF Turns, OneMonitor
<1>2. ASSUME NEW d \in Clients \ {c} PROVE /\ (Phase(d) /\ Ordered(d))'
                                            /\ Working(d)' = Working(d)
  <2>0. /\ pc'[d] = pc[d] /\ op'[d] = op[d] /\ waits'[d] = waits[d]
        /\ plock.holder = d => plock'.holder = d
        /\ Phase(d) /\ Ordered(d)
    BY <1>2 DEF ClientMoves, Turns
  <2> QED  BY <2>0 DEF Phase, Ordered, Working
<1>3. ExclusiveOrdered'
  <2> SUFFICES ASSUME NEW d \in Clients, Working(d)', NEW g \in Monitors, Alive(g)'
               PROVE  g \in strays'
    BY DEF ExclusiveOrdered
  <2>1. Alive(g)  OBVIOUS
  <2>2. CASE Working(d)  BY <2>1, <2>2 DEF Turns, ExclusiveOrdered
  <2>3. CASE ~Working(d)
    <3>1. d = c /\ ~Monitoring  BY <1>2, <2>3
    <3>2. g # current  BY <2>1, <3>1 DEF Monitoring
    <3> QED  BY <2>1, <3>2 DEF Turns, OneMonitor
  <2> QED  BY <2>2, <2>3
<1> QED  BY <1>1, <1>2, <1>3 DEF Turns

\* A client that has finished has no part.
LEMMA DoneParts ==
  ASSUME NEW c \in Clients, Done(c)
  PROVE  (Phase(c) /\ Ordered(c))' /\ ~Working(c)'
BY DEF Done, Phase, Ordered, Working

\* A client starts a monitor.  One that holds _persistent_lock finds no other client
\* at work; what another one starts is beside it.
LEMMA StartTurns ==
  ASSUME TypeOK, Turns, NEW c \in Clients, NEW cur \in {NoTask, current},
         ClientMoves(c), Done(c), StartsNew(c), cur = NoTask \/ ~Alive(cur),
         cur = current \/ ~Alive(waits[c]),
         strays' = (Left(c, cur) \ {current'}) \cup (IF Beside(c) THEN {current'} ELSE {})
  PROVE  Turns'
<1> USE Actors
<1>1. PICK n \in Monitors : /\ ~Alive(n) /\ current' = n
                            /\ \A h \in Monitors \ {n} : pc'[h] = pc[h]
  BY DEF StartsNew
<1>2. \A h \in Monitors \ {n} : Alive(h)' = Alive(h)  BY <1>1 DEF Alive
<1>3. ASSUME NEW h \in Monitors, Alive(h) PROVE h \in strays'
  <2>1. h # n  BY <1>1, <1>3
  <2>2. h \in Left(c, cur)
    <3>1. CASE cur = current  BY <1>3, <3>1 DEF Turns, OneMonitor, Left
    <3>2. CASE cur # current  BY <1>3, <3>2, AllLeft DEF Turns, Left
    <3> QED  BY <3>1, <3>2
  <2> QED  BY <1>1, <2>1, <2>2
<1>4. OneMonitor'  BY <1>1, <1>2, <1>3 DEF OneMonitor
<1>5. ASSUME NEW d \in Clients \ {c} PROVE /\ (Phase(d) /\ Ordered(d))'
                                            /\ Working(d)' = Working(d)
  <2>0. /\ pc'[d] = pc[d] /\ op'[d] = op[d] /\ waits'[d] = waits[d]
        /\ plock.holder = d => plock'.holder = d
        /\ Phase(d) /\ Ordered(d)
    BY <1>5 DEF ClientMoves, Turns
  <2> QED  BY <2>0 DEF Phase, Ordered, Working
<1>6. ExclusiveOrdered'
  <2> SUFFICES ASSUME NEW d \in Clients, Working(d)', NEW g \in Monitors, Alive(g)'
               PROVE  g \in strays'
    BY DEF ExclusiveOrdered
  <2>1. CASE g # n  BY <1>2, <1>3, <2>1
  <2>2. CASE g = n
    <3>1. d # c /\ Working(d)  BY <1>5, DoneParts
    <3>2. op[d] \in {"exclusive", "sms"} /\ plock.holder = d
      BY <3>1 DEF Turns, Working, Phase, Ordered
    <3>3. op[c] \in {"at", "reconnect"}
      <4>1. waits[c] # NoTask /\ op[c] \in Ops \cup {"none"} /\ Phase(c) /\ Ordered(c)
        BY DEF StartsNew, TypeOK, Turns
      <4>2. op[c] \notin {"exclusive", "sms"}  BY <3>1, <3>2, <4>1 DEF Ordered
      <4>3. op[c] # "none"  BY <4>1 DEF Phase
      <4> QED  BY <4>1, <4>2, <4>3, PortAssumption
    <3>4. Beside(c)  BY <3>1, <3>3 DEF Beside
    <3> QED  BY <1>1, <2>2, <3>4
  <2> QED  BY <2>1, <2>2
<1> QED  BY <1>4, <1>5, <1>6, DoneParts DEF Turns

\* The end of a request: with a start, if the client has stopped the monitor.
LEMMA EndTurns ==
  ASSUME TypeOK, Turns, NEW c \in Clients, ClientMoves(c),
         \/ Finish(c, NoTask) /\ UNCHANGED <<current, strays>>
         \/ StartAndFinish(c, current)
         \/ StartAndFinish(c, NoTask) /\ waits[c] # NoTask /\ ~Alive(waits[c])
  PROVE  Turns'
<1> USE Actors
<1>1. CASE Finish(c, NoTask) /\ UNCHANGED <<current, strays>>
  <2>1. Done(c) /\ \A g \in Monitors : pc'[g] = pc[g]  BY <1>1, FinishMoves
  <2> QED  BY <1>1, <2>1, CalmTurns, DoneParts DEF Alive
<1>2. CASE StartAndFinish(c, current)
  <2>0. current \in Monitors \cup {NoTask}  BY DEF TypeOK
  <2>1. Done(c)  BY <1>2, <2>0, StartAndFinishMoves
  <2>2. CASE /\ current = NoTask \/ ~Alive(current)
             /\ StartsNew(c)
             /\ strays' = (Left(c, current) \ {current'}) \cup (IF Beside(c) THEN {current'} ELSE {})
    BY <2>1, <2>2, StartTurns
  <2>3. CASE UNCHANGED current /\ strays' = Left(c, current) /\ \A g \in Monitors : pc'[g] = pc[g]
    BY <2>1, <2>3, CalmTurns, DoneParts DEF Alive, Left
  <2> QED  BY <1>2, <2>0, <2>2, <2>3, StartAndFinishMoves
<1>3. CASE StartAndFinish(c, NoTask) /\ waits[c] # NoTask /\ ~Alive(waits[c])
  <2>1. /\ Done(c) /\ StartsNew(c)
        /\ strays' = (Left(c, NoTask) \ {current'}) \cup (IF Beside(c) THEN {current'} ELSE {})
    BY <1>3, StartAndFinishMoves
  <2> QED  BY <1>3, <2>1, StartTurns
<1> QED  BY <1>1, <1>2, <1>3

\* A request goes on without touching the monitors.
LEMMA GoesOnTurns ==
  ASSUME TypeOK, Turns, NEW c \in Clients, ClientMoves(c), NEW p \in ClientPc, Goto(c, p),
         UNCHANGED <<current, strays>>, (Phase(c) /\ Ordered(c))',
         Working(c)' => Working(c) \/ ~Monitoring
  PROVE  Turns'
BY GotoMoves, CalmTurns DEF Alive

\* A client stops the monitor.
LEMMA StopTurns ==
  ASSUME TypeOK, Turns, NEW c \in Clients, ClientMoves(c), Monitoring, BeginStop(c),
         op'[c] \in Ops, op'[c] \in {"exclusive", "sms"} => plock'.holder = c
  PROVE  Turns'
<1>0. pc'[c] = "stopping" /\ Goto(c, "stopping") /\ "stopping" \in ClientPc
  BY GotoMoves DEF BeginStop, ClientPc
<1>1. op'[c] # "none"  BY PortAssumption
<1>2. (Phase(c) /\ Ordered(c))' /\ ~Working(c)'
  BY <1>0, <1>1 DEF Phase, Ordered, Working
<1> QED  BY <1>0, <1>2, GoesOnTurns DEF BeginStop

\* The monitor has ended: whatever lives now is left behind.
LEMMA StoppedTurns ==
  ASSUME TypeOK, Sessions, Turns, NEW c \in Clients, ClientMoves(c), Stopped(c), op[c] # "at"
  PROVE  Turns'
<1> USE Actors
<1>0. /\ pc[c] \in {"stopping", "cancelled"} /\ ~Alive(waits[c]) /\ waits[c] # NoTask
      /\ current' = NoTask /\ strays' = strays \cup Forgotten(c) /\ UNCHANGED <<op, waits, plock>>
      /\ Goto(c, IF op[c] = "reconnect" THEN "probe" ELSE "operation")
  BY DEF Stopped, Sessions, ClientOf, lockVars
<1>1. /\ pc'[c] = (IF op[c] = "reconnect" THEN "probe" ELSE "operation")
      /\ \A g \in Monitors : pc'[g] = pc[g]
  BY <1>0, GotoMoves DEF ClientPc
<1>2. \A g \in Monitors : Alive(g)' => g \in strays'
  BY <1>0, <1>1, AllLeft DEF Turns, Alive
<1>3. OneMonitor' /\ ExclusiveOrdered'  BY <1>2 DEF OneMonitor, ExclusiveOrdered
<1>4. (Phase(c) /\ Ordered(c))'
  <2>1. op[c] \in {"exclusive", "sms", "reconnect"}
    BY <1>0, PortAssumption DEF Turns, Phase, TypeOK
  <2>2. op[c] \in {"exclusive", "sms"} => plock.holder = c  BY <1>0 DEF Turns, Ordered
  <2>3. Phase(c)'  BY <1>0, <1>1, <2>1 DEF Phase
  <2>4. Ordered(c)'  BY <1>0, <2>2 DEF Ordered
  <2> QED  BY <2>3, <2>4
<1>5. ASSUME NEW d \in Clients \ {c} PROVE (Phase(d) /\ Ordered(d))'
  <2>0. /\ pc'[d] = pc[d] /\ op'[d] = op[d] /\ waits'[d] = waits[d]
        /\ plock.holder = d => plock'.holder = d
        /\ Phase(d) /\ Ordered(d)
    BY <1>5 DEF ClientMoves, Turns
  <2> QED  BY <2>0 DEF Phase, Ordered
<1> QED  BY <1>3, <1>4, <1>5 DEF Turns

\* The steps of a client keep Turns.
LEMMA ClientTurns ==
  ASSUME TypeOK, Sessions, Turns, NEW c \in Clients,
         Client(c) \/ \E o \in Ops : Request(c, o)
  PROVE  Turns'
<1> USE Actors DEF monitorVars
<1>0. ClientMoves(c) /\ Phase(c) /\ Ordered(c)  BY ClientStep DEF Turns
<1>p. {"idle", "ready", "lock", "command", "short", "short_run", "plock", "stopping",
       "operation", "running", "probe"} \subseteq ClientPc
  BY DEF ClientPc
<1>q. ASSUME NEW p \in ClientPc, Goto(c, p) PROVE pc'[c] = p
  BY <1>q, GotoMoves
<1>o. op[c] \in Ops \cup {"none"}  BY DEF TypeOK
\* at, on its way to the port.
<1>a. ASSUME pc[c] \in {"ready", "lock", "short"}, UNCHANGED <<current, strays, waits, op, plock>>,
             NEW p \in {"lock", "command", "short", "short_run"}, Goto(c, p)
      PROVE  Turns'
  <2>1. op[c] = "at" /\ waits[c] = NoTask  BY <1>0, <1>a DEF Phase
  <2>2. pc'[c] = p /\ p \in ClientPc  BY <1>a, <1>p, <1>q
  <2>3. (Phase(c) /\ Ordered(c))' /\ ~Working(c)'
    BY <1>a, <2>1, <2>2 DEF Phase, Ordered, Working
  <2> QED  BY <1>0, <1>a, <2>2, <2>3, GoesOnTurns
<1>1. CASE Ready(c)  BY <1>1, <1>a DEF Ready, taskVars
<1>2. CASE ReadyTimesOut(c)  BY <1>0, <1>2, EndTurns DEF ReadyTimesOut, taskVars
<1>3. CASE Locked(c)
  <2>1. CASE Finish(c, NoTask)  BY <1>0, <1>3, <2>1, EndTurns DEF Locked, taskVars
  <2>2. CASE (\E p \in {"command", "short"} : Goto(c, p)) /\ UNCHANGED <<op, waits>>
    BY <1>3, <1>a, <2>2 DEF Locked, taskVars
  <2> QED  BY <1>3, <2>1, <2>2 DEF Locked
<1>4. CASE Command(c)  BY <1>0, <1>4, EndTurns DEF Command, taskVars
<1>5. CASE CommandFails(c)
  <2>0. op[c] = "at" /\ "at" \in Ops
    BY <1>0, <1>5, <1>o DEF CommandFails, Phase
  <2>1. CASE Monitoring /\ BeginStop(c) /\ UNCHANGED <<op, uses>>
    BY <1>0, <2>0, <2>1, StopTurns
  <2>2. CASE Finish(c, NoTask) /\ UNCHANGED taskVars
    BY <1>0, <1>5, <2>2, EndTurns DEF CommandFails, taskVars
  <2> QED  BY <1>5, <2>1, <2>2 DEF CommandFails
<1>6. CASE Short(c)
  <2>1. CASE Goto(c, "short_run") /\ UNCHANGED <<op, waits>>
    BY <1>6, <1>a, <2>1 DEF Short, taskVars
  <2>2. CASE Finish(c, NoTask)  BY <1>0, <1>6, <2>2, EndTurns DEF Short, taskVars
  <2> QED  BY <1>6, <2>1, <2>2 DEF Short
<1>7. CASE ShortDone(c)  BY <1>0, <1>7, EndTurns DEF ShortDone, taskVars
<1>8. CASE Exclusive(c)
  <2>0. /\ plock.holder = c /\ UNCHANGED <<plock, op>> /\ op[c] \in {"exclusive", "sms"}
        /\ op[c] \in Ops /\ waits[c] = NoTask
    BY <1>0, <1>8, <1>o DEF Exclusive, Phase, lockVars
  <2>2. CASE Monitoring /\ BeginStop(c)
    BY <1>0, <2>0, <2>2, StopTurns
  <2>3. CASE ~Monitoring /\ Goto(c, "operation") /\ UNCHANGED <<taskVars, waits>>
    <3>1. pc'[c] = "operation" /\ "operation" \in ClientPc  BY <1>p, <1>q, <2>3
    <3>2. (Phase(c) /\ Ordered(c))'  BY <2>0, <2>3, <3>1 DEF Phase, Ordered
    <3> QED  BY <1>0, <2>3, <3>1, <3>2, GoesOnTurns DEF taskVars
  <2> QED  BY <1>8, <2>2, <2>3 DEF Exclusive
\* An operation begins, or opens another session.
<1>b. ASSUME pc[c] \in {"operation", "running"}, UNCHANGED <<current, strays, waits, op, plock>>,
             NEW p \in {"operation", "running"}, Goto(c, p)
      PROVE  Turns'
  <2>1. pc'[c] = p /\ p \in ClientPc  BY <1>b, <1>p, <1>q
  <2>2. (Phase(c) /\ Ordered(c))' /\ Working(c)' = Working(c)
    BY <1>0, <1>b, <2>1 DEF Phase, Ordered, Working
  <2> QED  BY <1>0, <1>b, <2>1, <2>2, GoesOnTurns
<1>9. CASE Operation(c)
  <2>1. CASE Goto(c, "running") /\ UNCHANGED <<taskVars, lockVars, op, waits>>
    BY <1>9, <1>b, <2>1 DEF Operation, taskVars, lockVars
  <2>2. CASE EndExclusive(c)
    BY <1>0, <1>9, <2>2, EndTurns DEF Operation, EndExclusive
  <2> QED  BY <1>9, <2>1, <2>2 DEF Operation
<1>10. CASE Running(c)
  <2>1. CASE Goto(c, "operation") /\ UNCHANGED <<taskVars, lockVars, op, waits>>
    BY <1>10, <1>b, <2>1 DEF Running, taskVars, lockVars
  <2>2. CASE EndExclusive(c)
    BY <1>0, <1>10, <2>2, EndTurns DEF Running, EndExclusive
  <2> QED  BY <1>10, <2>1, <2>2 DEF Running
<1>11. CASE Probe(c)  BY <1>0, <1>11, EndTurns DEF Probe
<1>12. CASE Stopped(c)
  <2>1. CASE op[c] = "at"
    <3>1. StartAndFinish(c, NoTask) /\ waits[c] # NoTask /\ ~Alive(waits[c])
      BY <1>12, <2>1 DEF Stopped, Sessions, ClientOf
    <3> QED  BY <1>0, <3>1, EndTurns
  <2>2. CASE op[c] # "at"  BY <1>0, <1>12, <2>2, StoppedTurns
  <2> QED  BY <2>1, <2>2
<1>13. ASSUME NEW o \in Ops, Request(c, o) PROVE Turns'
  <2>0. /\ op[c] = "none" /\ op'[c] = o /\ waits[c] = NoTask /\ o # "none"
        /\ pc[c] = "idle"
    BY <1>0, <1>13, PortAssumption DEF Request, Phase, TypeOK
  <2>1. CASE o = "reconnect" /\ Monitoring /\ BeginStop(c)
    BY <1>0, <2>0, <2>1, StopTurns
  <2>2. CASE \E p \in {"ready", "lock", "plock", "operation", "probe"} :
                 /\ Goto(c, p) /\ UNCHANGED <<taskVars, waits>>
                 /\ p \in {"ready", "lock"} => o = "at"
                 /\ p = "plock" => o \in {"exclusive", "sms"}
                 /\ p = "operation" => o = "sms"
                 /\ p = "probe" => o = "reconnect"
    <3>1. PICK p \in {"ready", "lock", "plock", "operation", "probe"} :
                 /\ Goto(c, p) /\ UNCHANGED <<taskVars, waits>>
                 /\ p \in {"ready", "lock"} => o = "at"
                 /\ p = "plock" => o \in {"exclusive", "sms"}
                 /\ p = "operation" => o = "sms"
                 /\ p = "probe" => o = "reconnect"
      BY <2>2
    <3>2. pc'[c] = p /\ p \in ClientPc  BY <1>p, <1>q, <3>1
    <3>3. (Phase(c) /\ Ordered(c))' /\ ~Working(c)'
      BY <2>0, <3>1, <3>2 DEF Phase, Ordered, Working
    <3>4. UNCHANGED <<current, strays>>  BY <3>1 DEF taskVars
    <3> QED  BY <1>0, <3>1, <3>2, <3>3, <3>4, GoesOnTurns
  <2> QED  BY <1>13, <2>1, <2>2 DEF Request
<1> QED
  BY <1>1, <1>2, <1>3, <1>4, <1>5, <1>6, <1>7, <1>8, <1>9, <1>10, <1>11, <1>12, <1>13 DEF Client

\* The steps of a monitor, and of one that is cancelled, keep Turns: no monitor
\* comes to life of itself.
LEMMA MonitorTurns ==
  ASSUME TypeOK, Turns, NEW g \in Monitors, Monitor(g)
  PROVE  Turns'
<1> USE Actors
<1>1. /\ UNCHANGED <<current, strays, plock, op, waits>> /\ \A t \in Task \ {g} : pc'[t] = pc[t]
      /\ Alive(g)
  BY MonitorStep DEF MonitorMoves, Alive
<1>2. \A h \in Monitors : Alive(h)' => Alive(h)  BY <1>1 DEF Alive
<1>3. \A c \in Clients : Phase(c)' = Phase(c) /\ Ordered(c)' = Ordered(c) /\ Working(c)' = Working(c)
  <2> SUFFICES ASSUME NEW c \in Clients
               PROVE  Phase(c)' = Phase(c) /\ Ordered(c)' = Ordered(c) /\ Working(c)' = Working(c)
    OBVIOUS
  <2>1. pc'[c] = pc[c]  BY <1>1
  <2> QED  BY <1>1, <2>1 DEF Phase, Ordered, Working
<1> QED  BY <1>1, <1>2, <1>3 DEF Turns, OneMonitor, ExclusiveOrdered

LEMMA TimeoutTurns ==
  ASSUME TypeOK, Sessions, Turns, NEW c \in Clients, StopTimesOut(c)
  PROVE  Turns'
<1> USE Actors
<1>1. /\ ClientMoves(c) /\ waits[c] \in Monitors /\ Alive(waits[c])
      /\ pc[c] = "stopping" /\ pc'[c] = "cancelled"
      /\ \A t \in Task \ {c, waits[c]} : pc'[t] = pc[t]
  BY TimeoutStep
<1>2. UNCHANGED <<current, strays, plock, op, waits>>  BY DEF StopTimesOut, monitorVars
<1>3. \A g \in Monitors : Alive(g)' => Alive(g)  BY <1>1 DEF Alive
<1>4. (Phase(c) /\ Ordered(c))' /\ ~Working(c)'
  BY <1>1, <1>2 DEF Turns, Phase, Ordered, Working
<1> QED  BY <1>1, <1>2, <1>3, <1>4, CalmTurns

\* However the clients cross: what lives beside the current monitor, or beside an
\* operation that has the port, was left behind by a restart.
THEOREM TurnsHold == Spec => [](TypeOK /\ Sessions /\ Turns)
<1>1. Init => Turns
  <2> SUFFICES ASSUME Init PROVE Turns  OBVIOUS
  <2>1. OneMonitor /\ \A c \in Clients : pc[c] = "idle" /\ op[c] = "none" /\ waits[c] = NoTask
    BY Actors DEF Init, OneMonitor, Alive
  <2>2. ExclusiveOrdered  BY <2>1 DEF ExclusiveOrdered, Working
  <2> QED  BY <2>1, <2>2 DEF Turns, Phase, Ordered
<1>2. Turns /\ (TypeOK /\ Sessions) /\ [Next]_vars => Turns'
  <2> SUFFICES ASSUME TypeOK, Sessions, Turns, [Next]_vars PROVE Turns'  OBVIOUS
  <2>1. ASSUME NEW g \in Monitors, Monitor(g) PROVE Turns'
    BY <2>1, MonitorTurns
  <2>2. ASSUME NEW c \in Clients, Client(c) \/ \E o \in Ops : Request(c, o) PROVE Turns'
    BY <2>2, ClientTurns
  <2>3. ASSUME NEW c \in Clients, StopTimesOut(c) PROVE Turns'
    BY <2>3, TimeoutTurns
  <2>4. CASE (OrphanOpens \/ OrphanCloses) \/ UNCHANGED vars
    <3>1. UNCHANGED <<current, strays, plock, pc, op, waits>>
      BY <2>4, OrphanStep DEF vars, taskVars, monitorVars, lockVars
    <3> QED  BY <3>1 DEF Turns, OneMonitor, ExclusiveOrdered, Working, Alive, Phase, Ordered
  <2> QED  BY <2>1, <2>2, <2>3, <2>4 DEF Next
<1> QED  BY <1>1, <1>2, SessionsHold, PTL DEF Spec

\* Beside the monitor _monitor_task refers to live only those left behind by two
\* clients that stopped the same one, or started beside an operation.
THEOREM SingleMonitor == Spec => []OneMonitor
<1>1. Turns => OneMonitor  BY DEF Turns
<1> QED  BY <1>1, TurnsHold, PTL

\* _persistent_lock orders what takes it: an operation that has the port meets no
\* monitor started, or not waited for, by another that took the lock.
THEOREM Exclusion == Spec => []ExclusiveOrdered
<1>1. Turns => ExclusiveOrdered  BY DEF Turns
<1> QED  BY <1>1, TurnsHold, PTL

\* An operation with a session of its own has the port to itself, whatever monitors
\* and clients do meanwhile: the lock file sees to it.
THEOREM PortToOneself == Spec => []PortHasOneUser
<1>1. TypeOK /\ Sessions => PortHasOneUser
  <2> SUFFICES ASSUME TypeOK, Sessions, NEW c \in Clients, pc[c] \in {"short_run", "running"}
               PROVE  /\ owner = c /\ published = NoTask
                      /\ \A d \in Clients \ {c} : pc[d] \notin {"command", "short_run", "running"}
    BY DEF PortHasOneUser
  <2>1. owner = c  BY DEF Sessions, ClientOf
  <2>2. published = NoTask  BY <2>1, Actors DEF Sessions, TypeOK
  <2> QED  BY <2>1, <2>2 DEF Sessions, ClientOf
<1> QED  BY <1>1, SessionsHold, PTL

=============================================================================

------------------------- MODULE PushOutbox_proofs -------------------------
(***************************************************************************)
(* Proofs about PushOutbox: its type invariant, the inductive invariant    *)
(* behind OwedExactly, OneOwnerPerToken and ActiveInScope, and the two     *)
(* action properties.                                                      *)
(***************************************************************************)
EXTENDS PushOutbox, TLAPS

\* A row that is not there is a Device.
LEMMA NoDeviceType == NoDevice \in Device
BY OutboxAssumption DEF NoDevice, Device, Stamp

\* Taking jobs out keeps the order relation a relation on due jobs.
LEMMA RemoveType ==
  ASSUME TypeOK, NEW gone, Remove(gone)
  PROVE  jobs' \subseteq Job /\ due' \subseteq jobs' /\ before' \subseteq due' \X due'
BY DEF TypeOK, Remove

\* A retry moves a job out of the due ones and nothing else.
LEMMA RetryType ==
  ASSUME TypeOK, NEW j, Retry(j)
  PROVE  jobs' \subseteq Job /\ due' \subseteq jobs' /\ before' \subseteq due' \X due'
BY DEF TypeOK, Retry

\* Every step keeps the types.
LEMMA StepType ==
  ASSUME TypeOK, [Next]_vars
  PROVE  TypeOK'
<1>0. MaxSms \in Nat /\ MaxTicks \in Nat /\ MaxErrors \in Nat /\ MaxCrashes \in Nat
  BY OutboxAssumption
<1>1. CASE SaveSms
  <2>1. PICK m \in Sms, victim \in Sms \cup {0}, inbound \in BOOLEAN :
          /\ sms' = [k \in Sms |-> IF k = victim THEN "deleted" ELSE IF k = m THEN "stored" ELSE sms[k]]
          /\ LET new == {j \in Job : /\ inbound /\ enabled /\ j.sms = m
                               /\ device[j.inst].active /\ device[j.inst].scope = scope
                               /\ device[j.inst].version = j.version}
             IN created' = created \cup new /\ Prune(new, (Stored \cup {m}) \ {victim})
          /\ UNCHANGED <<configVars, device, tick, request, acked, closed, errors, crashes>>
    BY <1>1 DEF SaveSms
  <2>2. sms' \in [Sms -> {"none", "stored", "deleted"}]
    BY <2>1 DEF TypeOK
  <2>3. created' \subseteq Job
    BY <2>1 DEF TypeOK
  <2>4. jobs' \subseteq Job /\ due' \subseteq jobs' /\ before' \subseteq due' \X due'
    BY <2>1 DEF TypeOK, Prune
  <2> QED BY <2>1, <2>2, <2>3, <2>4 DEF TypeOK, configVars
<1>2. ASSUME NEW m \in Sms, Acknowledge(m) PROVE TypeOK'
  <2>1. jobs' \subseteq Job /\ due' \subseteq jobs' /\ before' \subseteq due' \X due'
    BY <1>2, RemoveType DEF Acknowledge
  <2> QED BY <1>2, <2>1 DEF TypeOK, Acknowledge, configVars
<1>3. ASSUME NEW i \in Inst, Delete(i) PROVE TypeOK'
  <2>1. jobs' \subseteq Job /\ due' \subseteq jobs' /\ before' \subseteq due' \X due'
    BY <1>3, RemoveType DEF Delete
  <2>2. device' \in [Inst -> Device]
    BY <1>3, NoDeviceType DEF Delete, TypeOK
  <2> QED BY <1>3, <2>1, <2>2 DEF TypeOK, Delete, configVars
<1>4. ASSUME NEW i \in Inst, NEW t \in Token, Register(i, t) PROVE TypeOK'
  <2>1. jobs' \subseteq Job /\ due' \subseteq jobs' /\ before' \subseteq due' \X due'
    BY <1>4, RemoveType DEF Register
  <2>2. tick' \in Stamp /\ tick + 1 \in Stamp
    BY <1>4, <1>0 DEF Register, TypeOK, Stamp
  <2>3. ASSUME NEW k \in Inst PROVE device'[k] \in Device
    BY <1>4, <2>2, NoDeviceType DEF Register, TypeOK, Device
  <2>4. device' \in [Inst -> Device]
    BY <1>4, <2>3 DEF Register
  <2> QED BY <1>4, <2>1, <2>2, <2>4 DEF TypeOK, Register, configVars
<1>5. ASSUME NEW j \in Job, BecomesDue(j) PROVE TypeOK'
  <2>1. due' \subseteq jobs' /\ before' \subseteq due' \X due'
    BY <1>5 DEF BecomesDue, TypeOK
  <2> QED BY <1>5, <2>1 DEF TypeOK, BecomesDue, configVars
<1>6. CASE NextJob
  <2>1. PICK day \in 0..MaxSms :
          LET old == {j \in jobs : j.sms <= day}
              orphans == {j \in jobs : ~(device[j.inst].active /\ device[j.inst].version = j.version
                                       /\ device[j.inst].scope = scope)}
          IN Remove(old \cup orphans) /\ closed' = closed \cup old
    BY <1>6 DEF NextJob
  <2>2. jobs' \subseteq Job /\ due' \subseteq jobs' /\ before' \subseteq due' \X due'
    BY <2>1, RemoveType
  <2>3. closed' \subseteq Job
    BY <2>1 DEF TypeOK
  <2>4. request' \in Request \cup {NoRequest}
    <3>1. CASE UNCHANGED request
      BY <3>1 DEF TypeOK
    <3>2. ASSUME NEW j \in due',
                 request' = [job |-> j, token |-> device[j.inst].token, at |-> device[j.inst].at,
                             sent |-> tick]
          PROVE  request' \in Request
      <4>1. j \in Job /\ j.inst \in Inst
        BY <2>2 DEF Job
      <4> QED BY <3>2, <4>1 DEF TypeOK, Request, Device
    <3> QED BY <1>6, <3>1, <3>2 DEF NextJob
  <2> QED BY <1>6, <2>2, <2>3, <2>4 DEF TypeOK, NextJob, configVars
<1>7. CASE TriedAgain
  <2>1. jobs' \subseteq Job /\ due' \subseteq jobs' /\ before' \subseteq due' \X due'
    BY <1>7, RetryType DEF TriedAgain
  <2> QED BY <1>7, <2>1 DEF TypeOK, TriedAgain, Answered
<1>8. CASE TokenInvalid
  <2>0. request \in Request /\ request.job \in Job /\ request.job.inst \in Inst
    BY <1>8 DEF TokenInvalid, TypeOK, Request, Job
  <2>1. PICK cutoff \in 0..request.sent : Invalidate(request.job, cutoff)
    BY <1>8 DEF TokenInvalid
  <2>2. jobs' \subseteq Job /\ due' \subseteq jobs' /\ before' \subseteq due' \X due'
    BY <2>1, RemoveType DEF Invalidate
  <2>3. device' \in [Inst -> Device]
    BY <2>0, <2>1 DEF Invalidate, TypeOK, Device
  <2> QED BY <1>8, <2>0, <2>2, <2>3 DEF TypeOK, TokenInvalid, Answered
<1>9. CASE Refused
  BY <1>9 DEF TypeOK, Refused, Answered, queueVars
<1>10. CASE Finished
  <2>0. request.job \in Job
    BY <1>10 DEF Finished, TypeOK, Request
  <2>1. jobs' \subseteq Job /\ due' \subseteq jobs' /\ before' \subseteq due' \X due'
    BY <1>10, RemoveType DEF Finished
  <2> QED BY <1>10, <2>0, <2>1 DEF TypeOK, Finished, Answered
<1>11. CASE WorkerError
  BY <1>11, <1>0 DEF TypeOK, WorkerError, Answered, queueVars
<1>12. CASE Restart
  <2>1. PICK day \in 0..MaxSms :
          LET old == {j \in jobs : j.sms <= day} IN
          /\ Remove(old \cup {j \in jobs : ~(device'[j.inst].active
                                          /\ device'[j.inst].version = j.version)})
          /\ closed' = closed \cup old
    BY <1>12 DEF Restart, Reconcile
  <2>2. jobs' \subseteq Job /\ due' \subseteq jobs' /\ before' \subseteq due' \X due'
    BY <2>1, RemoveType
  <2>3. closed' \subseteq Job
    BY <2>1 DEF TypeOK
  <2>4. device' \in [Inst -> Device]
    BY <1>12 DEF Restart, Reconcile, TypeOK, Device
  <2>5. crashes' \in 0..MaxCrashes
    BY <1>12, <1>0 DEF TypeOK, Restart
  <2>6. scope' \in Scope /\ enabled' \in BOOLEAN /\ paused' \in BOOLEAN
    BY <1>12 DEF Restart
  <2>7. request' \in Request \cup {NoRequest}
    BY <1>12 DEF Restart
  <2>8. /\ tick' \in Stamp /\ sms' \in [Sms -> {"none", "stored", "deleted"}]
        /\ created' \subseteq Job /\ acked' \subseteq Sms /\ errors' \in 0..MaxErrors
    BY <1>12 DEF TypeOK, Restart
  <2> QED BY <2>2, <2>3, <2>4, <2>5, <2>6, <2>7, <2>8 DEF TypeOK
<1>13. CASE UNCHANGED vars
  BY <1>13 DEF TypeOK, vars, configVars, queueVars
<1> QED
  BY <1>1, <1>2, <1>3, <1>4, <1>5, <1>6, <1>7, <1>8, <1>9, <1>10, <1>11, <1>12, <1>13
     DEF Next, Answer

\* The initial states have the types.
LEMMA InitType == Init => TypeOK
<1> SUFFICES ASSUME Init PROVE TypeOK
  OBVIOUS
<1>1. device \in [Inst -> Device]
  BY NoDeviceType DEF Init
<1>2. tick \in Stamp /\ errors \in 0..MaxErrors /\ crashes \in 0..MaxCrashes
  BY OutboxAssumption DEF Init, Stamp
<1>3. sms \in [Sms -> {"none", "stored", "deleted"}]
  BY DEF Init
<1>4. scope \in Scope /\ enabled \in BOOLEAN /\ paused \in BOOLEAN /\ request \in Request \cup {NoRequest}
  BY DEF Init
<1>5. jobs \subseteq Job /\ due \subseteq jobs /\ before \subseteq due \X due
  BY DEF Init
<1>6. created \subseteq Job /\ acked \subseteq Sms /\ closed \subseteq Job
  BY DEF Init
<1> QED BY <1>1, <1>2, <1>3, <1>4, <1>5, <1>6 DEF TypeOK

\* Every variable keeps its type.
THEOREM OutboxTypes == Spec => []TypeOK
BY InitType, StepType, PTL DEF Spec

-----------------------------------------------------------------------------
(* The outbox and the registrations agree                                    *)

\* OwedExactly, one job at a time.
LEMMA OwedByMember ==
  ASSUME TypeOK',
         \A j \in Job : j \in jobs' <=>
           (j \in created' /\ Deliverable(j)' /\ j.sms \notin acked' /\ j \notin closed')
  PROVE  OwedExactly'
BY DEF TypeOK, OwedExactly

\* A step that changes neither a device, a message nor an end of a job, and the
\* jobs not either, keeps the jobs owed.
LEMMA OwedKept ==
  ASSUME OwedExactly, UNCHANGED <<device, sms, jobs, created, acked, closed>>
  PROVE  OwedExactly'
BY DEF OwedExactly, Deliverable

\* A new message: it had no job, and its jobs go with it if it is the one that
\* is pruned.
LEMMA SaveSmsInv ==
  ASSUME IInv, TypeOK', SaveSms
  PROVE  IInv'
<1> USE DEF IInv
<1>1. PICK m \in Sms, victim \in Sms \cup {0}, inbound \in BOOLEAN :
        /\ sms[m] = "none"
        /\ sms' = [k \in Sms |-> IF k = victim THEN "deleted" ELSE IF k = m THEN "stored" ELSE sms[k]]
        /\ LET new == {j \in Job : /\ inbound /\ enabled /\ j.sms = m
                             /\ device[j.inst].active /\ device[j.inst].scope = scope
                             /\ device[j.inst].version = j.version}
           IN created' = created \cup new /\ Prune(new, (Stored \cup {m}) \ {victim})
        /\ UNCHANGED <<configVars, device, tick, request, acked, closed, errors, crashes>>
  BY DEF SaveSms
<1> DEFINE new == {j \in Job : /\ inbound /\ enabled /\ j.sms = m
                             /\ device[j.inst].active /\ device[j.inst].scope = scope
                             /\ device[j.inst].version = j.version}
<1>2. \A k \in Sms : sms'[k] = "stored" <=> k \in (Stored \cup {m}) \ {victim}
  BY <1>1 DEF Stored
<1>3. \A k \in Sms : sms[k] # "none" \/ k = m => sms'[k] # "none"
  BY <1>1
<1>4. created' = created \cup new /\ jobs' = {j \in jobs \cup new : j.sms \in (Stored \cup {m}) \ {victim}}
  BY <1>1 DEF Prune
<1>5. OwedExactly'
  <2>1. ASSUME NEW j \in Job
        PROVE  j \in jobs' <=>
                 (j \in created' /\ Deliverable(j)' /\ j.sms \notin acked' /\ j \notin closed')
    <3>0. j.sms \in Sms /\ device' = device /\ acked' = acked /\ closed' = closed
      BY <1>1 DEF Job
    <3>1. CASE j.sms = m
      <4>1. j \notin created /\ j \notin jobs /\ j \notin closed /\ m \notin acked
        BY <1>1, <3>1 DEF Fresh, OwedExactly
      <4> QED BY <1>2, <1>4, <3>0, <3>1, <4>1 DEF Deliverable
    <3>2. CASE j.sms # m
      <4>1. sms'[j.sms] = "stored" <=> (sms[j.sms] = "stored" /\ j.sms # victim)
        BY <1>1, <3>0, <3>2
      <4>2. j \in jobs' <=> (j \in jobs /\ j.sms # victim)
        BY <1>4, <3>0, <3>2 DEF OwedExactly, Deliverable, Stored
      <4> QED BY <1>4, <3>0, <3>2, <4>1, <4>2 DEF OwedExactly, Deliverable
    <3> QED BY <3>1, <3>2
  <2> QED BY <2>1, OwedByMember
<1>6. Fresh'
  <2>1. \A i \in Inst : device'[i].version <= tick'
    BY <1>1 DEF Fresh
  <2>2. ASSUME NEW j \in created' PROVE j.version <= tick' /\ sms'[j.sms] # "none"
    <3>1. j.sms \in Sms /\ j.inst \in Inst
      BY <2>2 DEF TypeOK, Job
    <3> QED BY <1>1, <1>3, <1>4, <3>1 DEF Fresh
  <2>3. \A k \in acked' : sms'[k] # "none"
    BY <1>1, <1>3 DEF Fresh, TypeOK
  <2>4. closed' \subseteq created' /\ (request' # NoRequest => request'.job \in created')
    BY <1>1, <1>4 DEF Fresh
  <2> QED BY <2>1, <2>2, <2>3, <2>4 DEF Fresh
<1>7. OneOwnerPerToken' /\ ActiveInScope'
  BY <1>1 DEF OneOwnerPerToken, ActiveInScope, configVars
<1> QED BY <1>5, <1>6, <1>7

\* An acknowledgement takes the message's jobs, and only those.
LEMMA AcknowledgeInv ==
  ASSUME IInv, TypeOK', NEW m \in Sms, Acknowledge(m)
  PROVE  IInv'
<1> USE DEF IInv
<1>1. OwedExactly'
  <2>1. ASSUME NEW j \in Job
        PROVE  j \in jobs' <=>
                 (j \in created' /\ Deliverable(j)' /\ j.sms \notin acked' /\ j \notin closed')
    BY DEF Acknowledge, Remove, OwedExactly, Deliverable
  <2> QED BY <2>1, OwedByMember
<1>2. OneOwnerPerToken' /\ ActiveInScope' /\ Fresh'
  BY DEF Acknowledge, configVars, OneOwnerPerToken, ActiveInScope, Fresh
<1> QED BY <1>1, <1>2

\* A deleted device has no row, hence no token, no job and nothing active.
LEMMA DeleteInv ==
  ASSUME IInv, TypeOK', NEW i \in Inst, Delete(i)
  PROVE  IInv'
<1> USE DEF IInv
<1>0. /\ \A k \in Inst : device'[k] = IF k = i THEN NoDevice ELSE device[k]
      /\ NoDevice.token = NoToken /\ NoDevice.active = FALSE /\ NoDevice.version = 0
  BY DEF Delete, TypeOK, NoDevice
<1>1. OwedExactly'
  <2>1. ASSUME NEW j \in Job
        PROVE  j \in jobs' <=>
                 (j \in created' /\ Deliverable(j)' /\ j.sms \notin acked' /\ j \notin closed')
    <3>1. j.inst \in Inst
      BY DEF Job
    <3> QED BY <1>0, <3>1 DEF Delete, Remove, OwedExactly, Deliverable
  <2> QED BY <2>1, OwedByMember
<1>2. OneOwnerPerToken' /\ ActiveInScope'
  BY <1>0 DEF Delete, configVars, OneOwnerPerToken, ActiveInScope
<1>3. Fresh'
  BY <1>0, OutboxAssumption DEF Delete, Fresh, TypeOK, Stamp
<1> QED BY <1>1, <1>2, <1>3

\* A registration takes its token from any other row; unless the row stays what
\* it was its version is new, so no job there ever was fits it.
LEMMA RegisterInv ==
  ASSUME IInv, TypeOK', NEW i \in Inst, NEW t \in Token, Register(i, t)
  PROVE  IInv'
<1> USE DEF IInv
<1>0. NoDevice.token = NoToken /\ NoDevice.active = FALSE /\ NoDevice.version = 0
  BY DEF NoDevice
<1>1. ASSUME NEW k \in Inst, k \in Owners(i, t)
      PROVE  device'[k] = NoDevice /\ k # i
  BY <1>1 DEF Register, Owners
<1>2. ASSUME NEW k \in Inst, k # i, k \notin Owners(i, t)
      PROVE  device'[k] = device[k]
  BY <1>2 DEF Register
<1>3. /\ device'[i].token = t /\ device'[i].scope = scope /\ device'[i].active = TRUE
      /\ device'[i].version = IF SameRow(i, t) THEN device[i].version ELSE tick + 1
  BY DEF Register, Owners
<1>4. tick \in Nat /\ tick' = tick + 1
  BY OutboxAssumption DEF Register, TypeOK, Stamp
<1>5. OneOwnerPerToken'
  <2>1. ASSUME NEW k \in Inst, k # i, device'[k].token = t, device'[k].scope = scope PROVE FALSE
    BY <1>0, <1>1, <1>2, <2>1, OutboxAssumption DEF Owners
  <2>2. ASSUME NEW k \in Inst, k # i, device'[k].token # NoToken PROVE device'[k] = device[k]
    BY <1>0, <1>1, <1>2, <2>2
  <2> QED BY <1>3, <2>1, <2>2 DEF OneOwnerPerToken
<1>6. ActiveInScope'
  <2>1. scope' = scope
    BY DEF Register, configVars
  <2> QED BY <1>0, <1>1, <1>2, <1>3, <2>1 DEF ActiveInScope
<1>7. OwedExactly'
  <2>1. ASSUME NEW j \in Job
        PROVE  j \in jobs' <=>
                 (j \in created' /\ Deliverable(j)' /\ j.sms \notin acked' /\ j \notin closed')
    <3>0. /\ j.inst \in Inst
          /\ j \in jobs' <=> (j \in jobs /\ ~(j.inst \in Owners(i, t) \/ (j.inst = i /\ ~SameRow(i, t))))
          /\ UNCHANGED <<sms, created, acked, closed>>
      BY DEF Job, Register, Remove
    <3>1. CASE j.inst \in Owners(i, t)
      BY <1>0, <1>1, <3>0, <3>1 DEF Deliverable
    <3>2. CASE j.inst = i /\ SameRow(i, t)
      <4>1. Deliverable(j)' <=> Deliverable(j)
        BY <1>3, <3>0, <3>2 DEF Deliverable, SameRow
      <4> QED BY <3>0, <3>2, <4>1 DEF OwedExactly, Owners
    <3>3. CASE j.inst = i /\ ~SameRow(i, t)
      <4>1. j \in created => j.version <= tick /\ j.version \in Nat
        BY OutboxAssumption DEF Fresh, Job, Stamp
      <4> QED BY <1>3, <1>4, <3>0, <3>3, <4>1 DEF Deliverable
    <3>4. CASE j.inst # i /\ j.inst \notin Owners(i, t)
      <4>1. Deliverable(j)' <=> Deliverable(j)
        BY <1>2, <3>0, <3>4 DEF Deliverable
      <4> QED BY <3>0, <3>4, <4>1 DEF OwedExactly
    <3> QED BY <3>1, <3>2, <3>3, <3>4
  <2> QED BY <2>1, OwedByMember
<1>8. Fresh'
  <2>1. \A k \in Inst : device[k].version \in Nat
    BY OutboxAssumption DEF TypeOK, Device, Stamp
  <2>2. \A j \in created : j.version \in Nat
    BY OutboxAssumption DEF TypeOK, Job, Stamp
  <2>3. ASSUME NEW k \in Inst PROVE device'[k].version <= tick'
    BY <1>0, <1>1, <1>2, <1>3, <1>4, <2>1 DEF Fresh
  <2>4. UNCHANGED <<sms, created, acked, closed, request>>
    BY DEF Register
  <2> QED BY <1>4, <2>2, <2>3, <2>4 DEF Fresh
<1> QED BY <1>5, <1>6, <1>7, <1>8

\* Dropping jobs that are too old, or whose device is not theirs any more,
\* leaves the owed ones: `gone` is closed, or cannot be delivered.
LEMMA DroppedInv ==
  ASSUME OwedExactly, TypeOK', NEW old, NEW orphans, Remove(old \cup orphans),
         closed' = closed \cup old,
         UNCHANGED <<sms, created, acked>>,
         \A j \in orphans : ~Deliverable(j)',
         \A j \in created : Deliverable(j)' => Deliverable(j),
         \A j \in jobs : j \notin orphans => Deliverable(j)'
  PROVE  OwedExactly'
<1>1. ASSUME NEW j \in Job
      PROVE  j \in jobs' <=>
               (j \in created' /\ Deliverable(j)' /\ j.sms \notin acked' /\ j \notin closed')
  <2>1. j \in jobs' <=> (j \in jobs /\ j \notin old /\ j \notin orphans)
    BY DEF Remove
  <2>2. j \in jobs <=> (j \in created /\ Deliverable(j) /\ j.sms \notin acked /\ j \notin closed)
    BY DEF OwedExactly
  <2> QED BY <2>1, <2>2
<1> QED BY <1>1, OwedByMember

\* The worker's turn: no due job has lost its device, so only old ones go, and
\* the one that is sent exists.
LEMMA NextJobInv ==
  ASSUME IInv, TypeOK', NextJob
  PROVE  IInv'
<1> USE DEF IInv
<1>1. PICK day \in 0..MaxSms :
        LET old == {j \in jobs : j.sms <= day}
            orphans == {j \in jobs : ~(device[j.inst].active /\ device[j.inst].version = j.version
                                     /\ device[j.inst].scope = scope)}
        IN Remove(old \cup orphans) /\ closed' = closed \cup old
  BY DEF NextJob
<1> DEFINE old == {j \in jobs : j.sms <= day}
           orphans == {j \in jobs : ~(device[j.inst].active /\ device[j.inst].version = j.version
                                     /\ device[j.inst].scope = scope)}
<1>2. Remove(old \cup orphans) /\ closed' = closed \cup old
  BY <1>1
<1>3. UNCHANGED <<scope, device, tick, sms, created, acked>>
  BY DEF NextJob, configVars
<1>4. \A j \in created : Deliverable(j)' <=> Deliverable(j)
  BY <1>3 DEF Deliverable
<1>5. OwedExactly'
  <2>1. orphans = {}
    BY DEF OwedExactly, Deliverable, ActiveInScope, TypeOK, Job
  <2>2. \A j \in jobs : Deliverable(j)'
    BY <1>4 DEF OwedExactly
  <2> HIDE DEF old, orphans
  <2> QED BY <1>2, <1>3, <1>4, <2>1, <2>2, DroppedInv
<1>6. Fresh'
  <2>1. closed' \subseteq created'
    BY <1>2, <1>3 DEF Fresh, OwedExactly
  <2>2. request' # NoRequest => request'.job \in created'
    <3>1. CASE UNCHANGED request
      BY <1>3, <3>1 DEF Fresh
    <3>2. ASSUME NEW j \in due', request' = [job |-> j, token |-> device[j.inst].token,
                 at |-> device[j.inst].at, sent |-> tick]
          PROVE  request'.job \in created'
      BY <1>5, <3>2 DEF TypeOK, OwedExactly
    <3> QED BY <3>1, <3>2 DEF NextJob
  <2> QED BY <1>3, <2>1, <2>2 DEF Fresh
<1>7. OneOwnerPerToken' /\ ActiveInScope'
  BY <1>3 DEF OneOwnerPerToken, ActiveInScope
<1> QED BY <1>5, <1>6, <1>7

\* A final answer closes its job; a late one finds the job gone and the device
\* registered anew, and changes nothing else.
LEMMA TokenInvalidInv ==
  ASSUME IInv, TypeOK', TokenInvalid
  PROVE  IInv'
<1> USE DEF IInv
<1>0. /\ request \in Request /\ request.job \in Job /\ request.job.inst \in Inst
      /\ request.job \in created
  BY DEF TokenInvalid, TypeOK, Request, Job, Fresh
<1>1. PICK cutoff \in 0..request.sent : Invalidate(request.job, cutoff)
  BY DEF TokenInvalid
<1>2. closed' = closed \cup {request.job} /\ request' = NoRequest
      /\ UNCHANGED <<scope, tick, sms, created, acked>>
  BY DEF TokenInvalid, Answered
<1> DEFINE stale == /\ device[request.job.inst].version = request.job.version
                    /\ device[request.job.inst].at <= cutoff
<1>3. device' = IF stale THEN [device EXCEPT ![request.job.inst].active = FALSE] ELSE device
  BY <1>1 DEF Invalidate
<1>4. ASSUME NEW k \in Inst
      PROVE  /\ device'[k].token = device[k].token /\ device'[k].scope = device[k].scope
             /\ device'[k].version = device[k].version
             /\ device'[k].active <=> (device[k].active /\ ~(stale /\ k = request.job.inst))
  <2>1. CASE stale /\ k = request.job.inst
    BY <1>0, <1>3, <2>1 DEF TypeOK, Device
  <2>2. CASE ~(stale /\ k = request.job.inst)
    BY <1>0, <1>3, <2>2 DEF TypeOK, Device
  <2> QED BY <2>1, <2>2
<1>5. OwedExactly'
  <2>1. ASSUME NEW j \in Job
        PROVE  j \in jobs' <=>
                 (j \in created' /\ Deliverable(j)' /\ j.sms \notin acked' /\ j \notin closed')
    <3>1. j.inst \in Inst
      BY DEF Job
    <3>2. j \in jobs' <=> (j \in jobs /\ ~(j = request.job \/
             (stale /\ j.inst = request.job.inst /\ j.version = request.job.version)))
      BY <1>1 DEF Invalidate, Remove
    <3>3. Deliverable(j)' <=> (Deliverable(j) /\ ~(stale /\ j.inst = request.job.inst))
      BY <1>2, <1>4, <3>1 DEF Deliverable
    <3>4. Deliverable(j) /\ stale /\ j.inst = request.job.inst => j.version = request.job.version
      BY DEF Deliverable
    <3> HIDE DEF stale
    <3> QED BY <1>2, <3>2, <3>3, <3>4 DEF OwedExactly
  <2> QED BY <2>1, OwedByMember
<1>6. Fresh'
  BY <1>0, <1>2, <1>4 DEF Fresh
<1>7. OneOwnerPerToken' /\ ActiveInScope'
  BY <1>2, <1>4 DEF OneOwnerPerToken, ActiveInScope
<1> QED BY <1>5, <1>6, <1>7

\* finish_push_job closes its job and no other.
LEMMA FinishedInv ==
  ASSUME IInv, TypeOK', Finished
  PROVE  IInv'
<1> USE DEF IInv
<1>1. /\ Remove({request.job}) /\ closed' = closed \cup {request.job} /\ request' = NoRequest
      /\ UNCHANGED <<scope, device, tick, sms, created, acked>>
  BY DEF Finished, Answered
<1>2. OwedExactly'
  <2>1. ASSUME NEW j \in Job
        PROVE  j \in jobs' <=>
                 (j \in created' /\ Deliverable(j)' /\ j.sms \notin acked' /\ j \notin closed')
    BY <1>1 DEF Remove, OwedExactly, Deliverable
  <2> QED BY <2>1, OwedByMember
<1>3. Fresh'
  BY <1>1 DEF Finished, Fresh
<1>4. OneOwnerPerToken' /\ ActiveInScope'
  BY <1>1 DEF OneOwnerPerToken, ActiveInScope
<1> QED BY <1>2, <1>3, <1>4

\* A restart switches off the devices of another scope and drops their jobs.
LEMMA RestartInv ==
  ASSUME IInv, TypeOK', Restart
  PROVE  IInv'
<1> USE DEF IInv
<1>1. PICK day \in 0..MaxSms :
        LET old == {j \in jobs : j.sms <= day} IN
        /\ Remove(old \cup {j \in jobs : ~(device'[j.inst].active
                                        /\ device'[j.inst].version = j.version)})
        /\ closed' = closed \cup old
  BY DEF Restart, Reconcile
<1> DEFINE old == {j \in jobs : j.sms <= day}
           orphans == {j \in jobs : ~(device'[j.inst].active /\ device'[j.inst].version = j.version)}
<1>2. Remove(old \cup orphans) /\ closed' = closed \cup old
  BY <1>1
<1>3. UNCHANGED <<tick, sms, created, acked>> /\ request' = NoRequest
  BY DEF Restart
<1>4. ASSUME NEW k \in Inst
      PROVE  /\ device'[k].token = device[k].token /\ device'[k].scope = device[k].scope
             /\ device'[k].version = device[k].version
             /\ device'[k].active <=> (device[k].active /\ device[k].scope = scope')
  BY DEF Restart, Reconcile, TypeOK, Device
<1>5. OwedExactly'
  <2>1. \A j \in orphans : ~Deliverable(j)'
    BY DEF Deliverable
  <2>2. \A j \in created : Deliverable(j)' => Deliverable(j)
    BY <1>3, <1>4 DEF Deliverable, TypeOK, Job
  <2>3. \A j \in jobs : j \notin orphans => Deliverable(j)'
    BY <1>3 DEF Deliverable, OwedExactly
  <2> HIDE DEF old, orphans
  <2> QED BY <1>2, <1>3, <2>1, <2>2, <2>3, DroppedInv
<1>6. Fresh'
  BY <1>2, <1>3, <1>4 DEF Fresh, OwedExactly
<1>7. OneOwnerPerToken' /\ ActiveInScope'
  BY <1>4 DEF OneOwnerPerToken, ActiveInScope
<1> QED BY <1>5, <1>6, <1>7

\* Every step keeps the inductive invariant.
LEMMA StepInv ==
  ASSUME IInv, [Next]_vars
  PROVE  IInv'
<1> USE DEF IInv
<1>1. TypeOK'
  BY StepType
<1>2. ASSUME UNCHANGED <<scope, device, tick, sms, jobs, created, acked, closed>>,
             request' \in {request, NoRequest}
      PROVE  IInv'
  <2>1. OwedExactly'
    BY <1>2, OwedKept
  <2>2. OneOwnerPerToken' /\ ActiveInScope' /\ Fresh'
    BY <1>2 DEF OneOwnerPerToken, ActiveInScope, Fresh
  <2> QED BY <1>1, <2>1, <2>2
<1>3. CASE SaveSms
  BY <1>1, <1>3, SaveSmsInv
<1>4. CASE \E m \in Sms : Acknowledge(m)
  BY <1>1, <1>4, AcknowledgeInv
<1>5. CASE \E i \in Inst : Delete(i)
  BY <1>1, <1>5, DeleteInv
<1>6. CASE \E i \in Inst, t \in Token : Register(i, t)
  BY <1>1, <1>6, RegisterInv
<1>7. CASE \E j \in Job : BecomesDue(j)
  BY <1>2, <1>7 DEF BecomesDue, configVars
<1>8. CASE NextJob
  BY <1>1, <1>8, NextJobInv
<1>9. CASE TriedAgain
  BY <1>2, <1>9 DEF TriedAgain, Answered, Retry
<1>10. CASE TokenInvalid
  BY <1>1, <1>10, TokenInvalidInv
<1>11. CASE Refused \/ WorkerError
  BY <1>2, <1>11 DEF Refused, WorkerError, Answered, queueVars
<1>12. CASE Finished
  BY <1>1, <1>12, FinishedInv
<1>13. CASE Restart
  BY <1>1, <1>13, RestartInv
<1>14. CASE UNCHANGED vars
  BY <1>2, <1>14 DEF vars, configVars, queueVars
<1> QED
  BY <1>3, <1>4, <1>5, <1>6, <1>7, <1>8, <1>9, <1>10, <1>11, <1>12, <1>13, <1>14 DEF Next, Answer

\* Nothing is registered, owed or in flight at first.
LEMMA InitInv == Init => IInv
<1> SUFFICES ASSUME Init PROVE IInv
  OBVIOUS
<1>1. TypeOK
  BY InitType
<1>2. \A i \in Inst : device[i].token = NoToken /\ device[i].active = FALSE /\ device[i].version = 0
  BY DEF Init, NoDevice
<1> QED BY <1>1, <1>2 DEF Init, IInv, OneOwnerPerToken, ActiveInScope, OwedExactly, Fresh

-----------------------------------------------------------------------------
(* Theorems                                                                  *)

\* The inductive invariant holds in every reachable state.
THEOREM OutboxInvariant == Spec => []IInv
BY InitInv, StepInv, PTL DEF Spec

\* The outbox holds exactly the notifications still owed, whatever answers,
\* acknowledgements, registrations and restarts come in between.
THEOREM OutboxOwed == Spec => []OwedExactly
<1>1. IInv => OwedExactly
  BY DEF IInv
<1> QED BY <1>1, OutboxInvariant, PTL

\* A token belongs to one installation in its scope.
THEOREM TokenOwner == Spec => []OneOwnerPerToken
<1>1. IInv => OneOwnerPerToken
  BY DEF IInv
<1> QED BY <1>1, OutboxInvariant, PTL

\* Only devices of the configured scope are active.
THEOREM ActiveScope == Spec => []ActiveInScope
<1>1. IInv => ActiveInScope
  BY DEF IInv
<1> QED BY <1>1, OutboxInvariant, PTL

\* No request starts for a message once it is acknowledged: a job of the queue
\* is owed in the state the worker leaves behind.
THEOREM AcknowledgedIsFinal == Spec => AckIsFinal
<1>1. ASSUME IInv, IInv', [Next]_vars
      PROVE  [request' \notin {request, NoRequest} => request'.job.sms \notin acked]_vars
  <2>1. CASE NextJob
    <3>1. acked' = acked
      BY <2>1 DEF NextJob
    <3>2. ASSUME request' \notin {request, NoRequest} PROVE request'.job \in due'
      BY <2>1, <3>2 DEF NextJob
    <3> QED BY <1>1, <3>1, <3>2 DEF IInv, TypeOK, OwedExactly
  <2>2. CASE ~NextJob
    BY <1>1, <2>2 DEF Next, Answer, SaveSms, Acknowledge, Delete, Register, BecomesDue,
       TriedAgain, TokenInvalid, Refused, Finished, WorkerError, Answered, Restart, vars
  <2> QED BY <2>1, <2>2
<1> QED BY <1>1, OutboxInvariant, PTL DEF Spec, AckIsFinal

\* An answer switches off only a registration older than its request: the
\* cutoff is not later than the request, and a registration that is newer than
\* the cutoff is left alone.
THEOREM FreshRegistrationSurvives == Spec => FreshSurvives
<1> DEFINE A == \A i \in Inst :
      device[i].active /\ device'[i].token # NoToken /\ ~device'[i].active /\ request # NoRequest
      /\ crashes' = crashes => device[i].at <= request.sent
<1>1. ASSUME IInv, [Next]_vars
      PROVE  [A]_vars
  <2> SUFFICES ASSUME NEW i \in Inst, device[i].active, device'[i].token # NoToken, ~device'[i].active,
                      request # NoRequest, crashes' = crashes
               PROVE  device[i].at <= request.sent
    OBVIOUS
  <2>0. crashes \in Nat /\ \A k \in Inst : device[k].at \in Nat
    BY <1>1, OutboxAssumption DEF IInv, TypeOK, Device, Stamp
  <2>1. CASE TokenInvalid
    <3>1. PICK cutoff \in 0..request.sent : Invalidate(request.job, cutoff)
      BY <2>1 DEF TokenInvalid
    <3>2. request.sent \in Nat
      BY <1>1, OutboxAssumption DEF IInv, TypeOK, Request, Stamp
    <3>3. device[i].at <= cutoff
      BY <1>1, <3>1 DEF Invalidate, IInv, TypeOK, Device
    <3> QED BY <2>0, <3>1, <3>2, <3>3
  <2>2. CASE \E k \in Inst : Delete(k)
    BY <1>1, <2>2 DEF Delete, NoDevice, IInv, TypeOK
  <2>3. CASE \E k \in Inst, t \in Token : Register(k, t)
    BY <1>1, <2>3 DEF Register, NoDevice, Owners
  <2>4. CASE Restart
    BY <2>0, <2>4 DEF Restart
  <2>5. CASE UNCHANGED device
    BY <2>5
  <2> QED
    BY <1>1, <2>1, <2>2, <2>3, <2>4, <2>5 DEF Next, Answer, SaveSms, Acknowledge, BecomesDue,
       NextJob, TriedAgain, Refused, Finished, WorkerError, vars
<1> QED BY <1>1, OutboxInvariant, PTL DEF Spec, FreshSurvives
=============================================================================

----------------------------- MODULE PushOutbox -----------------------------
(***************************************************************************)
(* The push outbox: storage/database.py keeps devices and jobs, apns.py    *)
(* sends one job at a time, API requests register, delete and acknowledge  *)
(* meanwhile, and a restart may change the configuration.                  *)
(*                                                                         *)
(* A database method is one transaction under one lock, hence one action.  *)
(* Only the HTTP request in between is awaited.                            *)
(***************************************************************************)
EXTENDS Integers, FiniteSets

CONSTANTS Inst,       \* app installations
          Token,      \* device tokens
          NoToken,    \* no row in push_devices
          Scope,      \* pairs of APNs environment and bundle id
          NoRequest,  \* nothing is in flight
          Retained,   \* SMS_RETENTION_LIMIT
          MaxSms,     \* bound: inbound messages per behaviour
          MaxTicks,   \* bound: registrations per behaviour
          MaxErrors,  \* bound: requests that raise something unforeseen
          MaxCrashes  \* bound: restarts

ASSUME OutboxAssumption ==
  /\ NoToken \notin Token
  /\ Scope # {}
  /\ {Retained, MaxSms, MaxTicks, MaxErrors, MaxCrashes} \subseteq Nat

VARIABLES
  scope, enabled,    \* the configuration: push_scope, apns_enabled
  paused,            \* APNsService.paused
  device,            \* push_devices: [Inst -> Device]
  tick,              \* registrations so far: the clock of registered_at
  sms,               \* sms_messages: [Sms -> {"none", "stored", "deleted"}]
  jobs,              \* push_jobs
  due,               \* jobs whose next_attempt is past
  before,            \* pairs of due jobs: an earlier and a later next_attempt
  request,           \* the request in flight
  created,           \* every job there ever was
  acked,             \* acknowledged messages
  closed,            \* jobs a final answer or their age has closed
  errors, crashes

configVars == <<scope, enabled, paused>>
queueVars == <<jobs, due, before>>
vars == <<configVars, device, tick, sms, queueVars, request, created, acked, closed, errors, crashes>>

Sms == 1..MaxSms
Stamp == 0..MaxTicks
Job == [sms : Sms, inst : Inst, version : Stamp]
Device == [token : Token \cup {NoToken}, scope : Scope, version : Stamp, at : Stamp,
           active : BOOLEAN]

\* A row of next_push_job while it is sent; `sent` is when.
Request == [job : Job, token : Token \cup {NoToken}, at : Stamp, sent : Stamp]
ASSUME RequestAssumption == NoRequest \notin Request

NoDevice == [token |-> NoToken, scope |-> CHOOSE s \in Scope : TRUE, version |-> 0, at |-> 0,
             active |-> FALSE]

Stored == {m \in Sms : sms[m] = "stored"}

TypeOK ==
  /\ scope \in Scope /\ enabled \in BOOLEAN /\ paused \in BOOLEAN
  /\ device \in [Inst -> Device]
  /\ tick \in Stamp
  /\ sms \in [Sms -> {"none", "stored", "deleted"}]
  /\ jobs \subseteq Job /\ due \subseteq jobs /\ before \subseteq due \X due
  /\ request \in Request \cup {NoRequest}
  /\ created \subseteq Job /\ acked \subseteq Sms /\ closed \subseteq Job
  /\ errors \in 0..MaxErrors /\ crashes \in 0..MaxCrashes

Init ==
  /\ scope \in Scope /\ enabled = TRUE /\ paused = FALSE
  /\ device = [i \in Inst |-> NoDevice]
  /\ tick = 0
  /\ sms = [m \in Sms |-> "none"]
  /\ jobs = {} /\ due = {} /\ before = {}
  /\ request = NoRequest
  /\ created = {} /\ acked = {} /\ closed = {}
  /\ errors = 0 /\ crashes = 0

-----------------------------------------------------------------------------
(* push_jobs                                                                 *)

Remove(gone) ==
  /\ jobs' = jobs \ gone
  /\ due' = due \ gone
  /\ before' = before \cap (due' \X due')

\* Mutant: the job is due again at once.
RetryAtOnce(j) == UNCHANGED queueVars

\* Mutant: INSERT OR REPLACE instead of UPDATE.
RetryUpserts(j) ==
  /\ jobs' = jobs \cup {j}
  /\ due' = due \ {j}
  /\ before' = before \cap (due' \X due')

\* retry_push_job: an UPDATE, of a job that may be gone.
Retry(j) ==
  /\ due' = due \ {j}
  /\ before' = before \cap (due' \X due')
  /\ UNCHANGED jobs

BecomesDue(j) ==
  /\ j \in jobs \ due
  /\ due' = due \cup {j}
  /\ before' = before \cup (due \X {j})
  /\ UNCHANGED <<configVars, device, tick, sms, jobs, request, created, acked, closed, errors, crashes>>

-----------------------------------------------------------------------------
(* Messages                                                                  *)

\* Mutant: pruned messages leave their jobs.
PruneKeepsJobs(new, kept) ==
  /\ jobs' = jobs \cup new
  /\ due' = due \cup new
  /\ before' = before \cup (due \X new)

\* New jobs are due at once, behind those that already are; _prune_sms drops
\* those of messages that are not kept.
Prune(new, kept) ==
  /\ jobs' = {j \in jobs \cup new : j.sms \in kept}
  /\ due' = {j \in due \cup new : j.sms \in kept}
  /\ before' = (before \cup (due \X new)) \cap (due' \X due')

\* save_sms: a job per active device of the scope for an inbound message, none
\* for one that was sent; then the oldest message by its own timestamp, which may
\* be the new one, goes if there are more than the limit.
SaveSms ==
  \E m \in Sms, victim \in Sms \cup {0}, inbound \in BOOLEAN :
    /\ sms[m] = "none" /\ \A k \in Sms : k < m => sms[k] # "none"
    /\ IF Cardinality(Stored) < Retained THEN victim = 0 ELSE victim \in Stored \cup {m}
    /\ sms' = [k \in Sms |-> IF k = victim THEN "deleted" ELSE IF k = m THEN "stored" ELSE sms[k]]
    /\ LET new == {j \in Job : /\ inbound /\ enabled /\ j.sms = m
                               /\ device[j.inst].active /\ device[j.inst].scope = scope
                               /\ device[j.inst].version = j.version}
       IN /\ created' = created \cup new
          /\ Prune(new, (Stored \cup {m}) \ {victim})
    /\ UNCHANGED <<configVars, device, tick, request, acked, closed, errors, crashes>>

\* acknowledge_sms: a message it knows, or one already deleted.
Acknowledge(m) ==
  /\ sms[m] # "none"
  /\ acked' = acked \cup {m}
  /\ Remove({j \in jobs : j.sms = m})
  /\ UNCHANGED <<configVars, device, tick, sms, request, created, closed, errors, crashes>>

-----------------------------------------------------------------------------
(* Devices                                                                   *)

Owners(i, t) == {k \in Inst \ {i} : device[k].token = t /\ device[k].scope = scope}
SameRow(i, t) == device[i].active /\ device[i].token = t /\ device[i].scope = scope

\* Mutant: a token may have several owners.
RegisterShared(i, t) ==
  /\ tick < MaxTicks /\ tick' = tick + 1
  /\ device' = [device EXCEPT ![i] =
        [token |-> t, scope |-> scope, at |-> tick + 1, active |-> TRUE,
         version |-> IF SameRow(i, t) THEN @.version ELSE tick + 1]]
  /\ Remove({j \in jobs : j.inst = i /\ ~SameRow(i, t)})
  /\ UNCHANGED <<configVars, sms, request, created, acked, closed, errors, crashes>>

\* register_push_device: the token leaves any other installation; the same row
\* keeps its version and its jobs, and only its registration time moves.
Register(i, t) ==
  /\ tick < MaxTicks /\ tick' = tick + 1
  /\ device' = [k \in Inst |->
        IF k \in Owners(i, t) THEN NoDevice
        ELSE IF k = i
             THEN [token |-> t, scope |-> scope, at |-> tick + 1, active |-> TRUE,
                   version |-> IF SameRow(i, t) THEN device[i].version ELSE tick + 1]
             ELSE device[k]]
  /\ Remove({j \in jobs : j.inst \in Owners(i, t) \/ (j.inst = i /\ ~SameRow(i, t))})
  /\ UNCHANGED <<configVars, sms, request, created, acked, closed, errors, crashes>>

\* delete_push_device, delete_sms_push_device
Delete(i) ==
  /\ device[i] # NoDevice
  /\ device' = [device EXCEPT ![i] = NoDevice]
  /\ Remove({j \in jobs : j.inst = i})
  /\ UNCHANGED <<configVars, tick, sms, request, created, acked, closed, errors, crashes>>

-----------------------------------------------------------------------------
(* The worker                                                                *)

Deliverable(j) ==
  /\ sms[j.sms] = "stored"
  /\ device[j.inst].active
  /\ device[j.inst].version = j.version

\* next_push_job: jobs older than a day go, and those whose device does not take
\* them; then the due job that has waited longest is sent, unless paused.
NextJob ==
  /\ enabled /\ request = NoRequest
  /\ \E day \in 0..MaxSms :
       LET old == {j \in jobs : j.sms <= day}
           orphans == {j \in jobs : ~(device[j.inst].active /\ device[j.inst].version = j.version
                                       /\ device[j.inst].scope = scope)}
       IN /\ Remove(old \cup orphans)
          /\ closed' = closed \cup old
  /\ \/ /\ paused \/ \A j \in due' : sms[j.sms] # "stored"
        /\ UNCHANGED request
     \/ \E j \in due' :
          /\ ~paused
          /\ sms[j.sms] = "stored"
          /\ \A k \in due' : sms[k.sms] = "stored" => <<k, j>> \notin before'
          /\ request' = [job |-> j, token |-> device[j.inst].token, at |-> device[j.inst].at,
                         sent |-> tick]
  /\ UNCHANGED <<configVars, device, tick, sms, created, acked, errors, crashes>>

\* Mutant: by installation only, whenever it registered.
InvalidateAny(job, cutoff) ==
  /\ device' = [device EXCEPT ![job.inst].active = FALSE]
  /\ Remove({j \in jobs : j.inst = job.inst})

\* invalidate_push_device: the device is switched off if it has not registered
\* again; the job goes anyway.
Invalidate(job, cutoff) ==
  LET stale == device[job.inst].version = job.version /\ device[job.inst].at <= cutoff IN
  /\ device' = IF stale THEN [device EXCEPT ![job.inst].active = FALSE] ELSE device
  /\ Remove({j \in jobs : j = job \/ (stale /\ j.inst = job.inst /\ j.version = job.version)})

Answered == request' = NoRequest /\ UNCHANGED <<scope, enabled, tick, sms, created, acked, crashes>>

\* 200, waiting for an ACK; 429, 5xx or no answer.
TriedAgain ==
  /\ request # NoRequest
  /\ Answered
  /\ Retry(request.job)
  /\ UNCHANGED <<device, paused, closed, errors>>

\* 410 with the time since when Apple knows the token is invalid (external: not
\* after it was asked), or a bad token, whose cutoff is the row's registration.
TokenInvalid ==
  /\ request # NoRequest
  /\ Answered
  /\ \E cutoff \in 0..request.sent : Invalidate(request.job, cutoff)
  /\ closed' = closed \cup {request.job}
  /\ UNCHANGED <<paused, errors>>

\* Wrong credentials or topic: nothing is sent until a restart.
Refused ==
  /\ request # NoRequest
  /\ Answered
  /\ paused' = TRUE
  /\ UNCHANGED <<device, queueVars, closed, errors>>

\* Any other answer, or a 410 without a time: finish_push_job.
Finished ==
  /\ request # NoRequest
  /\ Answered
  /\ Remove({request.job})
  /\ closed' = closed \cup {request.job}
  /\ UNCHANGED <<device, paused, errors>>

\* Something else raises: the worker logs it and goes on; the job stays first.
WorkerError ==
  /\ request # NoRequest
  /\ errors < MaxErrors /\ errors' = errors + 1
  /\ Answered
  /\ UNCHANGED <<device, paused, queueVars, closed>>

\* reconcile_push_scope
Reconcile(new) ==
  /\ device' = [i \in Inst |-> [device[i] EXCEPT !.active = @ /\ device[i].scope = new]]
  /\ \E day \in 0..MaxSms :
       LET old == {j \in jobs : j.sms <= day} IN
       /\ Remove(old \cup {j \in jobs : ~(device'[j.inst].active
                                          /\ device'[j.inst].version = j.version)})
       /\ closed' = closed \cup old

\* The service stops or dies and starts, perhaps with another configuration.
Restart ==
  /\ crashes < MaxCrashes /\ crashes' = crashes + 1
  /\ scope' \in Scope /\ enabled' \in BOOLEAN
  /\ paused' = FALSE
  /\ request' = NoRequest
  /\ Reconcile(scope')
  /\ UNCHANGED <<tick, sms, created, acked, errors>>

-----------------------------------------------------------------------------
Answer == TriedAgain \/ TokenInvalid \/ Refused \/ Finished

Next ==
  \/ SaveSms
  \/ \E m \in Sms : Acknowledge(m)
  \/ \E i \in Inst : Delete(i) \/ \E t \in Token : Register(i, t)
  \/ \E j \in Job : BecomesDue(j)
  \/ NextJob \/ Answer \/ WorkerError \/ Restart

Spec == Init /\ [][Next]_vars

\* The worker loops for ever and a request ends, by its timeout if need be.
FairSpec == Spec /\ WF_vars(NextJob) /\ WF_vars(Answer)

-----------------------------------------------------------------------------
(* Properties                                                                *)

\* "A token has one owner in a topic/environment, even across reinstallations"
\* (register_push_device): two installations registering in turn, with old rows
\* of another scope or switched off, never share one.
OneOwnerPerToken == \A i, k \in Inst :
  device[i].token # NoToken /\ device[i].token = device[k].token /\ device[i].scope = device[k].scope
    => i = k

\* The outbox holds exactly the notifications still owed: a job is there as long
\* as its message is stored and not acknowledged, its device is registered as it
\* was, and no final answer came; it is gone as soon as one of these fails, and
\* no late answer brings it back (retry, invalidate and finish of a job that was
\* acknowledged, deleted or pruned while its request was in flight).
OwedExactly ==
  jobs = {j \in created : Deliverable(j) /\ j.sms \notin acked /\ j \notin closed}

\* Only devices of the configured scope are active, across restarts.
ActiveInScope == \A i \in Inst : device[i].active => device[i].scope = scope

\* After an acknowledgement no request for the message starts, on any device.
AckIsFinal == [][request' \notin {request, NoRequest} => request'.job.sms \notin acked]_vars

\* "old requests do not revoke a new registration" (ios-apns.md): an answer
\* switches off only a registration older than the request it answers.
FreshSurvives == [][\A i \in Inst :
  device[i].active /\ device'[i].token # NoToken /\ ~device'[i].active /\ request # NoRequest
  /\ crashes' = crashes => device[i].at <= request.sent]_vars

\* No job waits for ever behind others that are retried: a due job is sent or
\* goes, unless the service is paused or switched off.
Waits(m, i) == \E j \in due : j.sms = m /\ j.inst = i
EveryJobTried == \A m \in Sms, i \in Inst : Waits(m, i) ~> (~Waits(m, i) \/ paused \/ ~enabled)

-----------------------------------------------------------------------------
(* The inductive invariant                                                   *)

\* Versions and message ids are used once: whatever refers to one is not newer
\* than the last, and nothing refers to a message that has not come.
Fresh ==
  /\ \A i \in Inst : device[i].version <= tick
  /\ \A j \in created : j.version <= tick /\ sms[j.sms] # "none"
  /\ \A m \in acked : sms[m] # "none"
  /\ closed \subseteq created
  /\ request # NoRequest => request.job \in created

IInv == TypeOK /\ OneOwnerPerToken /\ ActiveInScope /\ OwedExactly /\ Fresh
=============================================================================

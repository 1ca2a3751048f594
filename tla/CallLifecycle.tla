--------------------------- MODULE CallLifecycle ---------------------------
(***************************************************************************)
(* What calls/core.py and docs/ios-calls.md promise about calls, with no   *)
(* locks, tasks, timers or hardware: ids are handed out in order, at most  *)
(* one call is live, its state only moves forward, a terminal state is     *)
(* final and the device that owns an app call never changes.               *)
(* CallController is shown to implement this specification.                *)
(***************************************************************************)
EXTENDS Integers

CONSTANTS MaxCalls,  \* bound on the calls of one behaviour
          Inst,      \* app installations
          NoInst     \* owner of a call nobody claimed (and of every web call)

VARIABLES active,  \* id of the call CallCoordinator.active refers to, 0 = None
          state,   \* [Call -> CallState]; "none" before the call exists
          owner    \* [Call -> Inst \cup {NoInst}]

vars == <<active, state, owner>>

Call == 1..MaxCalls
Terminal == {"ended", "failed"}
LiveState == {"ringing_cellular", "waiting_client", "waiting_cellular", "active"}
CallState == {"none"} \cup LiveState \cup Terminal

TypeOK ==
  /\ active \in 0..MaxCalls
  /\ state \in [Call -> CallState]
  /\ owner \in [Call -> Inst \cup {NoInst}]

Init ==
  /\ active = 0
  /\ state = [c \in Call |-> "none"]
  /\ owner = [c \in Call |-> NoInst]

\* CallCoordinator.current is not None
Live == active # 0 /\ state[active] \notin Terminal

\* start_outbound and start_inbound: a new id, only when no call is live.
Create(s, o) ==
  /\ ~Live
  /\ active < MaxCalls
  /\ active' = active + 1
  /\ state' = [state EXCEPT ![active + 1] = s]
  /\ owner' = [owner EXCEPT ![active + 1] = o]

\* An app device claims a ringing call: the owner is assigned exactly once.
Claim(i) ==
  /\ Live
  /\ state[active] = "ringing_cellular"
  /\ owner[active] = NoInst
  /\ state' = [state EXCEPT ![active] = "waiting_client"]
  /\ owner' = [owner EXCEPT ![active] = i]
  /\ UNCHANGED active

\* The states a live call may move to; active is left only by ending.
Forward(s) ==
  CASE s = "ringing_cellular" -> {"active"} \cup Terminal
    [] s = "waiting_client"   -> {"waiting_cellular", "active"} \cup Terminal
    [] s = "waiting_cellular" -> {"active"} \cup Terminal
    [] s = "active"           -> Terminal
    [] OTHER                  -> {}

Advance ==
  /\ Live
  /\ \E s \in Forward(state[active]) : state' = [state EXCEPT ![active] = s]
  /\ UNCHANGED <<active, owner>>

Next ==
  \/ \E s \in {"ringing_cellular", "waiting_client"}, o \in Inst \cup {NoInst} : Create(s, o)
  \/ \E i \in Inst : Claim(i)
  \/ Advance

Spec == Init /\ [][Next]_vars
=============================================================================

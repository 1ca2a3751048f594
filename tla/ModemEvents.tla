---------------------------- MODULE ModemEvents ----------------------------
(***************************************************************************)
(* How what the module says reaches the gateway: the AT byte stream, the   *)
(* ATSession of modem/at.py, and the monitor task of modem/service.py with *)
(* its incoming-ring state.                                                *)
(*                                                                         *)
(* The monitor and the commands share one stream.  Whoever holds           *)
(* _monitor_lock reads; a command keeps the lines it takes for             *)
(* notifications in `urcs`, which the monitor handles before it reads on.  *)
(* The lines of one read are handled outside the lock, so a command may    *)
(* run between two of them.  The module and the network are external.      *)
(***************************************************************************)
EXTENDS Integers, Sequences, FiniteSets

CONSTANTS MaxCalls,   \* bound: cellular calls per behaviour
          MaxSms,     \* bound: short messages per behaviour
          MaxCommands,\* bound: AT commands per behaviour
          MaxLosses,  \* bound: USB errors, command timeouts and pauses
          MaxLines,   \* bound: unhandled lines while the module rings again
          Commands,   \* the commands the gateway uses, see below
          Pauses      \* run_exclusive may stop and restart the monitor

ASSUME BoundAssumption ==
  /\ {MaxCalls, MaxSms, MaxCommands, MaxLosses, MaxLines} \subseteq Nat
  /\ Commands \subseteq {"query", "ATA", "ATH", "ATD"}
  /\ Pauses \in BOOLEAN

VARIABLES
  line,     \* the module's voice call: which one, and its state
  asked,    \* the commands the module has not replied to
  wire,     \* lines the module has sent and nobody has read
  urcs,     \* ATSession.urcs
  split,    \* ATSession._pending_direct_sms_pdu
  cmd,      \* the command that holds _monitor_lock
  voice,    \* the command the call controller waits to send
  session,  \* the monitor's AT session: open, stopping, closed, or lost to an error
  batch,    \* lines of the last read the monitor has not handled
  number,   \* pending_number: caller of that call, 0 = None
  header,   \* pending_direct_sms: a +CMT header was the last line
  notified, \* _incoming_ring_notified
  delay,    \* _incoming_ring_delay_task: for the ring of that call, 0 = None
  callbacks,\* call callbacks scheduled and not run: an incoming call, 0 = disconnected
  believed, \* the cellular call of the controller's live call, 0 = it has none
  answered, \* ATA was accepted for it: it has no timeout any more
  told,     \* [Call -> how often the monitor reported it as incoming]
  records,  \* [Call -> incoming call records made for it]
  cleared,  \* [Call -> times the latch was cleared after its report, not by an incoming call's end]
  stored,   \* messages handed to SMS ingress
  eaten,    \* a response has swallowed a notification
  dropped,  \* a session that ended has taken a line of a message with it
  sent, commands, losses

moduleVars == <<line, asked, sent>>
ringVars == <<notified, delay, callbacks, told, cleared>>
readerVars == <<batch, number, header, stored>>
sessionVars == <<urcs, split, session, dropped>>
callVars == <<voice, believed, answered, records>>
commandVars == <<cmd, commands, eaten>>
vars == <<line, asked, wire, urcs, split, cmd, voice, session, batch, number, header, notified,
          delay, callbacks, believed, answered, told, cleared, records, stored, eaten, dropped,
          sent, commands, losses>>

Call == 1..MaxCalls
Sms == 1..MaxSms

\* The call the gateway dials; its lines carry the number 0.
Dialled == MaxCalls + 1

\* A line, with the call or message it is about; 0 in the reply to a command.
Line == [k : {"RING", "CLIP"}, n : Call] \cup [k : {"CMT", "PDU"}, n : Sms]
        \cup [k : {"NO_CARRIER"}, n : 0..MaxCalls] \cup [k : {"OK"}, n : {0}]
IsUrc(l) == l.k \in {"RING", "CLIP", "CMT", "PDU"}

\* What is lost when a response takes the line.
IsNews(l) == IsUrc(l) \/ (l.k = "NO_CARRIER" /\ l.n # 0)

\* The two lines of a message.
IsMessage(l) == l.k \in {"CMT", "PDU"}

\* classify_terminal_line
IsTerminal(l) == l.k \in {"OK", "NO_CARRIER"}

Voice == {"ATA", "ATH", "ATD"}

TypeOK ==
  /\ line \in [call : 0..MaxCalls, state : {"idle", "ringing", "up", "out"}]
  /\ asked \in Seq({"query"} \cup Voice)
  /\ wire \in Seq(Line) /\ urcs \in Seq(Line) /\ batch \in Seq(Line)
  /\ {split, header, notified, eaten, dropped, answered} \subseteq BOOLEAN
  /\ cmd \in {"none", "query"} \cup Voice
  /\ voice \in {"none"} \cup Voice
  /\ session \in {"open", "stopping", "closed", "lost"}
  /\ {number, delay} \subseteq 0..MaxCalls
  /\ callbacks \in Seq(0..MaxCalls)
  /\ believed \in 0..Dialled
  /\ told \in [Call -> Nat] /\ cleared \in [Call -> Nat] /\ stored \subseteq Sms
  /\ records \in [Call -> Nat]
  /\ sent \in 0..MaxSms /\ commands \in 0..MaxCommands /\ losses \in 0..MaxLosses

Init ==
  /\ line = [call |-> 0, state |-> "idle"]
  /\ wire = <<>> /\ urcs = <<>> /\ batch = <<>> /\ callbacks = <<>>
  /\ asked = <<>> /\ split = FALSE /\ header = FALSE /\ notified = FALSE /\ eaten = FALSE
  /\ answered = FALSE /\ dropped = FALSE
  /\ cmd = "none" /\ voice = "none"
  /\ session = "open"
  /\ number = 0 /\ delay = 0 /\ believed = 0
  /\ told = [c \in Call |-> 0] /\ cleared = [c \in Call |-> 0] /\ stored = {}
  /\ records = [c \in Call |-> 0]
  /\ sent = 0 /\ commands = 0 /\ losses = 0

-----------------------------------------------------------------------------
(* The module and the network (external)                                     *)

RemoteCalls ==
  /\ line.state = "idle" /\ line.call < MaxCalls
  /\ line' = [call |-> line.call + 1, state |-> "ringing"]
  /\ UNCHANGED <<asked, sent, wire, sessionVars, commandVars, readerVars, ringVars, callVars, losses>>

\* The module rings every few seconds; the caller's number may be withheld.
Rings ==
  /\ line.state = "ringing"
  /\ Len(batch) + Len(urcs) + Len(wire) < MaxLines
  /\ \E clip \in {<<>>, <<[k |-> "CLIP", n |-> line.call]>>} :
       wire' = wire \o <<[k |-> "RING", n |-> line.call]>> \o clip
  /\ UNCHANGED <<moduleVars, sessionVars, commandVars, readerVars, ringVars, callVars, losses>>

RemoteHangsUp ==
  /\ line.state # "idle"
  /\ line' = [line EXCEPT !.state = "idle"]
  /\ wire' = Append(wire, [k |-> "NO_CARRIER", n |-> IF line.state = "out" THEN 0 ELSE line.call])
  /\ UNCHANGED <<asked, sent, sessionVars, commandVars, readerVars, ringVars, callVars, losses>>

\* A message arrives, header and PDU.
SmsArrives ==
  /\ sent < MaxSms
  /\ sent' = sent + 1
  /\ wire' = wire \o <<[k |-> "CMT", n |-> sent + 1], [k |-> "PDU", n |-> sent + 1]>>
  /\ UNCHANGED <<line, asked, sessionVars, commandVars, readerVars, ringVars, callVars, losses>>

\* The module obeys the commands it is sent, in order.
Replies ==
  /\ asked # <<>> /\ asked' = Tail(asked)
  /\ LET op == Head(asked) IN
     /\ line' = [line EXCEPT !.state =
          CASE op = "ATH" -> "idle"
            [] op = "ATA" /\ line.state = "ringing" -> "up"
            [] op = "ATD" /\ line.state = "idle" -> "out"
            [] OTHER -> line.state]
     /\ wire' = Append(wire,
          [k |-> IF op \in {"ATA", "ATD"} /\ line' = line THEN "NO_CARRIER" ELSE "OK", n |-> 0])
  /\ UNCHANGED <<sent, sessionVars, commandVars, readerVars, ringVars, callVars, losses>>

Module == RemoteCalls \/ Rings \/ RemoteHangsUp \/ SmsArrives \/ Replies

-----------------------------------------------------------------------------
(* Incoming-ring state                                                       *)

\* Mutant: every ring is reported.
DeliverAlways(c) ==
  /\ notified' = TRUE
  /\ delay' = 0
  /\ told' = [told EXCEPT ![c] = @ + 1]
  /\ callbacks' = Append(callbacks, c)
  /\ UNCHANGED cleared

\* _deliver_incoming_call: once per ring, cancelling the delay.
Deliver(c) ==
  IF notified THEN UNCHANGED ringVars
  ELSE /\ notified' = TRUE
       /\ delay' = 0
       /\ told' = [told EXCEPT ![c] = @ + 1]
       /\ callbacks' = Append(callbacks, c)
       /\ UNCHANGED cleared

\* _defer_incoming_call: wait 0.5 s for the number.
Defer(c) ==
  /\ delay' = IF notified \/ delay # 0 THEN delay ELSE c
  /\ UNCHANGED <<notified, told, callbacks, cleared>>

\* wait_for_caller_id: no number came.  A number that came with the ring in one
\* read is handled at once, long before the half second is over.
DelayOver ==
  /\ delay # 0 /\ (batch # <<>> => Head(batch).k # "CLIP")
  /\ IF notified THEN delay' = 0 /\ UNCHANGED <<notified, told, callbacks, cleared>>
                 ELSE Deliver(delay)
  /\ UNCHANGED <<moduleVars, wire, sessionVars, commandVars, readerVars, callVars, losses>>

\* _reset_incoming_ring
ResetRing == notified' = FALSE /\ delay' = 0

\* The same, for another reason than the end of an incoming call: calls reported
\* before may be reported again.
ClearRing ==
  /\ ResetRing
  /\ cleared' = [c \in Call |-> IF notified /\ told[c] > 0 THEN cleared[c] + 1 ELSE cleared[c]]

-----------------------------------------------------------------------------
(* _read_monitor                                                             *)

Reading == session = "open" /\ batch = <<>> /\ cmd = "none"

\* Lines a command left in `urcs` come first ...
DrainUrcs ==
  /\ Reading /\ urcs # <<>>
  /\ batch' = urcs
  /\ urcs' = <<>>
  /\ UNCHANGED <<moduleVars, wire, split, session, dropped, commandVars, number, header, stored,
                 ringVars, callVars, losses>>

\* Mutant: reads on before it has handled the kept lines.
ReadWireFirst ==
  /\ Reading
  /\ \E n \in 1..Len(wire) :
       /\ batch' = SubSeq(wire, 1, n)
       /\ wire' = SubSeq(wire, n + 1, Len(wire))
  /\ UNCHANGED <<moduleVars, sessionVars, commandVars, number, header, stored, ringVars,
                 callVars, losses>>

\* ... then a read returns the complete lines that are there.
ReadWire ==
  /\ Reading /\ urcs = <<>>
  /\ \E n \in 1..Len(wire) :
       /\ batch' = SubSeq(wire, 1, n)
       /\ wire' = SubSeq(wire, n + 1, Len(wire))
  /\ UNCHANGED <<moduleVars, sessionVars, commandVars, number, header, stored, ringVars,
                 callVars, losses>>

Handle(kind) ==
  /\ batch # <<>> /\ Head(batch).k = kind
  /\ batch' = Tail(batch)
  /\ UNCHANGED <<moduleVars, wire, sessionVars, cmd, commands, eaten, callVars, losses>>

\* RING: with a pending number the call is reported at once.
HandleRing ==
  /\ Handle("RING")
  /\ header' = FALSE
  /\ IF number = 0 THEN Defer(Head(batch).n) ELSE Deliver(Head(batch).n)
  /\ number' = 0
  /\ UNCHANGED stored

\* +CLIP: the number of the ring that waits for it, or of the next one.
HandleClip ==
  /\ Handle("CLIP")
  /\ header' = FALSE
  /\ IF delay # 0 THEN Deliver(delay) /\ number' = 0
                  ELSE number' = Head(batch).n /\ UNCHANGED ringVars
  /\ UNCHANGED stored

\* NO CARRIER: the ring is over, and so is whatever call the controller has.  It
\* may as well be that of a dialled call, or a reply whose command took another
\* line for it.
HandleNoCarrier ==
  /\ Handle("NO_CARRIER")
  /\ header' = FALSE
  /\ IF Head(batch).n = 0 THEN ClearRing ELSE ResetRing /\ UNCHANGED cleared
  /\ callbacks' = Append(callbacks, 0)
  /\ UNCHANGED <<number, told, stored>>

\* Mutant: a +CMT header is skipped like a +CMTI line.
HandleCmtSkipped ==
  /\ Handle("CMT")
  /\ header' = FALSE
  /\ UNCHANGED <<number, ringVars, stored>>

HandleCmt ==
  /\ Handle("CMT")
  /\ header' = TRUE
  /\ UNCHANGED <<number, ringVars, stored>>

\* A PDU counts only right after its header.
HandlePdu ==
  /\ Handle("PDU")
  /\ stored' = IF header THEN stored \cup {Head(batch).n} ELSE stored
  /\ header' = FALSE
  /\ UNCHANGED <<number, ringVars>>

\* A late OK is no notification.
HandleOther ==
  /\ Handle("OK")
  /\ UNCHANGED <<number, header, ringVars, stored>>

Monitor ==
  \/ DrainUrcs \/ ReadWire
  \/ HandleRing \/ HandleClip \/ HandleNoCarrier \/ HandleCmt \/ HandlePdu \/ HandleOther

-----------------------------------------------------------------------------
(* The call controller as the modem service sees it                          *)

\* Its operations are serial: one at a time waits for a modem command.
ControllerFree == voice = "none" /\ cmd \notin Voice

\* _run_monitor_callback: an incoming call is recorded unless one is live; a
\* disconnection ends the live one, which sends ATH.
RunCallback ==
  /\ callbacks # <<>> /\ ControllerFree
  /\ callbacks' = Tail(callbacks)
  /\ LET c == Head(callbacks) IN
     \/ c # 0 /\ believed = 0
        /\ believed' = c
        /\ records' = [records EXCEPT ![c] = @ + 1]
        /\ UNCHANGED <<voice, answered>>
     \/ c # 0 /\ believed # 0 /\ UNCHANGED callVars
     \/ c = 0 /\ voice' = (IF believed = 0 THEN "none" ELSE "ATH") /\ UNCHANGED <<believed, answered, records>>
  /\ UNCHANGED <<moduleVars, wire, sessionVars, commandVars, readerVars, notified, delay, told, cleared,
                 losses>>

\* A client answers, dials or hangs up; dial() resets the ring state before it
\* waits for the lock.
ClientWants(op) ==
  /\ ControllerFree /\ commands < MaxCommands
  /\ CASE op = "ATD" -> believed = 0 [] op = "ATA" -> believed \in Call [] op = "ATH" -> believed # 0
  /\ voice' = op /\ commands' = commands + 1
  /\ believed' = IF op = "ATD" THEN Dialled ELSE believed
  /\ IF op = "ATD" THEN ClearRing ELSE UNCHANGED <<notified, delay, cleared>>
  /\ UNCHANGED <<moduleVars, wire, sessionVars, cmd, eaten, readerVars, callbacks, told, records,
                 answered, losses>>

\* The timeout of a call that is not connected hangs it up.
CallTimesOut ==
  /\ ControllerFree /\ believed # 0 /\ ~answered
  /\ voice' = "ATH"
  /\ UNCHANGED <<moduleVars, wire, sessionVars, commandVars, readerVars, ringVars, believed,
                 answered, records, losses>>

-----------------------------------------------------------------------------
(* Commands                                                                  *)

\* at(): the command waits for a ready monitor and is written once the lock is
\* free (one that already waits when the monitor is stopped counts as earlier).
\* A query (CSQ, CLCC, VTS, ...) may be sent at any time; MaxCommands bounds
\* queries and clients' wishes.
SendCommand(op) ==
  /\ session = "open" /\ cmd = "none"
  /\ IF op = "query" THEN UNCHANGED voice ELSE voice = op /\ voice' = "none"
  /\ op = "query" => commands < MaxCommands
  /\ commands' = IF op = "query" THEN commands + 1 ELSE commands
  /\ cmd' = op
  /\ asked' = Append(asked, op)
  /\ UNCHANGED <<line, sent, wire, sessionVars, eaten, readerVars, ringVars, believed, answered,
                 records, losses>>

\* What the caller does then: hangup() resets the ring state if ATH was
\* accepted, and the call is over either way; a call that could not be
\* answered or dialled is hung up.
Finish(ok) ==
  /\ cmd' = "none"
  /\ voice' = IF cmd \in {"ATA", "ATD"} /\ ~ok THEN "ATH" ELSE voice
  /\ believed' = IF cmd = "ATH" THEN 0 ELSE believed
  /\ answered' = (IF cmd = "ATA" THEN ok ELSE cmd # "ATH" /\ answered)
  /\ UNCHANGED <<told, records, callbacks>>

\* _read_response, _route_urc: a notification is kept for the monitor, any
\* other line belongs to the response.
ResponseLine ==
  /\ cmd # "none" /\ wire # <<>> /\ ~IsTerminal(Head(wire))
  /\ LET kept == Head(wire).k = "PDU" => split IN
     /\ urcs' = IF kept THEN Append(urcs, Head(wire)) ELSE urcs
     /\ eaten' = (eaten \/ ~kept)
  /\ split' = (Head(wire).k = "CMT")
  /\ wire' = Tail(wire)
  /\ UNCHANGED <<moduleVars, session, dropped, cmd, commands, readerVars, ringVars, callVars,
                 losses>>

\* Mutant: a hang-up leaves the ring state.
ResponseEndsLatched ==
  /\ cmd # "none" /\ wire # <<>> /\ IsTerminal(Head(wire))
  /\ wire' = Tail(wire)
  /\ Finish(Head(wire).k = "OK")
  /\ UNCHANGED <<moduleVars, sessionVars, commands, cleared, eaten, readerVars, notified, delay,
                 losses>>

\* The first terminal line is the response; what else that read returned is
\* dropped.
ResponseEnds ==
  /\ cmd # "none" /\ wire # <<>> /\ IsTerminal(Head(wire))
  /\ \E n \in 1..Len(wire) :
       /\ wire' = SubSeq(wire, n + 1, Len(wire))
       /\ eaten' = (eaten \/ \E i \in 1..n : IsNews(wire[i]))
  /\ Finish(Head(wire).k = "OK")
  /\ IF cmd = "ATH" /\ Head(wire).k = "OK" THEN ClearRing ELSE UNCHANGED <<notified, delay, cleared>>
  /\ UNCHANGED <<moduleVars, sessionVars, commands, readerVars, losses>>

\* Every line is read and no terminal one came in time: the command fails,
\* _restart_monitor_session.
ResponseTimesOut ==
  /\ cmd # "none" /\ asked # <<>> /\ session = "open" /\ wire = <<>>
  /\ losses < MaxLosses /\ losses' = losses + 1
  /\ Finish(FALSE)
  /\ ClearRing
  /\ session' = "stopping"
  /\ asked' = <<>>
  /\ UNCHANGED <<line, sent, wire, urcs, split, dropped, commands, eaten, readerVars>>

Command ==
  \/ \E op \in Commands \ {"query"} : ClientWants(op)
  \/ CallTimesOut \/ RunCallback
  \/ \E op \in Commands \cup {"ATH"} : SendCommand(op)
  \/ ResponseLine \/ ResponseEnds \/ ResponseTimesOut

-----------------------------------------------------------------------------
(* The session                                                               *)

\* run_exclusive or a reconnect: stop_monitor resets the ring state and lets
\* the monitor finish its lines.
Pause ==
  /\ Pauses /\ session = "open"
  /\ losses < MaxLosses /\ losses' = losses + 1
  /\ session' = "stopping"
  /\ ClearRing
  /\ UNCHANGED <<moduleVars, wire, urcs, split, dropped, commandVars, readerVars, callVars,
                 callbacks, told>>

\* A new session has a new ATSession, and _read_monitor new locals.
Closed(how) ==
  /\ session' = how
  /\ urcs' = <<>> /\ split' = FALSE
  /\ number' = 0 /\ header' = FALSE
  /\ dropped' = (dropped \/ header \/ \E i \in DOMAIN urcs : IsMessage(urcs[i]))
  /\ UNCHANGED <<moduleVars, wire, batch, stored, commandVars, callVars, told>>

CloseSession ==
  /\ session = "stopping" /\ batch = <<>> /\ cmd = "none"
  /\ Closed("closed")
  /\ delay' = 0
  /\ UNCHANGED <<notified, callbacks, cleared, losses>>

\* Mutant: the lost link is not reported.
LinkLostSilent ==
  /\ Reading
  /\ losses < MaxLosses /\ losses' = losses + 1
  /\ Closed("lost")
  /\ ClearRing
  /\ UNCHANGED callbacks

\* A read fails: the monitor reports the live call as disconnected and reopens.
LinkLost ==
  /\ Reading
  /\ losses < MaxLosses /\ losses' = losses + 1
  /\ Closed("lost")
  /\ ClearRing
  /\ callbacks' = Append(callbacks, 0)

\* The notifications among the lines s, in their order (there is one such sequence).
Notifications(s) ==
  LET kept == {i \in DOMAIN s : IsUrc(s[i])}
      InTurn(f) == \A i, j \in DOMAIN f : i < j => f[i] < f[j]
  IN {[i \in DOMAIN f |-> s[f[i]]] : f \in {g \in [1..Cardinality(kept) -> kept] : InTurn(g)}}

\* The handshake keeps the notifications among the unread lines; an attempt
\* that meets a NO CARRIER fails and takes what it has read with it.
Reopen ==
  /\ session \in {"closed", "lost"}
  /\ \E n \in 0..Len(wire) :
       LET rest == SubSeq(wire, n + 1, Len(wire)) IN
       /\ \A i \in 1..Len(rest) : rest[i].k # "NO_CARRIER"
       /\ urcs' \in Notifications(rest)
       /\ dropped' = (dropped \/ \E i \in 1..n : IsMessage(wire[i]))
       /\ eaten' = (eaten \/ (session = "closed" /\ \E i \in 1..n : IsNews(wire[i])))
  /\ wire' = <<>>
  /\ session' = "open"
  /\ UNCHANGED <<moduleVars, split, cmd, commands, readerVars, ringVars, callVars, losses>>

Session == Pause \/ CloseSession \/ LinkLost \/ Reopen

Next == Module \/ Monitor \/ DelayOver \/ Command \/ Session

Spec == Init /\ [][Next]_vars

\* What the gateway does by itself: handle lines, read responses, reopen.
Work == Monitor \/ ResponseLine \/ ResponseEnds \/ CloseSession \/ Reopen

\* The module keeps ringing and replies; the gateway's tasks run; the lock is
\* first come, first served; a call nobody answers times out.  Nobody has to
\* call, answer or fail.
Fairness ==
  /\ WF_vars(Rings \/ Replies)
  /\ WF_vars(Work) /\ WF_vars(DelayOver)
  /\ WF_vars(RunCallback) /\ WF_vars(CallTimesOut)
  /\ SF_vars(\E op \in Voice : SendCommand(op))

FairSpec == Spec /\ Fairness

-----------------------------------------------------------------------------
(* Properties *)

\* What the module has sent and the monitor has not handled, oldest first: lines
\* kept in `urcs` are older than those on the wire.
Stream == batch \o urcs \o wire

\* A ringing call is reported once: again only as often as a dial, a hang-up, a
\* restart, a lost link or a NO CARRIER that is not an incoming call's has cleared
\* the latch after its report (_incoming_ring_notified against rings that are kept,
\* delayed and replayed around commands, and the ends of other calls).
ReportedOnce == \A c \in Call : told[c] <= 1 + cleared[c]

\* Notifications reach the monitor in the order the module sent them, whoever
\* read them: no ring of a call after its NO CARRIER or after a later one's ring,
\* no PDU before its header.
MayPrecede(l, m) ==
  /\ l.k = "RING" /\ m.k \in {"RING", "NO_CARRIER"} /\ m.n # 0 => l.n <= m.n
  /\ l.k = "NO_CARRIER" /\ m.k = "RING" => l.n < m.n
  /\ l.k \in {"CMT", "PDU"} /\ m.k \in {"CMT", "PDU"} =>
       l.n < m.n \/ (l.n = m.n /\ l.k = "CMT")
InOrder(s) == \A i, j \in 1..Len(s) : i < j => MayPrecede(s[i], s[j])
StreamInOrder == InOrder(Stream)

\* A call that keeps ringing is reported, unless a command swallows news.
RingDelivered == \A c \in Call :
  (line.call = c /\ line.state = "ringing" /\ told[c] = 0)
    ~> (told[c] # 0 \/ line.call # c \/ line.state # "ringing" \/ eaten)

\* A call that is over at the module gets over for the controller, by its NO
\* CARRIER, a timeout or the report of a lost link ...
Over == believed # 0 /\ line.state = "idle"
HangupDelivered == Over ~> ~Over

\* ... except that a response, or the handshake of a restarted session, may
\* swallow the NO CARRIER.
HangupDeliveredUnlessEaten == Over ~> (~Over \/ eaten)

\* A message reaches SMS ingress once its lines are handled, whoever read them
\* and whatever came in between, unless a response swallowed a notification or a
\* session that ended took a line of a message with it: a kept one, or a header
\* whose PDU came later.
SmsKept == \A m \in 1..sent :
  m \in stored \/ eaten \/ dropped
  \/ \E i \in DOMAIN Stream : Stream[i] = [k |-> "PDU", n |-> m]

=============================================================================

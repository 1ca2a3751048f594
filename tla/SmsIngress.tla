----------------------------- MODULE SmsIngress -----------------------------
(***************************************************************************)
(* From a phone's message to a row of sms_messages: send_sms of            *)
(* modem/service.py, the network (external: it delays, reorders, repeats   *)
(* and loses segments), SMSIngress and SMSAssembler of modem/sms.py and    *)
(* the two tables they write.  Every phone sends like the gateway does.    *)
(* ingest runs on a thread, one PDU at a time; the gateway may stop, or a  *)
(* write fail, between the steps of ingest.  What retention prunes         *)
(* (PushOutbox) and what the AT stream drops (ModemEvents) are not here.   *)
(***************************************************************************)
EXTENDS SmsCodec, FiniteSets, FiniteSetsExt, Functions

CONSTANTS
  Phone, Reference,
  None,         \* the reference of a message of one segment
  Message,      \* names of messages
  Text,         \* the text of each
  TTL,          \* ttl_seconds of the assembler
  MaxGroups,    \* max_groups of the assembler
  MaxTime,      \* bound on the clock
  MaxSent,      \* bound on different messages sent
  MaxRepeats,   \* bound on repeated deliveries
  MaxFaults,    \* bound on rejected segments, lost segments and failed writes
  MaxCrashes    \* bound on restarts of the gateway

ASSUME SmsAssumption == MaxGroups \in Nat \ {0} /\ TTL \in Nat \ {0}

VARIABLES
  now,
  sending,      \* per phone: the segment send_sms is at, if any
  sent,         \* what was sent, as far as it was accepted
  air,          \* segments the network has and may deliver
  seen,         \* table sms_pdu_dedup
  groups,       \* _groups of the assembler
  step, part, whole, \* of ingest: its next step, its part and the message it assembled
  inbox,        \* table sms_messages, inbound
  saves,        \* how often each row was written
  hurt,         \* messages the gateway lost a part of: TTL, eviction, crash, failed write
  repeats, faults, crashes

phones  == <<sending, sent>>
ingress == <<seen, groups, step, part, whole, inbox, saves, hurt>>
vars    == <<now, phones, air, ingress, repeats, faults, crashes>>

Nothing == [seq |-> 0]

(* The segments of every message (a table: TLC evaluates it once).         *)
Segments == [m \in Message |-> EncodeSms(Text[m])]

(* A segment on the air, that is a PDU: two are equal, and have equal      *)
(* hashes, when all that is in them is.  Only a message of several         *)
(* segments has a header with a reference.                                 *)
Pdu(phone, m, r, k, t) ==
  LET total == Len(Segments[m])
  IN  [sender |-> phone, message |-> m, reference |-> IF total = 1 THEN None ELSE r,
       time |-> t, total |-> total, seq |-> k]

(* The message a segment is of.  A text sent again in the same second with *)
(* the same reference, or with none, makes equal PDUs: it is one message.  *)
Sent(p) == [sender |-> p.sender, message |-> p.message, reference |-> p.reference, time |-> p.time]

Init ==
  /\ now = 0
  /\ sending = [f \in Phone |-> Nothing] /\ sent = {}
  /\ air = {} /\ seen = {}
  /\ groups = <<>>
  /\ step = "idle" /\ part = Nothing /\ whole = <<>>
  /\ inbox = {} /\ saves = <<>> /\ hurt = {}
  /\ repeats = 0 /\ faults = 0 /\ crashes = 0

Fault == faults < MaxFaults /\ faults' = faults + 1 /\ UNCHANGED <<repeats, crashes>>
bounds == <<repeats, faults, crashes>>

-----------------------------------------------------------------------------
(* A phone sends.  It takes a reference again for a message of as many     *)
(* segments only when nothing of the last one is on the way and the        *)
(* receiver has given it up (the bound under which references that are     *)
(* eight random bits tell messages apart).                                 *)

Key(p) == <<p.sender, p.reference, p.total>>

Expired(key) == groups[key].expires <= now

Reusable(p) ==
  /\ \A q \in air \cup (IF part = Nothing THEN {} ELSE {part}) : Key(q) # Key(p)
  /\ Key(p) \in DOMAIN groups => Expired(Key(p))

SendSms(phone, m, r) ==
  /\ sending[phone] = Nothing /\ Cardinality(sent) < MaxSent
  /\ LET first == Pdu(phone, m, r, 1, now)
     IN  /\ first.total \in 1 .. 255
         /\ first.total > 1 => Reusable(first)
         /\ sending' = [sending EXCEPT ![phone] = first]
         /\ sent' = sent \cup {Sent(first)}
  /\ UNCHANGED <<now, air, ingress, bounds>>

(* One segment is accepted, or rejected: then the rest is not sent.        *)
SendSegment(phone) ==
  /\ sending[phone] # Nothing
  /\ LET p == sending[phone]
     IN  \/ /\ air' = air \cup {p}
            /\ sending' = [sending EXCEPT ![phone] =
                             IF p.seq = p.total THEN Nothing ELSE [p EXCEPT !.seq = @ + 1]]
            /\ UNCHANGED bounds
         \/ /\ sending' = [sending EXCEPT ![phone] = Nothing]
            /\ Fault /\ UNCHANGED air
  /\ UNCHANGED <<now, sent, ingress>>

Lose ==
  /\ Fault
  /\ \E p \in air : air' = air \ {p}
  /\ UNCHANGED <<now, phones, ingress>>

Tick ==
  /\ now < MaxTime /\ now' = now + 1
  /\ UNCHANGED <<phones, air, ingress, bounds>>

-----------------------------------------------------------------------------
(* SMSIngress.ingest                                                       *)

(* A PDU arrives and decodes; one that does not decode changes nothing.    *)
Receive ==
  /\ step = "idle"
  /\ \E p \in air :
       /\ \/ air' = air \ {p} /\ UNCHANGED repeats
          \/ repeats < MaxRepeats /\ repeats' = repeats + 1 /\ UNCHANGED air
       /\ ~Truncated(Segments[p.message][p.seq])
       /\ part' = p /\ step' = "record"
  /\ UNCHANGED <<now, phones, seen, groups, whole, inbox, saves, hurt, faults, crashes>>

Done == step' = "idle" /\ part' = Nothing /\ whole' = <<>>

(* Mutant: only the parts of the open groups are known.                    *)
KnownInGroup(p) == \E key \in DOMAIN groups : p \in Range(groups[key].parts)

Known(p) == p \in seen

(* record_sms_pdu, committed on its own; a PDU seen before ends here.      *)
RecordPdu ==
  /\ step = "record"
  /\ \/ /\ Known(part) /\ Done /\ UNCHANGED <<seen, bounds>>
     \/ /\ ~Known(part)
        /\ seen' = seen \cup {part} /\ step' = "add"
        /\ UNCHANGED <<part, whole, bounds>>
     \/ Fault /\ Done /\ UNCHANGED seen
  /\ UNCHANGED <<now, phones, air, groups, inbox, saves, hurt>>

Without(keys) == Restrict(groups, DOMAIN groups \ keys)
PartsOf(keys) == {Sent(p) : p \in UNION {Range(groups[key].parts) : key \in keys}}

(* Mutant: a group is kept until its deadline is past.                     *)
PurgedLate == {key \in DOMAIN groups : groups[key].expires < now}

Purged == {key \in DOMAIN groups : Expired(key)}

(* The group that goes for a new one at the limit: the oldest, or none.    *)
Evicted(key) ==
  LET kept == DOMAIN groups \ Purged
      age(other) == groups[other].expires
  IN  IF key \in kept \/ Cardinality(kept) < MaxGroups THEN {{}}
      ELSE {{oldest} : oldest \in {g \in kept : \A h \in kept : age(g) <= age(h)}}

(* The group of a part: the deadline is set by its first part.             *)
Group(key, old) ==
  IF key \in DOMAIN old THEN old[key] ELSE [expires |-> now + TTL, parts |-> <<>>]

(* f[x] := v, where f need not have a value for x yet.                     *)
Put(f, x, v) == [y \in DOMAIN f \cup {x} |-> IF y = x THEN v ELSE f[y]]

(* Mutant: a part that comes before its predecessor is dropped.            *)
InsertNext(p, parts) ==
  IF p.seq = Cardinality(DOMAIN parts) + 1 THEN Put(parts, p.seq, p) ELSE parts

Insert(p, parts) == Put(parts, p.seq, p)

Joined(parts) == [k \in 1 .. Cardinality(DOMAIN parts) |-> parts[k]]

(* SMSAssembler.add: a message of one part passes; others are put in their *)
(* group, in any order, and leave it when it is complete.                  *)
AddPart ==
  /\ step = "add"
  /\ \/ /\ part.total = 1
        /\ whole' = <<part>> /\ step' = "save" /\ UNCHANGED <<part, groups, hurt>>
     \/ /\ part.total > 1
        /\ \E evicted \in Evicted(Key(part)) :
             LET kept  == Without(Purged \cup evicted)
                 group == Group(Key(part), kept)
                 parts == Insert(part, group.parts)
                 rest  == Restrict(kept, DOMAIN kept \ {Key(part)})
             IN  /\ hurt' = hurt \cup PartsOf(Purged \cup evicted)
                 /\ \/ /\ DOMAIN parts = 1 .. part.total
                       /\ groups' = rest
                       /\ whole' = Joined(parts) /\ step' = "save" /\ UNCHANGED part
                    \/ /\ DOMAIN parts # 1 .. part.total
                       /\ groups' = Put(rest, Key(part), [expires |-> group.expires, parts |-> parts])
                       /\ Done
  /\ UNCHANGED <<now, phones, air, seen, inbox, saves, bounds>>

Body(parts) ==
  FlattenSeq([k \in DOMAIN parts |-> DecodeDeliver(Segments[parts[k].message][parts[k].seq])])

(* The row of a message: its id is the hash of its PDUs.                   *)
Row(parts) == [id |-> parts, sender |-> parts[1].sender, body |-> Body(parts)]

(* save_sms: INSERT OR REPLACE.                                            *)
SaveSms ==
  /\ step = "save" /\ Done
  /\ \/ /\ inbox' = {row \in inbox : row.id # whole} \cup {Row(whole)}
        /\ saves' = Put(saves, whole, IF whole \in DOMAIN saves THEN saves[whole] + 1 ELSE 1)
        /\ UNCHANGED <<hurt, bounds>>
     \/ /\ Fault /\ hurt' = hurt \cup {Sent(p) : p \in Range(whole)}
        /\ UNCHANGED <<inbox, saves>>
  /\ UNCHANGED <<now, phones, air, seen, groups>>

(* The gateway stops and starts: the assembler is empty, the tables stay.  *)
Restart ==
  /\ crashes < MaxCrashes /\ crashes' = crashes + 1
  /\ hurt' = hurt \cup PartsOf(DOMAIN groups)
                  \cup (IF step \in {"add", "save"} THEN {Sent(part)} ELSE {})
                  \cup {Sent(p) : p \in Range(whole)}
  /\ groups' = <<>> /\ Done
  /\ UNCHANGED <<now, phones, air, seen, inbox, saves, repeats, faults>>

Next ==
  \/ \E phone \in Phone, m \in Message, r \in Reference : SendSms(phone, m, r)
  \/ \E phone \in Phone : SendSegment(phone)
  \/ Lose \/ Tick
  \/ Receive \/ RecordPdu \/ AddPart \/ SaveSms \/ Restart

Spec == Init /\ [][Next]_vars

-----------------------------------------------------------------------------
(* The messages whose text comes back from its segments, wherever they are *)
(* cut: no pair of units is torn, and a segment is read from the bit it    *)
(* was written at.                                                         *)
Readable == {m \in Message :
  FlattenSeq([k \in 1 .. Len(Segments[m]) |-> DecodeDeliver(Segments[m][k])]) = Text[m]}

(* What is in the inbox is what somebody sent: parts are joined in order,  *)
(* never with a part of another message or of another sender, and the text *)
(* survives its coding.                                                    *)
StoredWasSent ==
  \A row \in inbox : \E s \in sent : s.sender = row.sender /\ Text[s.message] = row.body

(* No message is written twice, however often its segments are repeated    *)
(* and whenever the gateway restarts: writing it again would make it       *)
(* unread and notify again.                                                *)
StoredOnce == \A id \in DOMAIN saves : saves[id] = 1

(* A message of which every segment has been recorded is in the inbox, or  *)
(* being saved, unless the gateway says it gave it up: expiry, eviction, a *)
(* restart or a failed write.  A text sent twice in one second makes the   *)
(* PDUs of one message (see Sent), and the inbox has it once.              *)
Complete(s) ==
  \A k \in 1 .. Len(Segments[s.message]) :
    \E p \in seen : Sent(p) = s /\ p.seq = k

NothingMissing ==
  \A s \in sent :
    Complete(s) /\ s \notin hurt /\ ~(step # "idle" /\ Sent(part) = s)
      => \E row \in inbox : \E p \in Range(row.id) : Sent(p) = s
=============================================================================

------------------------- MODULE SmsIngress_proofs -------------------------
(***************************************************************************)
(* Safety of SmsIngress: no message is stored twice, none that came is     *)
(* missing, and what is stored was sent, for any number of phones,         *)
(* references and messages, any TTL and capacity, and all bounds.          *)
(***************************************************************************)
EXTENDS SmsIngress, FiniteSetTheorems, TLAPS

\* What is in a PDU.
PduRecord == [sender : Phone, message : Message, reference : Reference \cup {None}, time : Nat,
              total : Nat, seq : Nat]

\* How many segments a message has.
Count(m) == Len(Segments[m])

\* A segment of a message that was sent, with its number and their count.
Genuine(p) == /\ p \in PduRecord /\ Sent(p) \in sent
              /\ p.total = Count(p.message) /\ p.seq \in 1 .. p.total

\* The PDUs on their way: those the network has, the next one of each phone, the one in hand.
Travelling == air \cup (({part} \cup {sending[f] : f \in Phone}) \ {Nothing})

\* Where ingest is, what it works on, and who sends.
Places ==
  /\ now \in Nat
  /\ step \in {"idle", "record", "add", "save"}
  /\ part = Nothing <=> step = "idle"
  /\ step \in {"add", "save"} => part \in seen
  /\ step # "save" => whole = <<>>
  /\ sending = [f \in Phone |-> sending[f]]
  /\ \A f \in Phone : sending[f] # Nothing => sending[f].sender = f

\* Every PDU is genuine.
Pdus ==
  /\ \A s \in sent : s.message \in Message /\ Count(s.message) \in Nat \ {0}
  /\ \A p \in Travelling \cup seen : Genuine(p)

\* A genuine PDU is the record of its fields, and not Nothing.
LEMMA IsPdu ==
  ASSUME NEW p, Genuine(p)
  PROVE  /\ p # Nothing /\ p.total \in Nat /\ p.seq \in Nat
         /\ p = [sender |-> p.sender, message |-> p.message, reference |-> p.reference,
                 time |-> p.time, total |-> p.total, seq |-> p.seq]
BY DEF Genuine, PduRecord, Nothing

\* The steps as far as PDUs are concerned: a phone starts a message, it goes on to the next
\* segment, or a PDU that exists already passes from hand to hand.
Starts(f, m, r) ==
  LET p == Pdu(f, m, r, 1, now) IN
  /\ sending[f] = Nothing /\ sending' = [sending EXCEPT ![f] = p]
  /\ Count(m) \in Nat \ {0} /\ sent' = sent \cup {Sent(p)}
  /\ p.total > 1 => Reusable(p)
  /\ UNCHANGED <<now, air, ingress>>

Advances(f) ==
  /\ sending[f] # Nothing /\ sending[f].seq # sending[f].total
  /\ air' = air \cup {sending[f]}
  /\ sending' = [sending EXCEPT ![f] = [sending[f] EXCEPT !.seq = @ + 1]]
  /\ UNCHANGED <<now, sent, ingress>>

Passes ==
  /\ Travelling' \subseteq Travelling
  /\ seen' \subseteq seen \cup Travelling /\ seen \subseteq seen' /\ sent' = sent
  /\ now' \in Nat /\ now <= now'

\* SendSms starts a message, which may be one that was sent before in the same tick.
LEMMA StartsNext ==
  ASSUME Pdus, NEW f \in Phone, NEW m \in Message, NEW r \in Reference, SendSms(f, m, r)
  PROVE  Starts(f, m, r)
<1> DEFINE p == Pdu(f, m, r, 1, now)
<1>1. p.total = Count(m)  BY DEF Pdu, Count
<1>2. Count(m) \in Nat \ {0}  BY <1>1 DEF SendSms
<1> QED  BY <1>2 DEF Starts, SendSms, ingress

\* What a phone sends is genuine.
LEMMA SendingType ==
  ASSUME Places, Pdus, NEW f \in Phone, sending[f] # Nothing
  PROVE  Genuine(sending[f]) /\ sending[f] \in Travelling
BY DEF Pdus, Travelling

\* SendSegment goes on, or ends the message.
LEMMA SendSegmentShape ==
  ASSUME Places, Pdus, NEW f \in Phone, SendSegment(f)
  PROVE  Passes \/ Advances(f)
<1>1. Genuine(sending[f]) /\ sending[f] \in Travelling  BY SendingType DEF SendSegment
<1>2. CASE sending' = [sending EXCEPT ![f] = Nothing] /\ air' \in {air, air \cup {sending[f]}}
  BY <1>1, <1>2 DEF Passes, SendSegment, Travelling, ingress, Places
<1>3. CASE sending' # [sending EXCEPT ![f] = Nothing]
  BY <1>3 DEF Advances, SendSegment, ingress
<1> QED  BY <1>2, <1>3 DEF SendSegment

\* Every step has one of the three shapes.
LEMMA Shapes ==
  ASSUME Places, Pdus, [Next]_vars
  PROVE  \/ Passes
         \/ \E f \in Phone, m \in Message, r \in Reference : Starts(f, m, r)
         \/ \E f \in Phone : Advances(f)
<1>1. ASSUME NEW f \in Phone, NEW m \in Message, NEW r \in Reference, SendSms(f, m, r)
      PROVE  \E g \in Phone, n \in Message, s \in Reference : Starts(g, n, s)
  BY <1>1, StartsNext
<1>2. ASSUME NEW f \in Phone, SendSegment(f) PROVE Passes \/ \E g \in Phone : Advances(g)
  BY <1>2, SendSegmentShape
<1>3. CASE Lose  BY <1>3 DEF Lose, Passes, Travelling, phones, ingress, Places
<1>4. CASE Tick
  BY <1>4 DEF Tick, Passes, Travelling, phones, ingress, Places
<1>5. CASE Receive
  <2>1. PICK p \in air : part' = p  BY <1>5 DEF Receive
  <2>2. air' \subseteq air  BY <1>5 DEF Receive
  <2> QED  BY <1>5, <2>1, <2>2 DEF Receive, Passes, Travelling, phones, Places
<1>6. CASE RecordPdu
  <2>1. part \in Travelling  BY <1>6 DEF RecordPdu, Places, Travelling
  <2>2. part' \in {part, Nothing} /\ seen' \in {seen, seen \cup {part}}
    BY <1>6 DEF RecordPdu, Done
  <2> QED  BY <1>6, <2>1, <2>2 DEF RecordPdu, Passes, Travelling, phones, Places
<1>7. CASE AddPart
  <2>1. part' \in {part, Nothing}  BY <1>7 DEF AddPart, Done
  <2> QED  BY <1>7, <2>1 DEF AddPart, Passes, Travelling, phones, Places
<1>8. CASE SaveSms
  BY <1>8 DEF SaveSms, Done, Passes, Travelling, phones, Places
<1>9. CASE Restart
  BY <1>9 DEF Restart, Done, Passes, Travelling, phones, Places
<1>10. CASE UNCHANGED vars
  BY <1>10 DEF vars, Passes, Travelling, phones, ingress, Places
<1> QED  BY <1>1, <1>2, <1>3, <1>4, <1>5, <1>6, <1>7, <1>8, <1>9, <1>10 DEF Next

\* Every step keeps Places.
LEMMA PlacesStep ==
  ASSUME Places, Pdus, [Next]_vars
  PROVE  Places'
<1>1. ASSUME NEW f \in Phone, NEW m \in Message, NEW r \in Reference, SendSms(f, m, r)
      PROVE  Places'
  BY <1>1 DEF Places, SendSms, Pdu, ingress
<1>2. ASSUME NEW f \in Phone, SendSegment(f) PROVE Places'
  <2>1. Genuine(sending[f])  BY <1>2, SendingType DEF SendSegment
  <2>2. [sending[f] EXCEPT !.seq = @ + 1].sender = sending[f].sender
    BY <2>1, IsPdu
  <2> QED  BY <1>2, <2>2 DEF Places, SendSegment, ingress
<1>3. CASE Lose  BY <1>3 DEF Lose, Places, phones, ingress
<1>4. CASE Tick  BY <1>4 DEF Tick, Places, phones, ingress
<1>5. CASE Receive
  <2>1. PICK p \in air : part' = p  BY <1>5 DEF Receive
  <2>2. p # Nothing  BY <2>1, IsPdu DEF Pdus, Travelling
  <2> QED  BY <1>5, <2>1, <2>2 DEF Receive, Places, phones
<1>6. CASE RecordPdu  BY <1>6 DEF RecordPdu, Done, Places, phones
<1>7. CASE AddPart  BY <1>7 DEF AddPart, Done, Places, phones
<1>8. CASE SaveSms  BY <1>8 DEF SaveSms, Done, Places, phones
<1>9. CASE Restart  BY <1>9 DEF Restart, Done, Places, phones
<1>10. CASE UNCHANGED vars  BY <1>10 DEF vars, Places, phones, ingress
<1> QED  BY <1>1, <1>2, <1>3, <1>4, <1>5, <1>6, <1>7, <1>8, <1>9, <1>10 DEF Next

\* A genuine PDU stays genuine.
LEMMA Older ==
  ASSUME NEW p, Genuine(p), sent \subseteq sent' PROVE Genuine(p)'
BY DEF Genuine

\* Nothing new comes from a PDU that passes.
LEMMA PassesPdus ==
  ASSUME Pdus, Passes PROVE Pdus'
<1>1. Travelling' \cup seen' \subseteq Travelling \cup seen  BY DEF Passes
<1>2. \A p \in Travelling' \cup seen' : Genuine(p)'  BY <1>1, Older DEF Pdus, Passes
<1> QED  BY <1>1, <1>2 DEF Pdus, Passes

\* The first segment of a message is genuine.
LEMMA StartsPdus ==
  ASSUME Places, Pdus, NEW f \in Phone, NEW m \in Message, NEW r \in Reference, Starts(f, m, r)
  PROVE  /\ Pdus'
         /\ \E p : /\ p = Pdu(f, m, r, 1, now)
                  /\ Travelling' \subseteq Travelling \cup {p}
                  /\ Genuine(p)' /\ p.sender = f
<1> PICK p : p = Pdu(f, m, r, 1, now)  OBVIOUS
<1>1. /\ p = [sender |-> f, message |-> m, reference |-> IF Count(m) = 1 THEN None ELSE r,
               time |-> now, total |-> Count(m), seq |-> 1]
      /\ Sent(p).message = m
  BY DEF Pdu, Count, Sent
<1>2. Count(m) \in Nat \ {0} /\ sent' = sent \cup {Sent(p)}
      /\ air' = air /\ part' = part /\ seen' = seen
      /\ sending' = [sending EXCEPT ![f] = p]
  BY DEF Starts, ingress
<1>3. now \in Nat  BY DEF Places
<1>4. p \in PduRecord /\ p.seq \in 1 .. p.total /\ p.total = Count(p.message)
  BY <1>1, <1>2, <1>3 DEF PduRecord
<1>5. Genuine(p)'  BY <1>2, <1>4 DEF Genuine, Count, Segments
<1>6. \A g \in Phone : sending'[g] \in {sending[g], p}  BY <1>2 DEF Places
<1>7. Travelling' \subseteq Travelling \cup {p}  BY <1>2, <1>6 DEF Travelling
<1>8. \A q \in Travelling' \cup seen' : q = p \/ q \in Travelling \cup seen  BY <1>2, <1>7
<1>9. \A q \in Travelling \cup seen : Genuine(q)'  BY <1>2, Older DEF Pdus
<1>10. \A q \in Travelling' \cup seen' : Genuine(q)'  BY <1>5, <1>8, <1>9
<1>11. \A s \in sent' : s.message \in Message /\ Count(s.message) \in Nat \ {0}
  BY <1>1, <1>2 DEF Pdus
<1> QED  BY <1>1, <1>5, <1>7, <1>10, <1>11 DEF Pdus, Count, Segments

\* Segments of one message.
Twin(p, q) == Sent(p) = Sent(q) /\ Key(p) = Key(q) /\ p.total = q.total

\* The next segment is genuine, and has its message and its key from the last.
LEMMA AdvancesPdus ==
  ASSUME Places, Pdus, NEW f \in Phone, Advances(f)
  PROVE  /\ \A p \in Travelling' : p \in Travelling \/ Twin(p, sending[f])
         /\ sending[f] \in Travelling
         /\ Pdus'
<1> DEFINE p == sending[f]
           q == [p EXCEPT !.seq = @ + 1]
<1>1. Genuine(p) /\ p \in Travelling  BY SendingType DEF Advances
<1>2. /\ q = [sender |-> p.sender, message |-> p.message, reference |-> p.reference,
              time |-> p.time, total |-> p.total, seq |-> p.seq + 1]
  BY <1>1, IsPdu
<1>3. p.seq \in 1 .. p.total /\ p.seq # p.total /\ p \in PduRecord /\ Sent(p) \in sent
      /\ p.total = Count(p.message)
  BY <1>1 DEF Genuine, Advances
<1>4. q \in PduRecord /\ q.seq \in 1 .. q.total  BY <1>2, <1>3 DEF PduRecord
<1>5. Twin(q, p)  BY <1>2 DEF Twin, Sent, Key
<1>6. Genuine(q)  BY <1>2, <1>3, <1>4, <1>5 DEF Genuine, Twin
<1>7. /\ air' = air \cup {p} /\ part' = part /\ seen' = seen /\ sent' = sent
      /\ sending' = [sending EXCEPT ![f] = q]
  BY DEF Advances, ingress
<1>8. \A g \in Phone : sending'[g] \in {sending[g], q}  BY <1>7 DEF Places
<1>9. Travelling' \subseteq Travelling \cup {q}  BY <1>1, <1>7, <1>8 DEF Travelling
<1>10. \A h \in Travelling' \cup seen' : Genuine(h)'
  BY <1>6, <1>7, <1>9, Older DEF Pdus
<1>11. \A s \in sent' : s.message \in Message /\ Count(s.message) \in Nat \ {0}
  BY <1>7 DEF Pdus
<1>12. Pdus'  BY <1>10, <1>11 DEF Pdus, Count, Segments
<1> QED  BY <1>1, <1>5, <1>9, <1>12

\* Every step keeps Pdus.
LEMMA PdusStep ==
  ASSUME Places, Pdus, [Next]_vars
  PROVE  Pdus'
BY Shapes, PassesPdus, StartsPdus, AdvancesPdus

-----------------------------------------------------------------------------
\* A group holds some parts of one message, but not all, each under its number.
OpenGroup(key) ==
  LET parts == groups[key].parts IN
  /\ groups[key].expires \in Nat
  /\ key[3] \in Nat \ {0, 1} /\ DOMAIN parts # 1 .. key[3]
  /\ \A k \in DOMAIN parts : parts[k] \in seen /\ parts[k].seq = k /\ Key(parts[k]) = key
  /\ \A j, k \in DOMAIN parts : Sent(parts[j]) = Sent(parts[k])

\* Every group of the assembler is open.
OpenGroups == \A key \in DOMAIN groups : OpenGroup(key)

\* The parts of a group are of the message of p.
AgreesWith(p, key) ==
  \A k \in DOMAIN groups[key].parts : Sent(groups[key].parts[k]) = Sent(p)

\* Keys tell messages apart as long as it matters: two PDUs on their way with one key are of one
\* message, and so are such a PDU and a group that has not expired.
ToldApart ==
  /\ \A p, q \in Travelling : p.total > 1 /\ Key(p) = Key(q) => Sent(p) = Sent(q)
  /\ \A p \in Travelling, key \in DOMAIN groups :
       Key(p) = key /\ ~Expired(key) => AgreesWith(p, key)

\* The group of the part in hand, once the groups `keys` are dropped.
OldParts(keys) ==
  IF Key(part) \in DOMAIN groups \ keys THEN groups[Key(part)].parts ELSE <<>>

\* Its parts with the new one.
NewParts(keys) == Insert(part, OldParts(keys))

\* AddPart drops the groups `keys`, whose messages are given up, and puts a part of several into
\* its group, which is complete then or stays open.
Collects(keys) ==
  /\ step = "add" /\ part.total > 1
  /\ Purged \subseteq keys /\ hurt' = hurt \cup PartsOf(keys)
  /\ DOMAIN groups' \ {Key(part)} = (DOMAIN groups \ keys) \ {Key(part)}
  /\ \A key \in DOMAIN groups' \ {Key(part)} : groups'[key] = groups[key]
  /\ \/ /\ DOMAIN NewParts(keys) = 1 .. part.total
        /\ Key(part) \notin DOMAIN groups'
        /\ whole' = Joined(NewParts(keys)) /\ step' = "save" /\ part' = part
     \/ /\ DOMAIN NewParts(keys) # 1 .. part.total
        /\ Key(part) \in DOMAIN groups'
        /\ groups'[Key(part)].parts = NewParts(keys)
        /\ groups'[Key(part)].expires =
             IF Key(part) \in DOMAIN groups \ keys THEN groups[Key(part)].expires ELSE now + TTL
        /\ Done

\* AddPart collects a part of several.
LEMMA AddPartShape ==
  ASSUME AddPart, part.total # 1
  PROVE  \E keys : Collects(keys)
<1>1. part.total > 1 /\ step = "add"  BY DEF AddPart
<1> PICK evicted \in Evicted(Key(part)) :
       LET kept  == Without(Purged \cup evicted)
           group == Group(Key(part), kept)
           parts == Insert(part, group.parts)
           rest  == Restrict(kept, DOMAIN kept \ {Key(part)})
       IN  /\ hurt' = hurt \cup PartsOf(Purged \cup evicted)
           /\ \/ /\ DOMAIN parts = 1 .. part.total
                 /\ groups' = rest
                 /\ whole' = Joined(parts) /\ step' = "save" /\ UNCHANGED part
              \/ /\ DOMAIN parts # 1 .. part.total
                 /\ groups' = Put(rest, Key(part), [expires |-> group.expires, parts |-> parts])
                 /\ Done
  BY <1>1 DEF AddPart
<1> DEFINE keys  == Purged \cup evicted
           kept  == Without(keys)
           group == Group(Key(part), kept)
           parts == Insert(part, group.parts)
           rest  == Restrict(kept, DOMAIN kept \ {Key(part)})
<1>2. DOMAIN kept = DOMAIN groups \ keys /\ \A key \in DOMAIN kept : kept[key] = groups[key]
  BY DEF Without, Restrict
<1>3. /\ DOMAIN rest = (DOMAIN groups \ keys) \ {Key(part)}
      /\ \A key \in DOMAIN rest : rest[key] = groups[key]
  BY <1>2 DEF Restrict
<1>4. group.parts = OldParts(keys)  BY <1>2 DEF Group, OldParts
<1>5. parts = NewParts(keys)  BY <1>4 DEF NewParts
<1>6. group.expires =
        IF Key(part) \in DOMAIN groups \ keys THEN groups[Key(part)].expires ELSE now + TTL
  BY <1>2 DEF Group
<1>7. hurt' = hurt \cup PartsOf(keys) /\ Purged \subseteq keys  OBVIOUS
<1>8. CASE DOMAIN parts = 1 .. part.total /\ groups' = rest
           /\ whole' = Joined(parts) /\ step' = "save" /\ UNCHANGED part
  <2>1. Collects(keys)  BY <1>1, <1>3, <1>5, <1>7, <1>8 DEF Collects
  <2> QED  BY <2>1
<1>9. CASE DOMAIN parts # 1 .. part.total /\ Done
           /\ groups' = Put(rest, Key(part), [expires |-> group.expires, parts |-> parts])
  <2>1. /\ DOMAIN groups' = DOMAIN rest \cup {Key(part)}
        /\ groups'[Key(part)] = [expires |-> group.expires, parts |-> parts]
        /\ \A key \in DOMAIN rest \ {Key(part)} : groups'[key] = rest[key]
    <3> PICK v : v = [expires |-> group.expires, parts |-> parts]  OBVIOUS
    <3>1. groups' = Put(rest, Key(part), v)  BY <1>9
    <3> HIDE DEF rest
    <3>2. /\ DOMAIN groups' = DOMAIN rest \cup {Key(part)} /\ groups'[Key(part)] = v
          /\ \A key \in DOMAIN rest \ {Key(part)} : groups'[key] = rest[key]
      BY <3>1 DEF Put
    <3> QED  BY <3>2
  <2>2. groups'[Key(part)].parts = parts /\ groups'[Key(part)].expires = group.expires
    BY <2>1
  <2>3. Collects(keys)  BY <1>1, <1>3, <1>5, <1>6, <1>7, <1>9, <2>1, <2>2 DEF Collects
  <2> QED  BY <2>3
<1> QED  BY <1>8, <1>9

\* A PDU is known by its message and its number.
LEMMA SamePdu ==
  ASSUME NEW p, NEW q, Genuine(p), Genuine(q), Sent(p) = Sent(q), p.seq = q.seq
  PROVE  p = q
<1>1. /\ p.sender = q.sender /\ p.message = q.message /\ p.time = q.time
      /\ p.reference = q.reference
  BY DEF Sent
<1>2. p.total = q.total  BY <1>1 DEF Genuine
<1> QED  BY <1>1, <1>2, IsPdu

\* No hash of a PDU is forgotten.
LEMMA SeenGrows ==
  ASSUME Places, Pdus, [Next]_vars PROVE seen \subseteq seen'
BY Shapes DEF Passes, Starts, Advances, ingress

\* Only AddPart and a restart touch the groups.
LEMMA GroupMoves ==
  ASSUME Places, Pdus, [Next]_vars
  PROVE  \/ groups' = groups
         \/ Restart
         \/ /\ AddPart /\ part.total # 1 /\ UNCHANGED <<seen, now>>
            /\ Passes /\ \E keys : Collects(keys)
<1>1. CASE AddPart
  <2>1. seen' = seen /\ now' = now  BY <1>1 DEF AddPart
  <2>2. part' \in {part, Nothing}  BY <1>1 DEF AddPart, Done
  <2>3. Passes  BY <1>1, <2>2 DEF AddPart, Passes, Travelling, phones, Places
  <2>4. part.total = 1 => groups' = groups  BY <1>1 DEF AddPart
  <2> QED  BY <1>1, <2>1, <2>3, <2>4, AddPartShape
<1>2. CASE ~AddPart /\ ~Restart
  BY <1>2 DEF Next, vars, ingress, SendSms, SendSegment, Lose, Tick, Receive, RecordPdu, SaveSms
<1> QED  BY <1>1, <1>2

\* The new part joins parts of its own message; if its place was taken, then by itself.
LEMMA NewPartsIs ==
  ASSUME Places, Pdus, OpenGroups, ToldApart, NEW keys, Collects(keys)
  PROVE  LET parts == NewParts(keys) IN
         /\ Genuine(part) /\ part \in Travelling \cap seen
         /\ part.seq \in DOMAIN parts /\ parts[part.seq] = part
         /\ \A k \in DOMAIN parts : /\ parts[k] \in seen /\ parts[k].seq = k
                                    /\ Key(parts[k]) = Key(part) /\ Sent(parts[k]) = Sent(part)
         /\ \A k \in DOMAIN OldParts(keys) : k \in DOMAIN parts /\ parts[k] = OldParts(keys)[k]
<1> DEFINE parts == NewParts(keys)
           old   == OldParts(keys)
           key   == Key(part)
<1>1. part \in Travelling \cap seen /\ Genuine(part)
  BY DEF Collects, Places, Travelling, Pdus
<1>2. parts = Put(old, part.seq, part)  BY DEF NewParts, Insert
<1> HIDE DEF parts, old
<1>3. /\ DOMAIN parts = DOMAIN old \cup {part.seq} /\ parts[part.seq] = part
      /\ \A k \in DOMAIN old : k # part.seq => parts[k] = old[k]
  BY <1>2 DEF Put
<1>4. ASSUME NEW k \in DOMAIN old
      PROVE  old[k] \in seen /\ old[k].seq = k /\ Key(old[k]) = key /\ Sent(old[k]) = Sent(part)
  <2>1. key \in DOMAIN groups \ keys /\ old = groups[key].parts  BY <1>4 DEF OldParts, old
  <2>2. ~Expired(key) /\ OpenGroup(key)  BY <2>1 DEF Collects, Purged, OpenGroups
  <2>3. AgreesWith(part, key)  BY <1>1, <2>1, <2>2 DEF ToldApart
  <2> QED  BY <1>4, <2>1, <2>2, <2>3 DEF OpenGroup, AgreesWith
<1>5. ASSUME NEW k \in DOMAIN old, k = part.seq PROVE old[k] = part
  <2>1. Genuine(old[k])  BY <1>4, <1>5 DEF Pdus
  <2> QED  BY <1>1, <1>4, <1>5, <2>1, SamePdu
<1> QED  BY <1>1, <1>3, <1>4, <1>5 DEF parts, old

\* Every step keeps OpenGroups.
LEMMA OpenGroupsStep ==
  ASSUME Places, Pdus, OpenGroups, ToldApart, [Next]_vars
  PROVE  OpenGroups'
<1>1. CASE groups' = groups
  <2> SUFFICES ASSUME NEW key \in DOMAIN groups PROVE OpenGroup(key)'
    BY <1>1 DEF OpenGroups
  <2>1. OpenGroup(key) /\ seen \subseteq seen'  BY SeenGrows DEF OpenGroups
  <2> QED  BY <1>1, <2>1 DEF OpenGroup, Key, Sent
<1>2. CASE Restart  BY <1>2 DEF Restart, OpenGroups
<1>3. ASSUME NEW keys, Collects(keys), seen' = seen PROVE OpenGroups'
  <2> SUFFICES ASSUME NEW key \in DOMAIN groups' PROVE OpenGroup(key)'
    BY DEF OpenGroups
  <2>1. CASE key # Key(part)
    <3>1. key \in DOMAIN groups /\ groups'[key] = groups[key]  BY <1>3, <2>1 DEF Collects
    <3> QED  BY <1>3, <3>1 DEF OpenGroups, OpenGroup, Key, Sent
  <2>2. CASE key = Key(part)
    <3> PICK parts : parts = NewParts(keys)  OBVIOUS
    <3>1. groups'[key].parts = parts /\ DOMAIN parts # 1 .. part.total
      BY <1>3, <2>2 DEF Collects
    <3>2. /\ Genuine(part) /\ part.total > 1
          /\ \A k \in DOMAIN parts : /\ parts[k] \in seen /\ parts[k].seq = k
                                     /\ Key(parts[k]) = key /\ Sent(parts[k]) = Sent(part)
      BY <1>3, <2>2, NewPartsIs DEF Collects
    <3>3. key[3] = part.total /\ key[3] \in Nat \ {0, 1}
      BY <2>2, <3>2, IsPdu DEF Key
    <3>4. groups'[key].expires \in Nat
      BY <1>3, <2>2, SmsAssumption DEF Collects, OpenGroups, OpenGroup, Places
    <3> QED  BY <1>3, <3>1, <3>2, <3>3, <3>4 DEF OpenGroup, Key, Sent
  <2> QED  BY <2>1, <2>2
<1> QED  BY <1>1, <1>2, <1>3, GroupMoves

\* Every step keeps ToldApart.  A phone takes a reference again only when no PDU has it and its
\* group has expired, and an expired group is purged before a part comes to it.
LEMMA ToldApartStep ==
  ASSUME Places, Pdus, OpenGroups, ToldApart, [Next]_vars
  PROVE  ToldApart'
<1>1. ASSUME Travelling' \subseteq Travelling
      PROVE  \A p, q \in Travelling' : p.total > 1 /\ Key(p) = Key(q) => Sent(p) = Sent(q)
  BY <1>1 DEF ToldApart
<1>2. CASE groups' = groups /\ Passes
  <2>1. ASSUME NEW p \in Travelling', NEW key \in DOMAIN groups, Key(p) = key, ~Expired(key)'
        PROVE  AgreesWith(p, key)'
    <3>1. ~Expired(key)
      <4>1. groups[key].expires \in Nat /\ now \in Nat /\ now' \in Nat /\ now <= now'
        BY <1>2, <2>1 DEF OpenGroups, OpenGroup, Places, Passes
      <4> QED  BY <1>2, <2>1, <4>1 DEF Expired
    <3> QED  BY <1>2, <2>1, <3>1 DEF ToldApart, Passes, AgreesWith
  <2> QED  BY <1>1, <1>2, <2>1 DEF ToldApart, Passes, Key, Sent
<1>3. ASSUME NEW f \in Phone, NEW m \in Message, NEW r \in Reference, Starts(f, m, r)
      PROVE  ToldApart'
  <2>1. PICK p : /\ p = Pdu(f, m, r, 1, now)
                 /\ Travelling' \subseteq Travelling \cup {p}
                 /\ Genuine(p)' /\ p.sender = f
    BY <1>3, StartsPdus
  <2>2. p.total > 1 => Reusable(p)  BY <1>3, <2>1 DEF Starts
  <2>3. ASSUME NEW q \in Travelling, p.total > 1, Key(q) = Key(p) PROVE FALSE
    <3>1. q \notin air /\ (part # Nothing => q # part)  BY <2>2, <2>3 DEF Reusable
    <3>2. PICK g \in Phone : q = sending[g] /\ q # Nothing  BY <3>1 DEF Travelling
    <3>3. q.sender = g /\ q.sender = f  BY <2>1, <2>3, <3>2 DEF Places, Key
    <3> QED  BY <1>3, <3>2, <3>3 DEF Starts
  <2>4. ASSUME NEW h \in Travelling', NEW q \in Travelling', h.total > 1, Key(h) = Key(q)
        PROVE  Sent(h) = Sent(q)
    <3>1. h.total = q.total  BY <2>4 DEF Key
    <3> QED  BY <2>1, <2>3, <2>4, <3>1 DEF ToldApart
  <2>5. groups' = groups /\ now' = now  BY <1>3 DEF Starts, ingress
  <2>6. ASSUME NEW q \in Travelling', NEW key \in DOMAIN groups, Key(q) = key, ~Expired(key)
        PROVE  AgreesWith(q, key)
    <3>1. q # p
      <4>1. ASSUME q = p PROVE FALSE
        <5>1. p.total > 1  BY <2>6, <4>1 DEF OpenGroups, OpenGroup, Key
        <5> QED  BY <2>2, <2>6, <4>1, <5>1 DEF Reusable
      <4> QED  BY <4>1
    <3> QED  BY <2>1, <2>6, <3>1 DEF ToldApart
  <2> QED  BY <2>4, <2>5, <2>6 DEF ToldApart, AgreesWith, Expired, Key, Sent
<1>4. ASSUME NEW f \in Phone, Advances(f) PROVE ToldApart'
  <2>1. \A p \in Travelling' : \E q \in Travelling :
          Sent(p) = Sent(q) /\ Key(p) = Key(q) /\ p.total = q.total
    BY <1>4, AdvancesPdus DEF Twin
  <2>2. groups' = groups /\ now' = now  BY <1>4 DEF Advances, ingress
  <2>3. \A p, q \in Travelling' : p.total > 1 /\ Key(p) = Key(q) => Sent(p) = Sent(q)
    BY <2>1 DEF ToldApart
  <2>4. \A p \in Travelling', key \in DOMAIN groups :
          Key(p) = key /\ ~Expired(key) => AgreesWith(p, key)
    BY <2>1 DEF ToldApart, AgreesWith
  <2> QED  BY <2>2, <2>3, <2>4 DEF ToldApart, AgreesWith, Expired, Key, Sent
<1>5. CASE Restart
  <2>1. groups' = <<>> /\ Travelling' \subseteq Travelling
    BY <1>5 DEF Restart, Done, Travelling, phones, Places
  <2> QED  BY <1>1, <2>1 DEF ToldApart, Key, Sent
<1>6. ASSUME NEW keys, Collects(keys), Passes, now' = now PROVE ToldApart'
  <2>1. ASSUME NEW p \in Travelling', NEW key \in DOMAIN groups', Key(p) = key, ~Expired(key)'
        PROVE  AgreesWith(p, key)'
    <3>1. CASE key # Key(part)
      <4>1. key \in DOMAIN groups /\ groups'[key] = groups[key]  BY <1>6, <2>1, <3>1 DEF Collects
      <4>2. ~Expired(key)  BY <1>6, <2>1, <4>1 DEF Expired
      <4> QED  BY <1>6, <2>1, <4>1, <4>2 DEF ToldApart, Passes, AgreesWith
    <3>2. CASE key = Key(part)
      <4>1. groups'[key].parts = NewParts(keys)  BY <1>6, <2>1, <3>2 DEF Collects
      <4>2. part \in Travelling /\ part.total > 1
            /\ \A k \in DOMAIN NewParts(keys) : Sent(NewParts(keys)[k]) = Sent(part)
        BY <1>6, NewPartsIs DEF Collects
      <4>3. Sent(p) = Sent(part)  BY <1>6, <2>1, <3>2, <4>2 DEF ToldApart, Passes
      <4> PICK parts : parts = NewParts(keys)  OBVIOUS
      <4> QED  BY <4>1, <4>2, <4>3 DEF AgreesWith
    <3> QED  BY <3>1, <3>2
  <2> QED  BY <1>1, <1>6, <2>1 DEF ToldApart, Passes, Key, Sent
<1> QED  BY <1>2, <1>3, <1>4, <1>5, <1>6, GroupMoves, Shapes

-----------------------------------------------------------------------------
\* All the parts of one message, in order.
Assembled(id) ==
  /\ 1 \in DOMAIN id /\ DOMAIN id = 1 .. Count(id[1].message)
  /\ \A k \in DOMAIN id : id[k] \in seen /\ id[k].seq = k /\ Sent(id[k]) = Sent(id[1])

\* What is about to be saved has all its parts, the last that came among them.
Saving == step = "save" => Assembled(whole) /\ part \in Range(whole)

\* A row is the row of all the parts of one message.
Rows == \A row \in inbox : Assembled(row.id) /\ row = Row(row.id)

\* A row was written once, from recorded parts; the part in hand is in none.
Once == \A id \in DOMAIN saves :
  /\ saves[id] = 1 /\ Range(id) \subseteq seen
  /\ step \in {"add", "save"} => part \notin Range(id)

\* A recorded part is in a row, in a group or in hand, or its message was given up.
Held(p) ==
  \/ Sent(p) \in hurt
  \/ \E row \in inbox : p \in Range(row.id)
  \/ \E key \in DOMAIN groups : p \in Range(groups[key].parts)
  \/ step = "add" /\ p = part
  \/ step = "save" /\ p \in Range(whole)

\* Nothing that was recorded is lost silently.
AllHeld == \A p \in seen : Held(p)

\* The invariant as far as the assembler; the rest of it is about what is saved.
Assembling == Places /\ Pdus /\ OpenGroups /\ ToldApart

\* A message of one part is assembled at once.
LEMMA Single ==
  ASSUME Assembling, AddPart, part.total = 1
  PROVE  /\ Assembled(<<part>>) /\ Range(<<part>>) = {part}
         /\ whole' = <<part>> /\ step' = "save"
         /\ part' = part /\ groups' = groups /\ hurt' = hurt
<1>1. Genuine(part) /\ part \in seen
  BY DEF AddPart, Assembling, Places, Pdus
<1>2. part.seq = 1 /\ Count(part.message) = 1  BY <1>1 DEF Genuine
<1>3. DOMAIN <<part>> = 1 .. 1 /\ <<part>>[1] = part  OBVIOUS
<1> QED  BY <1>1, <1>2, <1>3 DEF Assembled, Range, AddPart

\* A full group is a message.
LEMMA Several ==
  ASSUME Assembling, NEW keys, Collects(keys), DOMAIN NewParts(keys) = 1 .. part.total
  PROVE  LET parts == NewParts(keys) IN
         /\ Assembled(Joined(parts)) /\ part \in Range(Joined(parts))
         /\ \A k \in DOMAIN parts : parts[k] \in Range(Joined(parts))
<1> PICK parts : parts = NewParts(keys)  OBVIOUS
<1>1. /\ Genuine(part) /\ part.total > 1
      /\ part.seq \in DOMAIN parts /\ parts[part.seq] = part
      /\ \A k \in DOMAIN parts : /\ parts[k] \in seen /\ parts[k].seq = k
                                 /\ Sent(parts[k]) = Sent(part)
  BY NewPartsIs DEF Assembling, Collects
<1>2. part.total \in Nat /\ part.total = Count(part.message)  BY <1>1, IsPdu DEF Genuine
<1>3. Cardinality(1 .. part.total) = part.total  BY <1>1, <1>2, FS_Interval
<1>4. Joined(parts) = [k \in 1 .. part.total |-> parts[k]]  BY <1>3 DEF Joined
<1> PICK id : id = Joined(parts)  OBVIOUS
<1>5. DOMAIN id = 1 .. part.total /\ \A k \in DOMAIN id : id[k] = parts[k]  BY <1>4
<1>6. 1 \in DOMAIN id /\ Sent(id[1]) = Sent(part)  BY <1>1, <1>2, <1>5
<1>7. id[1].message = part.message  BY <1>6 DEF Sent
<1>8. Assembled(id)  BY <1>1, <1>2, <1>5, <1>6, <1>7 DEF Assembled
<1>9. \A k \in DOMAIN parts : parts[k] \in Range(id)  BY <1>5 DEF Range
<1> QED  BY <1>1, <1>8, <1>9

\* What is assembled stays so.
LEMMA AssembledStays ==
  ASSUME NEW id, Assembled(id), seen \subseteq seen' PROVE Assembled(id)'
BY DEF Assembled, Sent, Count, Segments

\* Every step keeps Saving.
LEMMA SavingStep ==
  ASSUME Assembling, Saving, [Next]_vars
  PROVE  Saving'
<1>0. seen \subseteq seen'  BY SeenGrows DEF Assembling
<1>1. CASE AddPart
  <2>1. CASE part.total = 1
    <3>1. Assembled(<<part>>) /\ part \in Range(<<part>>)  BY <1>1, <2>1, Single
    <3> PICK id : id = <<part>>  OBVIOUS
    <3>2. whole' = id /\ part' = part /\ Assembled(id)' /\ part \in Range(id)
      BY <1>0, <1>1, <2>1, <3>1, Single, AssembledStays
    <3> QED  BY <3>2 DEF Saving, Assembled
  <2>2. ASSUME NEW keys, Collects(keys) PROVE Saving'
    <3>1. CASE step' = "save"
      <4>1. /\ whole' = Joined(NewParts(keys)) /\ part' = part
            /\ DOMAIN NewParts(keys) = 1 .. part.total
        BY <2>2, <3>1 DEF Collects, Done
      <4> PICK id : id = Joined(NewParts(keys))  OBVIOUS
      <4>2. Assembled(id)' /\ part \in Range(id)
        BY <1>0, <2>2, <4>1, Several, AssembledStays
      <4> QED  BY <4>1, <4>2 DEF Saving, Assembled
    <3> QED  BY <3>1 DEF Saving
  <2> QED  BY <1>1, <2>1, <2>2, AddPartShape
<1>2. CASE ~AddPart
  <2>1. step' = "save" => step = "save" /\ whole' = whole /\ part' = part
    BY <1>2 DEF Next, vars, ingress, SendSms, SendSegment, Lose, Tick, Receive, RecordPdu,
      SaveSms, Restart, Done
  <2>2. step' = "save" => Assembled(whole)  BY <2>1 DEF Saving
  <2> QED  BY <1>0, <2>1, <2>2, AssembledStays DEF Saving, Assembled
<1> QED  BY <1>1, <1>2

\* What SaveSms does to the table.
LEMMA Saved ==
  ASSUME SaveSms
  PROVE  \/ UNCHANGED <<inbox, saves>> /\ hurt' = hurt \cup {Sent(p) : p \in Range(whole)}
         \/ /\ inbox' = {row \in inbox : row.id # whole} \cup {Row(whole)} /\ hurt' = hurt
            /\ saves' = Put(saves, whole, IF whole \in DOMAIN saves THEN saves[whole] + 1 ELSE 1)
BY DEF SaveSms

\* Nobody else writes a row.
LEMMA OthersSave ==
  ASSUME [Next]_vars, ~SaveSms PROVE UNCHANGED <<inbox, saves>>
BY DEF Next, vars, ingress, SendSms, SendSegment, Lose, Tick, Receive, RecordPdu, AddPart, Restart

\* The id of a row is what it was assembled from.
LEMMA RowId == \A id : Row(id).id = id
BY DEF Row

\* Every step keeps Rows.
LEMMA RowsStep ==
  ASSUME Assembling, Saving, Rows, [Next]_vars
  PROVE  Rows'
<1>0. seen \subseteq seen'  BY SeenGrows DEF Assembling
<1>1. \A row \in inbox' : row \in inbox \/ (row = Row(whole) /\ step = "save")
  BY Saved, OthersSave DEF SaveSms
<1> SUFFICES ASSUME NEW row \in inbox' PROVE Assembled(row.id)' /\ (row = Row(row.id))'
  BY DEF Rows
<1>2. CASE row \in inbox
  <2>1. Assembled(row.id) /\ row = Row(row.id)  BY <1>2 DEF Rows
  <2> PICK id : id = row.id  OBVIOUS
  <2>2. Assembled(id)'  BY <1>0, <2>1, AssembledStays
  <2> QED  BY <2>1, <2>2 DEF Row, Body, Segments
<1>3. CASE row = Row(whole) /\ step = "save"
  <2> PICK id : id = whole  OBVIOUS
  <2>1. row = Row(id) /\ row.id = id /\ Assembled(id)  BY <1>3, RowId DEF Saving
  <2>2. Assembled(id)'  BY <1>0, <2>1, AssembledStays
  <2> QED  BY <2>1, <2>2 DEF Row, Body, Segments
<1> QED  BY <1>1, <1>2, <1>3

\* Every step keeps Once: a part that starts or completes a message is new to the table of
\* hashes, so no earlier row contains it.
LEMMA OnceStep ==
  ASSUME Assembling, Saving, Once, [Next]_vars
  PROVE  Once'
<1>0. seen \subseteq seen'  BY SeenGrows DEF Assembling
<1>1. CASE SaveSms
  <2>1. step = "save" /\ step' = "idle"  BY <1>1 DEF SaveSms, Done
  <2>2. part \in Range(whole) /\ Range(whole) \subseteq seen
    BY <2>1 DEF Saving, Assembled, Range
  <2>3. whole \notin DOMAIN saves  BY <2>1, <2>2 DEF Once
  <2>4. saves' = saves \/ saves' = Put(saves, whole, 1)  BY <1>1, <2>3, Saved
  <2>5. \A id \in DOMAIN saves' : saves'[id] = 1 /\ Range(id) \subseteq seen
    BY <2>2, <2>4 DEF Once, Put
  <2> QED  BY <1>0, <2>1, <2>5 DEF Once, Range
<1>2. CASE RecordPdu
  <2>1. saves' = saves /\ (step' = "add" => part \notin seen /\ part' = part)
        /\ step' \in {"add", "idle"}
    BY <1>2 DEF RecordPdu, Done, Known
  <2> QED  BY <1>0, <2>1 DEF Once, Range
<1>3. CASE ~SaveSms /\ ~RecordPdu
  <2>1. step' \in {"add", "save"} => step \in {"add", "save"} /\ part' = part
    BY <1>3 DEF Next, vars, ingress, SendSms, SendSegment, Lose, Tick, Receive, AddPart, Restart,
      Done
  <2>2. saves' = saves  BY <1>3, OthersSave
  <2> QED  BY <1>0, <2>1, <2>2 DEF Once, Range
<1> QED  BY <1>1, <1>2, <1>3

\* Every step keeps AllHeld: AddPart, SaveSms and Restart move a part on or give its message up.
LEMMA HeldStep ==
  ASSUME Assembling, Saving, AllHeld, [Next]_vars
  PROVE  AllHeld'
<1> SUFFICES ASSUME NEW p \in seen' PROVE Held(p)'
  BY DEF AllHeld
<1>1. CASE RecordPdu
  <2>1. step' = "add" => part' = part  BY <1>1 DEF RecordPdu, Done
  <2>2. p \in seen \/ (p = part /\ step' = "add")  BY <1>1 DEF RecordPdu
  <2>3. CASE p \in seen
    <3>1. Held(p) /\ step = "record"  BY <1>1, <2>3 DEF AllHeld, RecordPdu
    <3> QED  BY <1>1, <3>1 DEF Held, RecordPdu, Sent
  <2> QED  BY <2>1, <2>2, <2>3 DEF Held
<1>2. CASE AddPart
  <2>0. p \in seen /\ Held(p) /\ inbox' = inbox /\ step = "add"
    BY <1>2 DEF AddPart, AllHeld
  <2>1. CASE part.total = 1
    <3>1. /\ part \in Range(whole') /\ step' = "save" /\ groups' = groups /\ hurt' = hurt
      BY <1>2, <2>1, Single
    <3> QED  BY <2>0, <3>1 DEF Held, Sent
  <2>2. ASSUME NEW keys, Collects(keys) PROVE Held(p)'
    <3> PICK parts : parts = NewParts(keys)  OBVIOUS
    <3>1. /\ part.seq \in DOMAIN parts /\ parts[part.seq] = part
          /\ \A k \in DOMAIN OldParts(keys) : k \in DOMAIN parts /\ parts[k] = OldParts(keys)[k]
      BY <2>2, NewPartsIs DEF Assembling
    <3>2. ASSUME NEW k \in DOMAIN parts, p = parts[k] PROVE Held(p)'
      <4>1. CASE DOMAIN parts = 1 .. part.total
        <5>1. step' = "save" /\ whole' = Joined(parts)  BY <2>2, <4>1 DEF Collects
        <5>2. p \in Range(Joined(parts))  BY <2>2, <3>2, <4>1, Several
        <5> QED  BY <5>1, <5>2 DEF Held
      <4>2. CASE DOMAIN parts # 1 .. part.total
        <5>1. Key(part) \in DOMAIN groups' /\ groups'[Key(part)].parts = parts
          BY <2>2, <4>2 DEF Collects
        <5>2. p \in Range(groups'[Key(part)].parts)  BY <3>2, <5>1 DEF Range
        <5> QED  BY <5>1, <5>2 DEF Held
      <4> QED  BY <4>1, <4>2
    <3>3. ASSUME NEW key \in DOMAIN groups, p \in Range(groups[key].parts) PROVE Held(p)'
      <4>1. CASE key \in keys
        <5>1. Sent(p) \in PartsOf(keys)  BY <3>3, <4>1 DEF PartsOf
        <5> QED  BY <2>2, <5>1 DEF Collects, Held, Sent
      <4>2. CASE key \notin keys /\ key # Key(part)
        <5>1. key \in DOMAIN groups' /\ groups'[key] = groups[key]
          BY <2>2, <4>2 DEF Collects
        <5> QED  BY <3>3, <5>1 DEF Held
      <4>3. CASE key \notin keys /\ key = Key(part)
        <5>1. OldParts(keys) = groups[key].parts  BY <4>3 DEF OldParts
        <5> QED  BY <3>1, <3>2, <3>3, <5>1 DEF Range
      <4> QED  BY <4>1, <4>2, <4>3
    <3>4. Sent(p) \in hurt => Held(p)'  BY <2>2 DEF Collects, Held, Sent
    <3> QED  BY <2>0, <3>1, <3>2, <3>3, <3>4 DEF Held
  <2> QED  BY <1>2, <2>1, <2>2, AddPartShape
<1>3. CASE SaveSms
  <2>0. p \in seen /\ Held(p) /\ groups' = groups /\ step = "save"
    BY <1>3 DEF SaveSms, AllHeld
  <2>1. CASE UNCHANGED <<inbox, saves>> /\ hurt' = hurt \cup {Sent(q) : q \in Range(whole)}
    BY <2>0, <2>1 DEF Held, Sent
  <2>2. CASE inbox' = {row \in inbox : row.id # whole} \cup {Row(whole)} /\ hurt' = hurt
    <3>1. Row(whole) \in inbox' /\ Row(whole).id = whole  BY <2>2, RowId
    <3>2. \A row \in inbox : row \in inbox' \/ row.id = whole  BY <2>2
    <3> QED  BY <2>0, <2>2, <3>1, <3>2 DEF Held, Sent
  <2> QED  BY <1>3, <2>1, <2>2, Saved
<1>4. CASE Restart
  <2>0. p \in seen /\ Held(p) /\ inbox' = inbox  BY <1>4 DEF Restart, AllHeld
  <2>1. /\ PartsOf(DOMAIN groups) \subseteq hurt' /\ hurt \subseteq hurt'
        /\ step = "add" => Sent(part) \in hurt'
        /\ \A q \in Range(whole) : Sent(q) \in hurt'
    BY <1>4 DEF Restart
  <2>2. \A key \in DOMAIN groups : p \in Range(groups[key].parts) => Sent(p) \in hurt'
    BY <2>1 DEF PartsOf
  <2> QED  BY <2>0, <2>1, <2>2 DEF Held, Sent
<1>5. CASE ~RecordPdu /\ ~AddPart /\ ~SaveSms /\ ~Restart
  <2>1. UNCHANGED <<seen, groups, inbox, hurt>>
    BY <1>5 DEF Next, vars, ingress, SendSms, SendSegment, Lose, Tick, Receive
  <2>2. step \in {"add", "save"} => UNCHANGED <<step, part, whole>>
    BY <1>5 DEF Next, vars, ingress, SendSms, SendSegment, Lose, Tick, Receive
  <2>3. Held(p)  BY <2>1 DEF AllHeld
  <2> QED  BY <2>1, <2>2, <2>3 DEF Held, Sent
<1> QED  BY <1>1, <1>2, <1>3, <1>4, <1>5

\* The inductive invariant.
IInv == Assembling /\ Saving /\ Rows /\ Once /\ AllHeld

\* It holds at the start.
LEMMA InitInv == Init => IInv
<1> SUFFICES ASSUME Init PROVE IInv
  OBVIOUS
<1>1. DOMAIN <<>> = {}  OBVIOUS
<1> QED  BY <1>1 DEF Init, IInv, Assembling, Places, Pdus, OpenGroups, ToldApart, Travelling,
  Saving, Rows, Once, AllHeld

\* Every step keeps it.
LEMMA StepInv == IInv /\ [Next]_vars => IInv'
<1> SUFFICES ASSUME IInv, [Next]_vars PROVE IInv'
  OBVIOUS
<1> USE DEF IInv
<1>1. Assembling'
  BY PlacesStep, PdusStep, OpenGroupsStep, ToldApartStep DEF Assembling
<1> QED  BY <1>1, SavingStep, RowsStep, OnceStep, HeldStep

\* If all parts of a message are recorded, not given up and in no row, they are in groups, and
\* since their keys are equal in one; but that group is open.
LEMMA NothingLost == IInv => NothingMissing
<1> SUFFICES ASSUME IInv, NEW s \in sent, Complete(s), s \notin hurt,
                    ~(step # "idle" /\ Sent(part) = s)
             PROVE  \E row \in inbox : \E p \in Range(row.id) : Sent(p) = s
  BY DEF NothingMissing
<1> DEFINE n == Count(s.message)
<1>1. n \in Nat \ {0}  BY DEF IInv, Assembling, Pdus
<1>2. \A k \in 1 .. n : \E p \in seen : Sent(p) = s /\ p.seq = k
  BY DEF Complete, Count
<1> SUFFICES ASSUME ~\E row \in inbox : \E p \in Range(row.id) : Sent(p) = s PROVE FALSE
  OBVIOUS
<1>3. ASSUME NEW p \in seen, Sent(p) = s
      PROVE  \E key \in DOMAIN groups : p \in Range(groups[key].parts)
  <2>1. Held(p)  BY DEF IInv, AllHeld
  <2>2. ~(step = "add" /\ p = part)  BY <1>3
  <2>3. ~(step = "save" /\ p \in Range(whole))
    <3> SUFFICES ASSUME step = "save", p \in Range(whole) PROVE FALSE
      OBVIOUS
    <3>1. Assembled(whole) /\ part \in Range(whole)  BY DEF IInv, Saving
    <3>2. Sent(p) = Sent(part)  BY <3>1 DEF Assembled, Range
    <3> QED  BY <1>3, <3>2
  <2> QED  BY <1>3, <2>1, <2>2, <2>3 DEF Held
<1>4. PICK first \in seen : Sent(first) = s  BY <1>1, <1>2
<1> PICK key \in DOMAIN groups : first \in Range(groups[key].parts)  BY <1>3, <1>4
<1>5. OpenGroup(key) /\ Key(first) = key
  BY <1>4 DEF IInv, Assembling, OpenGroups, OpenGroup, Range
<1>6. Genuine(first) /\ key[3] = n
  <2>1. Genuine(first)  BY <1>4 DEF IInv, Assembling, Pdus
  <2> QED  BY <1>4, <1>5, <2>1 DEF Genuine, Key, Sent
<1>7. \A k \in 1 .. n : k \in DOMAIN groups[key].parts
  <2> SUFFICES ASSUME NEW k \in 1 .. n PROVE k \in DOMAIN groups[key].parts
    OBVIOUS
  <2>1. PICK p \in seen : Sent(p) = s /\ p.seq = k  BY <1>2
  <2>2. PICK g \in DOMAIN groups : p \in Range(groups[g].parts)  BY <1>3, <2>1
  <2>3. Key(p) = g /\ k \in DOMAIN groups[g].parts
    BY <2>1, <2>2 DEF IInv, Assembling, OpenGroups, OpenGroup, Range
  <2>4. Genuine(p) /\ p.reference = first.reference
    BY <1>4, <2>1 DEF IInv, Assembling, Pdus, Sent
  <2>5. Key(p) = Key(first)  BY <1>4, <1>6, <2>1, <2>4 DEF Genuine, Key, Sent
  <2> QED  BY <1>5, <2>3, <2>5
<1>8. DOMAIN groups[key].parts \subseteq 1 .. n
  <2> SUFFICES ASSUME NEW k \in DOMAIN groups[key].parts PROVE k \in 1 .. n
    OBVIOUS
  <2> PICK p : p = groups[key].parts[k]  OBVIOUS
  <2>1. p \in seen /\ p.seq = k /\ Key(p) = key  BY <1>5 DEF OpenGroup
  <2>2. Genuine(p)  BY <2>1 DEF IInv, Assembling, Pdus
  <2>3. p.total = n  BY <1>6, <2>1 DEF Key
  <2> QED  BY <2>1, <2>2, <2>3 DEF Genuine
<1> QED  BY <1>5, <1>6, <1>7, <1>8 DEF OpenGroup


\* A row has the parts of one message in order, so its body is what their texts make.
LEMMA StoredSent ==
  ASSUME IInv, Message \subseteq Readable
  PROVE  StoredWasSent
<1> SUFFICES ASSUME NEW row \in inbox
             PROVE  \E s \in sent : s.sender = row.sender /\ Text[s.message] = row.body
  BY DEF StoredWasSent
<1> PICK id : id = row.id  OBVIOUS
<1>1. Assembled(id) /\ row = Row(id)  BY DEF IInv, Rows
<1>2. Genuine(id[1])  BY <1>1 DEF Assembled, IInv, Assembling, Pdus
<1> DEFINE s == Sent(id[1])
           m == id[1].message
<1>3. s \in sent /\ s.sender = id[1].sender /\ s.message = m  BY <1>2 DEF Genuine, Sent
<1>4. m \in Message  BY <1>2 DEF Genuine, PduRecord
<1>5. \A k \in DOMAIN id : id[k].seq = k /\ id[k].message = m  BY <1>1 DEF Assembled, Sent
<1>6. [k \in DOMAIN id |-> DecodeDeliver(Segments[id[k].message][id[k].seq])]
        = [k \in 1 .. Count(m) |-> DecodeDeliver(Segments[m][k])]
  BY <1>1, <1>5 DEF Assembled
<1>7. Body(id) = Text[m]  BY <1>4, <1>6 DEF Body, Readable, Count
<1>8. row.sender = id[1].sender /\ row.body = Body(id)  BY <1>1 DEF Row
<1> QED  BY <1>3, <1>7, <1>8

\* The invariant holds in every reachable state.
LEMMA Safe == Spec => []IInv
BY InitInv, StepInv, PTL DEF Spec

\* No message is written twice, however often its segments are repeated and whenever the gateway
\* restarts (record_sms_pdu before SMSAssembler.add, save_sms last).
THEOREM SavedOnce == Spec => []StoredOnce
<1>1. IInv => StoredOnce  BY DEF IInv, Once, StoredOnce
<1> QED  BY <1>1, Safe, PTL

\* A message of which every segment was recorded is stored or being saved, unless it expired, was
\* evicted, or was lost to a restart or a failed write (SMSAssembler.add, SMSIngress.ingest).
THEOREM AllStored == Spec => []NothingMissing
BY NothingLost, Safe, PTL

\* Whatever is stored was sent, by the sender the row names and with the body it has, if the codec
\* gives back every text it has cut: segments of different messages are never joined.
THEOREM OnlySent ==
  ASSUME Message \subseteq Readable
  PROVE  Spec => []StoredWasSent
<1>1. IInv => StoredWasSent  BY StoredSent
<1> QED  BY <1>1, Safe, PTL
=============================================================================

------------------------------ MODULE SmsCodec ------------------------------
(***************************************************************************)
(* The coding of a text message into SMS segments and back (modem/sms.py). *)
(* A character is GSM7, a GSM7 extension (ESC and a code), a UTF-16 unit   *)
(* or a surrogate pair; a code and a unit are named by their character,    *)
(* the first half of a pair by "lead".  Lengths, limits and the layout of  *)
(* the user data are those of the code; the hex digits, the address and    *)
(* the time stamp, which nothing here depends on, are left out.            *)
(***************************************************************************)
EXTENDS Integers, Sequences, SequencesExt

Gsm7      == {"a", "b"}
Extension == {"euro"}
Wide      == {"zh"}          \* one UTF-16 unit, not in the GSM7 alphabet
Astral    == {"emoji"}       \* two UTF-16 units

IsGsm7(text) == ToSet(text) \subseteq Gsm7 \cup Extension

(* _gsm7_codes and the UTF-16 encoding: what takes two codes starts with a *)
(* lead.                                                                   *)
Doubles(coding) == IF coding = "gsm7" THEN Extension ELSE Astral

Units(text, coding) ==
  FlattenSeq([i \in DOMAIN text |->
                IF text[i] \in Doubles(coding) THEN <<"lead", text[i]>> ELSE <<text[i]>>])

(* Mutant: a segment is filled up to the limit.                            *)
EndFilled(units, i, limit) ==
  IF i + limit - 1 < Len(units) THEN i + limit - 1 ELSE Len(units)

(* The last unit of the segment that starts at i: an ESC or a high         *)
(* surrogate moves on to the next segment, unless it is alone in this one. *)
End(units, i, limit) ==
  LET full == IF i + limit - 1 < Len(units) THEN i + limit - 1 ELSE Len(units)
  IN  IF full < Len(units) /\ full > i /\ units[full] = "lead" THEN full - 1 ELSE full

Split(units, limit) ==
  LET from[i \in 1 .. Len(units) + 1] ==
        IF i > Len(units) THEN <<>>
        ELSE <<SubSeq(units, i, End(units, i, limit))>> \o from[End(units, i, limit) + 1]
  IN  from[1]

Limit(coding, count) ==
  IF coding = "gsm7" THEN IF count <= 160 THEN 160 ELSE 153
                     ELSE IF count <= 70  THEN 70  ELSE 67

UdhLength(total) == IF total > 1 THEN 6 ELSE 0

FillBits(header) == (-(8 * header)) % 7

(* _pack_gsm7: where the first septet goes, and how many octets there are. *)
Layout(coding, header, count) ==
  IF coding = "gsm7"
  THEN LET offset == 8 * header + FillBits(header)
       IN  [length |-> (8 * header + 6) \div 7 + count, offset |-> offset,
            octets |-> (offset + 7 * count + 7) \div 8]
  ELSE [length |-> header + 2 * count, offset |-> 8 * header, octets |-> header + 2 * count]

(* encode_sms: GSM7 where possible, otherwise UCS2.                        *)
EncodeSms(text) ==
  LET coding == IF IsGsm7(text) THEN "gsm7" ELSE "ucs2"
      units  == Units(text, coding)
      chunks == Split(units, Limit(coding, Len(units)))
      header == UdhLength(Len(chunks))
  IN  [k \in DOMAIN chunks |->
         [coding |-> coding, header |-> header, units |-> chunks[k],
          layout |-> Layout(coding, header, Len(chunks[k]))]]

(* _decode_gsm7 and the decoding of UTF-16: a half of a pair is garbled.   *)
Characters(units, coding) ==
  LET paired(i) == i > 1 /\ units[i - 1] = "lead"
      show(i) ==
        CASE units[i] = "lead" -> IF i < Len(units) THEN <<>> ELSE <<"garbled">>
          [] units[i] # "lead" /\ paired(i) # (units[i] \in Doubles(coding)) -> <<"garbled">>
          [] OTHER -> <<units[i]>>
  IN  FlattenSeq([i \in DOMAIN units |-> show(i)])

(* decode_deliver: reads the user data by the length and the header of the *)
(* PDU; a PDU with fewer octets than its length says raises.               *)
Truncated(segment) ==
  LET length == segment.layout.length
      needed == IF segment.coding = "gsm7" THEN (7 * length + 7) \div 8 ELSE length
  IN  needed > segment.layout.octets

DecodeDeliver(segment) ==
  LET header == segment.header
      offset == 8 * header + (IF segment.coding = "gsm7" THEN FillBits(header) ELSE 0)
      count  == IF segment.coding = "gsm7"
                THEN segment.layout.length - (8 * header + 6) \div 7
                ELSE (segment.layout.length - header) \div 2
      units  == [i \in 1 .. count |->
                   IF offset = segment.layout.offset /\ i <= Len(segment.units)
                   THEN segment.units[i] ELSE "garbled"]
  IN  Characters(units, segment.coding)
=============================================================================

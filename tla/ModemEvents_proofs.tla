------------------------ MODULE ModemEvents_proofs -------------------------
(***************************************************************************)
(* Safety of ModemEvents: its types, the order of the stream, what is      *)
(* reported of a ringing call, and what becomes of a message.              *)
(*                                                                         *)
(* The proofs look at the three queues as one stream.  A step takes its    *)
(* first line, drops some lines or adds some at its end (the shapes        *)
(* below), and each invariant is kept by every shape.                      *)
(***************************************************************************)
EXTENDS ModemEvents, SequenceTheorems, FiniteSetTheorems, TLAPS

\* The two parts of a sequence of lines.
LEMMA Cuts ==
  ASSUME NEW s \in Seq(Line), NEW n \in 0..Len(s)
  PROVE  /\ SubSeq(s, 1, n) \in Seq(Line) /\ SubSeq(s, n + 1, Len(s)) \in Seq(Line)
         /\ Len(SubSeq(s, 1, n)) = n /\ Len(SubSeq(s, n + 1, Len(s))) = Len(s) - n
         /\ \A i \in 1..n : SubSeq(s, 1, n)[i] = s[i]
         /\ \A i \in 1..(Len(s) - n) : SubSeq(s, n + 1, Len(s))[i] = s[i + n]
<1>1. \A i \in 1..Len(s) : s[i] \in Line  BY ElementOfSeq
<1>2. Len(s) \in Nat  BY LenProperties
<1>3. \A i \in 1..n : s[i] \in Line  BY <1>1, <1>2
<1>4. \A i \in (n + 1)..Len(s) : s[i] \in Line  BY <1>1, <1>2
<1>5. SubSeq(s, 1, n) \in Seq(Line) /\ Len(SubSeq(s, 1, n)) = (IF 1 <= n THEN n - 1 + 1 ELSE 0)
      /\ \A i \in 1..(n - 1 + 1) : SubSeq(s, 1, n)[i] = s[1 + i - 1]
  BY <1>3, <1>2, SubSeqProperties
<1>6. SubSeq(s, n + 1, Len(s)) \in Seq(Line)
      /\ Len(SubSeq(s, n + 1, Len(s))) = (IF n + 1 <= Len(s) THEN Len(s) - (n + 1) + 1 ELSE 0)
      /\ \A i \in 1..(Len(s) - (n + 1) + 1) : SubSeq(s, n + 1, Len(s))[i] = s[(n + 1) + i - 1]
  BY <1>4, <1>2, SubSeqProperties
<1>7. \A i \in 1..n : 1 + i - 1 = i  BY <1>2
<1>8. \A i \in 1..(Len(s) - n) : (n + 1) + i - 1 = i + n  BY <1>2
<1> QED  BY <1>2, <1>5, <1>6, <1>7, <1>8

\* t is s without some of its lines.
Part(t, s) == \E f \in [1..Len(t) -> 1..Len(s)] :
  /\ \A i, j \in 1..Len(t) : i < j => f[i] < f[j]
  /\ \A i \in 1..Len(t) : t[i] = s[f[i]]

\* The three parts of the stream as one.
Joined(b, u, w, s) ==
  /\ s \in Seq(Line) /\ Len(s) = Len(b) + Len(u) + Len(w) /\ DOMAIN s = 1..Len(s)
  /\ \A i \in 1..Len(b) : s[i] = b[i]
  /\ \A i \in 1..Len(u) : s[Len(b) + i] = u[i]
  /\ \A i \in 1..Len(w) : s[Len(b) + Len(u) + i] = w[i]

\* Where a line of the stream comes from.
LEMMA Join ==
  ASSUME NEW b \in Seq(Line), NEW u \in Seq(Line), NEW w \in Seq(Line)
  PROVE  Joined(b, u, w, b \o u \o w)
<1>1. Len(b) \in Nat /\ Len(u) \in Nat /\ Len(w) \in Nat  BY LenProperties
<1>2. /\ b \o u \in Seq(Line) /\ Len(b \o u) = Len(b) + Len(u)
      /\ \A i \in 1..(Len(b) + Len(u)) : (b \o u)[i] = IF i <= Len(b) THEN b[i] ELSE u[i - Len(b)]
  BY ConcatProperties
<1>3. /\ (b \o u) \o w \in Seq(Line) /\ Len((b \o u) \o w) = Len(b \o u) + Len(w)
      /\ \A i \in 1..(Len(b \o u) + Len(w)) : ((b \o u) \o w)[i]
            = IF i <= Len(b \o u) THEN (b \o u)[i] ELSE w[i - Len(b \o u)]
  BY <1>2, ConcatProperties
<1>4. DOMAIN ((b \o u) \o w) = 1..Len((b \o u) \o w)  BY <1>3, LenProperties
<1> HIDE DEF Line
<1> DEFINE s == (b \o u) \o w
<1> DEFINE bu == b \o u
<1> HIDE DEF s, bu
<1>5. \A i \in 1..Len(b) : s[i] = b[i]  BY <1>1, <1>2, <1>3 DEF s
<1>6. \A i \in 1..Len(u) : s[Len(b) + i] = u[i]
  <2> TAKE i \in 1..Len(u)
  <2>1. Len(b) + i \in 1..(Len(b) + Len(u)) /\ ~(Len(b) + i <= Len(b)) /\ Len(b) + i - Len(b) = i
    BY <1>1
  <2> QED BY <2>1, <1>1, <1>2, <1>3 DEF s
<1>7. \A i \in 1..Len(w) : s[Len(b) + Len(u) + i] = w[i]
  <2> TAKE i \in 1..Len(w)
  <2>1. LET x == Len(b) + Len(u) + i IN
          x \in 1..(Len(b \o u) + Len(w)) /\ ~(x <= Len(b \o u)) /\ x - Len(b \o u) = i
     BY <1>1, <1>2
  <2> QED BY <2>1, <1>3 DEF s
<1> QED  BY <1>1, <1>2, <1>3, <1>4, <1>5, <1>6, <1>7 DEF Joined, s

-----------------------------------------------------------------------------
(* Types                                                                     *)

\* The lines, and what a line says.
LEMMA Lines ==
  /\ \A c \in Call : [k |-> "RING", n |-> c] \in Line /\ [k |-> "CLIP", n |-> c] \in Line
  /\ \A m \in Sms : [k |-> "CMT", n |-> m] \in Line /\ [k |-> "PDU", n |-> m] \in Line
  /\ \A c \in 0..MaxCalls : [k |-> "NO_CARRIER", n |-> c] \in Line
  /\ [k |-> "OK", n |-> 0] \in Line
  /\ \A l \in Line : /\ l.k \in {"RING", "CLIP", "CMT", "PDU", "NO_CARRIER", "OK"}
                     /\ l.k \in {"RING", "CLIP"} => l.n \in Call
                     /\ l.k \in {"CMT", "PDU"} => l.n \in Sms
                     /\ l.k = "NO_CARRIER" => l.n \in 0..MaxCalls
BY DEF Line

\* The constants, and the sets they bound.
LEMMA Bounds ==
  /\ MaxCalls \in Nat /\ MaxSms \in Nat /\ MaxCommands \in Nat /\ MaxLosses \in Nat
  /\ Commands \subseteq {"query"} \cup Voice
  /\ Call \subseteq 0..MaxCalls /\ 0..MaxCalls \subseteq 0..Dialled
  /\ Dialled \in Nat /\ Dialled \in 0..Dialled
BY BoundAssumption DEF Voice, Dialled, Call

\* Sequences.
LEMMA Seqs ==
  ASSUME NEW S
  PROVE  /\ <<>> \in Seq(S) /\ \A x \in S : <<x>> \in Seq(S)
         /\ \A x, y \in S : <<x, y>> \in Seq(S)
         /\ \A s \in Seq(S) : \A x \in S : Append(s, x) \in Seq(S)
         /\ \A s, t \in Seq(S) : s \o t \in Seq(S)
         /\ \A s \in Seq(S) : s # <<>> =>
              Head(s) \in S /\ Tail(s) \in Seq(S) /\ Len(s) >= 1 /\ s[1] = Head(s)
OBVIOUS

\* TypeOK by subject.
Lists  == /\ asked \in Seq({"query"} \cup Voice)
          /\ wire \in Seq(Line) /\ urcs \in Seq(Line) /\ batch \in Seq(Line)
          /\ callbacks \in Seq(0..MaxCalls)
Modes  == /\ {split, header, notified, eaten, dropped, answered} \subseteq BOOLEAN
          /\ cmd \in {"none", "query"} \cup Voice /\ voice \in {"none"} \cup Voice
          /\ session \in {"open", "stopping", "closed", "lost"}
Calls  == /\ line \in [call : 0..MaxCalls, state : {"idle", "ringing", "up", "out"}]
          /\ number \in 0..MaxCalls /\ delay \in 0..MaxCalls /\ believed \in 0..Dialled
          /\ told \in [Call -> Nat] /\ records \in [Call -> Nat]
          /\ line.state = "ringing" => line.call \in Call
Counts == /\ cleared \in [Call -> Nat] /\ stored \subseteq Sms
          /\ sent \in 0..MaxSms /\ commands \in 0..MaxCommands /\ losses \in 0..MaxLosses
Typed == Lists /\ Modes /\ Calls /\ Counts

\* Typed is TypeOK, and says that a ringing call has a number.
LEMMA TypedIs == Typed => TypeOK
BY DEF Typed, Lists, Modes, Calls, Counts, TypeOK

\* The types hold at the start ...
LEMMA InitTyped == Init => Typed
<1> SUFFICES ASSUME Init PROVE Typed OBVIOUS
<1>1. Lists BY Bounds, Seqs DEF Init, Lists
<1>2. Modes BY DEF Init, Modes
<1>3. Calls BY Bounds, Seqs DEF Init, Calls
<1>4. Counts BY Bounds DEF Init, Counts
<1> QED BY <1>1, <1>2, <1>3, <1>4 DEF Typed

\* The sequences of the model.
LEMMA SeqsOf ==
  /\ \A l \in Line, s \in Seq(Line) : Append(s, l) \in Seq(Line) /\ s \o <<l>> \in Seq(Line)
  /\ \A l, m \in Line, s \in Seq(Line) :
       s \o <<l, m>> \in Seq(Line) /\ (s \o <<l>>) \o <<m>> \in Seq(Line)
  /\ \A s \in Seq(Line) : s \o <<>> \in Seq(Line)
  /\ \A s \in Seq(Line) : s # <<>> => Head(s) \in Line /\ Tail(s) \in Seq(Line)
  /\ \A c \in 0..MaxCalls, s \in Seq(0..MaxCalls) : Append(s, c) \in Seq(0..MaxCalls)
  /\ \A s \in Seq(0..MaxCalls) : s # <<>> => Head(s) \in 0..MaxCalls /\ Tail(s) \in Seq(0..MaxCalls)
  /\ \A op \in {"query"} \cup Voice, s \in Seq({"query"} \cup Voice) :
       Append(s, op) \in Seq({"query"} \cup Voice)
  /\ \A s \in Seq({"query"} \cup Voice) : s # <<>> =>
       Head(s) \in {"query"} \cup Voice /\ Tail(s) \in Seq({"query"} \cup Voice)
<1> HIDE DEF Line, Voice
<1>1. \A S : \A l \in S, s \in Seq(S) : Append(s, l) \in Seq(S) /\ s \o <<l>> \in Seq(S)
  OBVIOUS
<1>2. \A S : \A l, m \in S, s \in Seq(S) :
        s \o <<l, m>> \in Seq(S) /\ (s \o <<l>>) \o <<m>> \in Seq(S)
  OBVIOUS
<1>3. \A S : \A s \in Seq(S) : s \o <<>> \in Seq(S)
  OBVIOUS
<1>4. \A S : \A s \in Seq(S) : s # <<>> => Head(s) \in S /\ Tail(s) \in Seq(S)
  OBVIOUS
<1> QED BY <1>1, <1>2, <1>3, <1>4

\* What the handshake keeps is part of what it has read.
LEMMA NotificationsFrom ==
  ASSUME NEW s \in Seq(Line), NEW t \in Notifications(s)
  PROVE  t \in Seq(Line) /\ Part(t, s)
<1> DEFINE kept == {i \in DOMAIN s : IsUrc(s[i])}
<1>1. PICK f \in [1..Cardinality(kept) -> kept] :
        /\ \A i, j \in DOMAIN f : i < j => f[i] < f[j]
        /\ t = [i \in DOMAIN f |-> s[f[i]]]
  BY DEF Notifications
<1>2. Len(s) \in Nat /\ DOMAIN s = 1..Len(s) /\ \A i \in 1..Len(s) : s[i] \in Line
  BY LenProperties, ElementOfSeq
<1>3. Cardinality(kept) \in Nat
  <2>1. IsFiniteSet(1..Len(s))  BY <1>2, FS_Interval
  <2>2. IsFiniteSet(kept)  BY <1>2, <2>1, FS_Subset
  <2> QED  BY <2>2, FS_CardinalityType
<1> HIDE DEF kept
<1>4. kept \subseteq 1..Len(s)  BY <1>2 DEF kept
<1>5. t \in Seq(Line)
  <2>1. DOMAIN f = 1..Cardinality(kept)  BY <1>1
  <2>2. t \in [1..Cardinality(kept) -> Line]  BY <1>1, <1>2, <1>4, <2>1
  <2> QED  BY <1>3, <2>2, SeqDef
<1>6. Len(t) = Cardinality(kept)  BY <1>1, <1>3, <1>5
<1> QED  BY <1>1, <1>4, <1>5, <1>6 DEF Part

\* Counting calls that may be reported again.
LEMMA ClearTyped ==
  ASSUME Counts, ClearRing
  PROVE  cleared' \in [Call -> Nat]
BY DEF Counts, ClearRing

\* ... and each step keeps them: those of the module and the network,
LEMMA ModuleTyped ==
  ASSUME Typed, Module
  PROVE  Typed'
<1> USE DEF moduleVars, ringVars, readerVars, sessionVars, callVars, commandVars
<1>0. Lists /\ Modes /\ Calls /\ Counts  BY DEF Typed
<1>1. CASE RemoteCalls
  <2>1. Lists'  BY <1>0, <1>1 DEF RemoteCalls, Lists
  <2>2. Modes'  BY <1>0, <1>1 DEF RemoteCalls, Modes
  <2>3. Calls'  BY <1>0, <1>1, Bounds DEF RemoteCalls, Calls, Call
  <2>4. Counts'  BY <1>0, <1>1 DEF RemoteCalls, Counts
  <2> QED  BY <2>1, <2>2, <2>3, <2>4 DEF Typed
<1>2. CASE Rings
  <2>1. Lists'
    <3>1. PICK clip \in {<<>>, <<[k |-> "CLIP", n |-> line.call]>>} :
            wire' = wire \o <<[k |-> "RING", n |-> line.call]>> \o clip
      BY <1>2 DEF Rings
    <3>2. line.call \in Call  BY <1>0, <1>2 DEF Rings, Calls
    <3>3. wire \o <<[k |-> "RING", n |-> line.call]>> \in Seq(Line)
      BY <1>0, <3>2, Lines, SeqsOf DEF Lists
    <3>4. wire' \in Seq(Line)  BY <3>1, <3>2, <3>3, Lines, SeqsOf
    <3> QED  BY <1>0, <1>2, <3>4 DEF Rings, Lists
  <2>2. Modes'  BY <1>0, <1>2 DEF Rings, Modes
  <2>3. Calls'  BY <1>0, <1>2 DEF Rings, Calls
  <2>4. Counts'  BY <1>0, <1>2 DEF Rings, Counts
  <2> QED  BY <2>1, <2>2, <2>3, <2>4 DEF Typed
<1>3. CASE RemoteHangsUp
  <2>1. Lists'
    <3> DEFINE c == IF line.state = "out" THEN 0 ELSE line.call
    <3>1. c \in 0..MaxCalls  BY <1>0, Bounds DEF Calls
    <3>2. wire' \in Seq(Line)  BY <1>0, <1>3, <3>1, Lines, SeqsOf DEF RemoteHangsUp, Lists
    <3> QED  BY <1>0, <1>3, <3>2 DEF RemoteHangsUp, Lists
  <2>2. Modes'  BY <1>0, <1>3 DEF RemoteHangsUp, Modes
  <2>3. Calls'  BY <1>0, <1>3 DEF RemoteHangsUp, Calls
  <2>4. Counts'  BY <1>0, <1>3 DEF RemoteHangsUp, Counts
  <2> QED  BY <2>1, <2>2, <2>3, <2>4 DEF Typed
<1>4. CASE SmsArrives
  <2>1. Lists'
    <3>1. sent + 1 \in Sms  BY <1>0, <1>4, Bounds DEF SmsArrives, Counts, Sms
    <3>2. wire' \in Seq(Line)  BY <1>0, <1>4, <3>1, Lines, SeqsOf DEF SmsArrives, Lists
    <3> QED  BY <1>0, <1>4, <3>2 DEF SmsArrives, Lists
  <2>2. Modes'  BY <1>0, <1>4 DEF SmsArrives, Modes
  <2>3. Calls'  BY <1>0, <1>4 DEF SmsArrives, Calls
  <2>4. Counts'  BY <1>0, <1>4, Bounds DEF SmsArrives, Counts
  <2> QED  BY <2>1, <2>2, <2>3, <2>4 DEF Typed
<1>5. CASE Replies
  <2>1. Lists'
    <3>1. 0 \in 0..MaxCalls  BY Bounds
    <3>2. wire' \in Seq(Line)  BY <1>0, <1>5, <3>1, Lines, SeqsOf DEF Replies, Lists
    <3> QED  BY <1>0, <1>5, <3>2, SeqsOf DEF Replies, Lists
  <2>2. Modes'  BY <1>0, <1>5 DEF Replies, Modes
  <2>3. Calls'  BY <1>0, <1>5, Bounds DEF Replies, Calls
  <2>4. Counts'  BY <1>0, <1>5 DEF Replies, Counts
  <2> QED  BY <2>1, <2>2, <2>3, <2>4 DEF Typed
<1> QED  BY <1>1, <1>2, <1>3, <1>4, <1>5 DEF Module

\* those of the monitor,
LEMMA MonitorTyped ==
  ASSUME Typed, Monitor
  PROVE  Typed'
<1> USE DEF moduleVars, ringVars, readerVars, sessionVars, callVars, commandVars
<1>0. Lists /\ Modes /\ Calls /\ Counts  BY DEF Typed
<1>1. CASE DrainUrcs
  <2>1. Lists'  BY <1>0, <1>1, Seqs DEF DrainUrcs, Lists
  <2>2. Modes'  BY <1>0, <1>1 DEF DrainUrcs, Modes
  <2>3. Calls'  BY <1>0, <1>1 DEF DrainUrcs, Calls
  <2>4. Counts'  BY <1>0, <1>1 DEF DrainUrcs, Counts
  <2> QED  BY <2>1, <2>2, <2>3, <2>4 DEF Typed
<1>2. CASE ReadWire
  <2>1. Lists'  BY <1>0, <1>2, Cuts DEF ReadWire, Lists
  <2>2. Modes'  BY <1>0, <1>2 DEF ReadWire, Modes
  <2>3. Calls'  BY <1>0, <1>2 DEF ReadWire, Calls
  <2>4. Counts'  BY <1>0, <1>2 DEF ReadWire, Counts
  <2> QED  BY <2>1, <2>2, <2>3, <2>4 DEF Typed
<1>3. CASE HandleRing
  <2>1. Lists'
    <3>1. Head(batch).n \in 0..MaxCalls /\ batch' \in Seq(Line)
      BY <1>0, <1>3, SeqsOf, Lines, Bounds DEF HandleRing, Handle, Lists
    <3>2. callbacks' = callbacks \/ \E c \in 0..MaxCalls : callbacks' = Append(callbacks, c)
      BY <1>0, <1>3, <3>1 DEF HandleRing, Handle, Deliver, Defer, Calls
    <3>3. callbacks' \in Seq(0..MaxCalls)  BY <1>0, <3>2, SeqsOf DEF Lists
    <3> QED  BY <1>0, <1>3, <3>1, <3>3 DEF HandleRing, Handle, Lists
  <2>2. Modes'  BY <1>0, <1>3 DEF HandleRing, Handle, Deliver, Defer, Modes
  <2>3. Calls'
    <3>1. Head(batch).n \in 0..MaxCalls
      BY <1>0, <1>3, SeqsOf, Lines, Bounds DEF HandleRing, Handle, Lists
    <3>2. told' = told \/ \E c \in 0..MaxCalls : told' = [told EXCEPT ![c] = @ + 1]
      BY <1>0, <1>3, <3>1 DEF HandleRing, Handle, Deliver, Defer, Calls
    <3>3. told' \in [Call -> Nat]  BY <1>0, <3>2 DEF Calls
    <3>4. number' \in 0..MaxCalls /\ delay' \in 0..MaxCalls
      BY <1>0, <1>3, <3>1, Bounds DEF HandleRing, Handle, Deliver, Defer, Calls
    <3> QED  BY <1>0, <1>3, <3>3, <3>4 DEF HandleRing, Handle, Calls
  <2>4. Counts'  BY <1>0, <1>3 DEF HandleRing, Handle, Deliver, Defer, Counts
  <2> QED  BY <2>1, <2>2, <2>3, <2>4 DEF Typed
<1>4. CASE HandleClip
  <2>1. Lists'
    <3>1. Head(batch).n \in 0..MaxCalls /\ batch' \in Seq(Line)
      BY <1>0, <1>4, SeqsOf, Lines, Bounds DEF HandleClip, Handle, Lists
    <3>2. callbacks' = callbacks \/ \E c \in 0..MaxCalls : callbacks' = Append(callbacks, c)
      BY <1>0, <1>4, <3>1 DEF HandleClip, Handle, Deliver, Defer, Calls
    <3>3. callbacks' \in Seq(0..MaxCalls)  BY <1>0, <3>2, SeqsOf DEF Lists
    <3> QED  BY <1>0, <1>4, <3>1, <3>3 DEF HandleClip, Handle, Lists
  <2>2. Modes'  BY <1>0, <1>4 DEF HandleClip, Handle, Deliver, Modes
  <2>3. Calls'
    <3>1. Head(batch).n \in 0..MaxCalls
      BY <1>0, <1>4, SeqsOf, Lines, Bounds DEF HandleClip, Handle, Lists
    <3>2. told' = told \/ \E c \in 0..MaxCalls : told' = [told EXCEPT ![c] = @ + 1]
      BY <1>0, <1>4, <3>1 DEF HandleClip, Handle, Deliver, Defer, Calls
    <3>3. told' \in [Call -> Nat]  BY <1>0, <3>2 DEF Calls
    <3>4. number' \in 0..MaxCalls /\ delay' \in 0..MaxCalls
      BY <1>0, <1>4, <3>1, Bounds DEF HandleClip, Handle, Deliver, Defer, Calls
    <3> QED  BY <1>0, <1>4, <3>3, <3>4 DEF HandleClip, Handle, Calls
  <2>4. Counts'  BY <1>0, <1>4 DEF HandleClip, Handle, Deliver, Counts
  <2> QED  BY <2>1, <2>2, <2>3, <2>4 DEF Typed
<1>5. CASE HandleNoCarrier
  <2>1. Lists'
    <3>1. 0 \in 0..MaxCalls  BY Bounds
    <3> QED  BY <1>0, <1>5, <3>1, SeqsOf DEF HandleNoCarrier, Handle, Lists
  <2>2. Modes'  BY <1>0, <1>5 DEF HandleNoCarrier, Handle, ResetRing, ClearRing, Modes
  <2>3. Calls'  BY <1>0, <1>5, Bounds DEF HandleNoCarrier, Handle, ResetRing, ClearRing, Calls
  <2>4. Counts'
    <3>1. cleared' \in [Call -> Nat]  BY <1>0, <1>5, ClearTyped DEF HandleNoCarrier, Counts
    <3> QED  BY <1>0, <1>5, <3>1 DEF HandleNoCarrier, Handle, Counts
  <2> QED  BY <2>1, <2>2, <2>3, <2>4 DEF Typed
<1>6. CASE HandleCmt
  <2>1. Lists'  BY <1>0, <1>6, SeqsOf DEF HandleCmt, Handle, Lists
  <2>2. Modes'  BY <1>0, <1>6 DEF HandleCmt, Handle, Modes
  <2>3. Calls'  BY <1>0, <1>6 DEF HandleCmt, Handle, Calls
  <2>4. Counts'  BY <1>0, <1>6 DEF HandleCmt, Handle, Counts
  <2> QED  BY <2>1, <2>2, <2>3, <2>4 DEF Typed
<1>7. CASE HandlePdu
  <2>1. Lists'  BY <1>0, <1>7, SeqsOf DEF HandlePdu, Handle, Lists
  <2>2. Modes'  BY <1>0, <1>7 DEF HandlePdu, Handle, Modes
  <2>3. Calls'  BY <1>0, <1>7 DEF HandlePdu, Handle, Calls
  <2>4. Counts'  BY <1>0, <1>7, SeqsOf, Lines DEF HandlePdu, Handle, Counts, Lists
  <2> QED  BY <2>1, <2>2, <2>3, <2>4 DEF Typed
<1>8. CASE HandleOther
  <2>1. Lists'  BY <1>0, <1>8, SeqsOf DEF HandleOther, Handle, Lists
  <2>2. Modes'  BY <1>0, <1>8 DEF HandleOther, Handle, Modes
  <2>3. Calls'  BY <1>0, <1>8 DEF HandleOther, Handle, Calls
  <2>4. Counts'  BY <1>0, <1>8 DEF HandleOther, Handle, Counts
  <2> QED  BY <2>1, <2>2, <2>3, <2>4 DEF Typed
<1> QED  BY <1>1, <1>2, <1>3, <1>4, <1>5, <1>6, <1>7, <1>8 DEF Monitor

\* those of the session,
LEMMA SessionTyped ==
  ASSUME Typed, Session
  PROVE  Typed'
<1> USE DEF moduleVars, ringVars, readerVars, sessionVars, callVars, commandVars
<1>0. Lists /\ Modes /\ Calls /\ Counts  BY DEF Typed
<1>1. CASE Pause
  <2>1. Lists'  BY <1>0, <1>1 DEF Pause, ResetRing, ClearRing, Lists
  <2>2. Modes'  BY <1>0, <1>1 DEF Pause, ResetRing, ClearRing, Modes
  <2>3. Calls'  BY <1>0, <1>1, Bounds DEF Pause, ResetRing, ClearRing, Calls
  <2>4. Counts'  BY <1>0, <1>1, Bounds, ClearTyped DEF Pause, Counts
  <2> QED  BY <2>1, <2>2, <2>3, <2>4 DEF Typed
<1>2. CASE CloseSession
  <2>1. Lists'  BY <1>0, <1>2, Seqs DEF CloseSession, Closed, Lists
  <2>2. Modes'  BY <1>0, <1>2 DEF CloseSession, Closed, Modes
  <2>3. Calls'  BY <1>0, <1>2, Bounds DEF CloseSession, Closed, Calls
  <2>4. Counts'  BY <1>0, <1>2 DEF CloseSession, Closed, Counts
  <2> QED  BY <2>1, <2>2, <2>3, <2>4 DEF Typed
<1>3. CASE LinkLost
  <2>1. Lists'  BY <1>0, <1>3, SeqsOf, Seqs, Bounds DEF LinkLost, ResetRing, ClearRing, Closed, Lists
  <2>2. Modes'  BY <1>0, <1>3 DEF LinkLost, ResetRing, ClearRing, Closed, Modes
  <2>3. Calls'  BY <1>0, <1>3, Bounds DEF LinkLost, ResetRing, ClearRing, Closed, Calls
  <2>4. Counts'  BY <1>0, <1>3, Bounds, ClearTyped DEF LinkLost, Closed, Counts
  <2> QED  BY <2>1, <2>2, <2>3, <2>4 DEF Typed
<1>4. CASE Reopen
  <2>1. Lists'
    <3>1. PICK n \in 0..Len(wire) : urcs' \in Notifications(SubSeq(wire, n + 1, Len(wire)))
      BY <1>4 DEF Reopen
    <3>2. urcs' \in Seq(Line)  BY <1>0, <3>1, Cuts, NotificationsFrom DEF Lists
    <3> QED  BY <1>0, <1>4, <3>2, Seqs DEF Reopen, Lists
  <2>2. Modes'  BY <1>0, <1>4 DEF Reopen, Modes
  <2>3. Calls'  BY <1>0, <1>4 DEF Reopen, Calls
  <2>4. Counts'  BY <1>0, <1>4 DEF Reopen, Counts
  <2> QED  BY <2>1, <2>2, <2>3, <2>4 DEF Typed
<1> QED  BY <1>1, <1>2, <1>3, <1>4 DEF Session

\* those of the commands, the controller and the delay.
LEMMA CommandTyped ==
  ASSUME Typed, Command \/ DelayOver
  PROVE  Typed'
<1> USE DEF moduleVars, ringVars, readerVars, sessionVars, callVars, commandVars
<1>0. Lists /\ Modes /\ Calls /\ Counts  BY DEF Typed
<1>1. ASSUME NEW op \in Commands \ {"query"}, ClientWants(op) PROVE Typed'
  <2>0. op \in Voice  BY Bounds
  <2>1. Lists'  BY <1>0, <1>1 DEF ClientWants, Lists
  <2>2. Modes'  BY <1>0, <1>1, <2>0 DEF ClientWants, ResetRing, ClearRing, Modes
  <2>3. Calls'  BY <1>0, <1>1, Bounds DEF ClientWants, ResetRing, ClearRing, Calls
  <2>4. cleared' \in [Call -> Nat] /\ commands' \in 0..MaxCommands
    BY <1>0, <1>1, Bounds, ClearTyped DEF ClientWants, Counts
  <2>5. Counts'  BY <1>0, <1>1, <2>4 DEF ClientWants, Counts
  <2> QED  BY <2>1, <2>2, <2>3, <2>5 DEF Typed
<1>2. CASE CallTimesOut
  <2>1. Lists'  BY <1>0, <1>2 DEF CallTimesOut, Lists
  <2>2. Modes'  BY <1>0, <1>2 DEF CallTimesOut, Modes, Voice
  <2>3. Calls'  BY <1>0, <1>2 DEF CallTimesOut, Calls
  <2>4. Counts'  BY <1>0, <1>2 DEF CallTimesOut, Counts
  <2> QED  BY <2>1, <2>2, <2>3, <2>4 DEF Typed
<1>3. CASE RunCallback
  <2>0. Head(callbacks) \in 0..MaxCalls /\ callbacks' \in Seq(0..MaxCalls)
    BY <1>0, <1>3, SeqsOf DEF RunCallback, Lists
  <2>1. Lists'  BY <1>0, <1>3, <2>0 DEF RunCallback, Lists
  <2>2. Modes'  BY <1>0, <1>3 DEF RunCallback, Modes, Voice
  <2>3. records' \in [Call -> Nat] /\ believed' \in 0..Dialled
    <3>1. records' = records \/ \E c \in 0..MaxCalls : records' = [records EXCEPT ![c] = @ + 1]
      BY <1>3, <2>0 DEF RunCallback
    <3>2. believed' = believed \/ believed' \in 0..MaxCalls
      BY <1>3, <2>0 DEF RunCallback
    <3> QED  BY <1>0, <3>1, <3>2, Bounds DEF Calls
  <2>4. Calls'  BY <1>0, <1>3, <2>3 DEF RunCallback, Calls
  <2>5. Counts'  BY <1>0, <1>3 DEF RunCallback, Counts
  <2> QED  BY <2>1, <2>2, <2>4, <2>5 DEF Typed
<1>4. ASSUME NEW op \in Commands \cup {"ATH"}, SendCommand(op) PROVE Typed'
  <2>0. op \in {"query"} \cup Voice  BY Bounds DEF Voice
  <2>1. Lists'  BY <1>0, <1>4, <2>0, SeqsOf DEF SendCommand, Lists
  <2>2. Modes'  BY <1>0, <1>4, <2>0 DEF SendCommand, Modes
  <2>3. Calls'  BY <1>0, <1>4 DEF SendCommand, Calls
  <2>4. Counts'  BY <1>0, <1>4, Bounds DEF SendCommand, Counts
  <2> QED  BY <2>1, <2>2, <2>3, <2>4 DEF Typed
<1>5. CASE ResponseLine
  <2>1. Lists'  BY <1>0, <1>5, SeqsOf DEF ResponseLine, Lists
  <2>2. Modes'  BY <1>0, <1>5 DEF ResponseLine, Modes
  <2>3. Calls'  BY <1>0, <1>5 DEF ResponseLine, Calls
  <2>4. Counts'  BY <1>0, <1>5 DEF ResponseLine, Counts
  <2> QED  BY <2>1, <2>2, <2>3, <2>4 DEF Typed
<1>6. CASE ResponseEnds
  <2>0. /\ wire' \in Seq(Line) /\ eaten' \in BOOLEAN
    <3>1. PICK n \in 1..Len(wire) :
             /\ wire' = SubSeq(wire, n + 1, Len(wire))
             /\ eaten' = (eaten \/ \E i \in 1..n : IsNews(wire[i]))
      BY <1>6 DEF ResponseEnds
    <3>2. n \in 0..Len(wire)  OBVIOUS
    <3>3. wire' \in Seq(Line)  BY <1>0, <3>1, <3>2, Cuts DEF Lists
    <3> QED  BY <3>1, <3>3
  <2>1. Lists'  BY <1>0, <1>6, <2>0 DEF ResponseEnds, Finish, Lists
  <2>2. Modes'  BY <1>0, <1>6, <2>0 DEF ResponseEnds, Finish, ResetRing, ClearRing, Modes, Voice
  <2>3. Calls'  BY <1>0, <1>6, Bounds DEF ResponseEnds, Finish, ResetRing, ClearRing, Calls
  <2>4. Counts'  BY <1>0, <1>6, ClearTyped DEF ResponseEnds, Counts
  <2> QED  BY <2>1, <2>2, <2>3, <2>4 DEF Typed
<1>7. CASE ResponseTimesOut
  <2>1. Lists'  BY <1>0, <1>7, Seqs DEF ResponseTimesOut, Finish, Lists
  <2>2. Modes'  BY <1>0, <1>7 DEF ResponseTimesOut, Finish, ResetRing, ClearRing, Modes, Voice
  <2>3. Calls'  BY <1>0, <1>7, Bounds DEF ResponseTimesOut, Finish, ResetRing, ClearRing, Calls
  <2>4. Counts'  BY <1>0, <1>7, Bounds, ClearTyped DEF ResponseTimesOut, Counts
  <2> QED  BY <2>1, <2>2, <2>3, <2>4 DEF Typed
<1>8. CASE DelayOver
  <2>1. callbacks' = callbacks \/ callbacks' = Append(callbacks, delay)
    BY <1>8 DEF DelayOver, Deliver
  <2>2. callbacks' \in Seq(0..MaxCalls)  BY <1>0, <2>1, SeqsOf DEF Lists, Calls
  <2>3. Lists'  BY <1>0, <1>8, <2>2 DEF DelayOver, Lists
  <2>4. Modes'
    BY <1>0, <1>8 DEF DelayOver, Deliver, Modes
  <2>5. told' \in [Call -> Nat] /\ delay' \in 0..MaxCalls
    BY <1>0, <1>8, Bounds DEF DelayOver, Deliver, Calls
  <2>6. Calls'  BY <1>0, <1>8, <2>5 DEF DelayOver, Calls
  <2>7. Counts'  BY <1>0, <1>8 DEF DelayOver, Deliver, Counts
  <2> QED  BY <2>3, <2>4, <2>6, <2>7 DEF Typed
<1> QED  BY <1>1, <1>2, <1>3, <1>4, <1>5, <1>6, <1>7, <1>8 DEF Command

\* Every step keeps the types.
LEMMA TypedStep == Typed /\ [Next]_vars => Typed'
<1> SUFFICES ASSUME Typed, [Next]_vars PROVE Typed'  OBVIOUS
<1>1. CASE UNCHANGED vars
  BY <1>1 DEF vars, Typed, Lists, Modes, Calls, Counts
<1> QED  BY <1>1, ModuleTyped, MonitorTyped, CommandTyped, SessionTyped DEF Next

\* Every reachable state is well typed, for any number of calls, messages, commands
\* and failures.
THEOREM WellTyped == Spec => []TypeOK
BY TypedStep, InitTyped, TypedIs, PTL DEF Spec

-----------------------------------------------------------------------------
(* The invariants                                                            *)

\* Between two sessions nobody reads.
Shut == session \in {"closed", "lost"} => cmd = "none" /\ urcs = <<>> /\ batch = <<>>

\* The module is past every line of the stream.
Past(l, call, messages) ==
  /\ l.k \in {"RING", "NO_CARRIER"} => l.n <= call.call
  /\ l.k = "NO_CARRIER" /\ call.state = "ringing" => l.n < call.call
  /\ l.k \in {"CMT", "PDU"} => l.n <= messages
Order == InOrder(Stream) /\ \A i \in 1..Len(Stream) : Past(Stream[i], line, sent)

-----------------------------------------------------------------------------
(* What a step does to the stream                                            *)

\* The stream and its parts, now ...
LEMMA StreamOf ==
  ASSUME Lists
  PROVE  /\ Joined(batch, urcs, wire, Stream)
         /\ Len(batch) \in Nat /\ Len(urcs) \in Nat /\ Len(wire) \in Nat
BY Join, LenProperties DEF Lists, Stream

\* ... and after a step.
LEMMA StreamOfNext ==
  ASSUME Lists'
  PROVE  /\ Joined(batch', urcs', wire', Stream')
         /\ Len(batch') \in Nat /\ Len(urcs') \in Nat /\ Len(wire') \in Nat
BY Join, LenProperties DEF Lists, Stream

\* The first line is handled.
Takes == /\ Len(Stream) \in Nat \ {0} /\ Len(Stream') = Len(Stream) - 1 /\ Stream[1] = Head(batch)
         /\ \A i \in 1..Len(Stream') : Stream'[i] = Stream[i + 1]

\* n lines behind the first k are dropped.
Drops(k, n) ==
  /\ k \in Nat /\ n \in Nat /\ k + n <= Len(Stream) /\ Len(Stream') = Len(Stream) - n
  /\ \A i \in 1..k : Stream'[i] = Stream[i]
  /\ \A i \in (k + 1)..Len(Stream') : Stream'[i] = Stream[i + n]

\* The lines x are new.
Adds(x) == /\ Len(Stream') = Len(Stream) + Len(x)
           /\ \A i \in 1..Len(Stream) : Stream'[i] = Stream[i]
           /\ \A i \in 1..Len(x) : Stream'[Len(Stream) + i] = x[i]

\* An index of the stream is one of its three parts.
LEMMA Place ==
  ASSUME NEW b \in Nat, NEW u \in Nat, NEW w \in Nat, NEW i \in 1..(b + u + w)
  PROVE  i \in 1..b \/ (\E j \in 1..u : i = b + j) \/ (\E j \in 1..w : i = b + u + j)
<1>1. CASE i > b + u
  <2>1. i - (b + u) \in 1..w /\ i = b + u + (i - (b + u))  BY <1>1
  <2> QED  BY <2>1
<1>2. CASE i > b /\ i <= b + u
  <2>1. i - b \in 1..u /\ i = b + (i - b)  BY <1>2
  <2> QED  BY <2>1
<1> QED  BY <1>1, <1>2

\* Concatenation is associative.
LEMMA Associates == \A s, t, u \in Seq(Line) : (s \o t) \o u = s \o (t \o u)
BY ConcatAssociative

\* Every handler takes the first line.
LEMMA HandleTakes ==
  ASSUME Lists, Lists', NEW kind, Handle(kind)
  PROVE  Takes
<1>1. /\ batch # <<>> /\ batch' = Tail(batch) /\ UNCHANGED <<urcs, wire>>
  BY DEF Handle, sessionVars
<1>2. /\ Len(batch) >= 1 /\ Head(batch) = batch[1] /\ Len(batch') = Len(batch) - 1
      /\ \A i \in 1..Len(batch') : batch'[i] = batch[i + 1]
  BY <1>1, HeadTailProperties, Seqs DEF Lists
<1>3. \A i \in 1..Len(batch') : Stream'[i] = Stream[i + 1]
  BY <1>2, StreamOf, StreamOfNext DEF Joined
<1>4. \A j \in 1..Len(urcs) : Stream'[Len(batch') + j] = Stream[(Len(batch') + j) + 1]
  <2> TAKE j \in 1..Len(urcs)
  <2>1. Stream[Len(batch) + j] = urcs[j] /\ Stream'[Len(batch') + j] = urcs[j]
    BY <1>1, StreamOf, StreamOfNext DEF Joined
  <2>2. (Len(batch') + j) + 1 = Len(batch) + j  BY <1>2, StreamOf
  <2> QED  BY <2>1, <2>2
<1>5. \A j \in 1..Len(wire) :
        Stream'[Len(batch') + Len(urcs) + j] = Stream[(Len(batch') + Len(urcs) + j) + 1]
  <2> TAKE j \in 1..Len(wire)
  <2>1. Stream[Len(batch) + Len(urcs) + j] = wire[j]
        /\ Stream'[Len(batch') + Len(urcs) + j] = wire[j]
    BY <1>1, StreamOf, StreamOfNext DEF Joined
  <2>2. (Len(batch') + Len(urcs) + j) + 1 = Len(batch) + Len(urcs) + j  BY <1>2, StreamOf
  <2> QED  BY <2>1, <2>2
<1>6. \A i \in 1..Len(Stream') : Stream'[i] = Stream[i + 1]
  <2> TAKE i \in 1..Len(Stream')
  <2>1. i \in 1..(Len(batch') + Len(urcs) + Len(wire))  BY <1>1, StreamOfNext DEF Joined
  <2>2. Len(batch') \in Nat /\ Len(urcs) \in Nat /\ Len(wire) \in Nat  BY StreamOf, StreamOfNext
  <2>3. \/ i \in 1..Len(batch') \/ \E j \in 1..Len(urcs) : i = Len(batch') + j
        \/ \E j \in 1..Len(wire) : i = Len(batch') + Len(urcs) + j
    BY <2>1, <2>2, Place
  <2> QED  BY <2>3, <1>3, <1>4, <1>5
<1>7. Len(Stream) \in Nat \ {0} /\ Len(Stream') = Len(Stream) - 1
  <2>1. Len(Stream) = Len(batch) + Len(urcs) + Len(wire)  BY StreamOf DEF Joined
  <2>2. Len(Stream') = Len(batch') + Len(urcs) + Len(wire)  BY <1>1, StreamOfNext DEF Joined
  <2>3. \A b, u, w \in Nat : b >= 1 =>
          b + u + w \in Nat \ {0} /\ (b - 1) + u + w = (b + u + w) - 1
    OBVIOUS
  <2> QED  BY <1>2, <2>1, <2>2, <2>3, StreamOf
<1>8. Stream[1] = Head(batch)  BY <1>2, StreamOf DEF Joined
<1> QED  BY <1>6, <1>7, <1>8 DEF Takes

\* The monitor's reads leave the stream as it is: of the kept lines ...
LEMMA DrainStream ==
  ASSUME Lists, DrainUrcs PROVE Stream' = Stream
<1>1. Stream = (<<>> \o urcs) \o wire /\ Stream' = (urcs \o <<>>) \o wire
  BY DEF DrainUrcs, Reading, Stream
<1>2. <<>> \o urcs = urcs /\ urcs \o <<>> = urcs  BY ConcatEmptySeq DEF Lists
<1> QED  BY <1>1, <1>2

\* ... and of the wire.
LEMMA ReadStream ==
  ASSUME Lists, ReadWire PROVE Stream' = Stream
<1>1. PICK n \in 1..Len(wire) : /\ batch' = SubSeq(wire, 1, n)
                                /\ wire' = SubSeq(wire, n + 1, Len(wire))
  BY DEF ReadWire
<1>2. batch = <<>> /\ urcs = <<>> /\ urcs' = <<>>  BY DEF ReadWire, Reading, sessionVars
<1>3. Len(wire) \in Nat /\ wire \in Seq(Line)  BY LenProperties DEF Lists
<1>4. SubSeq(wire, 1, n) \o SubSeq(wire, n + 1, Len(wire)) = SubSeq(wire, 1, Len(wire))
  <2>1. 1 \in 1..Len(wire) + 1 /\ n \in (1 - 1)..Len(wire) /\ Len(wire) \in n..Len(wire)
    BY <1>3
  <2> QED  BY <1>3, <2>1, ConcatAdjacentSubSeq
<1>5. SubSeq(wire, 1, n) \in Seq(Line)
  <2>1. n \in 0..Len(wire)  BY <1>3
  <2> QED  BY <1>3, <2>1, Cuts
<1>6. Stream' = (SubSeq(wire, 1, n) \o <<>>) \o SubSeq(wire, n + 1, Len(wire))
  BY <1>1, <1>2 DEF Stream
<1>7. Stream' = wire  BY <1>3, <1>4, <1>5, <1>6, ConcatEmptySeq, SubSeqFull
<1>8. Stream = (<<>> \o <<>>) \o wire  BY <1>2 DEF Stream
<1>9. <<>> \in Seq(Line)  BY Seqs
<1>10. Stream = wire  BY <1>3, <1>8, <1>9, ConcatEmptySeq
<1> QED  BY <1>7, <1>10

\* A line a command keeps for the monitor stays where it is.
LEMMA KeptStream ==
  ASSUME Lists, wire # <<>>, urcs' = Append(urcs, Head(wire)), wire' = Tail(wire), batch' = batch
  PROVE  Stream' = Stream
<1> DEFINE h == <<Head(wire)>>
<1>1. /\ batch \in Seq(Line) /\ urcs \in Seq(Line) /\ wire \in Seq(Line)
      /\ Head(wire) \in Line /\ Tail(wire) \in Seq(Line) /\ h \in Seq(Line)
  BY Seqs, HeadTailProperties DEF Lists
<1>2. Append(urcs, Head(wire)) = urcs \o h  BY <1>1, AppendIsConcat
<1>3. wire = h \o Tail(wire)
  <2>1. Len(wire) \in Nat /\ Len(wire) >= 1  BY <1>1, Seqs, LenProperties
  <2>2. Tail(wire) = SubSeq(wire, 2, Len(wire)) /\ Head(wire) = wire[1]
    BY <1>1, TailIsSubSeq, Seqs
  <2>3. SubSeq(wire, 1, Len(wire)) = <<wire[1]>> \o SubSeq(wire, 1 + 1, Len(wire))
    BY <1>1, <2>1, SubSeqRecursiveFirst
  <2> QED  BY <1>1, <2>2, <2>3, SubSeqFull
<1> HIDE DEF h
<1>4. Stream' = (batch \o (urcs \o h)) \o Tail(wire)  BY <1>2 DEF Stream
<1>5. batch \o (urcs \o h) = (batch \o urcs) \o h  BY <1>1, Associates
<1>6. ((batch \o urcs) \o h) \o Tail(wire) = (batch \o urcs) \o (h \o Tail(wire))
  <2>1. batch \o urcs \in Seq(Line)  BY <1>1, ConcatProperties
  <2> QED  BY <1>1, <2>1, Associates
<1> QED  BY <1>3, <1>4, <1>5, <1>6 DEF Stream

\* The lines a response takes are dropped, several at its end ...
LEMMA WireDrops ==
  ASSUME Lists, Lists', NEW n \in 1..Len(wire),
         wire' = SubSeq(wire, n + 1, Len(wire)), UNCHANGED <<batch, urcs>>
  PROVE  Drops(Len(batch) + Len(urcs), n)
<1>0. PICK b \in Nat, u \in Nat, w \in Nat : b = Len(batch) /\ u = Len(urcs) /\ w = Len(wire)
  BY StreamOf
<1>1. /\ Len(wire') = w - n
      /\ \A i \in 1..(w - n) : wire'[i] = wire[i + n]
  <2>1. n \in 0..Len(wire)  BY <1>0
  <2> QED  BY <1>0, <2>1, Cuts DEF Lists
<1>2. /\ Len(Stream) = b + u + w /\ \A i \in 1..b : Stream[i] = batch[i]
      /\ \A i \in 1..u : Stream[b + i] = urcs[i]
      /\ \A i \in 1..w : Stream[b + u + i] = wire[i]
  BY <1>0, StreamOf DEF Joined
<1>3. /\ Len(Stream') = b + u + (w - n) /\ \A i \in 1..b : Stream'[i] = batch[i]
      /\ \A i \in 1..u : Stream'[b + i] = urcs[i]
      /\ \A i \in 1..(w - n) : Stream'[b + u + i] = wire'[i]
  BY <1>0, <1>1, StreamOfNext DEF Joined
<1>4. \A i \in 1..(b + u) : Stream'[i] = Stream[i]
  <2> TAKE i \in 1..(b + u)
  <2>1. i \in 1..b \/ \E j \in 1..u : i = b + j
    <3>1. i \in 1..(b + u + 0) /\ 0 \in Nat  OBVIOUS
    <3>2. 1..0 = {}  OBVIOUS
    <3> QED  BY <3>1, <3>2, Place
  <2>2. CASE i \in 1..b  BY <2>2, <1>2, <1>3
  <2>3. ASSUME NEW j \in 1..u, i = b + j PROVE Stream'[i] = Stream[i]
    <3>1. Stream[b + j] = urcs[j] /\ Stream'[b + j] = urcs[j]  BY <1>2, <1>3
    <3> QED  BY <2>3, <3>1
  <2> QED  BY <2>1, <2>2, <2>3
<1>5. \A i \in (b + u + 1)..(b + u + (w - n)) : Stream'[i] = Stream[i + n]
  <2> TAKE i \in (b + u + 1)..(b + u + (w - n))
  <2>1. PICK j \in 1..(w - n) : i = b + u + j
    <3>1. i - (b + u) \in 1..(w - n) /\ i = b + u + (i - (b + u))  BY <1>0
    <3> QED  BY <3>1
  <2>2. Stream'[i] = wire[j + n]  BY <1>1, <1>3, <2>1
  <2>3. j + n \in 1..w /\ i + n = b + u + (j + n)  BY <1>0, <2>1
  <2>4. Stream[b + u + (j + n)] = wire[j + n]  BY <1>2, <2>3
  <2> QED  BY <2>2, <2>3, <2>4
<1>6. n \in Nat /\ n <= w  BY <1>0
<1>7. b + u \in Nat /\ (b + u) + n <= Len(Stream) /\ Len(Stream') = Len(Stream) - n
  BY <1>2, <1>3, <1>6
<1>8. Len(batch) + Len(urcs) = b + u /\ Len(Stream') = b + u + (w - n)  BY <1>0, <1>3
<1> QED  BY <1>4, <1>5, <1>6, <1>7, <1>8 DEF Drops

\* ... and one that is no notification before it.
LEMMA TailDrops ==
  ASSUME Lists, Lists', wire # <<>>, wire' = Tail(wire), UNCHANGED <<batch, urcs>>
  PROVE  Drops(Len(batch) + Len(urcs), 1)
<1>1. 1 \in 1..Len(wire)  BY Seqs, StreamOf DEF Lists
<1>2. wire' = SubSeq(wire, 1 + 1, Len(wire))  BY TailIsSubSeq DEF Lists
<1> QED  BY <1>1, <1>2, WireDrops

\* A session that ends drops the kept lines.
LEMMA CloseDrops ==
  ASSUME Lists, Lists', batch = <<>>, urcs' = <<>>, UNCHANGED <<batch, wire>>
  PROVE  Drops(0, Len(urcs))
<1>1. Len(batch) = 0 /\ Len(batch') = 0 /\ Len(urcs') = 0  BY EmptySeq
<1>2. \A i \in 1..Len(Stream') : Stream'[i] = Stream[i + Len(urcs)]
  <2> TAKE i \in 1..Len(Stream')
  <2>1. i \in 1..Len(wire) /\ i = 0 + 0 + i /\ i + Len(urcs) = 0 + Len(urcs) + i
    BY <1>1, StreamOf, StreamOfNext DEF Joined
  <2>2. Stream'[i] = wire[i]  BY <1>1, <2>1, StreamOfNext DEF Joined
  <2>3. Stream[i + Len(urcs)] = wire[i]  BY <1>1, <2>1, StreamOf DEF Joined
  <2> QED  BY <2>2, <2>3
<1> QED  BY <1>1, <1>2, StreamOf, StreamOfNext DEF Drops, Joined

\* What the module sends comes last.
LEMMA WireAdds ==
  ASSUME Lists, Lists', NEW x \in Seq(Line), wire' = wire \o x, UNCHANGED <<batch, urcs>>
  PROVE  Adds(x)
<1>1. Stream' = Stream \o x
  <2>1. batch \o urcs \in Seq(Line)  BY ConcatProperties DEF Lists
  <2> QED  BY <2>1, Associates DEF Lists, Stream
<1>2. Stream \in Seq(Line) /\ Len(Stream) \in Nat /\ Len(x) \in Nat
  BY StreamOf, LenProperties DEF Joined
<1>3. /\ Len(Stream \o x) = Len(Stream) + Len(x)
      /\ \A i \in 1..(Len(Stream) + Len(x)) :
           (Stream \o x)[i] = IF i <= Len(Stream) THEN Stream[i] ELSE x[i - Len(Stream)]
  BY <1>2, ConcatProperties
<1>4. \A i \in 1..Len(x) : Stream'[Len(Stream) + i] = x[i]
  <2> TAKE i \in 1..Len(x)
  <2>1. Len(Stream) + i \in 1..(Len(Stream) + Len(x)) /\ ~(Len(Stream) + i <= Len(Stream))
        /\ (Len(Stream) + i) - Len(Stream) = i
    BY <1>2
  <2> QED  BY <1>1, <1>3, <2>1
<1> QED  BY <1>1, <1>2, <1>3, <1>4 DEF Adds

\* Each of them but the last leaves part of the stream.
LEMMA PartOf ==
  ASSUME Lists, Lists',
         Stream' = Stream \/ Takes \/ \E k, n \in Nat : Drops(k, n)
  PROVE  Part(Stream', Stream)
<1>0. Len(Stream) \in Nat /\ Len(Stream') \in Nat
  BY StreamOf, StreamOfNext, LenProperties DEF Joined
<1>1. CASE Stream' = Stream
  <2> DEFINE f == [i \in 1..Len(Stream') |-> i]
  <2>1. f \in [1..Len(Stream') -> 1..Len(Stream)]  BY <1>1
  <2> QED  BY <1>0, <1>1, <2>1 DEF Part
<1>2. CASE Takes
  <2> DEFINE f == [i \in 1..Len(Stream') |-> i + 1]
  <2>1. f \in [1..Len(Stream') -> 1..Len(Stream)]  BY <1>0, <1>2 DEF Takes
  <2>2. \A i \in 1..Len(Stream') : Stream'[i] = Stream[f[i]]  BY <1>2 DEF Takes
  <2>3. \A i, j \in 1..Len(Stream') : i < j => f[i] < f[j]  BY <1>0
  <2> QED  BY <2>1, <2>2, <2>3 DEF Part
<1>3. ASSUME NEW k \in Nat, NEW n \in Nat, Drops(k, n) PROVE Part(Stream', Stream)
  <2> DEFINE f == [i \in 1..Len(Stream') |-> IF i <= k THEN i ELSE i + n]
  <2>1. f \in [1..Len(Stream') -> 1..Len(Stream)]  BY <1>0, <1>3 DEF Drops
  <2>2. \A i \in 1..Len(Stream') : Stream'[i] = Stream[f[i]]
    <3> TAKE i \in 1..Len(Stream')
    <3>1. CASE i <= k  BY <1>0, <1>3, <3>1 DEF Drops
    <3>2. CASE ~(i <= k)
      <4>1. i \in (k + 1)..Len(Stream')  BY <1>0, <3>2
      <4>2. Stream'[i] = Stream[i + n]  BY <1>3, <4>1 DEF Drops
      <4>3. f[i] = i + n  BY <3>2
      <4> QED  BY <4>2, <4>3
    <3> QED  BY <3>1, <3>2
  <2>3. \A i, j \in 1..Len(Stream') : i < j => f[i] < f[j]  BY <1>0
  <2> QED  BY <2>1, <2>2, <2>3 DEF Part
<1> QED  BY <1>1, <1>2, <1>3

\* The handshake keeps part of the stream.
LEMMA ReopenPart ==
  ASSUME Lists, Lists', Shut, Reopen
  PROVE  Part(Stream', Stream)
<1>1. PICK m \in 0..Len(wire) : urcs' \in Notifications(SubSeq(wire, m + 1, Len(wire)))
  BY DEF Reopen
<1> DEFINE rest == SubSeq(wire, m + 1, Len(wire))
<1>2. /\ rest \in Seq(Line) /\ Len(rest) = Len(wire) - m
      /\ \A i \in 1..(Len(wire) - m) : rest[i] = wire[i + m]
  BY Cuts DEF Lists
<1> HIDE DEF rest
<1>3. Part(urcs', rest)  BY <1>1, <1>2, NotificationsFrom DEF rest
<1>4. PICK g \in [1..Len(urcs') -> 1..Len(rest)] :
        /\ \A i, j \in 1..Len(urcs') : i < j => g[i] < g[j]
        /\ \A i \in 1..Len(urcs') : urcs'[i] = rest[g[i]]
  BY <1>3 DEF Part
<1>5. batch = <<>> /\ urcs = <<>> /\ batch' = <<>> /\ wire' = <<>>
  BY DEF Reopen, Shut, readerVars
<1>6. /\ Len(Stream) = Len(wire) /\ \A i \in 1..Len(wire) : Stream[0 + 0 + i] = wire[i]
      /\ Len(Stream') = Len(urcs') /\ \A i \in 1..Len(urcs') : Stream'[0 + i] = urcs'[i]
  BY <1>5, StreamOf, StreamOfNext, EmptySeq DEF Joined
<1> DEFINE f == [i \in 1..Len(Stream') |-> g[i] + m]
<1>7. \A i \in 1..Len(Stream') :
        f[i] = g[i] + m /\ g[i] \in 1..(Len(wire) - m) /\ g[i] + m \in 1..Len(wire)
  BY <1>2, <1>4, <1>6, StreamOf
<1>8. f \in [1..Len(Stream') -> 1..Len(Stream)]  BY <1>6, <1>7
<1>9. \A i \in 1..Len(Stream') : Stream'[i] = Stream[f[i]]
  <2> TAKE i \in 1..Len(Stream')
  <2>1. Stream'[i] = urcs'[i] /\ urcs'[i] = rest[g[i]]  BY <1>4, <1>6, StreamOfNext
  <2>2. rest[g[i]] = wire[g[i] + m]  BY <1>2, <1>7
  <2>3. Stream[g[i] + m] = wire[g[i] + m]
    <3>1. 0 + 0 + (g[i] + m) = g[i] + m  BY <1>7, StreamOf
    <3> QED  BY <1>6, <1>7, <3>1
  <2> QED  BY <1>7, <2>1, <2>2, <2>3
<1>10. \A i, j \in 1..Len(Stream') : i < j => f[i] < f[j]
  BY <1>4, <1>6, <1>7, StreamOf, StreamOfNext
<1> QED  BY <1>8, <1>9, <1>10 DEF Part

-----------------------------------------------------------------------------
(* The shapes of a step                                                      *)

\* A call is over or a later one begins; none rings again.
LineMoves == \/ line' = line
             \/ line'.call = line.call /\ line'.state # "ringing"
             \/ line'.call = line.call + 1

\* The ring state stays, but for a delay that ends.
Quiet == /\ Part(Stream', Stream) /\ LineMoves /\ sent' = sent
         /\ UNCHANGED <<told, notified, cleared>> /\ delay' \in {delay, 0}

\* The module sends lines about the call it has, or a new message.
New(l) == /\ l.k = "RING" => l.n = line.call /\ line.state = "ringing" /\ line' = line
          /\ l.k = "NO_CARRIER" /\ l.n # 0 => l.n = line.call /\ line'.state # "ringing"
          /\ l.k \in {"CMT", "PDU"} => l.n = sent + 1 /\ sent' = sent + 1
Sends == /\ \E x \in Seq(Line) : Adds(x) /\ InOrder(x) /\ \A i \in 1..Len(x) : New(x[i])
         /\ LineMoves /\ sent' \in {sent, sent + 1}
         /\ UNCHANGED <<told, notified, cleared, delay>>

\* A RING waits for its number ...
Defers == /\ Takes /\ UNCHANGED <<line, sent, told, notified, cleared>>
          /\ Head(batch).k = "RING" /\ delay' = Head(batch).n

\* ... or is reported, with or without it.
Tells(c) == /\ Part(Stream', Stream) /\ UNCHANGED <<line, sent, cleared>>
            /\ ~notified /\ notified' = TRUE /\ delay' = 0 /\ told' = [told EXCEPT ![c] = @ + 1]
            /\ c = delay \/ (Takes /\ Stream[1].k = "RING" /\ Stream[1].n = c)

\* The ring state is reset by the end of an incoming call ...
HangsUp == /\ Takes /\ UNCHANGED <<line, sent, told, cleared>> /\ delay' = 0
           /\ Stream[1].k = "NO_CARRIER" /\ Stream[1].n # 0

\* ... or for another reason, which is counted.
Clears == Part(Stream', Stream) /\ UNCHANGED <<line, sent, told>> /\ ClearRing

Shape == Quiet \/ Sends \/ Defers \/ (\E c \in Call : Tells(c)) \/ HangsUp \/ Clears

\* A step that touches neither the stream nor the ring state.
LEMMA Apart ==
  ASSUME Typed, Typed', UNCHANGED <<batch, urcs, wire>>, LineMoves, sent' = sent,
         UNCHANGED <<told, notified, cleared>>, delay' \in {delay, 0}
  PROVE  Quiet
<1>1. Stream' = Stream  BY DEF Stream
<1> QED  BY <1>1, PartOf DEF Typed, Quiet

\* The lines of a ring.
LEMMA RingsLines ==
  ASSUME Typed, Rings
  PROVE  /\ line.call \in Call /\ line.state = "ringing"
         /\ \E x \in Seq(Line) : /\ wire' = wire \o x /\ Len(x) \in {1, 2}
                                 /\ x[1] = [k |-> "RING", n |-> line.call]
                                 /\ Len(x) = 2 => x[2] = [k |-> "CLIP", n |-> line.call]
<1>1. line.call \in Call /\ line.state = "ringing"  BY DEF Rings, Typed, Calls
<1> DEFINE r == [k |-> "RING", n |-> line.call]
<1> DEFINE c == [k |-> "CLIP", n |-> line.call]
<1>2. r \in Line /\ c \in Line  BY <1>1, Lines
<1>3. wire' = (wire \o <<r>>) \o <<>> \/ wire' = (wire \o <<r>>) \o <<c>>  BY DEF Rings
<1> HIDE DEF r, c
<1> DEFINE d == Append(<<r>>, c)
<1>4. wire \in Seq(Line) /\ <<r>> \in Seq(Line) /\ <<c>> \in Seq(Line)
  BY <1>2, Seqs DEF Typed, Lists
<1>5. d \in Seq(Line) /\ Len(d) = 2 /\ d[1] = r /\ d[2] = c
  <2>1. Len(<<r>>) = 1 /\ <<r>>[1] = r  OBVIOUS
  <2> QED  BY <1>2, <1>4, <2>1, AppendProperties
<1>6. (wire \o <<r>>) \o <<>> = wire \o <<r>>
  <2>1. wire \o <<r>> \in Seq(Line)  BY <1>4, ConcatProperties
  <2> QED  BY <2>1, ConcatEmptySeq
<1>7. (wire \o <<r>>) \o <<c>> = wire \o d
  <2>1. (wire \o <<r>>) \o <<c>> = wire \o (<<r>> \o <<c>>)  BY <1>4, Associates
  <2>2. <<r>> \o <<c>> = d  BY <1>2, <1>4, AppendIsConcat
  <2> QED  BY <2>1, <2>2
<1> HIDE DEF d
<1>8. \E x \in Seq(Line) : /\ wire' = wire \o x /\ Len(x) \in {1, 2}
                           /\ x[1] = r /\ (Len(x) = 2 => x[2] = c)
  <2>1. Len(<<r>>) = 1 /\ <<r>>[1] = r  OBVIOUS
  <2>2. CASE wire' = wire \o <<r>>
    <3> DEFINE e == <<r>>
    <3>1. e \in Seq(Line) /\ Len(e) = 1 /\ e[1] = r /\ wire' = wire \o e  BY <1>4, <2>1, <2>2
    <3> HIDE DEF e
    <3> QED  BY <3>1
  <2>3. CASE wire' = wire \o d  BY <1>5, <2>3
  <2> QED  BY <1>3, <1>6, <1>7, <2>2, <2>3
<1> QED  BY <1>1, <1>8 DEF r, c

\* The shapes of the module's steps,
LEMMA ModuleShape ==
  ASSUME Typed, Typed', Module
  PROVE  Shape
<1> USE DEF moduleVars, ringVars, readerVars, sessionVars, callVars, commandVars
<1>0. Lists /\ Lists' /\ Calls /\ Counts  BY DEF Typed
<1>1. CASE RemoteCalls
  <2>1. UNCHANGED <<batch, urcs, wire, sent, told, notified, cleared, delay>>
        /\ LineMoves
    BY <1>1 DEF RemoteCalls, LineMoves
  <2> QED  BY <2>1, Apart DEF Shape
<1>2. CASE Rings
  <2>1. PICK x \in Seq(Line) : /\ wire' = wire \o x /\ Len(x) \in {1, 2}
                               /\ x[1] = [k |-> "RING", n |-> line.call]
                               /\ Len(x) = 2 => x[2] = [k |-> "CLIP", n |-> line.call]
    BY <1>2, RingsLines
  <2>2. UNCHANGED <<batch, urcs, line, sent, told, notified, cleared, delay>>
    BY <1>2 DEF Rings
  <2>3. Adds(x)  BY <1>0, <2>1, <2>2, WireAdds
  <2>4. \A i \in 1..Len(x) : New(x[i])
    <3>1. line.state = "ringing"  BY <1>2 DEF Rings
    <3>2. New(x[1]) /\ (Len(x) = 2 => New(x[2]))  BY <2>1, <2>2, <3>1 DEF New
    <3> QED  BY <2>1, <3>2
  <2>5. InOrder(x)  BY <2>1 DEF InOrder, MayPrecede
  <2> QED  BY <2>2, <2>3, <2>4, <2>5 DEF Sends, Shape, LineMoves
<1>3. CASE RemoteHangsUp
  <2> DEFINE l == [k |-> "NO_CARRIER", n |-> IF line.state = "out" THEN 0 ELSE line.call]
  <2>1. l \in Line  BY <1>0, Bounds, Lines DEF Calls
  <2>2. wire' = wire \o <<l>> /\ <<l>> \in Seq(Line)
    BY <1>0, <1>3, <2>1, AppendIsConcat, Seqs DEF RemoteHangsUp, Lists
  <2>3. UNCHANGED <<batch, urcs, sent, told, notified, cleared, delay>>
        /\ line'.call = line.call /\ line'.state # "ringing"
    BY <1>0, <1>3 DEF RemoteHangsUp, Calls
  <2>4. Adds(<<l>>)  BY <1>0, <2>2, <2>3, WireAdds
  <2>5. \A i \in 1..Len(<<l>>) : New(<<l>>[i])  BY <2>3 DEF New
  <2>6. InOrder(<<l>>)  BY DEF InOrder
  <2> QED  BY <2>2, <2>3, <2>4, <2>5, <2>6 DEF Sends, Shape, LineMoves
<1>4. CASE SmsArrives
  <2> DEFINE x == <<[k |-> "CMT", n |-> sent + 1], [k |-> "PDU", n |-> sent + 1]>>
  <2>1. sent + 1 \in Sms  BY <1>0, <1>4, Bounds DEF SmsArrives, Counts, Sms
  <2>2. x \in Seq(Line)  BY <2>1, Lines, Seqs
  <2>3. UNCHANGED <<batch, urcs, line, told, notified, cleared, delay>>
        /\ wire' = wire \o x /\ sent' = sent + 1
    BY <1>4 DEF SmsArrives
  <2>4. Adds(x)  BY <1>0, <2>2, <2>3, WireAdds
  <2>5. \A i \in 1..Len(x) : New(x[i])  BY <2>3 DEF New
  <2>6. InOrder(x)  BY <2>1 DEF InOrder, MayPrecede
  <2> QED  BY <2>2, <2>3, <2>4, <2>5, <2>6 DEF Sends, Shape, LineMoves
<1>5. CASE Replies
  <2>1. PICK l \in {[k |-> "NO_CARRIER", n |-> 0], [k |-> "OK", n |-> 0]} : wire' = Append(wire, l)
    BY <1>5 DEF Replies
  <2>2. l \in Line /\ <<l>> \in Seq(Line)
    <3>1. 0 \in 0..MaxCalls  BY Bounds
    <3> QED  BY <2>1, <3>1, Lines, Seqs
  <2>3. wire' = wire \o <<l>>  BY <1>0, <2>1, <2>2, AppendIsConcat DEF Lists
  <2>4. UNCHANGED <<batch, urcs, sent, told, notified, cleared, delay>>
    BY <1>5 DEF Replies
  <2>5. LineMoves  BY <1>0, <1>5 DEF Replies, Calls, LineMoves
  <2>6. Adds(<<l>>)  BY <1>0, <2>2, <2>3, <2>4, WireAdds
  <2>7. \A i \in 1..Len(<<l>>) : New(<<l>>[i])  BY <2>1 DEF New
  <2>8. InOrder(<<l>>)  BY DEF InOrder
  <2> QED  BY <2>2, <2>4, <2>5, <2>6, <2>7, <2>8 DEF Sends, Shape
<1> QED  BY <1>1, <1>2, <1>3, <1>4, <1>5 DEF Module

\* of the monitor's handlers,
LEMMA HandleShape ==
  ASSUME Typed, Typed',
         HandleRing \/ HandleClip \/ HandleNoCarrier \/ HandleCmt \/ HandlePdu \/ HandleOther
  PROVE  Shape
<1> USE DEF moduleVars, ringVars, readerVars, sessionVars, callVars, commandVars
<1>0. Lists /\ Lists' /\ Calls /\ Counts  BY DEF Typed
<1>1. PICK kind : Handle(kind)
  BY DEF HandleRing, HandleClip, HandleNoCarrier, HandleCmt, HandlePdu, HandleOther
<1>2. Takes  BY <1>0, <1>1, HandleTakes
<1>3. Part(Stream', Stream)  BY <1>0, <1>2, PartOf
<1>4. UNCHANGED <<line, sent>> /\ LineMoves /\ Head(batch) \in Line
      /\ batch # <<>> /\ Head(batch).k = kind /\ Stream[1] = Head(batch)
  BY <1>0, <1>1, <1>2, SeqsOf DEF Handle, LineMoves, Lists, Takes
<1>5. CASE HandleRing
  <2>1. Head(batch).k = "RING" /\ Head(batch).n \in Call
    BY <1>4, <1>5, Lines DEF HandleRing, Handle
  <2>2. CASE notified \/ (number = 0 /\ delay # 0)
    BY <1>3, <1>4, <1>5, <2>1, <2>2 DEF HandleRing, Defer, Deliver, Quiet, Shape
  <2>3. CASE number = 0 /\ delay = 0 /\ ~notified
    BY <1>2, <1>4, <1>5, <2>1, <2>3 DEF HandleRing, Defer, Defers, Shape
  <2>4. CASE number # 0 /\ ~notified
    <3>1. Tells(Head(batch).n)
      BY <1>2, <1>3, <1>4, <1>5, <2>1, <2>4 DEF HandleRing, Deliver, Tells
    <3> QED  BY <2>1, <3>1 DEF Shape
  <2> QED  BY <2>2, <2>3, <2>4
<1>6. CASE HandleClip
  <2>1. CASE delay = 0 \/ notified
    BY <1>3, <1>4, <1>6, <2>1 DEF HandleClip, Deliver, Quiet, Shape
  <2>2. CASE delay # 0 /\ ~notified
    <3>1. delay \in Call  BY <1>0, <2>2, Bounds DEF Calls, Call
    <3>2. Tells(delay)  BY <1>3, <1>4, <1>6, <2>2 DEF HandleClip, Deliver, Tells
    <3> QED  BY <3>1, <3>2 DEF Shape
  <2> QED  BY <2>1, <2>2
<1>7. CASE HandleNoCarrier
  <2>1. Head(batch).k = "NO_CARRIER" /\ told' = told /\ delay' = 0
    BY <1>7 DEF HandleNoCarrier, Handle, ClearRing, ResetRing
  <2>2. CASE Head(batch).n # 0
    <3>1. cleared' = cleared  BY <1>7, <2>2 DEF HandleNoCarrier
    <3> QED  BY <1>2, <1>4, <2>1, <2>2, <3>1 DEF HangsUp, Shape
  <2>3. CASE Head(batch).n = 0
    <3>1. ClearRing  BY <1>7, <2>3 DEF HandleNoCarrier
    <3> QED  BY <1>3, <1>4, <2>1, <3>1 DEF Clears, Shape
  <2> QED  BY <2>2, <2>3
<1>8. CASE HandleCmt \/ HandlePdu \/ HandleOther
  BY <1>3, <1>4, <1>8 DEF HandleCmt, HandlePdu, HandleOther, Quiet, Shape
<1> QED  BY <1>5, <1>6, <1>7, <1>8

\* of the delay,
LEMMA TimerShape ==
  ASSUME Typed, Typed', DelayOver
  PROVE  Shape
<1> USE DEF moduleVars, ringVars, readerVars, sessionVars, callVars, commandVars
<1>1. UNCHANGED <<batch, urcs, wire, line, sent>>
  BY DEF DelayOver
<1>2. LineMoves  BY <1>1 DEF LineMoves
<1>3. CASE notified
  BY <1>1, <1>2, <1>3, Apart DEF DelayOver, Shape
<1>4. CASE ~notified
  <2>1. Part(Stream', Stream)
    <3>1. Stream' = Stream  BY <1>1 DEF Stream
    <3> QED  BY <3>1, PartOf DEF Typed
  <2>2. delay \in Call  BY Bounds DEF Typed, Calls, Call, DelayOver
  <2>3. Tells(delay)  BY <1>1, <1>4, <2>1 DEF DelayOver, Deliver, Tells
  <2> QED  BY <2>2, <2>3 DEF Shape
<1> QED  BY <1>3, <1>4

\* of the commands and the controller,
LEMMA CommandShape ==
  ASSUME Typed, Typed', Command
  PROVE  Shape
<1> USE DEF moduleVars, ringVars, readerVars, sessionVars, callVars, commandVars
<1>0. Lists /\ Lists'  BY DEF Typed
<1>1. ASSUME NEW op \in Commands \ {"query"}, ClientWants(op) PROVE Shape
  <2>1. UNCHANGED <<batch, urcs, wire, line, sent, told>> /\ LineMoves
    BY <1>1 DEF ClientWants, LineMoves
  <2>2. CASE op # "ATD"  BY <1>1, <2>1, <2>2, Apart DEF ClientWants, Shape
  <2>3. CASE op = "ATD"
    <3>1. Part(Stream', Stream)
      <4>1. Stream' = Stream  BY <2>1 DEF Stream
      <4> QED  BY <1>0, <4>1, PartOf
    <3> QED  BY <1>0, <1>1, <2>1, <2>3, <3>1 DEF ClientWants, Clears, Shape
  <2> QED  BY <2>2, <2>3
<1>2. CASE CallTimesOut \/ RunCallback
  <2>1. UNCHANGED <<batch, urcs, wire, line, sent, told, notified, cleared, delay>>
        /\ LineMoves
    BY <1>2 DEF CallTimesOut, RunCallback, LineMoves
  <2> QED  BY <2>1, Apart DEF Shape
<1>3. ASSUME NEW op \in Commands \cup {"ATH"}, SendCommand(op) PROVE Shape
  <2>1. UNCHANGED <<batch, urcs, wire, line, sent, told, notified, cleared, delay>>
        /\ LineMoves
    BY <1>3 DEF SendCommand, LineMoves
  <2> QED  BY <2>1, Apart DEF Shape
<1>4. CASE ResponseLine
  <2>1. UNCHANGED <<batch, line, sent, told, notified, cleared, delay>>
        /\ LineMoves
    BY <1>4 DEF ResponseLine, LineMoves
  <2>2. Part(Stream', Stream)
    <3>1. wire # <<>> /\ wire' = Tail(wire)  BY <1>4 DEF ResponseLine
    <3>2. CASE urcs' = Append(urcs, Head(wire))
      BY <1>0, <2>1, <3>1, <3>2, KeptStream, PartOf
    <3>3. CASE urcs' = urcs
      <4>1. Drops(Len(batch) + Len(urcs), 1)  BY <1>0, <2>1, <3>1, <3>3, TailDrops
      <4> QED  BY <1>0, <4>1, PartOf DEF Drops
    <3> QED  BY <1>4, <3>2, <3>3 DEF ResponseLine
  <2> QED  BY <2>1, <2>2 DEF Quiet, Shape
<1>5. CASE ResponseEnds
  <2>1. UNCHANGED <<batch, urcs, line, sent, told>> /\ LineMoves
    BY <1>5 DEF ResponseEnds, Finish, LineMoves
  <2>2. Part(Stream', Stream)
    <3>1. PICK n \in 1..Len(wire) : wire' = SubSeq(wire, n + 1, Len(wire))
      BY <1>5 DEF ResponseEnds
    <3>2. Drops(Len(batch) + Len(urcs), n)  BY <1>0, <2>1, <3>1, WireDrops
    <3> QED  BY <1>0, <3>2, PartOf DEF Drops
  <2>3. CASE cmd = "ATH" /\ Head(wire).k = "OK"
    BY <1>0, <1>5, <2>1, <2>2, <2>3 DEF ResponseEnds, Clears, Shape
  <2>4. CASE ~(cmd = "ATH" /\ Head(wire).k = "OK")
    BY <1>5, <2>1, <2>2, <2>4 DEF ResponseEnds, Quiet, Shape
  <2> QED  BY <2>3, <2>4
<1>6. CASE ResponseTimesOut
  <2>1. UNCHANGED <<batch, urcs, wire, line, sent, told>> /\ ClearRing
    BY <1>6 DEF ResponseTimesOut, Finish
  <2>2. Part(Stream', Stream)
    <3>1. Stream' = Stream  BY <2>1 DEF Stream
    <3> QED  BY <1>0, <3>1, PartOf
  <2> QED  BY <1>0, <2>1, <2>2 DEF Clears, Shape
<1> QED  BY <1>1, <1>2, <1>3, <1>4, <1>5, <1>6 DEF Command

\* and of the session.
LEMMA SessionShape ==
  ASSUME Typed, Typed', Shut, Session \/ DrainUrcs \/ ReadWire
  PROVE  Shape
<1> USE DEF moduleVars, ringVars, readerVars, sessionVars, callVars, commandVars
<1>0. Lists /\ Lists'  BY DEF Typed
<1>1. CASE Pause
  <2>1. UNCHANGED <<batch, urcs, wire, line, sent, told>> /\ ClearRing
    BY <1>1 DEF Pause
  <2>2. Part(Stream', Stream)
    <3>1. Stream' = Stream  BY <2>1 DEF Stream
    <3> QED  BY <1>0, <3>1, PartOf
  <2> QED  BY <1>0, <2>1, <2>2 DEF Clears, Shape
<1>2. CASE CloseSession \/ LinkLost
  <2>1. batch = <<>> /\ urcs' = <<>> /\ delay' = 0
        /\ UNCHANGED <<batch, wire, line, sent, told>>
    BY <1>2 DEF CloseSession, LinkLost, Reading, Closed, ClearRing, ResetRing
  <2>2. Drops(0, Len(urcs))  BY <1>0, <2>1, CloseDrops
  <2>3. Part(Stream', Stream)  BY <1>0, <2>2, PartOf DEF Drops
  <2>4. CASE CloseSession
    BY <2>1, <2>3, <2>4 DEF CloseSession, Quiet, LineMoves, Shape
  <2>5. CASE LinkLost
    BY <1>0, <2>1, <2>3, <2>5 DEF LinkLost, Clears, Shape
  <2> QED  BY <1>2, <2>4, <2>5
<1>3. CASE Reopen
  <2>1. UNCHANGED <<line, sent, told, notified, cleared, delay>>
        /\ LineMoves
    BY <1>3 DEF Reopen, LineMoves
  <2>2. Part(Stream', Stream)  BY <1>0, <1>3, ReopenPart
  <2> QED  BY <2>1, <2>2 DEF Quiet, Shape
<1>4. CASE DrainUrcs \/ ReadWire
  <2>1. UNCHANGED <<line, sent, told, notified, cleared, delay>>
        /\ LineMoves
    BY <1>4 DEF DrainUrcs, ReadWire, LineMoves
  <2>2. Stream' = Stream  BY <1>0, <1>4, DrainStream, ReadStream
  <2>3. Part(Stream', Stream)  BY <1>0, <2>2, PartOf
  <2> QED  BY <2>1, <2>3 DEF Quiet, Shape
<1> QED  BY <1>1, <1>2, <1>3, <1>4 DEF Session

\* Every step has one of the shapes.
LEMMA Shapes ==
  ASSUME Typed, Typed', Shut, [Next]_vars
  PROVE  Shape
<1>1. CASE UNCHANGED vars
  <2>1. UNCHANGED <<batch, urcs, wire, line, sent, told, notified, cleared, delay>>
        /\ LineMoves
    BY <1>1 DEF vars, LineMoves
  <2> QED  BY <2>1, Apart DEF Shape
<1> QED
  BY <1>1, ModuleShape, HandleShape, TimerShape, CommandShape, SessionShape DEF Next, Monitor

-----------------------------------------------------------------------------
(* Between sessions *)

\* Between two sessions nobody reads, at the start ...
LEMMA ShutInit == Init => Shut
BY DEF Init, Shut

\* ... and after every step.
LEMMA ShutStep ==
  ASSUME Typed, Shut, [Next]_vars
  PROVE  Shut'
<1> USE DEF moduleVars, ringVars, readerVars, sessionVars, callVars, commandVars
<1>1. CASE UNCHANGED vars  BY <1>1 DEF vars, Shut
<1>2. CASE Module
  BY <1>2 DEF Module, RemoteCalls, Rings, RemoteHangsUp, SmsArrives, Replies, Shut
<1>3. CASE DrainUrcs \/ ReadWire
  BY <1>3 DEF DrainUrcs, ReadWire, Reading, Shut
<1>4. ASSUME NEW kind, Handle(kind) PROVE Shut'
  <2>1. session \notin {"closed", "lost"}  BY <1>4 DEF Handle, Shut
  <2> QED  BY <1>4, <2>1 DEF Handle, Shut
<1>5. CASE DelayOver
  BY <1>5 DEF DelayOver, Shut
<1>6. CASE Command
  <2>1. CASE ResponseTimesOut  BY <2>1 DEF ResponseTimesOut, Shut
  <2>2. CASE ResponseLine \/ ResponseEnds
    <3>1. session \notin {"closed", "lost"}  BY <2>2 DEF ResponseLine, ResponseEnds, Shut
    <3> QED  BY <2>2, <3>1 DEF ResponseLine, ResponseEnds, Shut
  <2>3. ASSUME NEW op, SendCommand(op) PROVE Shut'
    BY <2>3 DEF SendCommand, Shut
  <2>4. ASSUME NEW op, ClientWants(op) PROVE Shut'
    BY <2>4 DEF ClientWants, Shut
  <2>5. CASE CallTimesOut \/ RunCallback
    BY <2>5 DEF CallTimesOut, RunCallback, Shut
  <2> QED  BY <1>6, <2>1, <2>2, <2>3, <2>4, <2>5 DEF Command
<1>7. CASE Session
  <2>1. CASE Pause  BY <2>1 DEF Pause, Shut
  <2>2. CASE CloseSession  BY <2>2 DEF CloseSession, Closed, Shut
  <2>3. CASE LinkLost  BY <2>3 DEF LinkLost, Reading, Closed, Shut
  <2>4. CASE Reopen  BY <2>4 DEF Reopen, Shut
  <2> QED  BY <1>7, <2>1, <2>2, <2>3, <2>4 DEF Session
<1> QED
  BY <1>1, <1>2, <1>3, <1>4, <1>5, <1>6, <1>7
  DEF Next, Monitor, HandleRing, HandleClip, HandleNoCarrier, HandleCmt, HandlePdu, HandleOther

-----------------------------------------------------------------------------
(* Order *)

\* The lines of the stream, now ...
LEMMA Streams ==
  ASSUME Lists
  PROVE  /\ Stream \in Seq(Line) /\ Len(Stream) \in Nat /\ DOMAIN Stream = 1..Len(Stream)
         /\ \A i \in 1..Len(Stream) : Stream[i] \in Line
BY StreamOf, LenProperties, ElementOfSeq DEF Joined

\* ... and after a step.
LEMMA StreamsNext ==
  ASSUME Lists'
  PROVE  /\ Stream' \in Seq(Line) /\ Len(Stream') \in Nat /\ DOMAIN Stream' = 1..Len(Stream')
         /\ \A i \in 1..Len(Stream') : Stream'[i] \in Line
BY StreamOfNext, LenProperties, ElementOfSeq DEF Joined

\* The lines that are left are in their order.
LEMMA PartOrdered ==
  ASSUME Typed, Typed', Order, Part(Stream', Stream), LineMoves, sent' = sent
  PROVE  Order'
<1>0. Lists /\ Lists' /\ Calls /\ Calls'  BY DEF Typed
<1>1. PICK f \in [1..Len(Stream') -> 1..Len(Stream)] :
        /\ \A i, j \in 1..Len(Stream') : i < j => f[i] < f[j]
        /\ \A i \in 1..Len(Stream') : Stream'[i] = Stream[f[i]]
  BY DEF Part
<1>2. InOrder(Stream')
  <2> SUFFICES ASSUME NEW i \in 1..Len(Stream'), NEW j \in 1..Len(Stream'), i < j
               PROVE  MayPrecede(Stream'[i], Stream'[j])
    BY DEF InOrder
  <2>1. f[i] < f[j] /\ f[i] \in 1..Len(Stream) /\ f[j] \in 1..Len(Stream)  BY <1>1
  <2>2. MayPrecede(Stream[f[i]], Stream[f[j]])  BY <2>1 DEF Order, InOrder
  <2> QED  BY <1>1, <2>2
<1>3. ASSUME NEW i \in 1..Len(Stream') PROVE Past(Stream'[i], line', sent')
  <2>1. f[i] \in 1..Len(Stream) /\ Stream'[i] = Stream[f[i]]  BY <1>1
  <2>2. Past(Stream[f[i]], line, sent) /\ Stream[f[i]] \in Line
    BY <1>0, <2>1, Streams DEF Order
  <2> DEFINE l == Stream[f[i]]
  <2>3. l.k = "RING" \/ l.k = "NO_CARRIER" => l.n \in Nat
    BY <2>2, Lines, Bounds DEF Call
  <2>4. line.call \in Nat /\ line'.call \in Nat  BY <1>0, Bounds DEF Calls
  <2> HIDE DEF l
  <2>5. l.k \in {"RING", "NO_CARRIER"} => l.n <= line'.call
    BY <2>2, <2>3, <2>4 DEF Past, LineMoves, l
  <2>6. l.k = "NO_CARRIER" /\ line'.state = "ringing" => l.n < line'.call
    BY <2>2, <2>3, <2>4 DEF Past, LineMoves, l
  <2>7. l.k \in {"CMT", "PDU"} => l.n <= sent'
    BY <2>2 DEF Past, l
  <2> QED  BY <2>1, <2>5, <2>6, <2>7 DEF Past, l
<1> QED  BY <1>2, <1>3 DEF Order

\* New lines are about the latest call and message.
LEMMA AddsOrdered ==
  ASSUME Typed, Typed', Order, Sends
  PROVE  Order'
<1>0. Lists /\ Lists' /\ Calls /\ Calls' /\ sent \in Nat  BY Bounds DEF Typed, Counts
<1>1. PICK x \in Seq(Line) : Adds(x) /\ InOrder(x) /\ \A i \in 1..Len(x) : New(x[i])
  BY DEF Sends
<1>2. LineMoves /\ sent' \in {sent, sent + 1}  BY DEF Sends
<1>3. Len(x) \in Nat /\ \A i \in 1..Len(x) : x[i] \in Line  BY LenProperties, ElementOfSeq
<1> PICK n \in Nat, m \in Nat : n = Len(Stream) /\ m = Len(x)  BY <1>0, <1>3, Streams
<1>4. /\ Len(Stream') = n + m
      /\ \A i \in 1..n : Stream'[i] = Stream[i]
      /\ \A i \in 1..m : Stream'[n + i] = x[i]
  BY <1>1 DEF Adds
<1>5. \A i \in 1..(n + m) : i \in 1..n \/ \E j \in 1..m : i = n + j
  <2> TAKE i \in 1..(n + m)
  <2>1. CASE i > n
    <3>1. i - n \in 1..m /\ i = n + (i - n)  BY <2>1
    <3> QED  BY <3>1
  <2> QED  BY <2>1
<1>6. line.call \in Nat /\ line'.call \in Nat /\ (line'.state = "ringing" => line'.call > 0)
  BY <1>0, Bounds DEF Calls, Call
<1>7. \A l \in Line :
        (l.k = "RING" \/ l.k = "NO_CARRIER" \/ l.k = "CMT" \/ l.k = "PDU") => l.n \in Nat
  BY Lines, Bounds DEF Call, Sms
<1>8. InOrder(Stream')
  <2> SUFFICES ASSUME NEW i \in 1..(n + m), NEW j \in 1..(n + m), i < j
               PROVE  MayPrecede(Stream'[i], Stream'[j])
    BY <1>4 DEF InOrder
  <2>1. CASE i \in 1..n /\ j \in 1..n
    BY <1>4, <2>1 DEF Order, InOrder
  <2>2. ASSUME NEW a \in 1..m, NEW b \in 1..m, i = n + a, j = n + b
        PROVE  MayPrecede(Stream'[i], Stream'[j])
    <3>1. a < b  BY <2>2
    <3>2. MayPrecede(x[a], x[b])  BY <1>1, <3>1 DEF InOrder
    <3> QED  BY <1>4, <2>2, <3>2
  <2>3. ASSUME i \in 1..n, NEW b \in 1..m, j = n + b PROVE MayPrecede(Stream'[i], Stream'[j])
    <3>1. Stream'[i] = Stream[i] /\ Stream'[j] = x[b] /\ Stream[i] \in Line /\ x[b] \in Line
      BY <1>0, <1>3, <1>4, <2>3, Streams
    <3>2. Past(Stream[i], line, sent) /\ New(x[b])  BY <1>1, <2>3 DEF Order
    <3> PICK l \in Line, r \in Line : l = Stream[i] /\ r = x[b]  BY <3>1
    <3>3. Past(l, line, sent) /\ New(r)  BY <3>2
    <3>4. l.k = "RING" /\ r.k \in {"RING", "NO_CARRIER"} /\ r.n # 0 => l.n <= r.n
      BY <3>3 DEF Past, New
    <3>5. l.k = "NO_CARRIER" /\ r.k = "RING" => l.n < r.n
      BY <3>3 DEF Past, New
    <3>6. l.k \in {"CMT", "PDU"} /\ r.k \in {"CMT", "PDU"} => l.n < r.n
      BY <1>0, <1>7, <3>3 DEF Past, New
    <3> QED  BY <3>1, <3>4, <3>5, <3>6 DEF MayPrecede
  <2>4. ASSUME NEW a \in 1..m, i = n + a, j \in 1..n PROVE FALSE
    BY <2>4
  <2> QED  BY <1>5, <2>1, <2>2, <2>3, <2>4
<1>9. ASSUME NEW i \in 1..(n + m) PROVE Past(Stream'[i], line', sent')
  <2>1. CASE i \in 1..n
    <3>1. Stream'[i] = Stream[i] /\ Past(Stream[i], line, sent) /\ Stream[i] \in Line
      BY <1>0, <1>4, <2>1, Streams DEF Order
    <3> PICK l \in Line : l = Stream[i]  BY <3>1
    <3>2. Past(l, line, sent)  BY <3>1
    <3>3. l.k \in {"RING", "NO_CARRIER"} => l.n <= line'.call
      BY <1>2, <1>6, <1>7, <3>2 DEF Past, LineMoves
    <3>4. l.k = "NO_CARRIER" /\ line'.state = "ringing" => l.n < line'.call
      BY <1>2, <1>6, <1>7, <3>2 DEF Past, LineMoves
    <3>5. l.k \in {"CMT", "PDU"} => l.n <= sent'
      BY <1>0, <1>2, <1>7, <3>2 DEF Past
    <3> QED  BY <3>1, <3>3, <3>4, <3>5 DEF Past
  <2>2. ASSUME NEW a \in 1..m, i = n + a PROVE Past(Stream'[i], line', sent')
    <3>1. Stream'[i] = x[a] /\ New(x[a]) /\ x[a] \in Line  BY <1>1, <1>3, <1>4, <2>2
    <3> PICK l \in Line : l = x[a]  BY <3>1
    <3>2. New(l)  BY <3>1
    <3>3. l.k \in {"RING", "NO_CARRIER"} => l.n <= line'.call
      BY <1>2, <1>6, <1>7, <3>2 DEF New, LineMoves
    <3>4. l.k = "NO_CARRIER" /\ line'.state = "ringing" => l.n < line'.call
      BY <1>2, <1>6, <1>7, <3>2 DEF New, LineMoves
    <3>5. l.k \in {"CMT", "PDU"} => l.n <= sent'
      BY <1>0, <1>2, <1>7, <3>2 DEF New
    <3> QED  BY <3>1, <3>3, <3>4, <3>5 DEF Past
  <2> QED  BY <1>5, <2>1, <2>2
<1> QED  BY <1>4, <1>8, <1>9 DEF Order

\* Every shape keeps the order.
LEMMA OrderStep ==
  ASSUME Typed, Typed', Order, Shape
  PROVE  Order'
<1>1. CASE Sends  BY <1>1, AddsOrdered
<1>2. CASE Quiet  BY <1>2, PartOrdered DEF Quiet
<1>3. CASE Defers \/ HangsUp
  <2>1. Part(Stream', Stream) /\ LineMoves /\ sent' = sent
    BY <1>3, PartOf DEF Defers, HangsUp, LineMoves, Typed
  <2> QED  BY <2>1, PartOrdered
<1>4. CASE (\E c \in Call : Tells(c)) \/ Clears
  <2>1. Part(Stream', Stream) /\ LineMoves /\ sent' = sent
    BY <1>4 DEF Tells, Clears, LineMoves
  <2> QED  BY <2>1, PartOrdered
<1> QED  BY <1>1, <1>2, <1>3, <1>4 DEF Shape

\* The empty stream is in order.
LEMMA OrderInit == Init => Order
<1> SUFFICES ASSUME Init PROVE Order  OBVIOUS
<1>1. Stream = <<>>  BY ConcatEmptySeq, Seqs DEF Init, Stream
<1>2. Len(Stream) = 0  BY <1>1, EmptySeq
<1> QED  BY <1>2 DEF Order, InOrder

\* What the next two invariants rest on.
Settled == Typed /\ Shut /\ Order

\* It holds at the start ...
LEMMA SettledInit == Init => Settled
BY InitTyped, ShutInit, OrderInit DEF Settled

\* ... and after every step.
LEMMA SettledStep == Settled /\ [Next]_vars => Settled'
<1> SUFFICES ASSUME Settled, [Next]_vars PROVE Settled'  OBVIOUS
<1>1. Typed'  BY TypedStep DEF Settled
<1> QED  BY <1>1, ShutStep, Shapes, OrderStep DEF Settled

\* Whoever reads them, lines reach the monitor in the order the module sent them:
\* lines kept in `urcs` during a command come before what is still on the wire, and
\* nothing that is dropped reorders the rest.
THEOREM Ordered == Spec => []StreamInOrder
<1>1. Settled => StreamInOrder  BY DEF Settled, Order, StreamInOrder
<1> QED  BY <1>1, SettledInit, SettledStep, PTL DEF Spec

-----------------------------------------------------------------------------
(* Reports *)

\* How often a call may have been reported.
Limit(c) == 1 + cleared[c]
NoRing(c) == \A i \in 1..Len(Stream) : Stream[i].k = "RING" => Stream[i].n # c

\* No ring of the call is left, here or at the module.
Gone(c) == /\ delay # c /\ NoRing(c)
           /\ c <= line.call /\ (line.call = c => line.state # "ringing")

\* No incoming call before c has its NO CARRIER in the stream.
Current(c) == /\ c <= line.call
              /\ \A i \in 1..Len(Stream) :
                   Stream[i].k = "NO_CARRIER" /\ Stream[i].n # 0 => c <= Stream[i].n

Reports == \A c \in Call : /\ told[c] <= Limit(c)
                           /\ told[c] = Limit(c) => notified \/ Gone(c)
                           /\ told[c] > 0 \/ delay = c => Current(c)

\* A line that is left was there.
LEMMA Kept ==
  ASSUME Part(Stream', Stream)
  PROVE  \A i \in 1..Len(Stream') : \E j \in 1..Len(Stream) : Stream'[i] = Stream[j]
BY DEF Part

\* Lines that go leave a call current ...
LEMMA CurrentKept ==
  ASSUME Typed, Typed', Part(Stream', Stream), LineMoves, NEW c \in Call, Current(c)
  PROVE  Current(c)'
<1>1. c \in Nat /\ line.call \in Nat /\ line'.call \in Nat  BY Bounds DEF Typed, Calls, Call
<1>2. c <= line'.call  BY <1>1 DEF Current, LineMoves
<1>3. ASSUME NEW i \in 1..Len(Stream'), Stream'[i].k = "NO_CARRIER", Stream'[i].n # 0
      PROVE  c <= Stream'[i].n
  <2>1. PICK j \in 1..Len(Stream) : Stream'[i] = Stream[j]  BY Kept
  <2> QED  BY <1>3, <2>1 DEF Current
<1> QED  BY <1>2, <1>3 DEF Current

\* ... and one that is gone, gone.
LEMMA GoneKept ==
  ASSUME Typed, Typed', Part(Stream', Stream), LineMoves, delay' \in {delay, 0},
         NEW c \in Call, Gone(c)
  PROVE  Gone(c)'
<1>1. c \in Nat \ {0} /\ line.call \in Nat /\ line'.call \in Nat
  BY Bounds DEF Typed, Calls, Call
<1>2. c <= line'.call /\ (line'.call = c => line'.state # "ringing")
  BY <1>1 DEF Gone, LineMoves
<1>3. ASSUME NEW i \in 1..Len(Stream'), Stream'[i].k = "RING" PROVE Stream'[i].n # c
  <2>1. PICK j \in 1..Len(Stream) : Stream'[i] = Stream[j]  BY Kept
  <2> QED  BY <1>3, <2>1 DEF Gone, NoRing
<1>4. delay' # c  BY <1>1 DEF Gone
<1> QED  BY <1>2, <1>3, <1>4 DEF Gone, NoRing

\* A call whose RING is the first line of the stream.
LEMMA RingIsCurrent ==
  ASSUME Typed, Typed', Order, Takes, UNCHANGED line, NEW c \in Call,
         Stream[1].k = "RING", Stream[1].n = c
  PROVE  Current(c)' /\ ~NoRing(c)
<1>0. Lists /\ Lists'  BY DEF Typed
<1>1. 1 \in 1..Len(Stream)  BY DEF Takes
<1>2. c <= line'.call  BY <1>1 DEF Order, Past
<1>3. ASSUME NEW i \in 1..Len(Stream'), Stream'[i].k = "NO_CARRIER", Stream'[i].n # 0
      PROVE  c <= Stream'[i].n
  <2>1. i + 1 \in 1..Len(Stream) /\ 1 < i + 1 /\ Stream'[i] = Stream[i + 1]
    BY <1>0, Streams, StreamsNext DEF Takes
  <2>2. MayPrecede(Stream[1], Stream[i + 1])  BY <1>1, <2>1 DEF Order, InOrder
  <2> QED  BY <1>3, <2>1, <2>2 DEF MayPrecede
<1> QED  BY <1>1, <1>2, <1>3 DEF Current, NoRing

\* Every shape keeps the count of reports.
LEMMA ReportsStep ==
  ASSUME Typed, Typed', Order, Reports, Shape
  PROVE  Reports'
<1>0. Lists /\ Lists'  BY DEF Typed
<1>1. /\ cleared \in [Call -> Nat] /\ cleared' \in [Call -> Nat]
      /\ told \in [Call -> Nat] /\ told' \in [Call -> Nat]
      /\ Call \subseteq Nat \ {0} /\ line.call \in Nat /\ line'.call \in Nat
  <2>1. cleared \in [Call -> Nat] /\ cleared' \in [Call -> Nat]  BY DEF Typed, Counts
  <2>2. Call \subseteq Nat \ {0} /\ line.call \in Nat /\ line'.call \in Nat
    BY Bounds DEF Typed, Calls, Call
  <2> QED  BY <2>1, <2>2 DEF Typed, Calls
<1> SUFFICES ASSUME NEW c \in Call
             PROVE  /\ told'[c] <= Limit(c)'
                    /\ told'[c] = Limit(c)' => notified' \/ Gone(c)'
                    /\ told'[c] > 0 \/ delay' = c => Current(c)'
  BY DEF Reports
<1>2. /\ told[c] <= Limit(c)
      /\ told[c] = Limit(c) => notified \/ Gone(c)
      /\ told[c] > 0 \/ delay = c => Current(c)
  BY DEF Reports
<1>3. c \in Nat \ {0} /\ told[c] \in Nat /\ Limit(c) \in Nat \ {0}  BY <1>1 DEF Limit
<1>4. CASE Quiet
  <2>1. Limit(c)' = Limit(c) /\ told' = told /\ notified' = notified /\ delay' \in {delay, 0}
    BY <1>4 DEF Quiet, Limit
  <2>2. Gone(c) => Gone(c)'  BY <1>4, GoneKept DEF Quiet
  <2>3. Current(c) => Current(c)'  BY <1>4, CurrentKept DEF Quiet
  <2> QED  BY <1>2, <1>3, <2>1, <2>2, <2>3
<1>5. CASE Sends
  <2>1. PICK x \in Seq(Line) : Adds(x) /\ \A i \in 1..Len(x) : New(x[i])  BY <1>5 DEF Sends
  <2> PICK n \in Nat, m \in Nat : n = Len(Stream) /\ m = Len(x)  BY <1>0, Streams, LenProperties
  <2>2. /\ Len(Stream') = n + m
        /\ \A i \in 1..n : Stream'[i] = Stream[i]
        /\ \A i \in 1..m : Stream'[n + i] = x[i]
    BY <2>1 DEF Adds
  <2>3. \A i \in 1..(n + m) : i \in 1..n \/ \E j \in 1..m : i = n + j
    <3> TAKE i \in 1..(n + m)
    <3>1. CASE i > n
      <4>1. i - n \in 1..m /\ i = n + (i - n)  BY <3>1
      <4> QED  BY <4>1
    <3> QED  BY <3>1
  <2>4. \A i \in 1..Len(Stream') :
          (\E j \in 1..Len(Stream) : Stream'[i] = Stream[j]) \/ New(Stream'[i])
    <3> TAKE i \in 1..Len(Stream')
    <3>1. CASE i \in 1..n  BY <2>2, <3>1
    <3>2. ASSUME NEW j \in 1..m, i = n + j PROVE New(Stream'[i])  BY <2>1, <2>2, <3>2
    <3> QED  BY <2>2, <2>3, <3>1, <3>2
  <2>5. LineMoves /\ UNCHANGED <<told, notified, delay>> /\ Limit(c)' = Limit(c)
    BY <1>5 DEF Sends, Limit
  <2>6. ASSUME Gone(c) PROVE Gone(c)'
    <3>1. c <= line'.call /\ (line'.call = c => line'.state # "ringing")
      BY <1>1, <1>3, <2>5, <2>6 DEF Gone, LineMoves
    <3>2. ASSUME NEW i \in 1..Len(Stream'), Stream'[i].k = "RING" PROVE Stream'[i].n # c
      BY <2>4, <2>6, <3>2 DEF Gone, NoRing, New
    <3> QED  BY <2>5, <2>6, <3>1, <3>2 DEF Gone, NoRing
  <2>7. ASSUME Current(c) PROVE Current(c)'
    <3>1. c <= line'.call  BY <1>1, <1>3, <2>5, <2>7 DEF Current, LineMoves
    <3>2. ASSUME NEW i \in 1..Len(Stream'), Stream'[i].k = "NO_CARRIER", Stream'[i].n # 0
          PROVE  c <= Stream'[i].n
      BY <2>4, <2>7, <3>2 DEF Current, New
    <3> QED  BY <3>1, <3>2 DEF Current
  <2> QED  BY <1>2, <1>3, <2>5, <2>6, <2>7
<1>6. CASE Defers
  <2>1. /\ Takes /\ UNCHANGED <<line, told, notified>> /\ Limit(c)' = Limit(c)
        /\ Stream[1].k = "RING" /\ delay' = Stream[1].n
    BY <1>6 DEF Defers, Takes, Limit
  <2>2. Part(Stream', Stream) /\ LineMoves  BY <1>0, <2>1, PartOf DEF LineMoves
  <2>3. CASE delay' = c
    <3>1. Current(c)' /\ ~NoRing(c)  BY <2>1, <2>3, RingIsCurrent
    <3> QED  BY <1>2, <2>1, <3>1 DEF Gone
  <2>4. CASE delay' # c
    <3>1. Current(c) => Current(c)'  BY <2>2, CurrentKept
    <3>2. ASSUME Gone(c) PROVE Gone(c)'
      <4>1. NoRing(c)'
        <5> SUFFICES ASSUME NEW i \in 1..Len(Stream'), Stream'[i].k = "RING" PROVE Stream'[i].n # c
          BY DEF NoRing
        <5>1. PICK j \in 1..Len(Stream) : Stream'[i] = Stream[j]  BY <2>2, Kept
        <5> QED  BY <3>2, <5>1 DEF Gone, NoRing
      <4> QED  BY <2>1, <2>4, <3>2, <4>1 DEF Gone
    <3> QED  BY <1>2, <2>1, <2>4, <3>1, <3>2
  <2> QED  BY <2>3, <2>4
<1>7. ASSUME NEW d \in Call, Tells(d) PROVE /\ told'[c] <= Limit(c)' /\ notified'
                                            /\ told'[c] > 0 \/ delay' = c => Current(c)'
  <2>1. /\ Part(Stream', Stream) /\ LineMoves /\ Limit(c)' = Limit(c)
        /\ ~notified /\ notified' /\ delay' = 0
        /\ told' = [told EXCEPT ![d] = @ + 1] /\ UNCHANGED line
    BY <1>7 DEF Tells, Limit, LineMoves
  <2>2. CASE c # d
    <3>1. told'[c] = told[c] /\ delay' # c  BY <1>1, <1>3, <2>1, <2>2
    <3> QED  BY <1>2, <2>1, <3>1, CurrentKept
  <2>3. CASE c = d
    <3>1. told'[c] = told[c] + 1  BY <1>1, <2>1, <2>3
    <3>2. CASE c = delay
      <4>1. ~Gone(c) /\ Current(c)'  BY <1>2, <2>1, <3>2, CurrentKept DEF Gone
      <4> QED  BY <1>2, <1>3, <2>1, <3>1, <4>1
    <3>3. CASE Takes /\ Stream[1].k = "RING" /\ Stream[1].n = c
      <4>1. ~Gone(c) /\ Current(c)'  BY <2>1, <3>3, RingIsCurrent DEF Gone
      <4> QED  BY <1>2, <1>3, <2>1, <3>1, <4>1
    <3> QED  BY <1>7, <2>3, <3>2, <3>3 DEF Tells
  <2> QED  BY <2>2, <2>3
<1>8. CASE HangsUp
  <2>1. /\ Takes /\ UNCHANGED <<line, told>> /\ Limit(c)' = Limit(c) /\ delay' = 0 /\ LineMoves
        /\ Stream[1].k = "NO_CARRIER" /\ Stream[1].n # 0
    BY <1>8 DEF HangsUp, Limit, LineMoves
  <2>2. Part(Stream', Stream)  BY <1>0, <2>1, PartOf
  <2>3. ASSUME told[c] > 0 PROVE Gone(c)'
    <3>1. 1 \in 1..Len(Stream) /\ Stream[1] \in Line  BY <1>0, <2>1, Streams DEF Takes
    <3> PICK e \in Nat : e = Stream[1].n  BY <2>1, <3>1, Lines, Bounds
    <3>2. c <= e /\ c <= line.call  BY <1>2, <2>1, <2>3, <3>1 DEF Current
    <3>3. line.state = "ringing" => e < line.call  BY <2>1, <3>1 DEF Order, Past
    <3>4. NoRing(c)'
      <4> SUFFICES ASSUME NEW i \in 1..Len(Stream'), Stream'[i].k = "RING" PROVE Stream'[i].n # c
        BY DEF NoRing
      <4>1. i + 1 \in 1..Len(Stream) /\ 1 < i + 1 /\ Stream'[i] = Stream[i + 1]
        BY <1>0, <2>1, Streams, StreamsNext DEF Takes
      <4>2. MayPrecede(Stream[1], Stream[i + 1])  BY <3>1, <4>1 DEF Order, InOrder
      <4>3. e < Stream'[i].n  BY <2>1, <4>1, <4>2 DEF MayPrecede
      <4> QED  BY <1>3, <3>2, <4>3
    <3> QED  BY <1>1, <1>3, <2>1, <3>2, <3>3, <3>4 DEF Gone
  <2> QED  BY <1>2, <1>3, <2>1, <2>2, <2>3, CurrentKept
<1>9. CASE Clears
  <2>1. /\ told' = told /\ delay' = 0 /\ Part(Stream', Stream) /\ LineMoves
        /\ cleared'[c] = IF notified /\ told[c] > 0 THEN cleared[c] + 1 ELSE cleared[c]
    BY <1>9 DEF Clears, ClearRing, ResetRing, LineMoves
  <2>2. Current(c) => Current(c)'  BY <2>1, CurrentKept
  <2>3. Gone(c) => Gone(c)'  BY <2>1, GoneKept
  <2>4. CASE notified /\ told[c] > 0
    <3>1. Limit(c)' = Limit(c) + 1  BY <1>1, <2>1, <2>4 DEF Limit
    <3> QED  BY <1>2, <1>3, <2>1, <2>2, <3>1
  <2>5. CASE told[c] = 0
    <3>1. Limit(c)' = Limit(c)  BY <2>1, <2>5 DEF Limit
    <3> QED  BY <1>2, <1>3, <2>1, <2>2, <2>5, <3>1
  <2>6. CASE ~notified /\ told[c] > 0
    <3>1. Limit(c)' = Limit(c)  BY <2>1, <2>6 DEF Limit
    <3> QED  BY <1>2, <2>1, <2>2, <2>3, <2>6, <3>1
  <2> QED  BY <1>3, <2>4, <2>5, <2>6
<1> QED  BY <1>4, <1>5, <1>6, <1>7, <1>8, <1>9 DEF Shape

\* Nothing is reported at the start.
LEMMA ReportsInit == Init => Reports
<1> SUFFICES ASSUME Init, NEW c \in Call
             PROVE  told[c] = 0 /\ Limit(c) = 1 /\ delay # c
  BY DEF Reports
<1> QED  BY Bounds DEF Init, Limit, Call

\* A ringing call is reported at most once, plus once for each time something other than
\* the end of an incoming call has cleared the latch after its report: the NO CARRIER of
\* one call cannot make another one, or the same one, ring again.
THEOREM Reported == Spec => []ReportedOnce
<1>1. Settled /\ Reports /\ [Next]_vars => (Settled /\ Reports)'
  <2> SUFFICES ASSUME Settled, Reports, [Next]_vars PROVE Settled' /\ Reports'  OBVIOUS
  <2>1. Settled'  BY SettledStep
  <2> QED  BY <2>1, Shapes, ReportsStep DEF Settled
<1>2. Reports => ReportedOnce  BY DEF Reports, Limit, ReportedOnce
<1> QED  BY <1>1, <1>2, SettledInit, ReportsInit, PTL DEF Spec

-----------------------------------------------------------------------------
(* Messages *)

\* The PDU of message m.
Pdu(m) == [k |-> "PDU", n |-> m]

\* Every PDU in the stream is about to be handled with its header ...
Headed == \A i \in 1..Len(Stream) :
  Stream[i].k = "PDU" => IF i = 1 THEN header ELSE Stream[i - 1].k = "CMT"

\* ... and that of every message that is not stored is in the stream.
Whole == /\ Headed
         /\ \A m \in 1..sent : m \in stored \/ \E i \in 1..Len(Stream) : Stream[i] = Pdu(m)

Messages == eaten \/ dropped \/ Whole

\* Messages stay whole when nothing moves,
LEMMA SameWhole ==
  ASSUME Whole, Stream' = Stream, UNCHANGED <<header, stored, sent>>
  PROVE  Whole'
BY DEF Whole, Headed

\* when the module sends lines,
LEMMA MoreWhole ==
  ASSUME Typed, Whole, NEW x \in Seq(Line), Adds(x), UNCHANGED <<header, stored>>,
         \A i \in 1..Len(x) : x[i].k = "PDU" => i > 1 /\ x[i - 1].k = "CMT",
         \A m \in 1..sent' : m \in 1..sent \/ \E i \in 1..Len(x) : x[i] = Pdu(m)
  PROVE  Whole'
<1>0. Lists  BY DEF Typed
<1> PICK n \in Nat, p \in Nat : n = Len(Stream) /\ p = Len(x)  BY <1>0, Streams, LenProperties
<1>1. /\ Len(Stream') = n + p
      /\ \A i \in 1..n : Stream'[i] = Stream[i]
      /\ \A i \in 1..p : Stream'[n + i] = x[i]
  BY DEF Adds
<1>2. ASSUME NEW i \in 1..(n + p), Stream'[i].k = "PDU"
      PROVE  IF i = 1 THEN header' ELSE Stream'[i - 1].k = "CMT"
  <2>1. CASE i \in 1..n
    <3>1. Stream[i].k = "PDU"  BY <1>1, <1>2, <2>1
    <3>2. i # 1 => i - 1 \in 1..n  BY <2>1
    <3> QED  BY <1>1, <2>1, <3>1, <3>2 DEF Whole, Headed
  <2>2. CASE i > n
    <3> DEFINE j == i - n
    <3>1. j \in 1..p /\ i = n + j  BY <2>2
    <3>2. x[j].k = "PDU"  BY <1>1, <1>2, <3>1
    <3>3. j > 1 /\ x[j - 1].k = "CMT"  BY <3>1, <3>2
    <3>4. j - 1 \in 1..p /\ n + (j - 1) = i - 1 /\ i # 1  BY <3>1, <3>3
    <3>5. Stream'[n + (j - 1)] = x[j - 1]  BY <1>1, <3>4
    <3> QED  BY <3>3, <3>4, <3>5
  <2> QED  BY <2>1, <2>2
<1>3. ASSUME NEW m \in 1..sent', m \notin stored' PROVE \E i \in 1..(n + p) : Stream'[i] = Pdu(m)
  <2>1. CASE m \in 1..sent
    <3>1. PICK i \in 1..n : Stream[i] = Pdu(m)  BY <1>3, <2>1 DEF Whole
    <3>2. i \in 1..(n + p) /\ Stream'[i] = Pdu(m)  BY <1>1, <3>1
    <3> QED  BY <3>2
  <2>2. ASSUME NEW i \in 1..p, x[i] = Pdu(m) PROVE \E j \in 1..(n + p) : Stream'[j] = Pdu(m)
    <3>1. n + i \in 1..(n + p)  OBVIOUS
    <3> QED  BY <1>1, <2>2, <3>1
  <2> QED  BY <2>1, <2>2
<1> QED  BY <1>1, <1>2, <1>3 DEF Whole, Headed

\* when a line is handled,
LEMMA TakenWhole ==
  ASSUME Typed, Typed', Whole, Takes, sent' = sent, stored \subseteq stored',
         Stream[1].k = "CMT" => header',
         Stream[1].k = "PDU" /\ header => Stream[1].n \in stored'
  PROVE  Whole'
<1>0. Lists /\ Lists'  BY DEF Typed
<1> PICK n \in Nat \ {0} : n = Len(Stream)  BY DEF Takes
<1>1. Len(Stream') = n - 1 /\ \A i \in 1..(n - 1) : Stream'[i] = Stream[i + 1]  BY DEF Takes
<1>2. ASSUME NEW i \in 1..(n - 1), Stream'[i].k = "PDU"
      PROVE  IF i = 1 THEN header' ELSE Stream'[i - 1].k = "CMT"
  <2>1. i + 1 \in 1..n /\ i + 1 # 1 /\ (i + 1) - 1 = i  OBVIOUS
  <2>2. Stream[i].k = "CMT"  BY <1>1, <1>2, <2>1 DEF Whole, Headed
  <2>3. CASE i # 1
    <3>1. i - 1 \in 1..(n - 1) /\ (i - 1) + 1 = i  BY <2>3
    <3> QED  BY <1>1, <2>2, <2>3, <3>1
  <2> QED  BY <2>2, <2>3
<1>3. ASSUME NEW m \in 1..sent', m \notin stored' PROVE \E i \in 1..(n - 1) : Stream'[i] = Pdu(m)
  <2>1. PICK i \in 1..n : Stream[i] = Pdu(m)  BY <1>3 DEF Whole
  <2>2. i # 1  BY <1>3, <2>1 DEF Whole, Headed, Pdu
  <2>3. i - 1 \in 1..(n - 1) /\ (i - 1) + 1 = i  BY <2>2
  <2> QED  BY <1>1, <2>1, <2>3
<1> QED  BY <1>1, <1>2, <1>3 DEF Whole, Headed

\* when lines are dropped that are of no message,
LEMMA DroppedWhole ==
  ASSUME Typed, Typed', Whole, UNCHANGED <<header, stored, sent>>,
         NEW k \in Nat, NEW n \in Nat \ {0}, Drops(k, n),
         \A i \in (k + 1)..(k + n) : ~IsMessage(Stream[i])
  PROVE  Whole'
<1>0. Lists /\ Lists'  BY DEF Typed
<1> PICK p \in Nat : p = Len(Stream')  BY <1>0, StreamsNext
<1>1. /\ Len(Stream) = p + n /\ k <= p
      /\ \A i \in 1..k : Stream'[i] = Stream[i]
      /\ \A i \in (k + 1)..p : Stream'[i] = Stream[i + n]
  <2>1. Len(Stream) \in Nat  BY <1>0, Streams
  <2> QED  BY <2>1 DEF Drops
<1>2. ASSUME NEW i \in 1..p, Stream'[i].k = "PDU"
      PROVE  IF i = 1 THEN header' ELSE Stream'[i - 1].k = "CMT"
  <2>1. CASE i \in 1..k
    <3>1. i \in 1..(p + n) /\ Stream[i].k = "PDU"  BY <1>1, <1>2, <2>1
    <3>2. i # 1 => i - 1 \in 1..k  BY <2>1
    <3> QED  BY <1>1, <2>1, <3>1, <3>2 DEF Whole, Headed
  <2>2. CASE i > k
    <3>1. i \in (k + 1)..p /\ i + n \in 1..(p + n) /\ i + n # 1  BY <2>2
    <3>2. Stream[(i + n) - 1].k = "CMT"  BY <1>1, <1>2, <3>1 DEF Whole, Headed
    <3>3. i # k + 1
      <4> SUFFICES ASSUME i = k + 1 PROVE FALSE  OBVIOUS
      <4>1. (i + n) - 1 \in (k + 1)..(k + n)  OBVIOUS
      <4> QED  BY <3>2, <4>1 DEF IsMessage
    <3>4. i - 1 \in (k + 1)..p /\ (i - 1) + n = (i + n) - 1 /\ i # 1  BY <3>1, <3>3
    <3> QED  BY <1>1, <3>2, <3>4
  <2> QED  BY <2>1, <2>2
<1>3. ASSUME NEW m \in 1..sent', m \notin stored' PROVE \E i \in 1..p : Stream'[i] = Pdu(m)
  <2>1. PICK i \in 1..(p + n) : Stream[i] = Pdu(m)  BY <1>1, <1>3 DEF Whole
  <2>2. i \notin (k + 1)..(k + n)  BY <2>1 DEF IsMessage, Pdu
  <2>3. CASE i <= k  BY <1>1, <2>1, <2>3
  <2>4. CASE i > k + n
    <3>1. i - n \in (k + 1)..p /\ i - n \in 1..p /\ (i - n) + n = i  BY <2>4
    <3>2. Stream'[i - n] = Stream[(i - n) + n]  BY <1>1, <3>1
    <3>3. Stream'[i - n] = Pdu(m)  BY <2>1, <3>1, <3>2
    <3> QED  BY <3>1, <3>3
  <2> QED  BY <2>2, <2>3, <2>4
<1> QED  BY <1>2, <1>3 DEF Whole, Headed

\* The handshake keeps every notification, and none comes in between.
LEMMA NotificationsAll ==
  ASSUME NEW s \in Seq(Line), NEW t \in Notifications(s)
  PROVE  \E f \in [1..Len(t) -> 1..Len(s)] :
           /\ \A i, j \in 1..Len(t) : i < j => f[i] < f[j]
           /\ \A i \in 1..Len(t) : t[i] = s[f[i]]
           /\ \A p \in 1..Len(s) : IsUrc(s[p]) => \E i \in 1..Len(t) : f[i] = p
<1> DEFINE kept == {i \in DOMAIN s : IsUrc(s[i])}
<1>1. PICK f \in [1..Cardinality(kept) -> kept] :
        /\ \A i, j \in DOMAIN f : i < j => f[i] < f[j]
        /\ t = [i \in DOMAIN f |-> s[f[i]]]
  BY DEF Notifications
<1>2. Len(s) \in Nat /\ DOMAIN s = 1..Len(s)  BY LenProperties
<1>3. IsFiniteSet(kept) /\ Cardinality(kept) \in Nat
  <2>1. IsFiniteSet(1..Len(s))  BY <1>2, FS_Interval
  <2>2. IsFiniteSet(kept)  BY <1>2, <2>1, FS_Subset
  <2> QED  BY <2>2, FS_CardinalityType
<1>4. \A p \in 1..Len(s) : IsUrc(s[p]) => p \in kept  BY <1>2
<1> HIDE DEF kept
<1>5. kept \subseteq 1..Len(s)  BY <1>2 DEF kept
<1> PICK n \in Nat : n = Cardinality(kept)  BY <1>3
<1>6. Len(t) = n /\ DOMAIN f = 1..n
  <2>1. t \in Seq(Line)  BY NotificationsFrom
  <2> QED  BY <1>1, <2>1, LenProperties
<1>7. ASSUME NEW p \in kept PROVE \E i \in 1..n : f[i] = p
  <2> SUFFICES ASSUME \A i \in 1..n : f[i] # p PROVE FALSE  OBVIOUS
  <2>1. f \in [1..n -> kept \ {p}]  BY <1>1
  <2>2. IsFiniteSet(kept \ {p}) /\ Cardinality(kept \ {p}) = n - 1
    BY <1>3, FS_RemoveElement
  <2>3. IsFiniteSet(1..n) /\ Cardinality(1..n) = n  BY FS_Interval
  <2>4. PICK i, j \in 1..n : i # j /\ f[i] = f[j]  BY <2>1, <2>2, <2>3, FS_PigeonHole
  <2>5. f[i] \in Nat /\ f[j] \in Nat
    <3>1. \A x \in kept : x \in Nat  BY <1>2, <1>5
    <3> QED  BY <2>1, <3>1
  <2> QED  BY <1>1, <1>6, <2>4, <2>5
<1>8. f \in [1..n -> 1..Len(s)]  BY <1>1, <1>5
<1> QED  BY <1>1, <1>4, <1>6, <1>7, <1>8

\* and when a handshake takes no line of a message.
LEMMA ReopenWhole ==
  ASSUME Typed, Typed', Shut, Whole, Reopen, ~dropped'
  PROVE  Whole'
<1>0. Lists /\ Lists' /\ UNCHANGED <<header, stored, sent>>
  BY DEF Typed, Reopen, readerVars, moduleVars
<1>1. PICK m \in 0..Len(wire) :
        /\ urcs' \in Notifications(SubSeq(wire, m + 1, Len(wire)))
        /\ \A i \in 1..m : ~IsMessage(wire[i])
  BY DEF Reopen
<1> DEFINE rest == SubSeq(wire, m + 1, Len(wire))
<1> PICK w \in Nat, n \in Nat : w = Len(wire) /\ n = Len(urcs')  BY <1>0, LenProperties DEF Lists
<1>2. rest \in Seq(Line) /\ Len(rest) = w - m /\ \A i \in 1..(w - m) : rest[i] = wire[i + m]
  BY <1>0, Cuts DEF Lists
<1> HIDE DEF rest
<1>3. PICK g \in [1..n -> 1..(w - m)] :
        /\ \A i, j \in 1..n : i < j => g[i] < g[j]
        /\ \A i \in 1..n : urcs'[i] = rest[g[i]]
        /\ \A p \in 1..(w - m) : IsUrc(rest[p]) => \E i \in 1..n : g[i] = p
  <2> DEFINE Embeds(k, l) == \E g \in [1..k -> 1..l] :
                /\ \A i, j \in 1..k : i < j => g[i] < g[j]
                /\ \A i \in 1..k : urcs'[i] = rest[g[i]]
                /\ \A p \in 1..l : IsUrc(rest[p]) => \E i \in 1..k : g[i] = p
  <2>1. urcs' \in Notifications(rest)  BY <1>1 DEF rest
  <2>2. Embeds(Len(urcs'), Len(rest))  BY <1>2, <2>1, NotificationsAll
  <2> HIDE DEF Embeds
  <2>3. n = Len(urcs') /\ w - m = Len(rest)  BY <1>2
  <2>4. Embeds(n, w - m)  BY <2>2, <2>3
  <2> QED  BY <2>4 DEF Embeds
<1>4. batch = <<>> /\ urcs = <<>> /\ batch' = <<>> /\ wire' = <<>>
  BY DEF Reopen, Shut, readerVars
<1>5. /\ Len(Stream) = w /\ \A i \in 1..w : Stream[0 + 0 + i] = wire[i]
      /\ Len(Stream') = n /\ \A i \in 1..n : Stream'[0 + i] = urcs'[i]
  BY <1>0, <1>4, StreamOf, StreamOfNext, EmptySeq DEF Joined
<1>6. \A i \in 1..w : Stream[i] = wire[i]  BY <1>5
<1>7. \A i \in 1..n : /\ g[i] \in 1..(w - m) /\ g[i] + m \in 1..w
                      /\ Stream'[i] = Stream[g[i] + m]
  <2> TAKE i \in 1..n
  <2>1. g[i] \in 1..(w - m) /\ g[i] + m \in 1..w  OBVIOUS
  <2>2. Stream'[i] = urcs'[i]  BY <1>5
  <2>3. urcs'[i] = wire[g[i] + m]  BY <1>2, <1>3, <2>1
  <2> QED  BY <1>6, <2>1, <2>2, <2>3
<1>8. \A p \in 1..w : IsMessage(Stream[p]) => \E i \in 1..n : g[i] + m = p
  <2> TAKE p \in 1..w
  <2> HAVE IsMessage(Stream[p])
  <2>1. p > m /\ p - m \in 1..(w - m) /\ (p - m) + m = p  BY <1>1, <1>6
  <2>2. IsUrc(rest[p - m])  BY <1>2, <1>6, <2>1 DEF IsMessage, IsUrc
  <2>3. PICK i \in 1..n : g[i] = p - m  BY <1>3, <2>1, <2>2
  <2> QED  BY <2>1, <2>3
<1>9. ASSUME NEW i \in 1..n, Stream'[i].k = "PDU"
      PROVE  IF i = 1 THEN header' ELSE Stream'[i - 1].k = "CMT"
  <2> DEFINE p == g[i] + m
  <2>1. p \in 1..w /\ Stream[p].k = "PDU"  BY <1>7, <1>9
  <2>2. CASE p = 1
    <3>1. i = 1
      <4>1. i # 1 => 1 \in 1..n /\ g[1] \in 1..(w - m) /\ g[1] < g[i]  BY <1>3
      <4> QED  BY <1>7, <2>2, <4>1
    <3> QED  BY <1>0, <1>5, <2>1, <2>2, <3>1 DEF Whole, Headed
  <2>3. CASE p # 1
    <3>1. p - 1 \in 1..w /\ Stream[p - 1].k = "CMT"  BY <1>5, <2>1, <2>3 DEF Whole, Headed
    <3>2. PICK j \in 1..n : g[j] + m = p - 1  BY <1>8, <3>1 DEF IsMessage
    <3>3. g[j] + 1 = g[i]  BY <1>7, <3>2
    <3>4. j < i
      <4>1. g[j] \in Nat /\ g[i] \in Nat /\ (j = i \/ i < j \/ j < i)  BY <1>7
      <4> QED  BY <1>3, <3>3, <4>1
    <3>5. j = i - 1
      <4> SUFFICES ASSUME j # i - 1 PROVE FALSE  OBVIOUS
      <4>1. i - 1 \in 1..n /\ j < i - 1 /\ i - 1 < i  BY <3>4
      <4>2. g[j] < g[i - 1] /\ g[i - 1] < g[i] /\ g[i - 1] \in Nat  BY <1>3, <1>7, <4>1
      <4> QED  BY <1>7, <3>3, <4>2
    <3>6. Stream'[j].k = "CMT"  BY <1>7, <3>1, <3>2
    <3> QED  BY <3>4, <3>5, <3>6
  <2> QED  BY <2>2, <2>3
<1>10. ASSUME NEW a \in 1..sent', a \notin stored' PROVE \E i \in 1..n : Stream'[i] = Pdu(a)
  <2>1. PICK p \in 1..w : Stream[p] = Pdu(a)  BY <1>0, <1>5, <1>10 DEF Whole
  <2>2. PICK i \in 1..n : g[i] + m = p  BY <1>8, <2>1 DEF IsMessage, Pdu
  <2> QED  BY <1>7, <2>1, <2>2
<1> QED  BY <1>5, <1>9, <1>10 DEF Whole, Headed

\* What is lost stays lost.
LEMMA Losing ==
  ASSUME Typed, [Next]_vars
  PROVE  (eaten => eaten') /\ (dropped => dropped')
<1> USE DEF moduleVars, ringVars, readerVars, sessionVars, callVars, commandVars
<1>0. eaten \in BOOLEAN /\ dropped \in BOOLEAN  BY DEF Typed, Modes
<1>1. CASE UNCHANGED vars  BY <1>1 DEF vars
<1>2. CASE Module
  BY <1>2 DEF Module, RemoteCalls, Rings, RemoteHangsUp, SmsArrives, Replies
<1>3. CASE DrainUrcs \/ ReadWire \/ DelayOver
  BY <1>3 DEF DrainUrcs, ReadWire, DelayOver
<1>4. ASSUME NEW kind, Handle(kind) PROVE UNCHANGED <<eaten, dropped>>
  BY <1>4 DEF Handle
<1>5. CASE Command
  <2>1. ASSUME NEW op, ClientWants(op) \/ SendCommand(op) PROVE UNCHANGED <<eaten, dropped>>
    BY <2>1 DEF ClientWants, SendCommand
  <2>2. CASE CallTimesOut \/ RunCallback  BY <2>2 DEF CallTimesOut, RunCallback
  <2>3. CASE ResponseLine \/ ResponseEnds \/ ResponseTimesOut
    BY <1>0, <2>3 DEF ResponseLine, ResponseEnds, ResponseTimesOut
  <2> QED  BY <1>5, <2>1, <2>2, <2>3 DEF Command
<1>6. CASE Session
  BY <1>0, <1>6 DEF Session, Pause, CloseSession, LinkLost, Reopen, Closed
<1> QED
  BY <1>1, <1>2, <1>3, <1>4, <1>5, <1>6
  DEF Next, Monitor, HandleRing, HandleClip, HandleNoCarrier, HandleCmt, HandlePdu, HandleOther

\* So the module's steps keep them,
LEMMA ModuleWhole ==
  ASSUME Typed, Typed', Whole, Module
  PROVE  Whole'
<1> USE DEF moduleVars, ringVars, readerVars, sessionVars, callVars, commandVars
<1>0. Lists /\ Lists' /\ Calls /\ sent \in Nat  BY Bounds DEF Typed, Counts
<1>1. CASE RemoteCalls
  <2>1. Stream' = Stream /\ UNCHANGED <<header, stored, sent>>
    BY <1>1 DEF RemoteCalls, Stream
  <2> QED  BY <2>1, SameWhole
<1>2. CASE Rings
  <2>1. PICK x \in Seq(Line) : /\ wire' = wire \o x /\ Len(x) \in {1, 2}
                               /\ x[1] = [k |-> "RING", n |-> line.call]
                               /\ Len(x) = 2 => x[2] = [k |-> "CLIP", n |-> line.call]
    BY <1>2, RingsLines
  <2>2. UNCHANGED <<batch, urcs, header, stored, sent>>  BY <1>2 DEF Rings
  <2>3. Adds(x)  BY <1>0, <2>1, <2>2, WireAdds
  <2>4. \A i \in 1..Len(x) : x[i].k # "PDU"  BY <2>1
  <2> QED  BY <2>2, <2>3, <2>4, MoreWhole
<1>3. CASE SmsArrives
  <2> DEFINE x == <<[k |-> "CMT", n |-> sent + 1], [k |-> "PDU", n |-> sent + 1]>>
  <2>1. sent + 1 \in Sms  BY <1>0, <1>3, Bounds DEF SmsArrives, Sms
  <2>2. x \in Seq(Line)  BY <2>1, Lines, Seqs
  <2>3. UNCHANGED <<batch, urcs, header, stored>> /\ wire' = wire \o x /\ sent' = sent + 1
    BY <1>3 DEF SmsArrives
  <2>4. Adds(x)  BY <1>0, <2>2, <2>3, WireAdds
  <2>5. \A i \in 1..Len(x) : x[i].k = "PDU" => i > 1 /\ x[i - 1].k = "CMT"  OBVIOUS
  <2>6. \A m \in 1..sent' : m \in 1..sent \/ \E i \in 1..Len(x) : x[i] = Pdu(m)
    <3> TAKE m \in 1..sent'
    <3>1. m \in 1..sent \/ m = sent + 1  BY <1>0, <2>3
    <3>2. x[2] = Pdu(sent + 1) /\ 2 \in 1..Len(x)  BY DEF Pdu
    <3> QED  BY <3>1, <3>2
  <2> QED  BY <2>2, <2>3, <2>4, <2>5, <2>6, MoreWhole
<1>4. CASE RemoteHangsUp \/ Replies
  <2>1. PICK l \in [k : {"NO_CARRIER", "OK"}, n : 0..MaxCalls] :
          wire' = Append(wire, l) /\ l \in Line
    <3>1. 0 \in 0..MaxCalls /\ line.call \in 0..MaxCalls  BY <1>0, Bounds DEF Calls
    <3>2. CASE RemoteHangsUp
      <4> DEFINE c == IF line.state = "out" THEN 0 ELSE line.call
      <4>1. c \in 0..MaxCalls  BY <3>1
      <4>2. wire' = Append(wire, [k |-> "NO_CARRIER", n |-> c])  BY <3>2 DEF RemoteHangsUp
      <4> QED  BY <4>1, <4>2, Lines
    <3>3. CASE Replies
      <4>1. PICK l \in {[k |-> "NO_CARRIER", n |-> 0], [k |-> "OK", n |-> 0]} :
              wire' = Append(wire, l)
        BY <3>3 DEF Replies
      <4> QED  BY <3>1, <4>1, Lines
    <3> QED  BY <1>4, <3>2, <3>3
  <2>2. <<l>> \in Seq(Line) /\ wire' = wire \o <<l>>
    BY <1>0, <2>1, Seqs, AppendIsConcat DEF Lists
  <2>3. UNCHANGED <<batch, urcs, header, stored, sent>>
    BY <1>4 DEF RemoteHangsUp, Replies
  <2>4. Adds(<<l>>)  BY <1>0, <2>2, <2>3, WireAdds
  <2>5. \A i \in 1..Len(<<l>>) : <<l>>[i].k # "PDU"  BY <2>1
  <2> QED  BY <2>2, <2>3, <2>4, <2>5, MoreWhole
<1> QED  BY <1>1, <1>2, <1>3, <1>4 DEF Module

\* the monitor's,
LEMMA MonitorWhole ==
  ASSUME Typed, Typed', Whole, Monitor
  PROVE  Whole'
<1> USE DEF moduleVars, ringVars, readerVars, sessionVars, callVars, commandVars
<1>0. Lists /\ Lists' /\ Modes  BY DEF Typed
<1>1. CASE DrainUrcs \/ ReadWire
  <2>1. Stream' = Stream  BY <1>0, <1>1, DrainStream, ReadStream
  <2>2. UNCHANGED <<header, stored, sent>>  BY <1>1 DEF DrainUrcs, ReadWire
  <2> QED  BY <2>1, <2>2, SameWhole
<1>2. ASSUME NEW kind, Handle(kind),
             stored \subseteq stored', kind = "CMT" => header',
             kind = "PDU" /\ header => Head(batch).n \in stored'
      PROVE  Whole'
  <2>1. Takes  BY <1>0, <1>2, HandleTakes
  <2>2. Stream[1].k = kind /\ Stream[1].n = Head(batch).n /\ sent' = sent
    BY <1>2, <2>1 DEF Handle, Takes
  <2> QED  BY <1>2, <2>1, <2>2, TakenWhole
<1>3. CASE HandleRing  BY <1>2, <1>3 DEF HandleRing
<1>4. CASE HandleClip  BY <1>2, <1>4 DEF HandleClip
<1>5. CASE HandleNoCarrier  BY <1>2, <1>5 DEF HandleNoCarrier
<1>6. CASE HandleCmt  BY <1>2, <1>6 DEF HandleCmt
<1>7. CASE HandlePdu  BY <1>2, <1>7 DEF HandlePdu
<1>8. CASE HandleOther  BY <1>2, <1>8 DEF HandleOther
<1> QED  BY <1>1, <1>3, <1>4, <1>5, <1>6, <1>7, <1>8 DEF Monitor

\* those of a command that swallows nothing,
LEMMA CommandWhole ==
  ASSUME Typed, Typed', Whole, Command, ~eaten'
  PROVE  Whole'
<1> USE DEF moduleVars, ringVars, readerVars, sessionVars, callVars, commandVars
<1>0. Lists /\ Lists'  BY DEF Typed
<1>1. ASSUME NEW op, ClientWants(op) \/ SendCommand(op) PROVE Whole'
  <2>1. Stream' = Stream /\ UNCHANGED <<header, stored, sent>>
    BY <1>1 DEF ClientWants, SendCommand, Stream
  <2> QED  BY <2>1, SameWhole
<1>2. CASE CallTimesOut \/ RunCallback
  <2>1. Stream' = Stream /\ UNCHANGED <<header, stored, sent>>
    BY <1>2 DEF CallTimesOut, RunCallback, Stream
  <2> QED  BY <2>1, SameWhole
<1>3. CASE ResponseLine
  <2>1. /\ wire # <<>> /\ urcs' = Append(urcs, Head(wire)) /\ wire' = Tail(wire)
        /\ UNCHANGED <<batch, header, stored, sent>>
    BY <1>3 DEF ResponseLine
  <2>2. Stream' = Stream  BY <1>0, <2>1, KeptStream
  <2> QED  BY <2>1, <2>2, SameWhole
<1>4. CASE ResponseEnds
  <2>1. PICK n \in 1..Len(wire) : /\ wire' = SubSeq(wire, n + 1, Len(wire))
                                  /\ \A i \in 1..n : ~IsNews(wire[i])
    BY <1>4 DEF ResponseEnds
  <2>2. UNCHANGED <<batch, urcs, header, stored, sent>>
    BY <1>4 DEF ResponseEnds
  <2> PICK k \in Nat, w \in Nat : k = Len(batch) + Len(urcs) /\ w = Len(wire)  BY <1>0, StreamOf
  <2>3. Drops(k, n)  BY <1>0, <2>1, <2>2, WireDrops
  <2>4. \A i \in (k + 1)..(k + n) : ~IsMessage(Stream[i])
    <3> TAKE i \in (k + 1)..(k + n)
    <3>1. i - k \in 1..n /\ i - k \in 1..w /\ k + (i - k) = i  OBVIOUS
    <3>2. Stream[k + (i - k)] = wire[i - k]  BY <1>0, <3>1, StreamOf DEF Joined
    <3> QED  BY <2>1, <3>1, <3>2 DEF IsNews, IsUrc, IsMessage
  <2>5. n \in Nat \ {0}  OBVIOUS
  <2> QED  BY <2>2, <2>3, <2>4, <2>5, DroppedWhole
<1>5. CASE ResponseTimesOut
  <2>1. Stream' = Stream /\ UNCHANGED <<header, stored, sent>>
    BY <1>5 DEF ResponseTimesOut, Stream
  <2> QED  BY <2>1, SameWhole
<1> QED  BY <1>1, <1>2, <1>3, <1>4, <1>5 DEF Command

\* and those of a session that ends without a line of a message.
LEMMA SessionWhole ==
  ASSUME Typed, Typed', Shut, Whole, Session, ~dropped'
  PROVE  Whole'
<1> USE DEF moduleVars, ringVars, readerVars, sessionVars, callVars, commandVars
<1>0. Lists /\ Lists' /\ Modes /\ Modes'  BY DEF Typed
<1>1. CASE Pause
  <2>1. Stream' = Stream /\ UNCHANGED <<header, stored, sent>>  BY <1>1 DEF Pause, Stream
  <2> QED  BY <2>1, SameWhole
<1>2. CASE CloseSession \/ LinkLost
  <2>1. /\ batch = <<>> /\ urcs' = <<>> /\ UNCHANGED <<batch, wire, stored, sent>>
        /\ header' = FALSE /\ header = FALSE /\ \A i \in DOMAIN urcs : ~IsMessage(urcs[i])
    BY <1>0, <1>2 DEF CloseSession, LinkLost, Reading, Closed, Modes
  <2>2. Drops(0, Len(urcs))  BY <1>0, <2>1, CloseDrops
  <2> PICK n \in Nat : n = Len(urcs)  BY <1>0, StreamOf
  <2>3. \A i \in (0 + 1)..(0 + n) : ~IsMessage(Stream[i])
    <3>1. Len(batch) = 0 /\ DOMAIN urcs = 1..n  BY <1>0, <2>1, EmptySeq, LenProperties DEF Lists
    <3>2. \A i \in 1..n : Stream[0 + i] = urcs[i]  BY <1>0, <3>1, StreamOf DEF Joined
    <3> QED  BY <2>1, <3>1, <3>2
  <2>4. CASE n = 0
    <3>1. Stream' = Stream
      <4>1. urcs = <<>>  BY <1>0, <2>4, EmptySeq DEF Lists
      <4> QED  BY <2>1, <4>1 DEF Stream
    <3> QED  BY <2>1, <3>1, SameWhole
  <2>5. CASE n \in Nat \ {0}  BY <2>1, <2>2, <2>3, <2>5, DroppedWhole
  <2> QED  BY <2>4, <2>5
<1>3. CASE Reopen  BY <1>3, ReopenWhole
<1> QED  BY <1>1, <1>2, <1>3 DEF Session

\* Every step keeps what is known of the messages.
LEMMA MessagesStep ==
  ASSUME Typed, Typed', Shut, Messages, [Next]_vars
  PROVE  Messages'
<1> USE DEF moduleVars, ringVars, readerVars, sessionVars, callVars, commandVars
<1> SUFFICES ASSUME ~eaten', ~dropped' PROVE Whole'
  BY DEF Messages
<1>1. Whole  BY Losing DEF Messages
<1>2. CASE UNCHANGED vars
  <2>1. Stream' = Stream /\ UNCHANGED <<header, stored, sent>>  BY <1>2 DEF vars, Stream
  <2> QED  BY <1>1, <2>1, SameWhole
<1>3. CASE DelayOver
  <2>1. Stream' = Stream /\ UNCHANGED <<header, stored, sent>>
    BY <1>3 DEF DelayOver, Stream
  <2> QED  BY <1>1, <2>1, SameWhole
<1> QED
  BY <1>1, <1>2, <1>3, ModuleWhole, MonitorWhole, CommandWhole, SessionWhole DEF Next

\* There is no message at the start.
LEMMA MessagesInit == Init => Messages
<1> SUFFICES ASSUME Init PROVE Whole  BY DEF Messages
<1>1. Stream = <<>>  BY ConcatEmptySeq, Seqs DEF Init, Stream
<1>2. Len(Stream) = 0 /\ sent = 0  BY <1>1, EmptySeq DEF Init
<1> QED  BY <1>2 DEF Whole, Headed

\* A message the module has sent is stored or its PDU still waits for the monitor, with its
\* header, unless a response swallowed a notification or a session that ended took a line
\* of a message with it.
THEOREM MessagesKept == Spec => []SmsKept
<1>1. Settled /\ Messages /\ [Next]_vars => (Settled /\ Messages)'
  <2> SUFFICES ASSUME Settled, Messages, [Next]_vars PROVE Settled' /\ Messages'  OBVIOUS
  <2>1. Settled'  BY SettledStep
  <2> QED  BY <2>1, MessagesStep DEF Settled
<1>2. Settled /\ Messages => SmsKept
  <2> SUFFICES ASSUME Settled, Messages PROVE SmsKept  OBVIOUS
  <2>1. DOMAIN Stream = 1..Len(Stream)  BY Streams DEF Settled, Typed
  <2> QED  BY <2>1 DEF Messages, Whole, Pdu, SmsKept
<1> QED  BY <1>1, <1>2, SettledInit, MessagesInit, PTL DEF Spec

=============================================================================

---------------------------- MODULE SessionProofs ----------------------------
(***************************************************************************)
(* Theorems about Session, for any queue limit, any number of messages and *)
(* any sizes: the send queue implements the ordered channel, the read loop *)
(* neither stops nor forks, and the framing is kept while sizes fit.       *)
(***************************************************************************)
EXTENDS Session, SequenceTheorems, TLAPS

(* The handlers of the strand that the invariants tell apart. *)
OnWrites  == {h \in Handlers : h.kind = "onWrite"}
Written   == {h \in OnWrites : ~h.err}
OnReads   == {h \in Handlers : h.kind \in {"onHeaderRead", "onBodyRead"}}
BodyReads == {h \in OnReads : h.kind = "onBodyRead"}

HasIn(q, X)  == \E i \in DOMAIN q : q[i] \in X
OnceIn(q, X) == \A i, j \in DOMAIN q : q[i] \in X /\ q[j] \in X => i = j

(* What is accepted and not on the wire. *)
Pending == IF HasIn(strand, Written) THEN Tail(sendQueue) ELSE sendQueue

(* SendDiscipline, and which message is being written. *)
SendInv ==
    ~closed =>
        /\ OnceIn(strand, OnWrites)
        /\ ~(writes # <<>> /\ HasIn(strand, OnWrites))
        /\ writes # <<>> => sendQueue # <<>> /\ writes = <<Head(sendQueue)>>
        /\ writing <=> (writes # <<>> \/ HasIn(strand, OnWrites))
        /\ writing <=> sendQueue # <<>>
        /\ accepted = wire \o Pending

ReadInv ==
    /\ OnceIn(strand, OnReads)
    /\ HasIn(strand, OnReads) => reading = "none"
    /\ ~closed /\ Running => HasIn(strand, OnReads) \/ reading # "none"

(* FramingKept, and what it needs between a body and its handler. *)
FrameInv ==
    fits => /\ framed /\ fate # "exception"
            /\ reading = "body" \/ HasIn(strand, BodyReads) => length = payload

IInv == TypeOK /\ SendInv /\ ReadInv /\ FrameInv
-----------------------------------------------------------------------------
(* Sequences, whatever their elements are. *)
LEMMA Appended ==
    ASSUME NEW S, NEW q \in Seq(S), NEW x \in S
    PROVE  /\ Append(q, x) \in Seq(S) /\ Append(q, x) # <<>>
           /\ Len(Append(q, x)) = Len(q) + 1
           /\ Len(q) + 1 \in DOMAIN Append(q, x) /\ Append(q, x)[Len(q) + 1] = x
           /\ \A i \in DOMAIN q : i \in DOMAIN Append(q, x) /\ Append(q, x)[i] = q[i]
           /\ \A i \in DOMAIN Append(q, x) : i \in DOMAIN q \/ i = Len(q) + 1
OBVIOUS

LEMMA Shifted ==
    ASSUME NEW S, NEW q \in Seq(S), q # <<>>
    PROVE  /\ Tail(q) \in Seq(S) /\ Head(q) \in S /\ Head(q) = q[1] /\ 1 \in DOMAIN q
           /\ Len(Tail(q)) = Len(q) - 1
           /\ \A i \in DOMAIN Tail(q) : i + 1 \in DOMAIN q /\ Tail(q)[i] = q[i + 1]
           /\ \A i \in DOMAIN q :
                 i = 1 \/ (i - 1 \in DOMAIN Tail(q) /\ Tail(q)[i - 1] = q[i])
           /\ \A i \in DOMAIN q \cup DOMAIN Tail(q) : i \in Nat /\ i >= 1
OBVIOUS

LEMMA AppendOther ==
    ASSUME NEW S, NEW q \in Seq(S), NEW x \in S, NEW X, x \notin X
    PROVE  /\ HasIn(Append(q, x), X) <=> HasIn(q, X)
           /\ OnceIn(q, X) => OnceIn(Append(q, x), X)
<1> DEFINE a == Append(q, x)
<1>1. /\ Len(q) + 1 \in DOMAIN a /\ a[Len(q) + 1] = x
      /\ \A i \in DOMAIN q : i \in DOMAIN a /\ a[i] = q[i]
      /\ \A i \in DOMAIN a : i \in DOMAIN q \/ i = Len(q) + 1
  BY Appended
<1> HIDE DEF a
<1>2. \A i \in DOMAIN a : a[i] \in X => i \in DOMAIN q /\ q[i] \in X
  BY <1>1
<1> QED  BY <1>1, <1>2 DEF HasIn, OnceIn, a

LEMMA AppendIt ==
    ASSUME NEW S, NEW q \in Seq(S), NEW X, NEW x \in X, x \in S
    PROVE  /\ HasIn(Append(q, x), X)
           /\ ~HasIn(q, X) => OnceIn(Append(q, x), X)
<1> DEFINE a == Append(q, x)
<1>1. /\ Len(q) + 1 \in DOMAIN a /\ a[Len(q) + 1] = x
      /\ \A i \in DOMAIN q : i \in DOMAIN a /\ a[i] = q[i]
      /\ \A i \in DOMAIN a : i \in DOMAIN q \/ i = Len(q) + 1
  BY Appended
<1> HIDE DEF a
<1>2. ASSUME ~HasIn(q, X), NEW i \in DOMAIN a, a[i] \in X
      PROVE  i = Len(q) + 1
  BY <1>1, <1>2 DEF HasIn
<1> QED  BY <1>1, <1>2 DEF HasIn, OnceIn, a

LEMMA RunOther ==
    ASSUME NEW S, NEW q \in Seq(S), q # <<>>, NEW X, Head(q) \notin X
    PROVE  /\ HasIn(Tail(q), X) <=> HasIn(q, X)
           /\ OnceIn(q, X) => OnceIn(Tail(q), X)
<1> DEFINE t == Tail(q)
<1>1. /\ Head(q) = q[1] /\ 1 \in DOMAIN q
      /\ \A i \in DOMAIN t : i + 1 \in DOMAIN q /\ t[i] = q[i + 1]
      /\ \A i \in DOMAIN q : i = 1 \/ (i - 1 \in DOMAIN t /\ t[i - 1] = q[i])
      /\ \A i \in DOMAIN q \cup DOMAIN t : i \in Nat /\ i >= 1
  BY Shifted
<1> HIDE DEF t
<1>2. HasIn(t, X) <=> HasIn(q, X)
  BY <1>1 DEF HasIn
<1>3. ASSUME OnceIn(q, X), NEW i \in DOMAIN t, NEW j \in DOMAIN t, t[i] \in X, t[j] \in X
      PROVE  i = j
  <2>1. i + 1 \in DOMAIN q /\ j + 1 \in DOMAIN q /\ q[i + 1] \in X /\ q[j + 1] \in X
    BY <1>1, <1>3
  <2>2. i + 1 = j + 1 /\ i \in Nat /\ j \in Nat
    BY <1>1, <1>3, <2>1 DEF OnceIn
  <2> QED  BY <2>2
<1> QED  BY <1>2, <1>3 DEF OnceIn, t

LEMMA RunIt ==
    ASSUME NEW S, NEW q \in Seq(S), q # <<>>, NEW X, Head(q) \in X, OnceIn(q, X)
    PROVE  HasIn(q, X) /\ ~HasIn(Tail(q), X) /\ OnceIn(Tail(q), X)
<1> DEFINE t == Tail(q)
<1>1. /\ Head(q) = q[1] /\ 1 \in DOMAIN q
      /\ \A i \in DOMAIN t : i + 1 \in DOMAIN q /\ t[i] = q[i + 1]
      /\ \A i \in DOMAIN q \cup DOMAIN t : i \in Nat /\ i >= 1
  BY Shifted
<1> HIDE DEF t
<1>2. ASSUME NEW i \in DOMAIN t, t[i] \in X
      PROVE  FALSE
  <2>1. i + 1 \in DOMAIN q /\ q[i + 1] \in X /\ i \in Nat /\ i >= 1
    BY <1>1, <1>2
  <2>2. i + 1 = 1
    BY <1>1, <2>1 DEF OnceIn
  <2> QED  BY <2>1, <2>2
<1> QED  BY <1>1, <1>2 DEF HasIn, OnceIn, t

LEMMA Smaller ==
    ASSUME NEW q, NEW X, NEW Y \in SUBSET X, ~HasIn(q, X)
    PROVE  ~HasIn(q, Y)
BY DEF HasIn

LEMMA ConcatHead ==
    ASSUME NEW S, NEW w \in Seq(S), NEW q \in Seq(S), q # <<>>
    PROVE  /\ w \o q = Append(w, Head(q)) \o Tail(q)
           /\ Len(w) < Len(w \o q)
           /\ (w \o q)[Len(w) + 1] = Head(q)
<1>1. Head(q) \in S /\ Tail(q) \in Seq(S) /\ <<Head(q)>> \in Seq(S) /\ Head(q) = q[1]
  BY Shifted
<1>2. q = <<Head(q)>> \o Tail(q)
  BY <1>1
<1>3. Append(w, Head(q)) = w \o <<Head(q)>>
  BY <1>1, AppendIsConcat
<1>4. w \o (<<Head(q)>> \o Tail(q)) = (w \o <<Head(q)>>) \o Tail(q)
  BY <1>1, ConcatAssociative
<1>5. Len(w \o q) = Len(w) + Len(q) /\ (w \o q)[Len(w) + 1] = q[1] /\ Len(q) > 0
  BY ConcatProperties
<1>6. Len(w) \in Nat /\ Len(q) \in Nat
  OBVIOUS
<1> QED  BY <1>1, <1>2, <1>3, <1>4, <1>5, <1>6
-----------------------------------------------------------------------------
(* Types *)

LEMMA Lengths ==
    ASSUME NEW header \in NextHeader, TypeOK
    PROVE  /\ header.length \in -MaxShort - 1 .. MaxShort /\ header.size \in Nat
           /\ Genuine(header) /\ FitsShort(header.size) => header.length = header.size
<1>1. CASE \E n \in Nat : header \in SendPacket(n)
  <2>1. PICK n \in Nat : header \in SendPacket(n)
    BY <1>1
  <2>2. n \in Nat
    OBVIOUS
  <2>3. header = [length |-> LengthField(n), size |-> n]
    BY <2>1, <2>2 DEF SendPacket, Serialize, RequiredSize, HeaderSize
  <2>4. header.length = Short(n) /\ header.size = n
    BY <2>3 DEF LengthField
  <2>5. Short(n) \in -MaxShort - 1 .. MaxShort
    <3> DEFINE k == (n + 32768) % 65536
    <3>1. k \in Nat /\ k < 65536
      BY <2>2
    <3>2. Short(n) = k - 32768
      BY DEF Short
    <3> HIDE DEF k
    <3>3. /\ k - 32768 \in Int /\ MaxShort \in Nat
          /\ k - 32768 >= -MaxShort - 1 /\ k - 32768 <= MaxShort
      BY <3>1 DEF MaxShort
    <3> QED  BY <3>2, <3>3
  <2>6. FitsShort(n) => Short(n) = n
    BY <2>2 DEF FitsShort, MaxShort, Short
  <2> QED  BY <2>2, <2>4, <2>5, <2>6
<1>2. CASE ~ \E n \in Nat : header \in SendPacket(n)
  <2>1. header \in [length : StrayLengths, size : {payload}]
    BY <1>2, SessionAssumption DEF NextHeader
  <2>2. header.length \in StrayLengths /\ header.size = payload
    BY <2>1
  <2>3. header.length \in -MaxShort - 1 .. MaxShort /\ header.size \in Nat
    BY <2>2, SessionAssumption DEF TypeOK
  <2>4. ~Genuine(header)
    BY <1>2, <2>3 DEF Genuine
  <2> QED  BY <2>3, <2>4
<1> QED  BY <1>1, <1>2

(* The parts of the type invariant. *)
SendTypes ==
    /\ closed \in BOOLEAN /\ writing \in BOOLEAN
    /\ sendQueue \in Seq(Messages) /\ Len(sendQueue) <= MaxSendQueue
    /\ writes \in Seq(Messages)
    /\ accepted \in Seq(Messages)
FrameTypes ==
    /\ length \in -MaxShort - 1 .. MaxShort /\ payload \in Nat
    /\ framed \in BOOLEAN /\ fits \in BOOLEAN

LEMMA TypeParts ==
    TypeOK <=> /\ SendTypes /\ FrameTypes
               /\ strand \in Seq(Handlers) /\ wire \in Seq(Messages)
               /\ reading \in {"none", "header", "body"}
               /\ sent \in 0 .. MaxMessages /\ received \in 0 .. MaxPackets
               /\ fate \in Fates
BY DEF TypeOK, SendTypes, FrameTypes

LEMMA NoMessages ==
    /\ <<>> \in Seq(Messages) /\ Len(<<>>) <= MaxSendQueue
    /\ MaxSendQueue \in Nat /\ MaxSendQueue >= 1
<1>1. <<>> \in Seq(Messages) /\ Len(<<>>) = 0
  BY EmptySeq
<1> QED  BY <1>1, SessionAssumption

LEMMA InitTypes == Init => TypeOK
<1> SUFFICES ASSUME Init PROVE TypeOK
  OBVIOUS
<1>1. SendTypes
  BY NoMessages DEF Init, SendTypes
<1>2. FrameTypes
  BY DEF Init, FrameTypes, MaxShort
<1>3. sent \in 0 .. MaxMessages /\ received \in 0 .. MaxPackets
  <2>1. sent = 0 /\ received = 0
    BY DEF Init
  <2> QED  BY <2>1, SessionAssumption
<1>4. /\ strand \in Seq(Handlers) /\ wire \in Seq(Messages)
      /\ reading \in {"none", "header", "body"}
      /\ fate \in Fates
  BY EmptySeq DEF Init, Fates
<1> QED  BY <1>1, <1>2, <1>3, <1>4, TypeParts

LEMMA HandlersAre ==
    /\ \A m \in Messages : [kind |-> "enqueue", msg |-> m] \in Handlers
    /\ \A err \in BOOLEAN, kind \in {"onWrite", "onHeaderRead", "onBodyRead"} :
          [kind |-> kind, err |-> err] \in Handlers
BY DEF Handlers

LEMMA FirstHandler ==
    ASSUME TypeOK, strand # <<>>
    PROVE  /\ Head(strand) \in Handlers
           /\ Head(strand).kind = "enqueue" => Head(strand).msg \in Messages
<1>1. Head(strand) \in Handlers
  BY Shifted DEF TypeOK
<1>2. \A h \in Handlers : h.kind = "enqueue" => h.msg \in Messages
  BY DEF Handlers
<1> QED  BY <1>1, <1>2

LEMMA DoWriteTypes ==
    ASSUME SendTypes, NEW queue \in Seq(Messages), queue # <<>>,
           Len(queue) <= MaxSendQueue, DoWrite(queue)
    PROVE  /\ sendQueue' \in Seq(Messages) /\ Len(sendQueue') <= MaxSendQueue
           /\ writing' \in BOOLEAN /\ writes' \in Seq(Messages)
<1>1. Head(queue) \in Messages
  BY Shifted
<1>2. Append(writes, Head(queue)) \in Seq(Messages)
  BY <1>1, Appended DEF SendTypes
<1> QED  BY <1>2 DEF DoWrite

LEMMA EnqueueTypes ==
    ASSUME SendTypes, NEW m \in Messages, EnqueueSend(m)
    PROVE  SendTypes'
<1>1. CASE Overflow
  BY <1>1, NoMessages DEF EnqueueSend, DropQueue, SendTypes
<1>2. CASE ~Overflow
  <2>1. closed' = closed /\ accepted' = Append(accepted, m)
    BY <1>2 DEF EnqueueSend
  <2>2. accepted' \in Seq(Messages)
    BY <2>1, Appended DEF SendTypes
  <2>3. /\ Append(sendQueue, m) \in Seq(Messages) /\ Append(sendQueue, m) # <<>>
        /\ Len(Append(sendQueue, m)) = Len(sendQueue) + 1
    BY Appended DEF SendTypes
  <2>4. Len(sendQueue) + 1 <= MaxSendQueue
    BY <1>2, SessionAssumption DEF Overflow, SendTypes
  <2>5. CASE MayWrite
    <3>1. DoWrite(Append(sendQueue, m))
      BY <1>2, <2>5 DEF EnqueueSend
    <3>2. /\ sendQueue' \in Seq(Messages) /\ Len(sendQueue') <= MaxSendQueue
          /\ writing' \in BOOLEAN /\ writes' \in Seq(Messages)
      BY <2>3, <2>4, <3>1, DoWriteTypes
    <3> QED  BY <2>1, <2>2, <3>2 DEF SendTypes
  <2>6. CASE ~MayWrite
    BY <1>2, <2>1, <2>2, <2>3, <2>4, <2>6 DEF EnqueueSend, SendTypes
  <2> QED  BY <2>5, <2>6
<1> QED  BY <1>1, <1>2

LEMMA NextWriteTypes ==
    ASSUME SendTypes, sendQueue # <<>>, NextWrite, UNCHANGED <<closed, accepted>>
    PROVE  SendTypes'
<1>1. Tail(sendQueue) \in Seq(Messages) /\ Len(Tail(sendQueue)) = Len(sendQueue) - 1
  BY Shifted DEF SendTypes
<1>2. CASE Len(sendQueue) = 1
  BY <1>2, NoMessages DEF NextWrite, SendTypes
<1>3. CASE Len(sendQueue) # 1
  <2>1. DoWrite(Tail(sendQueue))
    BY <1>3 DEF NextWrite
  <2>2. Len(sendQueue) \in Nat /\ Len(sendQueue) <= MaxSendQueue
    BY DEF SendTypes
  <2>3. Len(Tail(sendQueue)) <= MaxSendQueue
    BY <1>1, <2>2, SessionAssumption
  <2>4. Tail(sendQueue) # <<>>
    <3>1. Len(sendQueue) # 0
      BY <2>2, EmptySeq DEF SendTypes
    <3>2. Len(Tail(sendQueue)) # 0
      BY <1>1, <1>3, <2>2, <3>1
    <3>3. Len(<<>>) = 0
      OBVIOUS
    <3> QED  BY <3>2, <3>3
  <2>5. /\ sendQueue' \in Seq(Messages) /\ Len(sendQueue') <= MaxSendQueue
        /\ writing' \in BOOLEAN /\ writes' \in Seq(Messages)
    BY <1>1, <2>1, <2>3, <2>4, DoWriteTypes
  <2> QED  BY <2>5 DEF SendTypes
<1> QED  BY <1>2, <1>3

LEMMA TypesKept == ASSUME TypeOK, [Next]_vars PROVE TypeOK'
<1>0. /\ SendTypes /\ FrameTypes
      /\ strand \in Seq(Handlers) /\ wire \in Seq(Messages)
      /\ reading \in {"none", "header", "body"}
      /\ sent \in 0 .. MaxMessages /\ received \in 0 .. MaxPackets
      /\ fate \in Fates
  BY TypeParts
<1>0a. strand # <<>> => Tail(strand) \in Seq(Handlers)
  BY <1>0, Shifted
<1>0b. ASSUME UNCHANGED frameVars PROVE FrameTypes'
  BY <1>0, <1>0b DEF frameVars, FrameTypes
<1>0c. ASSUME UNCHANGED <<closed, sendVars>> PROVE SendTypes'
  BY <1>0, <1>0c DEF sendVars, SendTypes
<1>0d. sent < MaxMessages => sent + 1 \in Messages /\ sent + 1 \in 0 .. MaxMessages
  BY <1>0, SessionAssumption DEF Messages
<1>1. CASE PostSend
  <2>1. [kind |-> "enqueue", msg |-> sent + 1] \in Handlers
    BY <1>0d, <1>1, HandlersAre DEF PostSend
  <2>2. strand' \in Seq(Handlers)
    BY <1>0, <1>1, <2>1, Appended DEF PostSend
  <2>3. SendTypes' /\ FrameTypes'
    BY <1>0b, <1>0c, <1>1 DEF PostSend
  <2> QED  BY <1>0, <1>0d, <1>1, <2>2, <2>3 DEF PostSend, TypeOK, SendTypes, FrameTypes
<1>2. CASE RunEnqueue
  <2>1. strand # <<>> /\ Head(strand).msg \in Messages
    BY <1>2, FirstHandler DEF RunEnqueue, Handler
  <2>2. SendTypes' /\ FrameTypes' /\ strand' \in Seq(Handlers)
    BY <1>0, <1>0a, <1>0b, <1>2, <2>1, EnqueueTypes DEF RunEnqueue
  <2> QED  BY <1>0, <1>2, <2>2 DEF RunEnqueue, TypeOK, SendTypes, FrameTypes
<1>3. CASE OnWrite
  <2>1. strand' \in Seq(Handlers) /\ FrameTypes' /\ fate' \in Fates
    BY <1>0, <1>0a, <1>0b, <1>3 DEF OnWrite, Handler, Fates
  <2>2. SendTypes'
    <3>1. CASE Head(strand).err
      BY <1>0, <1>3, <3>1, NoMessages DEF OnWrite, DropQueue, SendTypes
    <3>2. CASE ~Head(strand).err /\ sendQueue = <<>>
      BY <1>0, <1>3, <3>2 DEF OnWrite, SendTypes
    <3>3. CASE ~Head(strand).err /\ sendQueue # <<>>
      BY <1>0, <1>3, <3>3, NextWriteTypes DEF OnWrite
    <3> QED  BY <3>1, <3>2, <3>3
  <2> QED  BY <1>0, <1>3, <2>1, <2>2 DEF OnWrite, TypeOK, SendTypes, FrameTypes
<1>4. CASE OnHeaderRead
  <2>1. strand' \in Seq(Handlers)
    BY <1>0a, <1>4 DEF OnHeaderRead, Handler
  <2>2. /\ reading' \in {"none", "header", "body"} /\ closed' \in BOOLEAN
        /\ fate' \in Fates
    BY <1>0, <1>4 DEF OnHeaderRead, AfterReadError, AsyncBodyRead, SendTypes, Fates
  <2>3. FrameTypes'
    <3>1. CASE UNCHANGED frameVars
      BY <1>0b, <3>1
    <3>2. CASE ~ UNCHANGED frameVars
      <4>1. PICK header \in NextHeader :
               /\ length' = header.length /\ payload' = header.size
               /\ framed' = (framed /\ Genuine(header))
               /\ fits' = (fits /\ Genuine(header) /\ FitsShort(header.size))
        BY <1>4, <3>2 DEF OnHeaderRead
      <4>2. header.length \in -MaxShort - 1 .. MaxShort /\ header.size \in Nat
        BY Lengths
      <4>3. framed' \in BOOLEAN /\ fits' \in BOOLEAN
        BY <4>1
      <4> QED  BY <4>1, <4>2, <4>3 DEF FrameTypes
    <3> QED  BY <3>1, <3>2
  <2>4. SendTypes'
    BY <1>0, <1>4, <2>2 DEF OnHeaderRead, SendTypes, sendVars
  <2> QED  BY <1>0, <1>4, <2>1, <2>2, <2>3, <2>4 DEF OnHeaderRead, TypeOK, SendTypes, FrameTypes
<1>5. CASE OnBodyRead
  <2>1. strand' \in Seq(Handlers)
    BY <1>0a, <1>5 DEF OnBodyRead, Handler
  <2>2. FrameTypes' /\ reading' \in {"none", "header", "body"}
    BY <1>0, <1>5 DEF OnBodyRead, AfterReadError, HandlerThrows, NextRead, FrameTypes
  <2>3. SendTypes' /\ sent' \in 0 .. MaxMessages /\ fate' \in Fates
    <3>1. CASE Head(strand).err
      BY <1>0, <1>5, <3>1 DEF OnBodyRead, AfterReadError, SendTypes, sendVars
    <3>2. CASE ~Head(strand).err
      <4>1. HandlePacket \/ HandlerThrows
        BY <1>5, <3>2 DEF OnBodyRead
      <4>2. CASE sent < MaxMessages /\ sent' = sent + 1 /\ EnqueueSend(sent + 1) /\ UNCHANGED fate
        BY <1>0, <1>0d, <4>2, EnqueueTypes
      <4>3. CASE UNCHANGED <<sendVars, sent, closed>> /\ fate' \in {fate, "undefined", "thrown"}
        BY <1>0, <1>0c, <4>3 DEF Fates
      <4> QED  BY <4>1, <4>2, <4>3 DEF HandlePacket, HandlerThrows
    <3> QED  BY <3>1, <3>2
  <2> QED  BY <1>0, <1>5, <2>1, <2>2, <2>3 DEF OnBodyRead, TypeOK, SendTypes, FrameTypes
<1>6. ASSUME NEW i \in DOMAIN writes, WriteDone(i) \/ WriteFails(i)
      PROVE  TypeOK'
  <2>1. writes' = RemoveAt(writes, i) /\ writes[i] \in Messages
    BY <1>0, <1>6, ElementOfSeq DEF WriteDone, WriteFails, SendTypes
  <2>2. writes' \in Seq(Messages)
    <3>1. writes \in Seq(Messages) /\ i \in 1 .. Len(writes)
      BY <1>0, <1>6 DEF SendTypes
    <3>2. SubSeq(writes, 1, i - 1) \in Seq(Messages)
      BY <3>1
    <3>3. SubSeq(writes, i + 1, Len(writes)) \in Seq(Messages)
      BY <3>1
    <3> QED  BY <2>1, <3>2, <3>3 DEF RemoveAt
  <2>3. PICK e \in BOOLEAN : strand' = Append(strand, [kind |-> "onWrite", err |-> e])
    BY <1>6 DEF WriteDone, WriteFails
  <2>4. strand' \in Seq(Handlers)
    <3>1. [kind |-> "onWrite", err |-> e] \in Handlers
      BY HandlersAre
    <3> QED  BY <1>0, <2>3, <3>1, Appended
  <2>5. wire' \in Seq(Messages)
    <3>1. Append(wire, writes[i]) \in Seq(Messages)
      BY <1>0, <2>1, Appended
    <3> QED  BY <1>0, <1>6, <3>1 DEF WriteDone, WriteFails
  <2>6. FrameTypes'
    BY <1>0b, <1>6 DEF WriteDone, WriteFails
  <2> QED  BY <1>0, <1>6, <2>2, <2>4, <2>5, <2>6 DEF WriteDone, WriteFails, TypeOK, SendTypes, FrameTypes
<1>7. CASE ReadDone \/ ReadFails
  <2>1. PICK e \in BOOLEAN : strand' = Append(strand, ReadHandler(e))
    BY <1>7 DEF ReadDone, ReadFails
  <2>2. ReadHandler(e) \in Handlers
    BY HandlersAre DEF ReadHandler
  <2>3. strand' \in Seq(Handlers)
    BY <1>0, <2>1, <2>2, Appended
  <2>4. SendTypes' /\ FrameTypes'
    BY <1>0b, <1>0c, <1>7 DEF ReadDone, ReadFails
  <2>5. received' \in 0 .. MaxPackets /\ reading' = "none"
    <3>1. received < MaxPackets => received + 1 \in 0 .. MaxPackets
      BY <1>0, SessionAssumption
    <3> QED  BY <1>0, <1>7, <3>1 DEF ReadDone, ReadFails
  <2> QED  BY <1>0, <1>7, <2>3, <2>4, <2>5 DEF ReadDone, ReadFails, TypeOK, SendTypes, FrameTypes
<1>8. CASE UNCHANGED vars
  BY <1>0, <1>8 DEF vars, TypeOK, SendTypes, FrameTypes
<1> QED  BY <1>1, <1>2, <1>3, <1>4, <1>5, <1>6, <1>7, <1>8 DEF Next, RunStrand, Socket

(* The queue, the strand and the histories have their types; the queue     *)
(* never holds more than MaxSendQueue messages (Session.cpp:88-95).        *)
THEOREM SessionTypes == Spec => []TypeOK
BY InitTypes, TypesKept, PTL DEF Spec
-----------------------------------------------------------------------------
(* The send queue *)

LEMMA KindsOf ==
    ASSUME NEW h \in Handlers
    PROVE  /\ h \in OnWrites <=> h.kind = "onWrite"
           /\ h \in Written <=> h.kind = "onWrite" /\ ~h.err
           /\ h \in OnReads <=> h.kind \in {"onHeaderRead", "onBodyRead"}
           /\ h \in BodyReads <=> h.kind = "onBodyRead"
BY DEF OnWrites, Written, OnReads, BodyReads

(* A step that runs or queues no handler of a write. *)
NoWriteHandler ==
    /\ HasIn(strand', OnWrites) <=> HasIn(strand, OnWrites)
    /\ HasIn(strand', Written) <=> HasIn(strand, Written)
    /\ OnceIn(strand, OnWrites) => OnceIn(strand', OnWrites)

LEMMA RunsNoWrite ==
    ASSUME TypeOK, strand # <<>>, strand' = Tail(strand), Head(strand).kind # "onWrite"
    PROVE  NoWriteHandler
<1>1. strand \in Seq(Handlers) /\ Head(strand) \in Handlers
  BY FirstHandler DEF TypeOK
<1>2. Head(strand) \notin OnWrites /\ Head(strand) \notin Written
  BY <1>1, KindsOf
<1> QED  BY <1>1, <1>2, RunOther DEF NoWriteHandler

LEMMA QueuesNoWrite ==
    ASSUME TypeOK, NEW h \in Handlers, strand' = Append(strand, h), h.kind # "onWrite"
    PROVE  NoWriteHandler
<1>1. strand \in Seq(Handlers)
  BY DEF TypeOK
<1>2. h \notin OnWrites /\ h \notin Written
  BY KindsOf
<1> QED  BY <1>1, <1>2, AppendOther DEF NoWriteHandler

LEMMA SendInvUntouched ==
    ASSUME SendInv, NoWriteHandler, UNCHANGED <<sendVars, wire>>, closed => closed'
    PROVE  SendInv'
BY DEF SendInv, NoWriteHandler, Pending, sendVars

LEMMA EnqueueKeepsSendInv ==
    ASSUME TypeOK, SendInv, NoWriteHandler, wire' = wire,
           NEW m \in Messages, EnqueueSend(m)
    PROVE  SendInv'
<1>0. /\ sendQueue \in Seq(Messages) /\ writes \in Seq(Messages)
      /\ accepted \in Seq(Messages) /\ wire \in Seq(Messages)
  BY DEF TypeOK
<1> SUFFICES ASSUME ~closed' PROVE SendInv'
  BY DEF SendInv
<1>1. /\ closed' = closed /\ ~closed /\ accepted' = Append(accepted, m)
      /\ IF MayWrite THEN DoWrite(Append(sendQueue, m))
                     ELSE /\ sendQueue' = Append(sendQueue, m)
                          /\ UNCHANGED <<writing, writes>>
  BY DEF EnqueueSend
<1>2. /\ OnceIn(strand', OnWrites)
      /\ accepted = wire \o Pending
  BY <1>1 DEF SendInv, NoWriteHandler
<1>3. CASE ~writing
  <2>1. sendQueue = <<>> /\ writes = <<>> /\ ~HasIn(strand, OnWrites)
    BY <1>1, <1>3 DEF SendInv
  <2>2. ~HasIn(strand', OnWrites)
    BY <2>1 DEF NoWriteHandler
  <2>2a. ~HasIn(strand, Written) /\ ~HasIn(strand', Written)
    BY <2>1, <2>2 DEF HasIn, Written
  <2>3. DoWrite(Append(sendQueue, m))
    BY <1>1, <1>3 DEF MayWrite
  <2>4. /\ Append(sendQueue, m) = <<m>> /\ Head(<<m>>) = m /\ <<m>> # <<>>
        /\ Append(writes, m) = <<m>>
    BY <2>1
  <2>5. sendQueue' = <<m>> /\ writing' = TRUE /\ writes' = <<m>>
    BY <2>3, <2>4 DEF DoWrite
  <2>6. accepted' = wire \o <<m>>
    <3>1. accepted = wire \o <<>>
      BY <1>2, <2>1, <2>2a DEF Pending
    <3>2. accepted = wire
      BY <1>0, <3>1, ConcatEmptySeq
    <3> QED  BY <1>0, <1>1, <3>2, AppendIsConcat
  <2> QED  BY <1>2, <2>2, <2>2a, <2>4, <2>5, <2>6 DEF SendInv, Pending
<1>4. CASE writing
  <2>1. sendQueue # <<>> /\ (writes # <<>> => writes = <<Head(sendQueue)>>)
        /\ (writing <=> (writes # <<>> \/ HasIn(strand, OnWrites)))
        /\ ~(writes # <<>> /\ HasIn(strand, OnWrites))
    BY <1>1, <1>4 DEF SendInv
  <2>2. /\ sendQueue' = Append(sendQueue, m) /\ UNCHANGED <<writing, writes>>
    BY <1>1, <1>4 DEF MayWrite
  <2>3. /\ sendQueue' # <<>> /\ Head(sendQueue') = Head(sendQueue)
        /\ Tail(sendQueue') = Append(Tail(sendQueue), m)
    BY <1>0, <2>1, <2>2, HeadTailAppend, Appended
  <2>4. Pending' = Append(Pending, m) /\ Pending \in Seq(Messages)
    <3>1. Tail(sendQueue) \in Seq(Messages)
      BY <1>0, <2>1, Shifted
    <3> QED  BY <1>0, <2>2, <2>3, <3>1 DEF Pending, NoWriteHandler
  <2>5. accepted' = wire \o Pending'
    <3>1. Pending \in Seq(Messages) /\ accepted = wire \o Pending
      BY <1>2, <2>4
    <3>2. Append(accepted, m) = accepted \o <<m>> /\ Append(Pending, m) = Pending \o <<m>>
      BY <1>0, <3>1, AppendIsConcat
    <3>3. <<m>> \in Seq(Messages)
      OBVIOUS
    <3>4. (wire \o Pending) \o <<m>> = wire \o (Pending \o <<m>>)
      BY <1>0, <3>1, <3>3, ConcatAssociative
    <3> QED  BY <1>1, <2>4, <3>1, <3>2, <3>4
  <2> QED  BY <1>2, <1>4, <2>1, <2>2, <2>3, <2>5 DEF SendInv, NoWriteHandler
<1> QED  BY <1>3, <1>4

LEMMA OnWriteKeepsSendInv ==
    ASSUME TypeOK, SendInv, OnWrite
    PROVE  SendInv'
<1>0. /\ sendQueue \in Seq(Messages) /\ strand \in Seq(Handlers)
      /\ wire \in Seq(Messages)
  BY DEF TypeOK
<1> SUFFICES ASSUME ~closed' PROVE SendInv'
  BY DEF SendInv
<1>1. /\ strand # <<>> /\ strand' = Tail(strand) /\ Head(strand).kind = "onWrite"
      /\ ~Head(strand).err /\ ~closed /\ UNCHANGED <<accepted, wire>>
      /\ sendQueue # <<>> => NextWrite
  BY DEF OnWrite, Handler
<1>2. Head(strand) \in OnWrites /\ Head(strand) \in Written /\ Written \subseteq OnWrites
  BY <1>1, FirstHandler, KindsOf DEF Written
<1>3. OnceIn(strand, OnWrites)
  BY <1>1 DEF SendInv
<1>4. /\ HasIn(strand, OnWrites) /\ ~HasIn(strand', OnWrites) /\ OnceIn(strand', OnWrites)
  BY <1>0, <1>1, <1>2, <1>3, RunIt
<1>5. HasIn(strand, Written) /\ ~HasIn(strand', Written)
  <2>1. 1 \in DOMAIN strand /\ strand[1] = Head(strand)
    BY <1>0, <1>1, Shifted
  <2> QED  BY <1>2, <1>4, <2>1 DEF HasIn
<1>6. writes = <<>> /\ writing /\ sendQueue # <<>> /\ accepted = wire \o Tail(sendQueue)
  BY <1>1, <1>4, <1>5 DEF SendInv, Pending
<1>7. Tail(sendQueue) \in Seq(Messages) /\ Len(Tail(sendQueue)) = Len(sendQueue) - 1
  BY <1>0, <1>6, Shifted
<1>8. CASE Len(sendQueue) = 1
  <2>1. sendQueue' = <<>> /\ writing' = FALSE /\ writes' = <<>>
    BY <1>1, <1>6, <1>8 DEF NextWrite
  <2>2. Tail(sendQueue) = <<>>
    <3>1. Len(Tail(sendQueue)) = 0
      BY <1>7, <1>8
    <3> QED  BY <1>7, <3>1, EmptySeq
  <2> QED  BY <1>1, <1>4, <1>5, <1>6, <2>1, <2>2 DEF SendInv, Pending
<1>9. CASE Len(sendQueue) # 1
  <2>1. /\ sendQueue' = Tail(sendQueue) /\ writing' = TRUE
        /\ writes' = Append(writes, Head(Tail(sendQueue)))
    BY <1>1, <1>6, <1>9 DEF NextWrite, DoWrite
  <2>2. Tail(sendQueue) # <<>>
    <3>1. Len(sendQueue) \in Nat /\ Len(sendQueue) # 0
      BY <1>0, <1>6, EmptySeq
    <3>2. Len(Tail(sendQueue)) # 0
      BY <1>7, <1>9, <3>1
    <3>3. Len(<<>>) = 0
      OBVIOUS
    <3> QED  BY <3>2, <3>3
  <2>3. writes' = <<Head(Tail(sendQueue))>> /\ writes' # <<>>
    BY <1>6, <2>1
  <2> QED  BY <1>1, <1>4, <1>5, <1>6, <2>1, <2>2, <2>3 DEF SendInv, Pending
<1> QED  BY <1>8, <1>9

(* What is at the socket while the session is open: the head of the queue. *)
LEMMA OneAtTheSocket ==
    ASSUME TypeOK, SendInv, ~closed, NEW i \in DOMAIN writes
    PROVE  /\ i = 1 /\ writes = <<Head(sendQueue)>> /\ sendQueue # <<>>
           /\ RemoveAt(writes, i) = <<>>
           /\ ~HasIn(strand, OnWrites) /\ Pending = sendQueue
<1>1. writes # <<>>
  OBVIOUS
<1>2. writes = <<Head(sendQueue)>> /\ sendQueue # <<>> /\ ~HasIn(strand, OnWrites)
  BY <1>1 DEF SendInv
<1>3. i = 1 /\ Len(writes) = 1
  BY <1>2
<1>4. ~HasIn(strand, Written)
  BY <1>2 DEF HasIn, Written
<1>5. RemoveAt(writes, i) = <<>>
  <2>1. SubSeq(writes, 1, 0) = <<>> /\ SubSeq(writes, 2, 1) = <<>>
    BY SubSeqEmpty
  <2>2. RemoveAt(writes, i) = SubSeq(writes, 1, 0) \o SubSeq(writes, 2, 1)
    BY <1>3 DEF RemoveAt
  <2>3. <<>> \in Seq(Messages) /\ <<>> \o <<>> = <<>>
    BY ConcatEmptySeq, EmptySeq
  <2> QED  BY <2>1, <2>2, <2>3
<1> QED  BY <1>2, <1>3, <1>4, <1>5 DEF Pending

LEMMA SocketKeepsSendInv ==
    ASSUME TypeOK, SendInv, NEW i \in DOMAIN writes, WriteDone(i) \/ WriteFails(i)
    PROVE  SendInv'
<1>0. /\ sendQueue \in Seq(Messages) /\ strand \in Seq(Handlers)
      /\ wire \in Seq(Messages)
  BY DEF TypeOK
<1>1. UNCHANGED <<closed, sendQueue, writing, accepted>> /\ writes' = RemoveAt(writes, i)
  BY DEF WriteDone, WriteFails
<1> SUFFICES ASSUME ~closed' PROVE SendInv'
  BY DEF SendInv
<1>2. ~closed
  BY <1>1
<1>3. /\ writes = <<Head(sendQueue)>> /\ sendQueue # <<>> /\ i = 1
      /\ writes' = <<>> /\ ~HasIn(strand, OnWrites) /\ Pending = sendQueue
  BY <1>1, <1>2, OneAtTheSocket
<1>4. writes # <<>> /\ writes[1] = Head(sendQueue)
  BY <1>3
<1>5. writing /\ accepted = wire \o sendQueue
  BY <1>2, <1>3, <1>4 DEF SendInv
<1>6. ASSUME NEW e \in BOOLEAN, strand' = Append(strand, [kind |-> "onWrite", err |-> e])
      PROVE  /\ HasIn(strand', OnWrites) /\ OnceIn(strand', OnWrites)
             /\ HasIn(strand', Written) <=> ~e
  <2> DEFINE h == [kind |-> "onWrite", err |-> e]
  <2>1. h \in Handlers /\ h.kind = "onWrite" /\ h.err = e
    BY HandlersAre
  <2> HIDE DEF h
  <2>2. h \in OnWrites /\ (h \in Written <=> ~e)
    BY <2>1, KindsOf
  <2>3. strand' = Append(strand, h)
    BY <1>6 DEF h
  <2>4. HasIn(strand', OnWrites) /\ OnceIn(strand', OnWrites)
    BY <1>0, <1>3, <2>1, <2>2, <2>3, AppendIt
  <2>5. ~HasIn(strand, Written)
    BY <1>3 DEF HasIn, Written
  <2>6. CASE e
    BY <1>0, <2>1, <2>2, <2>3, <2>4, <2>5, <2>6, AppendOther
  <2>7. CASE ~e
    BY <1>0, <2>1, <2>2, <2>3, <2>4, <2>7, AppendIt
  <2> QED  BY <2>4, <2>6, <2>7
<1>7. CASE WriteDone(i)
  <2>1. /\ strand' = Append(strand, [kind |-> "onWrite", err |-> FALSE])
        /\ wire' = Append(wire, Head(sendQueue))
    BY <1>3, <1>4, <1>7 DEF WriteDone
  <2>2. /\ HasIn(strand', OnWrites) /\ OnceIn(strand', OnWrites) /\ HasIn(strand', Written)
    BY <1>6, <2>1
  <2>3. wire \o sendQueue = wire' \o Tail(sendQueue)
    BY <1>0, <1>3, <2>1, ConcatHead
  <2> QED  BY <1>1, <1>3, <1>5, <2>2, <2>3 DEF SendInv, Pending
<1>8. CASE WriteFails(i)
  <2>1. /\ strand' = Append(strand, [kind |-> "onWrite", err |-> TRUE]) /\ wire' = wire
    BY <1>8 DEF WriteFails
  <2>2. /\ HasIn(strand', OnWrites) /\ OnceIn(strand', OnWrites) /\ ~HasIn(strand', Written)
    BY <1>6, <2>1
  <2> QED  BY <1>1, <1>3, <1>5, <2>1, <2>2 DEF SendInv, Pending
<1> QED  BY <1>7, <1>8

LEMMA SendInvKept == ASSUME TypeOK, SendInv, [Next]_vars PROVE SendInv'
<1>1. CASE PostSend
  <2>1. sent + 1 \in Messages
    BY <1>1, SessionAssumption DEF PostSend, TypeOK, Messages
  <2> DEFINE h == [kind |-> "enqueue", msg |-> sent + 1]
  <2>2. h \in Handlers /\ h.kind # "onWrite" /\ strand' = Append(strand, h)
    BY <1>1, <2>1, HandlersAre DEF PostSend
  <2> HIDE DEF h
  <2>3. NoWriteHandler
    BY <2>2, QueuesNoWrite
  <2>4. UNCHANGED <<sendVars, wire>> /\ closed' = closed
    BY <1>1 DEF PostSend
  <2> QED  BY <2>3, <2>4, SendInvUntouched
<1>2. CASE RunEnqueue
  <2>1. /\ strand # <<>> /\ strand' = Tail(strand) /\ Head(strand).kind = "enqueue"
        /\ EnqueueSend(Head(strand).msg) /\ wire' = wire
    BY <1>2 DEF RunEnqueue, Handler
  <2>2. Head(strand).msg \in Messages /\ NoWriteHandler
    BY <2>1, FirstHandler, RunsNoWrite
  <2> QED  BY <2>1, <2>2, EnqueueKeepsSendInv
<1>3. CASE OnWrite
  BY <1>3, OnWriteKeepsSendInv
<1>4. CASE OnHeaderRead
  <2>1. /\ strand # <<>> /\ strand' = Tail(strand) /\ Head(strand).kind # "onWrite"
        /\ UNCHANGED <<sendVars, wire>> /\ (closed => closed')
    BY <1>4 DEF OnHeaderRead, Handler, AfterReadError
  <2> QED  BY <2>1, RunsNoWrite, SendInvUntouched
<1>5. CASE OnBodyRead
  <2>1. /\ strand # <<>> /\ strand' = Tail(strand) /\ Head(strand).kind # "onWrite"
        /\ wire' = wire
    BY <1>5 DEF OnBodyRead, Handler
  <2>2. NoWriteHandler
    BY <2>1, RunsNoWrite
  <2>3. \/ UNCHANGED sendVars /\ (closed => closed')
        \/ sent < MaxMessages /\ EnqueueSend(sent + 1)
    BY <1>5 DEF OnBodyRead, AfterReadError, HandlePacket, HandlerThrows
  <2>4. sent < MaxMessages => sent + 1 \in Messages
    BY SessionAssumption DEF TypeOK, Messages
  <2>5. CASE UNCHANGED sendVars /\ (closed => closed')
    BY <2>1, <2>2, <2>5, SendInvUntouched
  <2>6. CASE sent < MaxMessages /\ EnqueueSend(sent + 1)
    BY <2>1, <2>2, <2>4, <2>6, EnqueueKeepsSendInv
  <2> QED  BY <2>3, <2>5, <2>6
<1>6. ASSUME NEW i \in DOMAIN writes, WriteDone(i) \/ WriteFails(i)
      PROVE  SendInv'
  BY <1>6, SocketKeepsSendInv
<1>7. CASE ReadDone \/ ReadFails
  <2>1. PICK e \in BOOLEAN : strand' = Append(strand, ReadHandler(e))
    BY <1>7 DEF ReadDone, ReadFails
  <2>2. ReadHandler(e) \in Handlers /\ ReadHandler(e).kind # "onWrite"
    BY HandlersAre DEF ReadHandler
  <2>3. UNCHANGED <<sendVars, wire>> /\ closed' = closed
    BY <1>7 DEF ReadDone, ReadFails
  <2> QED  BY <2>1, <2>2, <2>3, QueuesNoWrite, SendInvUntouched
<1>8. CASE UNCHANGED vars
  BY <1>8 DEF vars, SendInv, Pending
<1> QED  BY <1>1, <1>2, <1>3, <1>4, <1>5, <1>6, <1>7, <1>8 DEF Next, RunStrand, Socket
-----------------------------------------------------------------------------
(* The read loop *)

(* A step that runs or queues no handler of a read. *)
NoReadHandler ==
    /\ HasIn(strand', OnReads) <=> HasIn(strand, OnReads)
    /\ HasIn(strand', BodyReads) <=> HasIn(strand, BodyReads)
    /\ OnceIn(strand, OnReads) => OnceIn(strand', OnReads)

LEMMA RunsNoRead ==
    ASSUME TypeOK, strand # <<>>, strand' = Tail(strand),
           Head(strand).kind \in {"enqueue", "onWrite"}
    PROVE  NoReadHandler
<1>1. strand \in Seq(Handlers) /\ Head(strand) \in Handlers
  BY FirstHandler DEF TypeOK
<1>2. Head(strand) \notin OnReads /\ Head(strand) \notin BodyReads
  BY <1>1, KindsOf
<1> QED  BY <1>1, <1>2, RunOther DEF NoReadHandler

LEMMA QueuesNoRead ==
    ASSUME TypeOK, NEW h \in Handlers, strand' = Append(strand, h),
           h.kind \in {"enqueue", "onWrite"}
    PROVE  NoReadHandler
<1>1. strand \in Seq(Handlers)
  BY DEF TypeOK
<1>2. h \notin OnReads /\ h \notin BodyReads
  BY KindsOf
<1> QED  BY <1>1, <1>2, AppendOther DEF NoReadHandler

LEMMA ReadInvUntouched ==
    ASSUME ReadInv, FrameInv, NoReadHandler, UNCHANGED <<reading, frameVars>>,
           closed => closed', Running' => Running, fate' = "exception" => fate = "exception"
    PROVE  ReadInv' /\ FrameInv'
BY DEF ReadInv, FrameInv, NoReadHandler, frameVars

(* The handler of a read runs: it was the only one. *)
LEMMA RunsTheRead ==
    ASSUME TypeOK, ReadInv, strand # <<>>, strand' = Tail(strand),
           Head(strand).kind \in {"onHeaderRead", "onBodyRead"}
    PROVE  /\ OnceIn(strand', OnReads) /\ ~HasIn(strand', OnReads)
           /\ ~HasIn(strand', BodyReads) /\ reading = "none"
           /\ Head(strand).kind = "onBodyRead" => HasIn(strand, BodyReads)
<1>1. strand \in Seq(Handlers) /\ Head(strand) \in Handlers
  BY FirstHandler DEF TypeOK
<1>2. Head(strand) \in OnReads /\ OnceIn(strand, OnReads)
  BY <1>1, KindsOf DEF ReadInv
<1>3. HasIn(strand, OnReads) /\ ~HasIn(strand', OnReads) /\ OnceIn(strand', OnReads)
  BY <1>1, <1>2, RunIt
<1>4. ~HasIn(strand', BodyReads)
  BY <1>3 DEF HasIn, BodyReads
<1>5. Head(strand).kind = "onBodyRead" => HasIn(strand, BodyReads)
  <2>1. 1 \in DOMAIN strand /\ strand[1] = Head(strand)
    BY <1>1, Shifted
  <2> QED  BY <1>1, <2>1, KindsOf DEF HasIn
<1> QED  BY <1>3, <1>4, <1>5 DEF ReadInv

LEMMA ReadInvKept ==
    ASSUME TypeOK, ReadInv, FrameInv, [Next]_vars
    PROVE  ReadInv' /\ FrameInv'
<1>1. CASE PostSend
  <2>1. sent + 1 \in Messages
    BY <1>1, SessionAssumption DEF PostSend, TypeOK, Messages
  <2> DEFINE h == [kind |-> "enqueue", msg |-> sent + 1]
  <2>2. h \in Handlers /\ h.kind = "enqueue" /\ strand' = Append(strand, h)
    BY <1>1, <2>1, HandlersAre DEF PostSend
  <2> HIDE DEF h
  <2>3. NoReadHandler
    BY <2>2, QueuesNoRead
  <2> QED  BY <1>1, <2>3, ReadInvUntouched DEF PostSend, Running
<1>2. CASE RunEnqueue
  <2>1. NoReadHandler
    BY <1>2, RunsNoRead DEF RunEnqueue, Handler
  <2>2. UNCHANGED <<reading, frameVars>> /\ fate' = fate /\ (closed => closed')
    BY <1>2 DEF RunEnqueue, EnqueueSend
  <2> QED  BY <2>1, <2>2, ReadInvUntouched DEF Running
<1>3. CASE OnWrite
  <2>1. NoReadHandler
    BY <1>3, RunsNoRead DEF OnWrite, Handler
  <2>2. /\ UNCHANGED <<reading, frameVars>> /\ (closed => closed')
        /\ fate' = fate \/ fate' = "undefined"
    BY <1>3 DEF OnWrite
  <2> QED  BY <2>1, <2>2, ReadInvUntouched DEF Running
<1>4. CASE OnHeaderRead
  <2>1. /\ strand # <<>> /\ strand' = Tail(strand)
        /\ Head(strand).kind = "onHeaderRead" /\ fate = "running"
    BY <1>4 DEF OnHeaderRead, Handler, Running
  <2>2. /\ OnceIn(strand', OnReads) /\ ~HasIn(strand', OnReads)
        /\ ~HasIn(strand', BodyReads) /\ reading = "none"
    BY <2>1, RunsTheRead
  <2>3. CASE AfterReadError /\ UNCHANGED <<frameVars, fate>>
    BY <2>2, <2>3 DEF AfterReadError, ReadInv, FrameInv, frameVars, Running
  <2>4. CASE \E header \in NextHeader :
               /\ length' = header.length /\ payload' = header.size
               /\ framed' = (framed /\ Genuine(header))
               /\ fits' = (fits /\ Genuine(header) /\ FitsShort(header.size))
               /\ AsyncBodyRead(header)
               /\ UNCHANGED closed
    <3>1. PICK header \in NextHeader :
             /\ length' = header.length /\ payload' = header.size
             /\ framed' = (framed /\ Genuine(header))
             /\ fits' = (fits /\ Genuine(header) /\ FitsShort(header.size))
             /\ AsyncBodyRead(header)
             /\ UNCHANGED closed
      BY <2>4
    <3>2. /\ header.length \in -MaxShort - 1 .. MaxShort /\ header.size \in Nat
          /\ Genuine(header) /\ FitsShort(header.size) => header.length = header.size
      BY Lengths
    <3>3. ReadInv'
      BY <2>2, <3>1 DEF AsyncBodyRead, ReadInv, Running
    <3>4. ASSUME fits' PROVE framed' /\ fate' # "exception" /\ length' = payload'
      <4>1. fits /\ FitsShort(header.size) /\ framed /\ Genuine(header)
        BY <3>1, <3>4 DEF FrameInv, TypeOK
      <4>2. header.length = header.size /\ ~(header.length < 0)
        BY <3>2, <4>1
      <4> QED  BY <2>1, <3>1, <4>1, <4>2 DEF AsyncBodyRead
    <3> QED  BY <3>3, <3>4 DEF FrameInv
  <2> QED  BY <1>4, <2>3, <2>4 DEF OnHeaderRead
<1>5. CASE OnBodyRead
  <2>1. /\ strand # <<>> /\ strand' = Tail(strand)
        /\ Head(strand).kind = "onBodyRead" /\ fate = "running"
    BY <1>5 DEF OnBodyRead, Handler, Running
  <2>2. /\ OnceIn(strand', OnReads) /\ ~HasIn(strand', OnReads)
        /\ ~HasIn(strand', BodyReads) /\ reading = "none" /\ HasIn(strand, BodyReads)
    BY <2>1, RunsTheRead
  <2>3. CASE Head(strand).err
    BY <1>5, <2>2, <2>3 DEF OnBodyRead, AfterReadError, ReadInv, FrameInv, Running
  <2>4. CASE ~Head(strand).err
    <3>1. UNCHANGED <<length, payload, fits>>
      BY <1>5 DEF OnBodyRead
    <3>2. CASE /\ reading' = "header" /\ framed' = (framed /\ length = payload)
               /\ fate' = fate \/ fate' = "undefined"
      BY <2>1, <2>2, <3>1, <3>2 DEF FrameInv, ReadInv
    <3>3. CASE HandlerThrows
      BY <2>1, <2>2, <3>1, <3>3 DEF HandlerThrows, FrameInv, ReadInv, Running
    <3> QED  BY <1>5, <2>4, <3>2, <3>3 DEF OnBodyRead, HandlePacket, NextRead
  <2> QED  BY <2>3, <2>4
<1>6. ASSUME NEW i \in DOMAIN writes, WriteDone(i) \/ WriteFails(i)
      PROVE  ReadInv' /\ FrameInv'
  <2>1. PICK e \in BOOLEAN : strand' = Append(strand, [kind |-> "onWrite", err |-> e])
    BY <1>6 DEF WriteDone, WriteFails
  <2> DEFINE h == [kind |-> "onWrite", err |-> e]
  <2>2. h \in Handlers /\ h.kind = "onWrite" /\ strand' = Append(strand, h)
    BY <2>1, HandlersAre
  <2> HIDE DEF h
  <2>3. NoReadHandler
    BY <2>2, QueuesNoRead
  <2>4. UNCHANGED <<reading, frameVars, closed, fate>>
    BY <1>6 DEF WriteDone, WriteFails
  <2> QED  BY <2>3, <2>4, ReadInvUntouched DEF Running
<1>7. CASE ReadDone \/ ReadFails
  <2>1. PICK e \in BOOLEAN : strand' = Append(strand, ReadHandler(e))
    BY <1>7 DEF ReadDone, ReadFails
  <2>2. /\ reading # "none" /\ reading' = "none"
        /\ UNCHANGED <<closed, frameVars, fate>>
    BY <1>7 DEF ReadDone, ReadFails
  <2> DEFINE h == ReadHandler(e)
  <2>3. /\ h \in Handlers /\ h \in OnReads /\ (h \in BodyReads => reading = "body")
        /\ strand \in Seq(Handlers)
    BY <2>1, <2>2, HandlersAre, KindsOf DEF ReadHandler, TypeOK
  <2> HIDE DEF h
  <2>4. ~HasIn(strand, OnReads)
    BY <2>2 DEF ReadInv
  <2>5. HasIn(strand', OnReads) /\ OnceIn(strand', OnReads)
    BY <2>1, <2>3, <2>4, AppendIt DEF h
  <2>6. HasIn(strand', BodyReads) => reading = "body"
    <3>1. ASSUME h \notin BodyReads, HasIn(strand', BodyReads) PROVE FALSE
      <4>1. HasIn(strand, BodyReads)
        BY <2>1, <2>3, <3>1, AppendOther DEF h
      <4> QED  BY <2>4, <4>1 DEF HasIn, BodyReads
    <3> QED  BY <2>3, <3>1
  <2> QED  BY <2>2, <2>5, <2>6 DEF ReadInv, FrameInv, frameVars
<1>8. CASE UNCHANGED vars
  BY <1>8 DEF vars, ReadInv, FrameInv, Running
<1> QED  BY <1>1, <1>2, <1>3, <1>4, <1>5, <1>6, <1>7, <1>8 DEF Next, RunStrand, Socket
-----------------------------------------------------------------------------
(* Theorems *)

LEMMA InitInv == Init => IInv
<1> SUFFICES ASSUME Init PROVE IInv
  OBVIOUS
<1>1. /\ strand = <<>> /\ writes = <<>> /\ sendQueue = <<>> /\ writing = FALSE
      /\ accepted = <<>> /\ wire = <<>> /\ reading = "header" /\ framed
      /\ length = 0 /\ payload = 0 /\ fate = "running"
  BY DEF Init
<1>2. \A X : ~HasIn(strand, X) /\ OnceIn(strand, X)
  BY <1>1 DEF HasIn, OnceIn
<1>3. <<>> \o <<>> = <<>>
  OBVIOUS
<1>4. SendInv
  BY <1>1, <1>2, <1>3 DEF SendInv, Pending
<1>5. ReadInv /\ FrameInv
  BY <1>1, <1>2 DEF ReadInv, FrameInv
<1> QED  BY <1>4, <1>5, InitTypes DEF IInv

LEMMA InvHolds == Spec => []IInv
<1>1. IInv /\ [Next]_vars => IInv'
  <2>1. IInv => TypeOK /\ SendInv /\ ReadInv /\ FrameInv
    BY DEF IInv
  <2>2. TypeOK' /\ SendInv' /\ ReadInv' /\ FrameInv' => IInv'
    BY DEF IInv
  <2> QED  BY <2>1, <2>2, TypesKept, SendInvKept, ReadInvKept
<1> QED  BY <1>1, InitInv, PTL DEF Spec

LEMMA HandlersHere ==
    ASSUME TypeOK
    PROVE  /\ \A i \in DOMAIN strand : i \in WriteHandlers <=> strand[i] \in OnWrites
           /\ \A i \in DOMAIN strand : i \in ReadHandlers <=> strand[i] \in OnReads
           /\ \A i \in DOMAIN strand :
                 i \in WriteHandlers /\ ~strand[i].err <=> strand[i] \in Written
<1>1. \A i \in DOMAIN strand : strand[i] \in Handlers
  BY ElementOfSeq DEF TypeOK
<1> QED  BY <1>1, KindsOf DEF WriteHandlers, ReadHandlers

(* While the session is open one write is outstanding exactly when the     *)
(* queue is not empty, and nothing accepted is lost                        *)
(* (Session.cpp:81-113, 158-173).                                          *)
THEOREM SessionSendDiscipline == Spec => []SendDiscipline
<1>1. IInv => SendDiscipline
  <2> SUFFICES ASSUME IInv, ~closed PROVE SendDiscipline
    BY DEF SendDiscipline
  <2>1. TypeOK
    BY DEF IInv
  <2>2. /\ OnceIn(strand, OnWrites) /\ ~(writes # <<>> /\ HasIn(strand, OnWrites))
        /\ writes # <<>> => writes = <<Head(sendQueue)>>
        /\ writing <=> (writes # <<>> \/ HasIn(strand, OnWrites))
        /\ writing <=> sendQueue # <<>>
        /\ accepted = wire \o Pending
    BY DEF IInv, SendInv
  <2>3. Len(writes) <= 1
    <3>1. CASE writes = <<>>
      BY <3>1
    <3>2. CASE writes # <<>>
      <4>1. writes = <<Head(sendQueue)>>
        BY <2>2, <3>2
      <4> QED  BY <4>1
    <3> QED  BY <3>1, <3>2
  <2>4. /\ WriteHandlers # {} <=> HasIn(strand, OnWrites)
        /\ \A i, j \in WriteHandlers : i = j
    <3>1. WriteHandlers \subseteq DOMAIN strand
      BY DEF WriteHandlers
    <3> QED  BY <2>1, <2>2, <3>1, HandlersHere DEF HasIn, OnceIn
  <2>5. Unwritten = Pending
    <3>1. WriteHandlers \subseteq DOMAIN strand
      BY DEF WriteHandlers
    <3>2. (\E i \in WriteHandlers : ~strand[i].err) <=> HasIn(strand, Written)
      BY <2>1, <3>1, HandlersHere DEF HasIn, Written
    <3> QED  BY <3>2 DEF Unwritten, Pending
  <2> QED  BY <2>2, <2>3, <2>4, <2>5 DEF SendDiscipline
<1> QED  BY <1>1, InvHolds, PTL

(* One read is outstanding, and as long as the session is open and the     *)
(* program runs there is one (Session.cpp:53-65, 115-156).                 *)
THEOREM SessionReadLoop == Spec => []ReadLoop
<1>1. IInv => ReadLoop
  <2> SUFFICES ASSUME IInv PROVE ReadLoop
    OBVIOUS
  <2>1. ReadHandlers \subseteq DOMAIN strand /\ TypeOK
    BY DEF ReadHandlers, IInv
  <2>2. /\ ReadHandlers # {} <=> HasIn(strand, OnReads)
        /\ OnceIn(strand, OnReads) => \A i, j \in ReadHandlers : i = j
    BY <2>1, HandlersHere DEF HasIn, OnceIn
  <2> QED  BY <2>2 DEF IInv, ReadInv, ReadLoop
<1> QED  BY <1>1, InvHolds, PTL

(* Framing is kept as long as the peer writes its headers by SendPacket    *)
(* and every size fits in a short, whatever the order of the handlers      *)
(* (Packet.h:21-39, Session.cpp:53-65).                                    *)
THEOREM SessionFramingKept == Spec => []FramingKept
<1>1. IInv => FramingKept
  BY DEF IInv, FrameInv, FramingKept
<1> QED  BY <1>1, InvHolds, PTL

(* Every step of the session is a step of the ordered channel, or none. *)
LEMMA EnqueueIsAccept ==
    ASSUME TypeOK, NEW m \in Messages, EnqueueSend(m), wire' = wire
    PROVE  Channel!Next
<1>1. accepted \in Seq(Messages)
  BY DEF TypeOK
<1>2. CASE Overflow
  BY <1>2 DEF EnqueueSend, Channel!Next, Channel!Close
<1>3. CASE ~Overflow
  <2>1. accepted' = Append(accepted, m) /\ closed' = closed
    BY <1>3 DEF EnqueueSend
  <2>2. /\ Len(accepted') = Len(accepted) + 1
        /\ \A i \in DOMAIN accepted : accepted'[i] = accepted[i]
    BY <1>1, <2>1, Appended
  <2> QED  BY <2>1, <2>2 DEF Channel!Next, Channel!Accept
<1> QED  BY <1>2, <1>3

LEMMA StepIsChannelStep ==
    ASSUME TypeOK, SendInv, [Next]_vars
    PROVE  Channel!Next \/ UNCHANGED <<accepted, wire, closed>>
<1>0. ASSUME UNCHANGED <<accepted, wire>>, closed' = closed \/ closed' = TRUE
      PROVE  Channel!Next \/ UNCHANGED <<accepted, wire, closed>>
  BY <1>0 DEF Channel!Next, Channel!Close
<1>0a. sent < MaxMessages => sent + 1 \in Messages
  BY SessionAssumption DEF TypeOK, Messages
<1>1. CASE PostSend \/ ReadDone \/ ReadFails \/ UNCHANGED vars
  BY <1>1 DEF PostSend, ReadDone, ReadFails, vars, sendVars
<1>2. CASE RunEnqueue
  <2>1. Head(strand).msg \in Messages /\ EnqueueSend(Head(strand).msg) /\ wire' = wire
    BY <1>2, FirstHandler DEF RunEnqueue, Handler
  <2> QED  BY <2>1, EnqueueIsAccept
<1>3. CASE OnWrite
  <2>1. UNCHANGED <<accepted, wire>> /\ (closed' = closed \/ closed' = TRUE)
    BY <1>3 DEF OnWrite
  <2> QED  BY <1>0, <2>1
<1>4. CASE OnHeaderRead
  <2>1. UNCHANGED <<accepted, wire>> /\ (closed' = closed \/ closed' = TRUE)
    BY <1>4 DEF OnHeaderRead, AfterReadError, sendVars
  <2> QED  BY <1>0, <2>1
<1>5. CASE OnBodyRead
  <2>1. CASE Head(strand).err
    <3>1. UNCHANGED <<accepted, wire>> /\ (closed' = closed \/ closed' = TRUE)
      BY <1>5, <2>1 DEF OnBodyRead, AfterReadError, sendVars
    <3> QED  BY <1>0, <3>1
  <2>2. CASE ~Head(strand).err
    <3>1. (HandlePacket \/ HandlerThrows) /\ wire' = wire
      BY <1>5, <2>2 DEF OnBodyRead
    <3>2. CASE sent < MaxMessages /\ EnqueueSend(sent + 1)
      BY <1>0a, <3>1, <3>2, EnqueueIsAccept
    <3>3. CASE UNCHANGED <<sendVars, closed>>
      BY <1>0, <3>1, <3>3 DEF sendVars
    <3> QED  BY <3>1, <3>2, <3>3 DEF HandlePacket, HandlerThrows
  <2> QED  BY <2>1, <2>2
<1>6. ASSUME NEW i \in DOMAIN writes, WriteDone(i)
      PROVE  Channel!Next
  <2>0. wire \in Seq(Messages) /\ sendQueue \in Seq(Messages)
    BY DEF TypeOK
  <2>1. ~closed /\ wire' = Append(wire, writes[i]) /\ UNCHANGED <<accepted, closed>>
    BY <1>6 DEF WriteDone
  <2>2. /\ i = 1 /\ writes = <<Head(sendQueue)>> /\ sendQueue # <<>>
        /\ Pending = sendQueue
    BY <2>1, OneAtTheSocket
  <2>3. accepted = wire \o sendQueue /\ writes[i] = Head(sendQueue)
    BY <2>1, <2>2 DEF SendInv
  <2>4. /\ Len(wire) < Len(wire \o sendQueue)
        /\ (wire \o sendQueue)[Len(wire) + 1] = Head(sendQueue)
    BY <2>0, <2>2, ConcatHead
  <2>5. Len(wire) < Len(accepted) /\ accepted[Len(wire) + 1] = Head(sendQueue)
    BY <2>3, <2>4
  <2> QED  BY <2>1, <2>3, <2>5 DEF Channel!Next, Channel!Write
<1>7. ASSUME NEW i \in DOMAIN writes, WriteFails(i)
      PROVE  UNCHANGED <<accepted, wire, closed>>
  BY <1>7 DEF WriteFails
<1> QED  BY <1>1, <1>2, <1>3, <1>4, <1>5, <1>6, <1>7 DEF Next, RunStrand, Socket

(* The send queue implements the ordered channel: messages are written     *)
(* whole, in the order they were accepted, until the session closes        *)
(* (Session.cpp:67-113, 158-173).                                          *)
THEOREM SessionImplementsChannel == Spec => ChannelSpec
<1>1. Init => Channel!Init
  BY DEF Init, Channel!Init
<1>2. IInv /\ [Next]_vars => [Channel!Next]_<<accepted, wire, closed>>
  <2>1. IInv => TypeOK /\ SendInv
    BY DEF IInv
  <2> QED  BY <2>1, StepIsChannelStep
<1> QED  BY <1>1, <1>2, InvHolds, PTL DEF Spec, ChannelSpec, Channel!Spec
=============================================================================

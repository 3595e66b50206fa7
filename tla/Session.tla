------------------------------- MODULE Session -------------------------------
(***************************************************************************)
(* One ServerCore::Session: the send queue and the read loop, whose        *)
(* handlers run one at a time on the session's strand, against a socket    *)
(* that completes its operations when it likes.                            *)
(* Source: ServerCore/Session.{h,cpp}, and the HandlePacket of the         *)
(* sessions and packet handlers of the four servers.                       *)
(*                                                                         *)
(* A message sent is a number; of a message received only the size of its  *)
(* payload is kept, drawn when its header is read.  strand is the FIFO of  *)
(* handlers the strand still has to run: closures posted by senders and    *)
(* completions of socket operations.                                       *)
(***************************************************************************)
EXTENDS Packet, Sequences, SequencesExt

CONSTANTS
    MaxSendQueue,   \* Session.h:60
    MaxMessages,    \* bound: messages ever sent
    MaxPackets,     \* bound: packets ever received
    Sizes,          \* payload sizes the peer serialises
    StrayLengths    \* what a header can hold that SendPacket did not write:
                    \* cut out of a payload, or made up by the peer

ASSUME SessionAssumption ==
    /\ MaxSendQueue \in Nat \ {0} /\ MaxMessages \in Nat /\ MaxPackets \in Nat
    /\ Sizes \subseteq Nat
    /\ StrayLengths \subseteq -MaxShort - 1 .. MaxShort

VARIABLES
    closed,       \* _closed: the socket is closed
    sendQueue, writing,
    strand,       \* handlers waiting for the strand
    writes,       \* messages of the async_writes the socket is working on
    reading,      \* the async_read the socket is working on
    sent,         \* how many messages senders have produced
    received,     \* how many packets came in
    length,       \* _header.Length
    payload,      \* size of the message that header was written for
    framed,       \* history: every header was one SendPacket wrote, read
                  \* where its message starts
    fits,         \* history: every header was, and its size fitted its Length
    accepted,     \* history: messages pushed on sendQueue, in order
    wire,         \* history: messages written completely, in order
    fate          \* "running", or how the program left the code modelled
                  \* here: "undefined" behaviour, an "exception" of
                  \* AsyncBodyRead, or one a handler has "thrown"

vars == <<closed, sendQueue, writing, strand, writes, reading, sent, received,
          length, payload, framed, fits, accepted, wire, fate>>
sendVars  == <<sendQueue, writing, writes, accepted>>
frameVars == <<length, payload, framed, fits>>

Messages == 1 .. MaxMessages
Fates == {"running", "undefined", "exception", "thrown"}
Handlers == [kind : {"enqueue"}, msg : Messages]
              \cup [kind : {"onWrite", "onHeaderRead", "onBodyRead"}, err : BOOLEAN]

(* The session after Start(): the first header read is under way. *)
Init ==
    /\ closed = FALSE
    /\ sendQueue = <<>> /\ writing = FALSE
    /\ strand = <<>> /\ writes = <<>> /\ reading = "header"
    /\ sent = 0 /\ received = 0
    /\ length = 0 /\ payload = 0 /\ framed = TRUE /\ fits = TRUE
    /\ accepted = <<>> /\ wire = <<>>
    /\ fate = "running"
-----------------------------------------------------------------------------
(* Pieces of the handlers.                                                 *)

(* DoWrite with queue as the send queue. *)
DoWrite(queue) ==
    /\ sendQueue' = queue
    /\ writing' = TRUE
    /\ writes' = Append(writes, Head(queue))

DropQueue ==
    /\ sendQueue' = <<>> /\ writing' = FALSE
    /\ UNCHANGED writes

(* The closure EnqueueSend dispatches to the strand.  A full queue means a *)
(* slow peer: drop everything and close.                                   *)
Overflow_Unchecked == FALSE
Overflow == Len(sendQueue) >= MaxSendQueue

MayWrite_Always == TRUE
MayWrite == ~writing

EnqueueSend(m) ==
    IF Overflow
       THEN /\ DropQueue
            /\ closed' = TRUE
            /\ UNCHANGED accepted
       ELSE /\ accepted' = Append(accepted, m)
            /\ IF MayWrite
                  THEN DoWrite(Append(sendQueue, m))
                  ELSE /\ sendQueue' = Append(sendQueue, m)
                       /\ UNCHANGED <<writing, writes>>
            /\ UNCHANGED closed

(* The strand runs its next handler. *)
Running == fate = "running"
Handler(kind) == Running /\ strand # <<>> /\ Head(strand).kind = kind
-----------------------------------------------------------------------------
(* Another thread calls Send or SendShared. *)
PostSend ==
    /\ Running
    /\ sent < MaxMessages
    /\ sent' = sent + 1
    /\ strand' = Append(strand, [kind |-> "enqueue", msg |-> sent + 1])
    /\ UNCHANGED <<closed, sendVars, reading, received, frameVars, wire, fate>>

RunEnqueue ==
    /\ Handler("enqueue")
    /\ strand' = Tail(strand)
    /\ EnqueueSend(Head(strand).msg)
    /\ UNCHANGED <<reading, sent, received, frameVars, wire, fate>>

(* pop_front() on an empty deque is undefined: nothing is said of what     *)
(* follows.                                                                *)
NextWrite_Stops ==
    sendQueue' = Tail(sendQueue) /\ writing' = FALSE /\ UNCHANGED writes
NextWrite ==
    IF Len(sendQueue) = 1
       THEN sendQueue' = <<>> /\ writing' = FALSE /\ UNCHANGED writes
       ELSE DoWrite(Tail(sendQueue))

OnWrite ==
    /\ Handler("onWrite")
    /\ strand' = Tail(strand)
    /\ IF Head(strand).err
          THEN DropQueue /\ closed' = TRUE /\ UNCHANGED fate
       ELSE IF sendQueue = <<>>
          THEN fate' = "undefined" /\ UNCHANGED <<sendQueue, writing, writes, closed>>
       ELSE NextWrite /\ UNCHANGED <<closed, fate>>
    /\ UNCHANGED <<reading, sent, received, frameVars, accepted, wire>>

AfterReadError_ReadAgain == reading' = "header" /\ UNCHANGED closed
AfterReadError == closed' = TRUE /\ UNCHANGED reading

(* The headers the next four bytes can hold: the one SendPacket wrote for  *)
(* a message, or whatever the middle of a payload, or a peer that does not *)
(* use SendPacket, puts there.                                             *)
Genuine(header) == header \in SendPacket(header.size)
NextHeader ==
    [length : StrayLengths, size : {payload}]
      \cup (IF framed THEN UNION {SendPacket(n) : n \in Sizes} ELSE {})

(* A negative Length makes _recvBodyBuffer.resize throw in AsyncBodyRead:  *)
(* no handler catches it and run() ends.                                   *)
AsyncBodyRead(header) ==
    IF header.length < 0 THEN fate' = "exception" /\ UNCHANGED reading
                         ELSE reading' = "body" /\ UNCHANGED fate

OnHeaderRead ==
    /\ Handler("onHeaderRead")
    /\ strand' = Tail(strand)
    /\ IF Head(strand).err \/ ~ParseHeader(HeaderSize, 0)
          THEN AfterReadError /\ UNCHANGED <<frameVars, fate>>
          ELSE \E header \in NextHeader :
                 /\ length' = header.length /\ payload' = header.size
                 /\ framed' = (framed /\ Genuine(header))
                 /\ fits' = (fits /\ Genuine(header) /\ FitsShort(header.size))
                 /\ AsyncBodyRead(header)
                 /\ UNCHANGED closed
    /\ UNCHANGED <<sendVars, sent, received, wire>>

NextRead_Forgotten == "none"
NextRead == "header"

(* HandlePacket picks the handler of Code in its table (an unknown code's  *)
(* does nothing), which parses the body and may send a reply, at once      *)
(* because this is the strand.  The table has no entry for a negative      *)
(* Code, which only a stray header can hold.                               *)
HandlePacket ==
    \/ /\ sent < MaxMessages /\ sent' = sent + 1
       /\ EnqueueSend(sent + 1)
       /\ UNCHANGED fate
    \/ UNCHANGED <<sendVars, sent, closed, fate>>
    \/ ~framed /\ fate' = "undefined" /\ UNCHANGED <<sendVars, sent, closed>>

(* A handler that throws leaves run(): the only catch is outside it.       *)
HandlerThrows ==
    fate' = "thrown" /\ UNCHANGED <<sendVars, sent, closed, reading, framed>>

(* The next header is read whatever the handler returned.  It is read from *)
(* where this body ended, be that the end of the message or not.           *)
OnBodyRead ==
    /\ Handler("onBodyRead")
    /\ strand' = Tail(strand)
    /\ IF Head(strand).err
          THEN AfterReadError /\ UNCHANGED <<sendVars, sent, framed, fate>>
       ELSE \/ /\ HandlePacket
               /\ reading' = NextRead
               /\ framed' = (framed /\ length = payload)
            \/ HandlerThrows
    /\ UNCHANGED <<received, length, payload, fits, wire>>
-----------------------------------------------------------------------------
(* The socket.  An operation under way when the socket is closed fails.    *)

WriteDone(i) ==
    /\ ~closed /\ Running
    /\ i \in DOMAIN writes
    /\ writes' = RemoveAt(writes, i)
    /\ wire' = Append(wire, writes[i])
    /\ strand' = Append(strand, [kind |-> "onWrite", err |-> FALSE])
    /\ UNCHANGED <<closed, sendQueue, writing, accepted, reading, sent, received,
                   frameVars, fate>>

WriteFails(i) ==
    /\ Running
    /\ i \in DOMAIN writes
    /\ writes' = RemoveAt(writes, i)
    /\ strand' = Append(strand, [kind |-> "onWrite", err |-> TRUE])
    /\ UNCHANGED <<closed, sendQueue, writing, accepted, reading, sent, received,
                   frameVars, wire, fate>>

ReadHandler(err) ==
    [kind |-> IF reading = "header" THEN "onHeaderRead" ELSE "onBodyRead",
     err  |-> err]

ReadDone ==
    /\ ~closed /\ Running /\ reading # "none"
    /\ received < MaxPackets
    /\ received' = IF reading = "body" THEN received + 1 ELSE received
    /\ strand' = Append(strand, ReadHandler(FALSE))
    /\ reading' = "none"
    /\ UNCHANGED <<closed, sendVars, sent, frameVars, wire, fate>>

ReadFails ==
    /\ Running /\ reading # "none"
    /\ strand' = Append(strand, ReadHandler(TRUE))
    /\ reading' = "none"
    /\ UNCHANGED <<closed, sendVars, sent, received, frameVars, wire, fate>>
-----------------------------------------------------------------------------
RunStrand == RunEnqueue \/ OnWrite \/ OnHeaderRead \/ OnBodyRead

Socket ==
    \/ \E i \in DOMAIN writes : WriteDone(i) \/ WriteFails(i)
    \/ ReadDone \/ ReadFails

Next == PostSend \/ RunStrand \/ Socket

Spec == Init /\ [][Next]_vars

(* The io thread runs the strand, a live peer reads what is written to it, *)
(* and a closed socket fails what was under way.                           *)
Fairness ==
    /\ WF_vars(RunStrand)
    /\ WF_vars(\E i \in DOMAIN writes : WriteDone(i) \/ WriteFails(i))
    /\ WF_vars(closed /\ ReadFails)

FairSpec == Spec /\ Fairness
-----------------------------------------------------------------------------
(* Properties *)

TypeOK ==
    /\ closed \in BOOLEAN /\ writing \in BOOLEAN
    /\ fate \in Fates
    /\ sendQueue \in Seq(Messages) /\ Len(sendQueue) <= MaxSendQueue
    /\ strand \in Seq(Handlers)
    /\ writes \in Seq(Messages)
    /\ reading \in {"none", "header", "body"}
    /\ sent \in 0 .. MaxMessages /\ received \in 0 .. MaxPackets
    /\ length \in -MaxShort - 1 .. MaxShort /\ payload \in Nat
    /\ framed \in BOOLEAN /\ fits \in BOOLEAN
    /\ accepted \in Seq(Messages) /\ wire \in Seq(Messages)

WriteHandlers == {i \in DOMAIN strand : strand[i].kind = "onWrite"}
ReadHandlers ==
    {i \in DOMAIN strand : strand[i].kind \in {"onHeaderRead", "onBodyRead"}}

(* The head of the queue is popped only when the handler of its write runs. *)
Unwritten ==
    IF \E i \in WriteHandlers : ~strand[i].err THEN Tail(sendQueue)
                                                ELSE sendQueue

(* While the session is open, _writing says exactly whether a write is     *)
(* outstanding (at the socket, or done with its handler still queued), and *)
(* nothing accepted is lost: it is on the wire or still queued             *)
(* (EnqueueSend, DoWrite and OnWrite, Session.cpp:81-113, 158-173).        *)
SendDiscipline ==
    ~closed =>
        /\ Len(writes) <= 1 /\ \A i, j \in WriteHandlers : i = j
        /\ ~(writes # <<>> /\ WriteHandlers # {})
        /\ writing <=> (writes # <<>> \/ WriteHandlers # {})
        /\ writing <=> sendQueue # <<>>
        /\ accepted = wire \o Unwritten

(* One read is outstanding at a time, and while the session is open there  *)
(* always is one: the read loop never stops and never forks.               *)
ReadLoop ==
    /\ \A i, j \in ReadHandlers : i = j
    /\ ReadHandlers # {} => reading = "none"
    /\ ~closed /\ Running => ReadHandlers # {} \/ reading # "none"

(* As long as the peer writes its headers by SendPacket and every message  *)
(* fits in a short, each body a handler gets is the payload of one         *)
(* message, no header is read out of the middle of another, and no Length  *)
(* throws.  A bigger message breaks all three, and so may a peer that      *)
(* writes its own Length, which nothing compares with zero (Serialize,     *)
(* Packet.h:28; AsyncBodyRead, Session.cpp:56).                            *)
FramingKept ==
    fits =>
        /\ framed /\ fate # "exception"
        /\ reading = "body" => length = payload

(* Senders get the ordered channel OrderedSend promises. *)
Channel == INSTANCE OrderedSend
ChannelSpec == Channel!Spec

(* With a peer that reads, whatever is sent is written or the session      *)
(* closes.                                                                 *)
SentOrClosed ==
    \A n \in Messages :
        sent >= n ~> (closed \/ ~Running \/ n \in ToSet(wire))

(* A closed session comes to rest: no operation, no handler and so no      *)
(* reference is left, and the object can be freed.                         *)
ClosedComesToRest ==
    closed ~> (~Running \/ (strand = <<>> /\ writes = <<>> /\ reading = "none"))

(* Two async_writes are never under way on one socket (Session.cpp:84). *)
OneWriteAtATime == Len(writes) <= 1
=============================================================================

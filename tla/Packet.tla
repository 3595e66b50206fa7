------------------------------- MODULE Packet -------------------------------
(***************************************************************************)
(* The framing of a message on the wire: a header of two shorts, the       *)
(* payload's Length and its Code, then the payload.                        *)
(* Source: ServerCore/Packet.h.                                            *)
(***************************************************************************)
EXTENDS Integers

HeaderSize == 4          \* sizeof(PacketHeader)
MaxShort   == 32767      \* SHRT_MAX

Short(n) == ((n + 32768) % 65536) - 32768      \* static_cast<short>(n)

RequiredSize(size) == HeaderSize + size

(* The Length Serialize writes for a payload of size bytes.  Nothing       *)
(* compares it with the size: a payload beyond MaxShort is sent as it is.  *)
LengthField_WholePacket(size) == Short(RequiredSize(size))
LengthField(size) == Short(size)

(* What Serialize puts into a buffer, or nothing when it does not fit. *)
Serialize(buffer, size) ==
    IF buffer < RequiredSize(size) THEN {}
       ELSE {[length |-> LengthField(size), size |-> size]}

(* SendPacket sizes its buffer by RequiredSize. *)
SendPacket(size) == Serialize(RequiredSize(size), size)

(* Whether ParseHeader finds a header at offset in the bytes received. *)
ParseHeader(received, offset) ==
    offset < received /\ received - offset >= HeaderSize

FitsShort(size) == size <= MaxShort
=============================================================================

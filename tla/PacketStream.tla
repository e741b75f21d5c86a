---------------------------- MODULE PacketStream ----------------------------
(***************************************************************************)
(* Packets over TCP.  Up: a client's sendMsg (openttd/client.py) to the    *)
(* server's recv_data (openttd/server.py) and the buffer of OTTDProtocol   *)
(* (openttd/networking.py).  Down: the server's sendData to the client's   *)
(* receiveMsg_TCP, which asks the socket for the bytes it still lacks.     *)
(*                                                                         *)
(* A direction is the sequence of all bytes written to it; a receiver's    *)
(* buffer is the part between two offsets of that sequence.  A connection  *)
(* that ends is the subject of GameClient and ServerLoop.                  *)
(***************************************************************************)
EXTENDS Integers, Sequences

CONSTANTS
  Base,        \* values of a byte (256)
  Commands,    \* packet types
  Payloads,    \* what is sent in a packet
  MaxRecv,     \* the server's recv (4096)
  MaxPackets   \* bound: packets sent in a direction

ASSUME BaseAssumption == Base \in Nat \ {0, 1}
ASSUME BytesAssumption == Commands \subseteq 0 .. Base - 1 /\ Payloads \subseteq Seq(0 .. Base - 1)
ASSUME RecvAssumption == MaxRecv \in Nat \ {0} /\ MaxPackets \in Nat

VARIABLES
  \* up
  upSent, upBytes,
  low, high,      \* recvd holds the bytes behind low, up to high
  parsing,        \* the server is in stringReceived()
  upReceived,
  \* down
  downSent, downBytes,
  from, got,      \* receiveMsg_TCP: where this packet starts, how much of it is read
  want,           \* how much receive_bytes is to read: the header, or the packet
  downReceived,
  \* history: the offsets the packets were written to
  upStart, downStart

up   == <<upSent, upBytes, low, high, parsing, upReceived, upStart>>
down == <<downSent, downBytes, from, got, want, downReceived, downStart>>
streamVars == <<up, down>>

Byte        == 0 .. Base - 1
HeaderSize  == 3    \* HEADER: "<HB"
SizeSize    == 2    \* PACKETSIZEHEADER: "<H"
Packet(c, d) == [size |-> Len(d), command |-> c, data |-> d]
PacketSize(d) == HeaderSize + Len(d)

\* packing a size that does not fit raises
Fits(d) == PacketSize(d) < Base * Base
Packets == {Packet(c, d) : c \in Commands, d \in {e \in Payloads : Fits(e)}}

\* createPacketHeader(command, payload) + payload
Encode(c, d) == <<PacketSize(d) % Base, PacketSize(d) \div Base, c>> \o d

Part(s, first, behind) == SubSeq(s, first + 1, behind)
SizeAt(s, i) == s[i + 1] + Base * s[i + 2]

\* Mutant: the size is read as the size of the payload.
DecodeWholeSize(s) == [size |-> SizeAt(s, 0), command |-> s[3], data |-> SubSeq(s, 4, Len(s))]

\* complete_data_to_packet, and the end of receiveMsg_TCP
Decode(s) == [size |-> SizeAt(s, 0) - HeaderSize, command |-> s[3], data |-> SubSeq(s, 4, Len(s))]

-----------------------------------------------------------------------------
(* Up                                                                      *)

\* sendMsg_TCP: one send call for header and payload.
UpSend == \E c \in Commands, d \in Payloads :
  /\ Len(upSent) < MaxPackets /\ Fits(d)
  /\ upSent' = Append(upSent, Packet(c, d))
  /\ upBytes' = upBytes \o Encode(c, d)
  /\ upStart' = Append(upStart, Len(upBytes))
  /\ UNCHANGED <<low, high, parsing, upReceived, down>>

\* recv_data gets some of the bytes that have arrived and calls stringReceived.
UpRecv ==
  /\ ~parsing /\ parsing' = TRUE
  /\ high' \in high + 1 .. Len(upBytes) /\ high' <= high + MaxRecv
  /\ UNCHANGED <<upSent, upBytes, low, upReceived, upStart, down>>

Whole == high - low >= SizeSize /\ SizeAt(upBytes, low) <= high - low

\* Mutant: only one packet for each chunk of data.
UpParseOnce ==
  /\ parsing /\ Whole
  /\ upReceived' = Append(upReceived, Decode(Part(upBytes, low, low + SizeAt(upBytes, low))))
  /\ low' = low + SizeAt(upBytes, low)
  /\ parsing' = FALSE
  /\ UNCHANGED <<upSent, upBytes, high, upStart, down>>

\* Mutant: the packet stays in the buffer.
UpParseKeeps ==
  /\ parsing /\ Whole
  /\ upReceived' = Append(upReceived, Decode(Part(upBytes, low, low + SizeAt(upBytes, low))))
  /\ UNCHANGED <<upSent, upBytes, low, high, parsing, upStart, down>>

\* A turn of its loop: the next packet is cut off the buffer and handed to packetReceived.
UpParse ==
  /\ parsing /\ Whole
  /\ upReceived' = Append(upReceived, Decode(Part(upBytes, low, low + SizeAt(upBytes, low))))
  /\ low' = low + SizeAt(upBytes, low)
  /\ UNCHANGED <<upSent, upBytes, high, parsing, upStart, down>>

UpParsed ==
  /\ parsing /\ ~Whole /\ parsing' = FALSE
  /\ UNCHANGED <<upSent, upBytes, low, high, upReceived, upStart, down>>

-----------------------------------------------------------------------------
(* Down                                                                    *)

\* sendData and sendString.
DownSend == \E c \in Commands, d \in Payloads :
  /\ Len(downSent) < MaxPackets /\ Fits(d)
  /\ downSent' = Append(downSent, Packet(c, d))
  /\ downBytes' = downBytes \o Encode(c, d)
  /\ downStart' = Append(downStart, Len(downBytes))
  /\ UNCHANGED <<from, got, want, downReceived, up>>

\* receive_bytes: recv returns at most what is still lacking.
DownRecv ==
  /\ got < want
  /\ got' \in got + 1 .. want /\ from + got' <= Len(downBytes)
  /\ UNCHANGED <<downSent, downBytes, from, want, downReceived, downStart, up>>

\* Mutant: the size counts the header twice.
DownHeaderAddsHeader ==
  /\ want = HeaderSize /\ got = HeaderSize
  /\ SizeAt(downBytes, from) > HeaderSize
  /\ want' = HeaderSize + SizeAt(downBytes, from)
  /\ UNCHANGED <<downSent, downBytes, from, got, downReceived, downStart, up>>

\* The header is complete: the payload is what receive_bytes has to get next.
DownHeader ==
  /\ want = HeaderSize /\ got = HeaderSize
  /\ SizeAt(downBytes, from) > HeaderSize
  /\ want' = SizeAt(downBytes, from)
  /\ UNCHANGED <<downSent, downBytes, from, got, downReceived, downStart, up>>

\* Nothing is lacking: the packet is returned.
DownReturn ==
  /\ got = want
  /\ want > HeaderSize \/ SizeAt(downBytes, from) <= HeaderSize
  /\ downReceived' = Append(downReceived, Decode(Part(downBytes, from, from + got)))
  /\ from' = from + got /\ got' = 0 /\ want' = HeaderSize
  /\ UNCHANGED <<downSent, downBytes, downStart, up>>

-----------------------------------------------------------------------------
StreamInit ==
  /\ upSent = <<>> /\ upBytes = <<>> /\ low = 0 /\ high = 0 /\ parsing = FALSE
  /\ upReceived = <<>> /\ upStart = <<>>
  /\ downSent = <<>> /\ downBytes = <<>> /\ from = 0 /\ got = 0 /\ want = HeaderSize
  /\ downReceived = <<>> /\ downStart = <<>>

UpReceiver   == UpRecv \/ UpParse \/ UpParsed
DownReceiver == DownRecv \/ DownHeader \/ DownReturn
StreamNext == UpSend \/ UpReceiver \/ DownSend \/ DownReceiver
StreamSpec == StreamInit /\ [][StreamNext]_streamVars

\* What has arrived is read: the select loop comes round, the game thread reads on.
FairStream == StreamSpec /\ WF_streamVars(UpReceiver) /\ WF_streamVars(DownReceiver)

-----------------------------------------------------------------------------
StreamTypeOK ==
  /\ upSent \in Seq(Packets) /\ upReceived \in Seq(Packets) /\ upBytes \in Seq(Byte)
  /\ downSent \in Seq(Packets) /\ downReceived \in Seq(Packets) /\ downBytes \in Seq(Byte)
  /\ low \in 0 .. high /\ high \in 0 .. Len(upBytes) /\ parsing \in BOOLEAN
  /\ from \in Nat /\ got \in 0 .. want /\ want \in Nat /\ from + got <= Len(downBytes)
  /\ upStart \in Seq(Nat) /\ downStart \in Seq(Nat)

UpChannel   == INSTANCE PacketChannel WITH sent <- upSent, received <- upReceived
DownChannel == INSTANCE PacketChannel WITH sent <- downSent, received <- downReceived

\* The server receives what a client sends, packet by packet, in order, and in the end all
\* of it, wherever recv cuts the stream.
UpImplementsChannel == UpChannel!FairSpec

\* So does the client, whose receive_bytes may come back short in the header or the payload.
DownImplementsChannel == DownChannel!FairSpec

\* No packet that is complete in the buffer is held back until more data comes.
NothingHeldBack == ~parsing => ~Whole
=============================================================================

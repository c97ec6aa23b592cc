----------------------------- MODULE MqttWire -----------------------------
(***************************************************************************)
(* Reading and writing MQTT packets over a TLS session.  The session is a  *)
(* stream of bytes that come in records; a call that reads may run out of  *)
(* time anywhere, and the next call goes on with what is in the buffer.    *)
(* Writing may stop half way.                                              *)
(***************************************************************************)
EXTENDS MqttCodec, FiniteSets

CONSTANTS
  RxSize, TxSize,   \* AWS_IOT_MQTT_RX_BUF_LEN and _TX_BUF_LEN
  Incoming,         \* the packets the broker sends
  Outgoing,         \* the packets the client sends of its own
  MaxSplit,         \* bound: a record ends at most so far inside the rest of a packet
  MaxWritten        \* bound: packets the broker sends in a session

ASSUME WireAssumption ==
  /\ RxSize \in Nat \ 0..4 /\ TxSize \in Nat \ 0..4
  /\ Incoming \subseteq FromBroker /\ Outgoing \subseteq FromClient
  /\ MaxSplit \in Nat /\ MaxWritten \in Nat

VARIABLES
  coming,    \* records on their way to the client
  arrived,   \* bytes the client has not read
  rxBuf,     \* the first readBufIndex bytes of readBuf
  txBuf,     \* the packet in writeBuf
  sent,      \* the bytes of it that were written
  status,    \* what the last call that sent it returned
  written,   \* history: the packets the broker has sent in the session
  split,     \* history: a record of it has ended inside the rest of a packet
  read       \* history: the packets the client has read in it

inbound  == <<coming, arrived, rxBuf, written, split, read>>
outbound == <<txBuf, sent, status>>
wvars     == <<inbound, outbound>>

WTypeOK ==
  /\ coming \in Seq(Seq(Byte)) /\ arrived \in Seq(Byte) /\ rxBuf \in Seq(Byte)
  /\ txBuf \in Seq(Byte) /\ sent \in 0..Len(txBuf)
  /\ status \in {"none", "success", "too short"}
  /\ \A i \in DOMAIN written : written[i] \in Incoming
  /\ split \in BOOLEAN

WInit ==
  /\ coming = <<>> /\ arrived = <<>> /\ rxBuf = <<>>
  /\ txBuf = <<>> /\ sent = 0 /\ status = "none"
  /\ written = <<>> /\ split = FALSE /\ read = <<>>

-----------------------------------------------------------------------------
(* Sending.                                                                *)

\* iot_tls_write, again and again: it may stop after any part.
WrittenOf(bytes) == {0, Len(bytes) \div 2, Len(bytes)}

\* aws_iot_mqtt_internal_send_packet: an error or a timeout ends the loop, and then the result of unlocking the write mutex
\* takes the place of the result.
Transmit(p) ==
  LET bytes == Serialize(p)
  IN  /\ txBuf' = bytes
      /\ IF Len(bytes) >= TxSize
         THEN sent' = 0 /\ status' = "too short"
         ELSE /\ sent' \in WrittenOf(bytes)
              /\ status' = "success"

\* What the serializers check before they write to the buffer.
FitsTx(p) == FinalLength(Len(Rest(p))) <= TxSize

SendOutgoing ==
  /\ \E p \in Outgoing :
       IF FitsTx(p) THEN Transmit(p)
       ELSE status' = "too short" /\ UNCHANGED <<txBuf, sent>>
  /\ UNCHANGED inbound

-----------------------------------------------------------------------------
(* The broker and the network.                                             *)

LengthOf(bytes) == LengthEnd(bytes, 2)

BrokerSends ==
  /\ Len(written) < MaxWritten
  /\ \E p \in Incoming :
       LET bytes == Serialize(p)
       IN  /\ \E e \in 0..Len(bytes) - 1 :
                /\ e <= LengthOf(bytes) + MaxSplit
                /\ coming' = coming \o <<SubSeq(bytes, 1, e), SubSeq(bytes, e + 1, Len(bytes))>>
                /\ split' = (split \/ e > LengthOf(bytes))
           /\ written' = Append(written, p)
  /\ UNCHANGED <<arrived, rxBuf, read, outbound>>

RecordArrives ==
  /\ coming # <<>>
  /\ coming' = Tail(coming) /\ arrived' = arrived \o Head(coming)
  /\ UNCHANGED <<rxBuf, written, split, read, outbound>>

\* aws_iot_mqtt_connect begins with an empty buffer.
NewSession ==
  /\ coming' = <<>> /\ arrived' = <<>> /\ rxBuf' = <<>>
  /\ written' = <<>> /\ split' = FALSE /\ read' = <<>>
  /\ UNCHANGED outbound

-----------------------------------------------------------------------------
(* _aws_iot_mqtt_internal_read_packet, in the time that is left for it: it *)
(* gets the bytes that have arrived.                                       *)

Bytes  == rxBuf \o arrived
LenEnd == LengthEnd(Bytes, 2)            \* the last byte of the length
Rem    == ReadLength(Bytes, 2, LenEnd)
InBuf  == IF Len(rxBuf) > LenEnd THEN Len(rxBuf) ELSE LenEnd
First(k)  == SubSeq(Bytes, 1, IF k < Len(Bytes) THEN k ELSE Len(Bytes))
Beyond(k) == SubSeq(Bytes, k + 1, Len(Bytes))

\* Mutation: the next call begins anew.
ReadShort_Flushes ==
  /\ arrived # <<>> /\ LenEnd = 0
  /\ rxBuf' = <<>> /\ arrived' = Beyond(1 + MaxBytes)
  /\ UNCHANGED <<coming, written, split, read, outbound>>

\* The header and the length are read byte by byte, and each is kept; four
\* bytes of length that do not end it are an error that stays.
ReadShort ==
  /\ arrived # <<>> /\ LenEnd = 0
  /\ rxBuf' = First(1 + MaxBytes) /\ arrived' = Beyond(1 + MaxBytes)
  /\ UNCHANGED <<coming, written, split, read, outbound>>

TooLong == Rem + LenEnd >= RxSize

\* The packet is whole: it is handed on, and a publication with QOS1 is
\* acknowledged.
ReadPacket ==
  /\ LenEnd > 0 /\ ~TooLong
  /\ LET end    == LenEnd + Rem
         packet == Deserialize(First(end))
     IN  /\ end <= Len(Bytes)
         /\ rxBuf' = <<>>
         /\ arrived' = Beyond(IF end < Len(rxBuf) THEN Len(rxBuf) ELSE end)
         /\ read' = Append(read, packet)
         /\ IF packet.type = "PUBLISH" /\ packet.qos > 0
            THEN Transmit([type |-> "PUBACK", id |-> packet.id])
            ELSE UNCHANGED outbound
  /\ UNCHANGED <<coming, written, split>>

\* Not all of the rest has arrived: what has is read, but iot_tls_read reports
\* no length unless it gets everything, so it is forgotten.
ReadTorn ==
  /\ LenEnd > 0 /\ ~TooLong
  /\ LenEnd + Rem > Len(Bytes)
  /\ rxBuf' = First(InBuf)
  /\ arrived' = <<>>
  /\ <<rxBuf, arrived>>' # <<rxBuf, arrived>>
  /\ UNCHANGED <<coming, written, split, read, outbound>>

\* A packet that is too long is read over the buffer, a buffer at a time and
\* at least one, even if less than that is left of it: then the next packet is
\* taken along, or, if it has not arrived, the call runs out of time.  Only a rest
\* of a buffer or more that is read to its end is forgotten; else the first
\* bytes stay in the buffer, as they have been overwritten.  When the next packet
\* was taken along the call reports success, with the type of an earlier packet;
\* but the buffer begins with the high byte of a name's length, which is no
\* publication's (names are shorter than 12288 bytes).
OverwrittenByte(i, data) ==
  LET over == {j \in DOMAIN data : (j - 1) % RxSize = i - 1}
  IN  IF over = {} THEN Bytes[i] ELSE data[CHOOSE j \in over : \A k \in over : k <= j]

DropPacket ==
  /\ LenEnd > 0 /\ TooLong
  /\ LET need == InBuf + IF Rem < RxSize THEN RxSize ELSE Rem
         data == SubSeq(First(need), InBuf + 1, Len(First(need)))
     IN  /\ arrived' = Beyond(need)
         /\ rxBuf' = IF Rem >= RxSize /\ Len(data) = Rem THEN <<>>
                     ELSE [i \in 1..InBuf |-> OverwrittenByte(i, data)]
  /\ <<rxBuf, arrived>>' # <<rxBuf, arrived>>
  /\ UNCHANGED <<coming, written, split, read, outbound>>

-----------------------------------------------------------------------------
WNext ==
  \/ SendOutgoing \/ BrokerSends \/ RecordArrives \/ NewSession
  \/ ReadShort \/ ReadPacket \/ ReadTorn \/ DropPacket

WSpec == WInit /\ [][WNext]_wvars

-----------------------------------------------------------------------------
(* Properties.                                                             *)

\* However reading is cut short, the client reads the packets that fit its
\* buffer, as they were written and in their order; the packets that do not
\* fit take nothing with them.
Fits(p) == Len(Serialize(p)) < RxSize

\* How many of the first k packets fit.
Fitting(k) == Cardinality({j \in 1..k : Fits(written[j])})

\* The packet read as the i-th is the i-th of those that fit.
InOrder ==
  \A i \in DOMAIN read :
     \E k \in DOMAIN written :
        Fits(written[k]) /\ Fitting(k) = i /\ read[i] = written[k]

\* When nothing is on its way and the buffer is empty, none is missing.
NoneMissing ==
  coming = <<>> /\ arrived = <<>> /\ rxBuf = <<>> => Len(read) = Fitting(Len(written))

\* Each packet that fits is read once, in its turn.
EachInTurn == InOrder /\ NoneMissing

\* "if the buffer is too short then the message will be dropped silently"
\* (aws_iot_mqtt_client_common_internal.c:409): the message, and nothing else.
DroppedSilently == ~split => EachInTurn

\* The same for the sessions in which no record has ended inside the rest of a
\* packet and the packets that were too long were so by their rest alone.
Drained(p) == Fits(p) \/ Len(Rest(p)) >= RxSize
Whole      == ~split /\ \A i \in DOMAIN written : Drained(written[i])
ReadWhole  == Whole => EachInTurn

\* No packet is longer than the buffer it is put together in, though the check
\* before the writing only estimates the length, and what is kept from one call
\* to the next fits the other one.
NoOverrun == Len(txBuf) <= TxSize /\ Len(rxBuf) <= RxSize

\* Bytes are bytes, and no buffer is overrun by them.
BuffersHold == WTypeOK /\ NoOverrun

-----------------------------------------------------------------------------
\* aws_iot_mqtt_client_interface.h:109 "An IoT Error Type defining
\* successful/failed publish": what is reported as sent was written whole.
SentIsWritten == status = "success" => sent = Len(txBuf)
=============================================================================

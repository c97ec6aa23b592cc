----------------------------- MODULE MqttCodec -----------------------------
(***************************************************************************)
(* The bytes of MQTT packets as the client of the AWS SDK writes and reads *)
(* them: a header byte, the length of the rest in one to four digits to    *)
(* the base 128, and the rest.  A packet is a record with the fields its   *)
(* type needs; names and payloads are sequences of bytes.                  *)
(***************************************************************************)
EXTENDS Integers, Sequences

Byte     == 0..255
Radix    == 128
MaxBytes == 4               \* MAX_NO_OF_REMAINING_LENGTH_BYTES
Power    == <<1, 128, 16384, 128 * 16384>>

-----------------------------------------------------------------------------
(* Lengths.                                                                *)

LengthSize(n) == IF n < 128 THEN 1 ELSE IF n < 16384 THEN 2 ELSE IF n < 128 * 16384 THEN 3 ELSE 4

\* aws_iot_mqtt_internal_write_len_to_buffer: the lowest digit first, all but
\* the last with the top bit set
WriteLength(n) ==
  [i \in 1..LengthSize(n) |->
     ((n \div Power[i]) % Radix) + (IF i < LengthSize(n) THEN Radix ELSE 0)]

\* Where the length that starts at byte i of s ends; 0 when it does not within
\* four digits, or s is too short to tell.
LengthEnd(s, i) ==
  LET last == {k \in 1..MaxBytes : i + k - 1 <= Len(s) /\ s[i + k - 1] < Radix}
  IN  IF last = {} THEN 0 ELSE i - 1 + CHOOSE k \in last : \A j \in last : k <= j

Digit(s, i, end, k) == IF i + k - 1 <= end THEN (s[i + k - 1] % Radix) * Power[k] ELSE 0

ReadLength(s, i, end) ==
  Digit(s, i, end, 1) + Digit(s, i, end, 2) + Digit(s, i, end, 3) + Digit(s, i, end, 4)

\* Mutation: the header byte is forgotten.
FinalLength_NoHeader(rem) == rem + LengthSize(rem)

\* aws_iot_mqtt_internal_get_final_packet_length_from_remaining_length: the
\* header byte is added before the digits are counted.
FinalLength(rem) == rem + 1 + LengthSize(rem + 1)

-----------------------------------------------------------------------------
(* Fields.                                                                 *)

Word(n)        == <<n \div 256, n % 256>>
ReadWord(s, i) == 256 * s[i] + s[i + 1]
String(s)      == Word(Len(s)) \o s

TypeCode == [CONNECT |-> 1, CONNACK |-> 2, PUBLISH |-> 3, PUBACK |-> 4, SUBSCRIBE |-> 8,
             SUBACK |-> 9, UNSUBSCRIBE |-> 10, UNSUBACK |-> 11, PINGREQ |-> 12,
             PINGRESP |-> 13, DISCONNECT |-> 14]

\* aws_iot_mqtt_internal_init_header: flags are only given for publications
\* and the two requests that go with QOS1.
Header(p) ==
  16 * TypeCode[p.type] +
    CASE p.type = "PUBLISH" -> 8 * p.dup + 2 * p.qos + p.retained
      [] p.type \in {"SUBSCRIBE", "UNSUBSCRIBE"} -> 2
      [] OTHER -> 0

\* The names in a CONNECT follow its flags in a fixed order.  The firmware gives
\* neither a will nor a password.
ConnectRest(p) ==
  String(<<77, 81, 84, 84>>) \o
  <<4, (IF p.clean THEN 2 ELSE 0) + (IF p.user # <<>> THEN 128 ELSE 0)>> \o
  Word(p.keepalive) \o String(p.client) \o (IF p.user # <<>> THEN String(p.user) ELSE <<>>)

PublishRest(p) ==
  String(p.topic) \o (IF p.qos > 0 THEN Word(p.id) ELSE <<>>) \o p.payload

SubscribeRest(p)   == Word(p.id) \o String(p.topic) \o <<p.qos>>
UnsubscribeRest(p) == Word(p.id) \o String(p.topic)
AckRest(p)         == Word(p.id)

Rest(p) ==
  CASE p.type = "CONNECT"     -> ConnectRest(p)
    [] p.type = "CONNACK"     -> <<0, p.code>>
    [] p.type = "PUBLISH"     -> PublishRest(p)
    [] p.type = "SUBSCRIBE"   -> SubscribeRest(p)
    [] p.type = "SUBACK"      -> Word(p.id) \o p.granted
    [] p.type = "UNSUBSCRIBE" -> UnsubscribeRest(p)
    [] p.type \in {"PUBACK", "UNSUBACK"} -> AckRest(p)
    [] p.type \in {"PINGREQ", "PINGRESP", "DISCONNECT"} -> <<>>

Serialize(p) == <<Header(p)>> \o WriteLength(Len(Rest(p))) \o Rest(p)

-----------------------------------------------------------------------------
(* The packets that there are: words are of 16 bits, lengths of four       *)
(* digits, and a publication has an identifier if it is acknowledged.      *)

Name  == {s \in Seq(Byte) : Len(s) < 65536}
Id    == {n \in Nat : n < 65536}
Short(p) == Len(Rest(p)) < 128 * 16384 * 128

Publications ==
  {p \in [type : {"PUBLISH"}, dup : 0..1, qos : 0..1, retained : 0..1,
          topic : Name, id : Id, payload : Seq(Byte)] :
     (p.qos = 0 => p.id = 0) /\ Short(p)}

FromBroker ==
  Publications
    \cup [type : {"CONNACK"}, code : Byte]
    \cup {p \in [type : {"SUBACK"}, id : Id, granted : Seq(Byte)] : Len(p.granted) <= 2}
    \cup [type : {"PUBACK", "UNSUBACK"}, id : Id]
    \cup [type : {"PINGRESP"}]

FromClient ==
  Publications
    \cup [type : {"CONNECT"}, clean : BOOLEAN, keepalive : Id, client : Name, user : Name]
    \cup [type : {"SUBSCRIBE"}, id : Id, topic : Name, qos : 0..1]
    \cup [type : {"UNSUBSCRIBE"}, id : Id, topic : Name]
    \cup [type : {"PUBACK"}, id : Id]
    \cup [type : {"PINGREQ", "DISCONNECT"}]

-----------------------------------------------------------------------------
(* What the client makes of a packet it has read.                          *)

TypeOf(s) ==
  LET named == {t \in DOMAIN TypeCode : TypeCode[t] = s[1] \div 16}
  IN  IF named = {} THEN "malformed" ELSE CHOOSE t \in named : TRUE

\* Each deserializer takes the packet s, whose length ends just before byte i;
\* what it refuses is malformed.  A publication whose identifier is cut off is
\* not refused - what the client then finds behind it in its buffer is taken to be
\* 0 -, and a SUBACK may grant one more than was asked for.
Malformed == [type |-> "malformed"]

Publication(s, i) ==
  LET rest  == Len(s) + 1 - i
      qos   == (s[1] \div 2) % 4
      topic == String(SubSeq(s, i + 2, i + 1 + ReadWord(s, i)))
      after == i + Len(topic)
  IN  IF rest < 2 \/ ReadWord(s, i) + 2 > rest THEN Malformed
      ELSE [type |-> "PUBLISH", dup |-> (s[1] \div 8) % 2, qos |-> qos, retained |-> s[1] % 2,
            topic |-> SubSeq(topic, 3, Len(topic)),
            id |-> IF qos > 0 /\ after < Len(s) THEN ReadWord(s, after) ELSE 0,
            payload |-> SubSeq(s, IF qos > 0 THEN after + 2 ELSE after, Len(s))]

Connack(s, i) ==
  IF Len(s) + 1 - i # 2 THEN Malformed ELSE [type |-> "CONNACK", code |-> s[i + 1]]

Suback(s, i) ==
  IF Len(s) + 1 - i \notin 2..4 THEN Malformed
  ELSE [type |-> "SUBACK", id |-> ReadWord(s, i), granted |-> SubSeq(s, i + 2, Len(s))]

Ack(s, i, type) ==
  IF Len(s) + 1 - i < 2 THEN Malformed ELSE [type |-> type, id |-> ReadWord(s, i)]

Deserialize(s) ==
  LET i == LengthEnd(s, 2) + 1
      t == TypeOf(s)
  IN  CASE t = "PUBLISH" -> Publication(s, i)
        [] t = "CONNACK" -> Connack(s, i)
        [] t = "SUBACK"  -> Suback(s, i)
        [] t \in {"PUBACK", "UNSUBACK"} -> Ack(s, i, t)
        [] t = "malformed" -> Malformed
        [] OTHER -> [type |-> t]
=============================================================================

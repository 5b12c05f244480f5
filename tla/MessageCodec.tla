----------------------------- MODULE MessageCodec -----------------------------
(***************************************************************************)
(* The fifteen messages and the four tables that turn them into frames and *)
(* back: the encoder and the decoder of the Windows program                *)
(* (windows/src/protocol/message.rs) and those of the firmware             *)
(* (firmware/src/protocol/message.cpp).  They are written independently,   *)
(* in two languages; each is translated from its own source.               *)
(*                                                                         *)
(* A message is [type, fields, text]: its numbers in wire order, a reserved *)
(* field being a number that must be 0, and the text of the messages that  *)
(* end in one.  Why a message is refused is left out.                      *)
(***************************************************************************)
EXTENDS ProtocolFrame

CONSTANTS
  MaximumText,    \* MAXIMUM_ENDPOINT_NAME_LENGTH and the limit of ERROR: 240
  IllFormedBytes  \* bytes that make a text ill-formed UTF-8

\* The length of a text takes two bytes.
ASSUME CodecAssumption == MaximumText \in Nat /\ MaximumText < Base * Base

Version == 1

MessageType ==
  [HelloRequest |-> 1, HelloResponse |-> 2, SyncRequest |-> 16, SyncBegin |-> 17,
   OutputEndpoint |-> 18, InputEndpoint |-> 19, CurrentOutput |-> 20,
   CurrentInput |-> 21, SyncEnd |-> 22, SetOutputRequest |-> 32,
   SetInputRequest |-> 33, SetResult |-> 34, Ping |-> 48, Pong |-> 49, Error |-> 127]

Types     == DOMAIN MessageType
TextTypes == {"OutputEndpoint", "InputEndpoint", "Error"}

NoMessage == [type |-> "none", fields |-> <<>>, text |-> <<>>]

\* What a byte of a number counts for: Base to the power of k.
Power[k \in 0..4] == IF k = 0 THEN 1 ELSE Base * Power[k - 1]

\* Numbers: their width in bytes and the values a message may give them.
Number(width) == [width |-> width, least |-> 0, most |-> Power[width] - 1]
U8  == Number(1)
U16 == Number(2)
U32 == Number(4)
NonZero(u)        == [u EXCEPT !.least = 1]
UpTo(u, n)        == [u EXCEPT !.most = n]
Between(u, m, n)  == [u EXCEPT !.least = m, !.most = n]
Reserved(u)       == UpTo(u, 0)
MaximumEndpoints  == 64

\* A number at an offset of the payload; a layout is the numbers and their size.
At(offset, u) == [offset |-> offset, width |-> u.width, least |-> u.least,
                  most |-> u.most]
Layout(size, fields) == [size |-> size, fields |-> fields]

\* Mutant: the high bits stay in the byte.
ByteOfUntruncated(v, k) == v \div Power[k - 1]

\* The bytes of a number, little-endian, and its value.
ByteOf(v, k) == (v \div Power[k - 1]) % Base
Value(p, x) ==
  LET low[k \in 0..x.width] ==
        IF k = 0 THEN 0 ELSE low[k - 1] + p[x.offset + k] * Power[k - 1]
  IN  low[x.width]

WellFormed(text) == \A i \in DOMAIN text : text[i] \notin IllFormedBytes

\* Every number is in its range, and a result has an error code unless it is 0.
Valid(type, fields, layout) ==
  /\ \A i \in DOMAIN layout.fields :
       fields[i] \in layout.fields[i].least..layout.fields[i].most
  /\ type = "SetResult" => (fields[3] = 0 <=> fields[4] = 0)

\* The length of a text is the number before it.
TextLength(type, fields) == IF type \in TextTypes THEN fields[Len(fields)] ELSE 0

Written(m, layout) ==
  [k \in 1..layout.size |->
     LET i == CHOOSE i \in DOMAIN layout.fields :
                k - layout.fields[i].offset \in 1..layout.fields[i].width
     IN  ByteOf(m.fields[i], k - layout.fields[i].offset)] \o m.text

Encode(m, layout) ==
  IF /\ Valid(m.type, m.fields, layout) /\ WellFormed(m.text)
     /\ Len(m.text) = TextLength(m.type, m.fields)
  THEN Framed(Version, MessageType[m.type], Written(m, layout))
  ELSE NoFrame

Decode(frame, Layouts) ==
  LET known  == {t \in Types : MessageType[t] = frame.type}
      type   == CHOOSE t \in known : TRUE
      layout == Layouts[type]
      values == [i \in DOMAIN layout.fields |-> Value(frame.payload, layout.fields[i])]
      text   == SubSeq(frame.payload, layout.size + 1, Len(frame.payload))
  IN  IF /\ frame.version = Version /\ known # {}
         /\ Len(frame.payload) >= layout.size
         /\ Len(text) = TextLength(type, values)
         /\ Valid(type, values, layout) /\ WellFormed(text)
      THEN [type |-> type, fields |-> values, text |-> text]
      ELSE NoMessage

-----------------------------------------------------------------------------
(* The Windows program appends one number after the other ...              *)

OneAfterTheOther(us) ==
  LET end[i \in 0..Len(us)] == IF i = 0 THEN 0 ELSE end[i - 1] + us[i].width
  IN  Layout(end[Len(us)], [i \in 1..Len(us) |-> At(end[i - 1], us[i])])

HostWritesEndpoint ==
  <<NonZero(U32), NonZero(U16), Between(U16, 1, MaximumText)>>
HostWritesRoles == <<NonZero(U32), U16, U16, U16>>
HostWritesSetRequest == <<NonZero(U32), NonZero(U32), NonZero(U16)>>

HostWrites ==
  [HelloRequest     |-> <<U8, U8, U32, U32, Reserved(U16)>>,
   HelloResponse    |-> <<U8, U8, U16, U16, U16, U32, U32, U32>>,
   SyncRequest      |-> <<UpTo(U8, 2)>>,
   SyncBegin        |-> <<NonZero(U32), UpTo(U16, MaximumEndpoints),
                          UpTo(U16, MaximumEndpoints)>>,
   OutputEndpoint   |-> HostWritesEndpoint,
   InputEndpoint    |-> HostWritesEndpoint,
   CurrentOutput    |-> HostWritesRoles,
   CurrentInput     |-> HostWritesRoles,
   SyncEnd          |-> <<NonZero(U32)>>,
   SetOutputRequest |-> HostWritesSetRequest,
   SetInputRequest  |-> HostWritesSetRequest,
   SetResult        |-> <<NonZero(U32), UpTo(U8, 1), UpTo(U8, 4), U16, NonZero(U32)>>,
   Ping             |-> <<U32>>,
   Pong             |-> <<U32>>,
   Error            |-> <<Between(U16, 1, 16), U8, Reserved(U8), U32,
                          UpTo(U16, MaximumText)>>]

HostEncode(m) == Encode(m, OneAfterTheOther(HostWrites[m.type]))

(* ... and reads them at their offsets.                                    *)

\* Mutant: an endpoint without a name is accepted.
HostReadsNamelessEndpoint ==
  Layout(8, <<At(0, NonZero(U32)), At(4, NonZero(U16)), At(6, UpTo(U16, MaximumText))>>)

HostReadsEndpoint ==
  Layout(8, <<At(0, NonZero(U32)), At(4, NonZero(U16)),
              At(6, Between(U16, 1, MaximumText))>>)

\* Mutant: the defaults of two roles are read in the wrong order.
HostReadsRolesSwapped ==
  Layout(10, <<At(0, NonZero(U32)), At(6, U16), At(4, U16), At(8, U16)>>)

HostReadsRoles ==
  Layout(10, <<At(0, NonZero(U32)), At(4, U16), At(6, U16), At(8, U16)>>)
HostReadsSetRequest ==
  Layout(10, <<At(0, NonZero(U32)), At(4, NonZero(U32)), At(8, NonZero(U16))>>)

HostReads ==
  [HelloRequest     |-> Layout(12, <<At(0, U8), At(1, U8), At(2, U32), At(6, U32),
                                     At(10, Reserved(U16))>>),
   HelloResponse    |-> Layout(20, <<At(0, U8), At(1, U8), At(2, U16), At(4, U16),
                                     At(6, U16), At(8, U32), At(12, U32), At(16, U32)>>),
   SyncRequest      |-> Layout(1, <<At(0, UpTo(U8, 2))>>),
   SyncBegin        |-> Layout(8, <<At(0, NonZero(U32)), At(4, UpTo(U16, 64)),
                                    At(6, UpTo(U16, 64))>>),
   OutputEndpoint   |-> HostReadsEndpoint,
   InputEndpoint    |-> HostReadsEndpoint,
   CurrentOutput    |-> HostReadsRoles,
   CurrentInput     |-> HostReadsRoles,
   SyncEnd          |-> Layout(4, <<At(0, NonZero(U32))>>),
   SetOutputRequest |-> HostReadsSetRequest,
   SetInputRequest  |-> HostReadsSetRequest,
   SetResult        |-> Layout(12, <<At(0, NonZero(U32)), At(4, UpTo(U8, 1)),
                                     At(5, UpTo(U8, 4)), At(6, U16), At(8, NonZero(U32))>>),
   Ping             |-> Layout(4, <<At(0, U32)>>),
   Pong             |-> Layout(4, <<At(0, U32)>>),
   Error            |-> Layout(10, <<At(0, Between(U16, 1, 16)), At(2, U8),
                                     At(3, Reserved(U8)), At(4, U32),
                                     At(8, UpTo(U16, MaximumText))>>)]

HostDecode(frame) == Decode(frame, HostReads)

-----------------------------------------------------------------------------
(* The firmware writes and reads at offsets.                               *)

FirmwareEndpoint ==
  Layout(8, <<At(0, NonZero(U32)), At(4, NonZero(U16)), At(6, Between(U16, 1, MaximumText))>>)

FirmwareReads ==
  LET Roles      == Layout(10, <<At(0, NonZero(U32)), At(4, U16), At(6, U16), At(8, U16)>>)
      SetRequest == Layout(10, <<At(0, NonZero(U32)), At(4, NonZero(U32)), At(8, NonZero(U16))>>)
  IN [HelloRequest     |-> Layout(12, <<At(0, U8), At(1, U8), At(2, U32), At(6, U32),
                                        At(10, Reserved(U16))>>),
      HelloResponse    |-> Layout(20, <<At(0, U8), At(1, U8), At(2, U16), At(4, U16),
                                        At(6, U16), At(8, U32), At(12, U32), At(16, U32)>>),
      SyncRequest      |-> Layout(1, <<At(0, UpTo(U8, 2))>>),
      SyncBegin        |-> Layout(8, <<At(0, NonZero(U32)), At(4, UpTo(U16, 64)),
                                       At(6, UpTo(U16, 64))>>),
      OutputEndpoint   |-> FirmwareEndpoint,
      InputEndpoint    |-> FirmwareEndpoint,
      CurrentOutput    |-> Roles,
      CurrentInput     |-> Roles,
      SyncEnd          |-> Layout(4, <<At(0, NonZero(U32))>>),
      SetOutputRequest |-> SetRequest,
      SetInputRequest  |-> SetRequest,
      SetResult        |-> Layout(12, <<At(0, NonZero(U32)), At(4, UpTo(U8, 1)),
                                        At(5, UpTo(U8, 4)), At(6, U16), At(8, NonZero(U32))>>),
      Ping             |-> Layout(4, <<At(0, U32)>>),
      Pong             |-> Layout(4, <<At(0, U32)>>),
      Error            |-> Layout(10, <<At(0, Between(U16, 1, 16)), At(2, U8),
                                        At(3, Reserved(U8)), At(4, U32),
                                        At(8, UpTo(U16, MaximumText))>>)]

\* encodeMessage writes where decodeMessage reads, under the same conditions.
FirmwareWrites == FirmwareReads

FirmwareDecode(frame) == Decode(frame, FirmwareReads)
FirmwareEncode(m)     == Encode(m, FirmwareWrites[m.type])
=============================================================================

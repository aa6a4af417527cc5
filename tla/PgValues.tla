-------------------------------- MODULE PgValues --------------------------------
(***************************************************************************)
(* What pgx makes of the arguments of a statement and of the columns of a  *)
(* row (values.go, and the tables of types in conn.go sendPreparedQuery    *)
(* and query.go Rows.Scan): the path of every value between a handler of   *)
(* jchat and its tables.                                                   *)
(*                                                                         *)
(* The k bytes of a number are a word, a number below Card[k] (256 ^ k in  *)
(* the code): both ends order the bytes in the same way.  A text is the    *)
(* value it spells.  A float is an integer that both widths can hold       *)
(* exactly, or one beyond the range of float32.  The Null types, Hstore    *)
(* and other Encoders and Scanners are left out: jchat uses none.          *)
(***************************************************************************)
EXTENDS Integers, Sequences

CONSTANTS
  Card,      \* Card[k]: the number of words of k bytes
  MaxFloat,  \* math.MaxFloat32
  Micro,     \* nanoseconds in a microsecond
  Day,       \* nanoseconds in a day
  Y2K,       \* microseconds from 1970 to 2000
  Local      \* nanoseconds by which time.Local is ahead of UTC

Sizes == {1, 2, 4, 8}

ASSUME PgValuesAssumption ==
  /\ Card \in [Sizes -> Nat]
  /\ \A k \in Sizes : Card[k] >= 2 /\ Card[k] % 2 = 0
  /\ MaxFloat \in Nat /\ Micro \in Nat \ {0} /\ Day \in Nat \ {0}
  /\ Y2K \in Nat /\ Local \in Int

-----------------------------------------------------------------------------
(* Numbers and times. *)

MaxOf(k) == Card[k] \div 2 - 1
MinOf(k) == - (Card[k] \div 2)

(* A conversion between the integer types of Go, and back. *)
Word(n, k) == n % Card[k]
Signed(w, k) == IF w <= MaxOf(k) THEN w ELSE w - Card[k]

(* A time.Time: an instant, in nanoseconds since 1970, and how far the     *)
(* clock of its location is ahead of UTC.                                  *)
Time(instant, zone) == [instant |-> instant, zone |-> zone]

WallClock(t) == t.instant + t.zone
MicrosSinceY2K(t) == t.instant \div Micro - Y2K
TimeOfMicros(n) == Time((n + Y2K) * Micro, Local)

-----------------------------------------------------------------------------
(* Arguments. *)

GoInts == {"int8", "uint8", "int16", "uint16", "int32", "uint32", "int64", "uint64", "int"}

Fatal == [ok |-> FALSE]
Done(value) == [ok |-> TRUE, value |-> value]

(* The length word and the bytes after it. *)
Sent(size, data) == Done([size |-> size, data |-> data])

(* Each integer type is compared with the largest value of the column, if  *)
(* it has larger ones; none with the smallest.                             *)
EncodeInteger(g, v, k) ==
  IF g \notin GoInts \/ v > MaxOf(k) THEN Fatal ELSE Sent(k, Word(v, k))

EncodeInt2(g, v) == EncodeInteger(g, v, 2)
EncodeInt4(g, v) == EncodeInteger(g, v, 4)
EncodeInt8(g, v) == EncodeInteger(g, v, 8)
EncodeOid(g, v) == IF g # "Oid" THEN Fatal ELSE Sent(4, Word(v, 4))
EncodeBool(g, v) == IF g # "bool" THEN Fatal ELSE Sent(1, IF v THEN 1 ELSE 0)

MinusInfinity == - (MaxFloat + 1)

EncodeFloat4(g, v) ==
  IF g \notin {"float32", "float64"} \/ v > MaxFloat THEN Fatal
  ELSE Sent(4, IF v < - MaxFloat THEN MinusInfinity ELSE v)

EncodeFloat8(g, v) == IF g \notin {"float32", "float64"} THEN Fatal ELSE Sent(8, v)
EncodeText(g, v) == IF g \notin {"string", "[]byte"} THEN Fatal ELSE Sent(Len(v), v)
EncodeBytea(g, v) == IF g # "[]byte" THEN Fatal ELSE Sent(Len(v), v)

(* Text: the day, and the date and time to the microsecond, that the clock *)
(* of the location of t shows.                                             *)
EncodeDate(g, t) == IF g # "time" THEN Fatal ELSE Sent(10, WallClock(t) \div Day)
EncodeTimestamp(g, t) == IF g # "time" THEN Fatal ELSE Sent(26, WallClock(t) \div Micro)

EncodeTimestampTz(g, t) ==
  IF g # "time" THEN Fatal ELSE Sent(8, Word(MicrosSinceY2K(t), 8))

(* encodeArrayHeader: the length announced for n items of the given size,  *)
(* each after its own length word.                                         *)
ArrayLength(n, itemLength) == 20 + n * itemLength

Items(s, size) == [i \in DOMAIN s |-> [null |-> FALSE, size |-> size, data |-> s[i]]]

EncodeArray(g, slice, s, size, itemLength) ==
  IF g # slice THEN Fatal
  ELSE Sent(ArrayLength(Len(s), itemLength), [dims |-> 1, first |-> 1, items |-> Items(s, size)])

Words(s, k) == [i \in DOMAIN s |-> Word(s[i], k)]

EncodeBoolArray(g, s) ==
  EncodeArray(g, "[]bool", [i \in DOMAIN s |-> IF s[i] THEN 1 ELSE 0], 1, 5)
EncodeInt2Array(g, s) == EncodeArray(g, "[]int16", Words(s, 2), 2, 6)
EncodeInt4Array(g, s) == EncodeArray(g, "[]int32", Words(s, 4), 4, 8)
EncodeInt8Array(g, s) == EncodeArray(g, "[]int64", Words(s, 8), 8, 12)
EncodeFloat4Array(g, s) == EncodeArray(g, "[]float32", s, 4, 8)
EncodeFloat8Array(g, s) == EncodeArray(g, "[]float64", s, 8, 12)

EncodeTimestampArray(g, s) ==
  EncodeArray(g, "[]time", [i \in DOMAIN s |-> Word(MicrosSinceY2K(s[i]), 8)], 8, 12)

(* The lengths of the texts are summed up. *)
EncodeTextArray(g, s) ==
  LET total[n \in 0..Len(s)] == IF n = 0 THEN 0 ELSE total[n - 1] + Len(s[n]) IN
    IF g # "[]string" THEN Fatal
    ELSE Sent(ArrayLength(Len(s), 4) + total[Len(s)],
              [dims |-> 1, first |-> 1,
               items |-> [i \in DOMAIN s |-> [null |-> FALSE, size |-> Len(s[i]), data |-> s[i]]]])

Binary == {"bool", "bytea", "int2", "int4", "int8", "float4", "float8", "timestamptz", "oid",
           "timestamptz[]", "timestamp[]", "bool[]", "int2[]", "int4[]", "int8[]",
           "float4[]", "float8[]", "text[]", "varchar[]"}

ParamFormat(g, oid) == IF g # "string" /\ oid \in Binary THEN "binary" ELSE "text"

(* The bind message; a NULL is a length of -1. *)
Encode(g, v, oid) ==
  IF g = "nil" THEN Sent(-1, 0)
  ELSE IF g = "string" THEN EncodeText(g, v)
  ELSE IF oid = "bool" THEN EncodeBool(g, v)
  ELSE IF oid = "bytea" THEN EncodeBytea(g, v)
  ELSE IF oid = "int2" THEN EncodeInt2(g, v)
  ELSE IF oid = "int4" THEN EncodeInt4(g, v)
  ELSE IF oid = "int8" THEN EncodeInt8(g, v)
  ELSE IF oid = "float4" THEN EncodeFloat4(g, v)
  ELSE IF oid = "float8" THEN EncodeFloat8(g, v)
  ELSE IF oid \in {"text", "varchar"} THEN EncodeText(g, v)
  ELSE IF oid = "date" THEN EncodeDate(g, v)
  ELSE IF oid = "timestamptz" THEN EncodeTimestampTz(g, v)
  ELSE IF oid = "timestamp" THEN EncodeTimestamp(g, v)
  ELSE IF oid = "bool[]" THEN EncodeBoolArray(g, v)
  ELSE IF oid = "int2[]" THEN EncodeInt2Array(g, v)
  ELSE IF oid = "int4[]" THEN EncodeInt4Array(g, v)
  ELSE IF oid = "int8[]" THEN EncodeInt8Array(g, v)
  ELSE IF oid = "float4[]" THEN EncodeFloat4Array(g, v)
  ELSE IF oid = "float8[]" THEN EncodeFloat8Array(g, v)
  ELSE IF oid \in {"text[]", "varchar[]"} THEN EncodeTextArray(g, v)
  ELSE IF oid \in {"timestamp[]", "timestamptz[]"} THEN EncodeTimestampArray(g, v)
  ELSE IF oid = "oid" THEN EncodeOid(g, v)
  ELSE Fatal

-----------------------------------------------------------------------------
(* Columns.  Those of jchat are of the formats that Prepare asks for.      *)

BinaryColumns == (Binary \cup {"date"})

ResultFormat(oid) == IF oid \in BinaryColumns THEN "binary" ELSE "text"

(* What the server sends of a column that was set to a parameter. *)
Stored(oid, p) ==
  [oid |-> oid, null |-> p.size = -1, format |-> ResultFormat(oid),
   size |-> IF oid = "date" THEN 4 ELSE p.size,
   data |-> IF oid = "date" THEN Word(p.data - (Y2K * Micro) \div Day, 4) ELSE p.data]

(* The checks that the decoders begin with. *)
Refused(c, oid, size) ==
  c.null \/ c.oid # oid \/ (c.format = "binary" /\ c.size # size)

DecodeInteger(c, oid, k) ==
  IF Refused(c, oid, k) \/ (c.format = "text" /\ c.data \notin MinOf(k)..MaxOf(k)) THEN Fatal
  ELSE Done(IF c.format = "binary" THEN Signed(c.data, k) ELSE c.data)

DecodeInt2(c) == DecodeInteger(c, "int2", 2)
DecodeInt4(c) == DecodeInteger(c, "int4", 4)
DecodeInt8(c) == DecodeInteger(c, "int8", 8)

(* An Oid is an int32 in pgx. *)
DecodeOid(c) == DecodeInteger(c, "oid", 4)

DecodeBool(c) ==
  IF Refused(c, "bool", 1) THEN Fatal
  ELSE Done(IF c.format = "binary" THEN c.data # 0 ELSE c.data)

DecodeFloat4(c) == IF Refused(c, "float4", 4) THEN Fatal ELSE Done(c.data)
DecodeFloat8(c) == IF Refused(c, "float8", 8) THEN Fatal ELSE Done(c.data)

(* Whatever its type and format are. *)
DecodeText(c) == IF c.null THEN Fatal ELSE Done(c.data)

NoBytes == <<>>

DecodeBytea(c) ==
  IF c.null THEN Done(NoBytes) ELSE IF c.oid # "bytea" THEN Fatal ELSE Done(c.data)

(* Midnight of the day, in the location of the program. *)
DecodeDate(c) ==
  IF Refused(c, "date", 4) THEN Fatal
  ELSE LET day == IF c.format = "binary" THEN Signed(c.data, 4) + (Y2K * Micro) \div Day ELSE c.data
       IN Done(Time(day * Day - Local, Local))

DecodeTimestampTz(c) ==
  IF Refused(c, "timestamptz", 8) THEN Fatal
  ELSE Done(IF c.format = "binary" THEN TimeOfMicros(Signed(c.data, 8))
            ELSE Time(c.data * Micro, Local))

DecodeTimestamp(c) ==
  IF c.null \/ c.oid # "timestamp" \/ c.format = "binary" THEN Fatal
  ELSE Done(Time(c.data * Micro - Local, Local))

(* decode1dArrayHeader *)
OneDimension(a) == a.dims = 0 \/ (a.dims = 1 /\ a.first = 1)

(* The header and the items, each after its length, are read one after the *)
(* other: an error, if they reach beyond the length of the value.          *)
ReadPastEnd(c) ==
  LET a == c.data
      read[n \in 0..Len(a.items)] ==
        IF n = 0 THEN (IF a.dims = 0 THEN 4 ELSE 20) ELSE read[n - 1] + 4 + a.items[n].size
  IN read[Len(a.items)] > c.size

ArrayRefused(c, oids, size) ==
  \/ c.oid \notin oids
  \/ c.format # "binary"
  \/ ~ OneDimension(c.data)
  \/ ReadPastEnd(c)
  \/ \E i \in DOMAIN c.data.items : c.data.items[i].null \/ c.data.items[i].size # size

ArrayOf(c) == [i \in DOMAIN c.data.items |-> c.data.items[i].data]

DecodeArray(c, oid, size, values) ==
  IF c.null THEN Done(<<>>) ELSE IF ArrayRefused(c, {oid}, size) THEN Fatal ELSE Done(values)

SignedAll(s, k) == [i \in DOMAIN s |-> Signed(s[i], k)]

DecodeBoolArray(c) ==
  DecodeArray(c, "bool[]", 1, [i \in DOMAIN ArrayOf(c) |-> ArrayOf(c)[i] = 1])
DecodeInt2Array(c) == DecodeArray(c, "int2[]", 2, SignedAll(ArrayOf(c), 2))
DecodeInt4Array(c) == DecodeArray(c, "int4[]", 4, SignedAll(ArrayOf(c), 4))
DecodeInt8Array(c) == DecodeArray(c, "int8[]", 8, SignedAll(ArrayOf(c), 8))
DecodeFloat4Array(c) == DecodeArray(c, "float4[]", 4, ArrayOf(c))
DecodeFloat8Array(c) == DecodeArray(c, "float8[]", 8, ArrayOf(c))

DecodeTextArray(c) ==
  IF c.null THEN Done(<<>>)
  ELSE IF \/ c.oid \notin {"text[]", "varchar[]"} \/ c.format # "binary"
          \/ ~ OneDimension(c.data) \/ ReadPastEnd(c)
          \/ \E i \in DOMAIN c.data.items : c.data.items[i].null
  THEN Fatal
  ELSE Done(ArrayOf(c))

DecodeTimestampArray(c) ==
  IF c.null THEN Done(<<>>)
  ELSE IF ArrayRefused(c, {"timestamp[]", "timestamptz[]"}, 8) THEN Fatal
  ELSE Done([i \in DOMAIN ArrayOf(c) |-> TimeOfMicros(Signed(ArrayOf(c)[i], 8))])

(* Rows.Scan of one column into a variable of a Go type. *)
Scan(g, c) ==
  IF g = "bool" THEN DecodeBool(c)
  ELSE IF g = "[]byte" /\ c.oid = "bytea" THEN DecodeBytea(c)
  ELSE IF g = "[]byte" THEN Done(IF c.null THEN NoBytes ELSE c.data)
  ELSE IF g = "int64" THEN DecodeInt8(c)
  ELSE IF g = "int16" THEN DecodeInt2(c)
  ELSE IF g = "int32" THEN DecodeInt4(c)
  ELSE IF g = "Oid" THEN DecodeOid(c)
  ELSE IF g = "string" THEN DecodeText(c)
  ELSE IF g = "float32" THEN DecodeFloat4(c)
  ELSE IF g = "float64" THEN DecodeFloat8(c)
  ELSE IF g = "[]bool" THEN DecodeBoolArray(c)
  ELSE IF g = "[]int16" THEN DecodeInt2Array(c)
  ELSE IF g = "[]int32" THEN DecodeInt4Array(c)
  ELSE IF g = "[]int64" THEN DecodeInt8Array(c)
  ELSE IF g = "[]float32" THEN DecodeFloat4Array(c)
  ELSE IF g = "[]float64" THEN DecodeFloat8Array(c)
  ELSE IF g = "[]string" THEN DecodeTextArray(c)
  ELSE IF g = "[]time" THEN DecodeTimestampArray(c)
  ELSE IF g = "time" /\ c.oid = "date" THEN DecodeDate(c)
  ELSE IF g = "time" /\ c.oid = "timestamptz" THEN DecodeTimestampTz(c)
  ELSE IF g = "time" /\ c.oid = "timestamp" THEN DecodeTimestamp(c)
  ELSE Fatal

(* A value that a handler stores in a column and reads from it again. *)
Return(g, v, oid, dest) == Scan(dest, Stored(oid, Encode(g, v, oid).value))
=============================================================================

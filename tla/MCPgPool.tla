------------------------------- MODULE MCPgPool -------------------------------
(* The pool, and the values that pass through its connections.             *)
EXTENDS PgPool, PgValues, TLC

Perms == Permutations(Caller) \cup Permutations(Connection)

(* Two bits instead of eight in a byte. *)
MCCard == [k \in Sizes |-> 4 ^ k]
MCLocal == -50

(* Go type, column type, column size. *)
IntegerColumns == {<<"int16", "int2", 2>>, <<"int32", "int4", 4>>, <<"int64", "int8", 8>>}

(* An integer that is sent comes back as it was, or was too small for its  *)
(* column: that is not looked at.                                          *)
ASSUME IntegersReturn ==
  \A c \in IntegerColumns, g \in GoInts, v \in -300..300 :
    Encode(g, v, c[2]).ok =>
      (Return(g, v, c[2], c[1]) = Done(v)) = (v >= MinOf(c[3]))

Places2 == {-1000, -70, -1, 0, 1, 70, 1000}
Zones == {-50, 0, 30}

(* An instant comes back to the microsecond, whatever its location is;     *)
(* from a timestamp without time zone only if that is the local one.       *)
ASSUME TimesReturn ==
  \A n \in Places2, zone \in Zones :
    LET t == Time(n, zone)
        back == Time((n \div Micro) * Micro, Local)
    IN /\ Return("time", t, "timestamptz", "time") = Done(back)
       /\ Return("[]time", <<t>>, "timestamp[]", "[]time") = Done(<<back>>)
       /\ zone = Local => Return("time", t, "timestamp", "time") = Done(back)
       /\ zone = Local => WallClock(Return("time", t, "date", "time").value) = (WallClock(t) \div Day) * Day

Samples ==
  {<<"bool", TRUE, "bool">>, <<"bool", FALSE, "bool">>, <<"Oid", 7, "oid">>,
   <<"float32", -3, "float4">>, <<"float64", 500, "float8">>,
   <<"string", <<1, 2>>, "varchar">>, <<"string", <<>>, "text">>, <<"[]byte", <<3>>, "bytea">>,
   <<"[]bool", <<TRUE, FALSE>>, "bool[]">>, <<"[]int16", <<-8, 7>>, "int2[]">>,
   <<"[]int32", <<-128, 127>>, "int4[]">>, <<"[]int64", <<>>, "int8[]">>,
   <<"[]float32", <<2>>, "float4[]">>, <<"[]float64", <<2, 500>>, "float8[]">>,
   <<"[]string", <<<<1>>, <<>>, <<2, 3>>>>, "text[]">>}

ItemBytes(items) ==
  LET sum[n \in 0..Len(items)] == IF n = 0 THEN 0 ELSE sum[n - 1] + 4 + items[n].size
  IN sum[Len(items)]

(* Other values come back as they were.  The length that is announced for  *)
(* an array is that of its header and its items: one less is refused.      *)
ASSUME ValuesReturn ==
  \A s \in Samples :
    LET p == Encode(s[1], s[2], s[3]) IN
      /\ p.ok /\ Return(s[1], s[2], s[3], s[1]) = Done(s[2])
      /\ s[3] \in {"bool[]", "int2[]", "int4[]", "int8[]", "float4[]", "float8[]", "text[]"} =>
           /\ p.value.size = 20 + ItemBytes(p.value.data.items)
           /\ ~ Scan(s[1], [Stored(s[3], p.value) EXCEPT !.size = @ - 1]).ok

(* NULL is read into a slice of bytes or of values, and into nothing else. *)
ASSUME NullsRefused ==
  /\ \A g \in {"bool", "int16", "int32", "int64", "string", "time", "float32", "float64"},
        oid \in {"bool", "int2", "int4", "int8", "text", "timestamptz", "float4", "float8"} :
       ~ Return("nil", 0, oid, g).ok
  /\ Return("nil", 0, "bytea", "[]byte") = Done(NoBytes)
=============================================================================

------------------------------- MODULE Values -------------------------------
(***************************************************************************)
(* Values between the wire and a sample (sdk/src/decode.rs, model.rs,      *)
(* connector.rs, map.rs): bytes are decoded, transformed and mapped on     *)
(* reads, and a written value goes the whole way back.                     *)
(*                                                                         *)
(* A number is its count of quarters, so that halves and their halves are  *)
(* exact; a byte is a digit to the base Base, so that all the bytes of an  *)
(* integer can be tried.  IEEE 754 is not modelled: a float is its number. *)
(***************************************************************************)
EXTENDS Integers, SequencesExt, FiniteSetsExt

CONSTANTS
    Base,    \* byte values are 0 .. Base - 1 (256)
    SafeMax  \* the largest integer a number may carry (SAFE_INT_MAX, 2^53 - 1)

VARIABLES
    trip     \* the case looked at: << >>, or one with a name and what it is about

One == 4
Error == [k |-> "error", n |-> 0, word |-> ""]
Number(n) == [k |-> "number", n |-> n, word |-> ""]
Bool(b) == [k |-> "bool", n |-> IF b THEN 1 ELSE 0, word |-> ""]
\* Text: a decimal number, or a word.
Numeral(n) == [k |-> "text", n |-> n, word |-> ""]
Word(w) == [k |-> "text", n |-> 0, word |-> w]
Abs(n) == IF n < 0 THEN -n ELSE n
Whole(n) == n % One = 0

\* DataType: integers by size and sign; the largest stand for int64 and uint64.
Integer(bytes, signed) == [t |-> "int", bytes |-> bytes, signed |-> signed]
Other(t) == [t |-> t, bytes |-> 0, signed |-> FALSE]
Big(dt) == dt.t = "int" /\ dt.bytes = 4
Lowest(dt) == IF dt.signed THEN -((Base ^ dt.bytes) \div 2) ELSE 0
Highest(dt) == Lowest(dt) + Base ^ dt.bytes - 1

-----------------------------------------------------------------------------
(* The wire.                                                               *)

\* Mutant: the words of an odd half are left where they are.
Reorder_FirstOnly(bytes, end, wo) ==
    LET words == [i \in 1 .. Len(bytes) \div 2 |-> <<bytes[2 * i - 1], bytes[2 * i]>>]
        placed == IF wo = "little" THEN Reverse(words) ELSE words
        turned == [i \in DOMAIN placed |-> IF end = "little" /\ i = 1 THEN Reverse(placed[i]) ELSE placed[i]]
    IN IF Len(bytes) = 1 THEN bytes ELSE FlattenSeq(turned)

\* reorder: the words in their order, then the bytes of each; a single byte is a short word.
Reorder(bytes, end, wo) ==
    LET words == [i \in 1 .. Len(bytes) \div 2 |-> <<bytes[2 * i - 1], bytes[2 * i]>>]
        placed == IF wo = "little" THEN Reverse(words) ELSE words
        turned == [i \in DOMAIN placed |-> IF end = "little" THEN Reverse(placed[i]) ELSE placed[i]]
    IN IF Len(bytes) = 1 THEN bytes ELSE FlattenSeq(turned)

\* from_be_bytes and to_be_bytes.
FromBe(be, dt) ==
    LET u == FoldLeft(LAMBDA acc, b : acc * Base + b, 0, be)
    IN IF u > Highest(dt) THEN u - Base ^ dt.bytes ELSE u
ToBe(i, dt) ==
    LET u == IF i < 0 THEN i + Base ^ dt.bytes ELSE i
    IN [j \in 1 .. dt.bytes |-> (u \div Base ^ (dt.bytes - j)) % Base]

\* int_value: outside the safe range an integer is carried as text.
IntValue(i) == IF Abs(i) <= SafeMax THEN Number(i * One) ELSE Numeral(i * One)

\* decode_primitive.
Decode(bytes, dt, end, wo) ==
    CASE dt.t = "bool" -> Bool(\E j \in DOMAIN bytes : bytes[j] # 0)
      [] dt.t = "string" -> bytes[1]
      [] dt.t = "float" -> Number(bytes[1])
      [] OTHER -> LET i == FromBe(Reorder(bytes, end, wo), dt)
                  IN IF Big(dt) THEN IntValue(i) ELSE Number(i * One)

\* number: what a value counts as, or nothing.
Counts(v) == CASE v.k = "number" -> {v.n}
               [] v.k = "bool" -> {v.n * One}
               [] OTHER -> IF v.word = "" THEN {v.n} ELSE {}

\* small_int, int_from_value and uint_from_value: never rounded, never wrapped.
IntOf(v, dt) == {n \in Counts(v) : Whole(n) /\ n \div One \in Lowest(dt) .. Highest(dt)}

\* encode_primitive; << >> when the value is refused.
Encode(v, dt, end, wo) ==
    CASE dt.t = "bool" -> <<IF v.k = "text" THEN (IF v = Numeral(One) \/ v = Word("true") THEN 1 ELSE 0)
                            ELSE IF v.n # 0 THEN 1 ELSE 0>>
      [] dt.t = "string" -> IF v.k = "text" THEN <<v>> ELSE << >>
      [] dt.t = "float" -> IF Counts(v) = {} THEN << >> ELSE <<CHOOSE n \in Counts(v) : TRUE>>
      [] OTHER -> IF IntOf(v, dt) = {} THEN << >>
                  ELSE Reorder(ToBe((CHOOSE n \in IntOf(v, dt) : TRUE) \div One, dt), end, wo)

-----------------------------------------------------------------------------
(* Transforms.                                                             *)

\* A transform is its scale (multiplier times the power of ten), divisor and offset.
Transform(s, d, o) == [scale |-> s, divisor |-> d, offset |-> o]
Identity == Transform(1, 1, 0)
Divisor(t) == IF t.divisor = 0 THEN 1 ELSE t.divisor

\* Transform::apply: only numbers are scaled.
Scaled(t, v) == IF v.k = "number" THEN Number((v.n * t.scale) \div Divisor(t) + t.offset) ELSE v

\* f64::round: to the nearest, ties away from zero.
Round(n) == IF n < 0 THEN -One * ((-n + One \div 2) \div One) ELSE One * ((n + One \div 2) \div One)

\* Mutant: the raw value of an integer point is cut off.
ToRawUnits_Cut(t, v, dt) ==
    IF v.k # "number" \/ t = Identity THEN v
    ELSE IF t.scale = 0 THEN Error
    ELSE LET q == (v.n - t.offset) * Divisor(t)
             raw == IF t.scale < 0 THEN (-q) \div (-t.scale) ELSE q \div t.scale
         IN Number(IF dt.t = "int" THEN raw - (raw % One) ELSE raw)

\* Transform::invert and to_raw_units: refused without an inverse, rounded for an integer type.
ToRawUnits(t, v, dt) ==
    IF v.k # "number" \/ t = Identity THEN v
    ELSE IF t.scale = 0 THEN Error
    ELSE LET q == (v.n - t.offset) * Divisor(t)
             raw == IF t.scale < 0 THEN (-q) \div (-t.scale) ELSE q \div t.scale
         IN Number(IF dt.t = "int" THEN Round(raw) ELSE raw)

-----------------------------------------------------------------------------
(* Value maps.                                                             *)

NoBound == 1000
Eq(values, to) == [eq |-> values, min |-> NoBound, max |-> NoBound, write |-> Error, to |-> to]
Band(lo, hi, write, to) == [eq |-> << >>, min |-> lo, max |-> hi, write |-> write, to |-> to]
NoMap == [cases |-> << >>, default |-> Error, as |-> "none"]

\* Kind::of_datatype.
Native(dt) == CASE dt.t = "bool" -> "bool" [] dt.t = "string" -> "text" [] OTHER -> "number"

\* output_kind: the `as' type, else that of the first case, else that of the default.
OutputKind(m) == IF m.as # "none" THEN m.as
                 ELSE IF m.cases # << >> THEN m.cases[1].to.k ELSE m.default.k

\* ValueMap::parse, parse_case and check_output_kinds.
Parses(m) ==
    /\ m.default = Error \/ m.as = "none"
    /\ \A i \in DOMAIN m.cases : LET c == m.cases[i] IN
          /\ c.min # NoBound /\ c.max # NoBound => c.min <= c.max
          /\ c.write # Error => /\ c.min = NoBound \/ c.min <= c.write.n
                                /\ c.max = NoBound \/ c.write.n <= c.max
          /\ c.to.k = OutputKind(m)
    /\ m.default # Error => m.default.k = OutputKind(m)

\* check_point: a range needs numbers, and an eq values the point can have.
FitsPoint(m, dt) ==
    \A i \in DOMAIN m.cases : LET c == m.cases[i] IN
        IF c.eq = << >> THEN Native(dt) = "number" ELSE \A j \in DOMAIN c.eq : c.eq[j].k = Native(dt)

\* big_integer: a 64-bit integer carried as text is a number.
IsNumber(v, big) == v.k = "number" \/ (v.k = "text" /\ big /\ v.word = "")

\* Mutant: the upper bound of a range is left out.
CaseMatches_Exclusive(c, v, big) ==
    IF c.eq = << >>
    THEN /\ IsNumber(v, big)
         /\ c.min = NoBound \/ c.min <= v.n
         /\ c.max = NoBound \/ v.n < c.max
    ELSE \E j \in DOMAIN c.eq :
            \/ c.eq[j] = v /\ ~(v.k = "text" /\ big)
            \/ c.eq[j].k = "number" /\ IsNumber(v, big) /\ c.eq[j].n = v.n

\* case_matches.
CaseMatches(c, v, big) ==
    IF c.eq = << >>
    THEN /\ IsNumber(v, big)
         /\ c.min = NoBound \/ c.min <= v.n
         /\ c.max = NoBound \/ v.n <= c.max
    ELSE \E j \in DOMAIN c.eq :
            \/ c.eq[j] = v /\ ~(v.k = "text" /\ big)
            \/ c.eq[j].k = "number" /\ IsNumber(v, big) /\ c.eq[j].n = v.n

\* convert, with parse_number, format_number and parse_bool.
Convert(v, kind, big) ==
    CASE kind = v.k -> v
      [] kind = "number" -> IF Counts(v) = {} THEN Error ELSE Number(CHOOSE n \in Counts(v) : TRUE)
      [] kind = "text" -> IF v.k = "number" THEN Numeral(v.n)
                          ELSE Word(IF v.n = 1 THEN "true" ELSE "false")
      [] v.k = "number" -> Bool(v.n # 0)
      [] big -> IF v.word = "" THEN Bool(v.n # 0) ELSE Error
      [] v \in {Numeral(One), Word("true"), Word("on")} -> Bool(TRUE)
      [] v \in {Numeral(0), Word("false"), Word("off")} -> Bool(FALSE)
      [] OTHER -> Error

\* ValueMap::apply: the first case that matches, else the default, else the conversion.
Mapped(m, v, dt) ==
    LET match == {i \in DOMAIN m.cases : CaseMatches(m.cases[i], v, Big(dt))} IN
    CASE m = NoMap -> v
      [] match # {} -> m.cases[Min(match)].to
      [] m.default # Error -> m.default
      [] m.as # "none" -> Convert(v, m.as, Big(dt))
      [] OTHER -> Error

\* writable_outputs: eq cases, and ranges that say what to write.
Writable(c) == c.eq # << >> \/ c.write # Error

\* ValueMap::invert: the first writable case with that output, else the conversion back.
Unmapped(m, v, dt) ==
    LET named == {i \in DOMAIN m.cases : m.cases[i].to = v /\ Writable(m.cases[i])} IN
    CASE m = NoMap -> v
      [] v.k # OutputKind(m) -> Error
      [] named # {} -> LET c == m.cases[Min(named)] IN IF c.eq # << >> THEN c.eq[1] ELSE c.write
      [] m.as # "none" -> Convert(v, Native(dt), FALSE)
      [] OTHER -> Error

-----------------------------------------------------------------------------
(* A point: what a read of it shows, and what a write of it sends.         *)

Point(dt, t, m) == [dt |-> dt, t |-> t, m |-> m]
Shown(p, bytes) == Mapped(p.m, Scaled(p.t, Decode(bytes, p.dt, "big", "big")), p.dt)
\* raw_unit_request, then what the connector encodes; << >> when the write is refused.
Sent(p, v) ==
    LET device == Unmapped(p.m, v, p.dt)
        raw == IF device = Error THEN Error ELSE ToRawUnits(p.t, device, p.dt)
    IN IF raw = Error THEN << >> ELSE Encode(raw, p.dt, "big", "big")

-----------------------------------------------------------------------------
(* The form a parameter is edited in (sdk/src/descriptor.rs).              *)

\* The limits and choices of meta.parameter.
NoOptions == [min |-> NoBound, max |-> NoBound, enum |-> {}]
Given(option, otherwise) == IF option = NoBound THEN otherwise ELSE option

\* Mutant: a mapped parameter keeps the limits and the type of its datatype.
PropertySchema_Device(p, o) ==
    LET m == p.m
        limited == p.dt.t = "int" /\ ~Big(p.dt)
    IN [type |-> IF p.dt.t = "int" THEN "integer" ELSE Native(p.dt),
        min |-> Given(o.min, IF limited THEN Lowest(p.dt) * One ELSE NoBound),
        max |-> Given(o.max, IF limited THEN Highest(p.dt) * One ELSE NoBound),
        enum |-> o.enum]

\* property_schema: the datatype's type and limits, or the map's outputs and, as a choice, those
\* that can be written; what the options say wins.  A transform is not looked at.
PropertySchema(p, o) ==
    LET m == p.m
        limited == m = NoMap /\ p.dt.t = "int" /\ ~Big(p.dt)
        outputs == {c.to : c \in Range(m.cases)} \union ({m.default} \ {Error})
        choices == {c.to : c \in {d \in Range(m.cases) : Writable(d)}}
    IN [type |-> CASE m = NoMap -> IF p.dt.t = "int" THEN "integer" ELSE Native(p.dt)
                   [] m # NoMap /\ OutputKind(m) = "number" /\ m.as = "none" /\ (\A v \in outputs : Whole(v.n)) -> "integer"
                   [] OTHER -> OutputKind(m),
        min |-> Given(o.min, IF limited THEN Lowest(p.dt) * One ELSE NoBound),
        max |-> Given(o.max, IF limited THEN Highest(p.dt) * One ELSE NoBound),
        enum |-> IF o.enum # {} THEN o.enum ELSE IF m.as = "none" THEN choices ELSE {}]

\* What a form for the schema lets an operator enter, and may show.
HasType(schema, v) ==
    IF schema.type = "integer" THEN v.k = "number" /\ Whole(v.n) ELSE v.k = schema.type
Enters(schema, v) ==
    /\ HasType(schema, v)
    /\ schema.min = NoBound \/ schema.min <= v.n
    /\ schema.max = NoBound \/ v.n <= schema.max
    /\ schema.enum = {} \/ v \in schema.enum

-----------------------------------------------------------------------------
(* The cases that are looked at.                                           *)

Ints == {Integer(b, s) : b \in {1, 2}, s \in BOOLEAN}
Wide == {Integer(4, s) : s \in BOOLEAN}
Strings(dt) == [1 .. dt.bytes -> 0 .. Base - 1]
Numbers == {Number(n) : n \in -10 .. 10} \union {Number(One * i) : i \in {-9, -8, 7, 8, 15, 16}}
Words == {Word("on"), Word("off"), Word("idle"), Numeral(0), Numeral(One), Numeral(6), Numeral(One * 100)}
Values == Numbers \union Words \union {Bool(TRUE), Bool(FALSE)}
Transforms == {Transform(s, d, o) : s \in {0, 1, 2, -1}, d \in {0, 1, 2}, o \in {0, 2, -One}}
Maps ==
    LET to == {Word("idle"), Word("on"), Number(One)}
        number == {Eq(<<Number(One)>>, x) : x \in to} \union {Eq(<<Number(0), Number(One)>>, x) : x \in to}
            \union {Band(0, One, Error, x) : x \in to} \union {Band(NoBound, 6, Number(6), x) : x \in to}
            \union {Band(One, NoBound, Number(One * 100), x) : x \in to}
        text == {Eq(<<Word("off")>>, Bool(FALSE)), Eq(<<Word("idle"), Word("on")>>, Bool(TRUE))}
        cases == {<< >>} \union {<<a>> : a \in number \union text}
            \union {<<a, b>> : a, b \in number} \union {<<a, b>> : a, b \in text}
    IN [cases : cases, default : {Error, Word("idle"), Bool(TRUE)}, as : {"none", "number", "text", "bool"}]
Mapping == {m \in Maps : m # NoMap /\ Parses(m)}
Types == {Other("float"), Other("string"), Other("bool"), Integer(1, FALSE), Integer(2, TRUE), Integer(4, TRUE)}

Init == trip = << >>

\* Every string of bytes, in every order of bytes and words.
Wire ==
    \E dt \in Ints \union Wide, e, w \in {"big", "little"} :
        \E bytes \in Strings(dt) : trip' = [name |-> "wire", dt |-> dt, end |-> e, wo |-> w, bytes |-> bytes]
\* Every transform of every type of number, written with every number.
Units ==
    \E dt \in Ints \union {Other("float")}, t \in Transforms, v \in Numbers :
        /\ v.n % 2 = 0
        /\ trip' = [name |-> "units", p |-> Point(dt, t, NoMap), v |-> v]
\* Every map that its point accepts, read and written.
Mappings ==
    \E dt \in Types, m \in Mapping, v \in Values :
        /\ FitsPoint(m, dt)
        /\ trip' = [name |-> "map", p |-> Point(dt, Identity, m), v |-> v]
\* Every type as a parameter, with and without limits of its own, inside those of its type.
Forms ==
    \E dt \in Types \union Ints, v \in Values, o \in {NoOptions, [NoOptions EXCEPT !.min = 0, !.max = One]} :
        /\ o # NoOptions => dt.t = "int"
        /\ trip' = [name |-> "form", p |-> Point(dt, Identity, NoMap), v |-> v, o |-> o]

Next == trip = << >> /\ (Wire \/ Units \/ Mappings \/ Forms)

-----------------------------------------------------------------------------
(* Properties.                                                             *)

\* Decoding and encoding: every string of bytes is the encoding of the value it decodes to, and
\* that value is the one its bytes have when they are taken one by one in the order configured.
WireExact ==
    trip # << >> /\ trip.name = "wire" =>
        LET b == trip.bytes
            n == Len(b)
            v == Decode(b, trip.dt, trip.end, trip.wo)
            place(j) == LET w == (j - 1) \div 2
                            w2 == IF trip.wo = "little" THEN n \div 2 - 1 - w ELSE w
                        IN IF n = 1 THEN 1
                           ELSE 2 * w2 + 1 + IF trip.end = "little" THEN j % 2 ELSE (j + 1) % 2
            u == MapThenSumSet(LAMBDA j : b[place(j)] * Base ^ (n - j), 1 .. n)
        IN /\ Encode(v, trip.dt, trip.end, trip.wo) = b
           /\ (v.n \div One) % Base ^ n = u
           /\ v.n \div One \in Lowest(trip.dt) .. Highest(trip.dt)
           /\ v.k = "text" <=> Big(trip.dt) /\ Abs(v.n \div One) > SafeMax

\* A written number reads back as itself or, of an integer point, as the nearest number the point
\* can show; it is refused only when the point has no raw value for it, and never sent as another.
UnitsNearest ==
    trip # << >> /\ trip.name = "units" =>
        LET p == trip.p
            bytes == Sent(p, trip.v)
            away(n) == Abs(n - trip.v.n)
        IN IF bytes = << >>
           THEN \/ p.t.scale = 0
                \/ p.dt.t = "int" /\ p.t = Identity /\ ~Whole(trip.v.n)
                \/ p.dt.t = "int" /\ \A b \in Strings(p.dt) : Shown(p, b).n # trip.v.n
           ELSE IF p.dt.t = "float" THEN Shown(p, bytes) = trip.v
           ELSE \A b \in Strings(p.dt) : away(Shown(p, bytes).n) <= away(Shown(p, b).n)

\* A mapped point always shows one kind of value.  What is written is accepted exactly when a case
\* gives it or it converts, and reads back as itself unless an earlier case, or a case for the
\* converted value, shows the value sent as something else; a conversion that loses something
\* shows a value that stands for the same device value.
MapReadsBack ==
    trip # << >> /\ trip.name = "map" =>
        LET p == trip.p
            m == p.m
            device == Unmapped(m, trip.v, p.dt)
            shown == Mapped(m, device, p.dt)
            read == Mapped(m, trip.v, p.dt)
            match == {i \in DOMAIN m.cases : CaseMatches(m.cases[i], device, Big(p.dt))}
        IN /\ trip.v.k = Native(p.dt) /\ read # Error => read.k = OutputKind(m)
           /\ m.as = "none" => (device # Error <=> \E i \in DOMAIN m.cases : m.cases[i].to = trip.v /\ Writable(m.cases[i]))
           /\ device # Error =>
                 /\ device.k = Native(p.dt)
                 /\ \/ shown = trip.v
                    \/ \E i \in match : /\ m.cases[i].to # trip.v
                                        /\ \A j \in match : m.cases[j].to = trip.v => i < j
                    \/ match = {} /\ m.as # "none" /\ Convert(shown, Native(p.dt), FALSE) = device

\* The form of a parameter without a transform: what it lets an operator enter can be written and
\* reads back as entered, unless the device refuses a 64-bit number; a choice lists exactly what a
\* map can write; and what the point shows has the form's type.
FormWrites ==
    /\ trip # << >> /\ trip.name = "form" =>
          LET s == PropertySchema(trip.p, trip.o)
              bytes == Sent(trip.p, trip.v)
          IN /\ Enters(s, trip.v) => bytes # << >> /\ Shown(trip.p, bytes) = trip.v
             /\ bytes # << >> /\ HasType(s, trip.v) /\ trip.o = NoOptions => Enters(s, trip.v)
    /\ trip # << >> /\ trip.name = "map" =>
          LET p == trip.p
              s == PropertySchema(p, NoOptions)
              shown == Mapped(p.m, trip.v, p.dt)
          IN /\ s.enum # {} => (Enters(s, trip.v) <=> Unmapped(p.m, trip.v, p.dt) # Error)
             /\ p.m.as # "none" /\ ~Enters(s, trip.v) => Unmapped(p.m, trip.v, p.dt) = Error
             /\ trip.v.k = Native(p.dt) /\ shown # Error => HasType(s, shown)
=============================================================================

----------------------------- MODULE SnmpForms -----------------------------
(***************************************************************************)
(* What an SNMP configuration, a value and a notification mean             *)
(* (connector-snmp/src/config.rs, value.rs, notification.rs, the writes of *)
(* lib.rs, samples_for of listener.rs).                                    *)
(*                                                                         *)
(* Octets are digits to the base Octet, of which the upper half has its top*)
(* bit set; an octet of an OID carries a digit to the base Octet \div 2. A *)
(* 32-bit integer is Word octets long and a 64-bit one Word + 1; the first *)
(* two arcs of an OID are packed to the base Pack (40).                    *)
(***************************************************************************)
EXTENDS Integers, SequencesExt, FiniteSetsExt

CONSTANTS Octet, Word, Pack, MaxArcs

VARIABLES
    form     \* the case looked at: << >>, or one with a name and what it is about

Refused == "refused"

-----------------------------------------------------------------------------
(* Object identifiers.                                                     *)

Digit == Octet \div 2
MaxArc == Octet ^ Word - 1

\* Oid::parse.
OidOk(arcs) ==
    /\ Len(arcs) \in 2 .. MaxArcs
    /\ arcs[1] \in 0 .. 2
    /\ arcs[2] <= IF arcs[1] < 2 THEN Pack - 1 ELSE MaxArc - 2 * Pack

\* push_subid: as few digits as the value needs, all but the last marked.
Subid(v) ==
    LET n == Min({k \in 1 .. 4 * Word : v < Digit ^ k})
    IN [i \in 1 .. n |-> ((v \div Digit ^ (n - i)) % Digit) + IF i < n THEN Digit ELSE 0]

\* Oid::encode.
EncodeOid(arcs) ==
    FoldLeft(LAMBDA acc, arc : acc \o Subid(arc), Subid(arcs[1] * Pack + arcs[2]),
             SubSeq(arcs, 3, Len(arcs)))

\* Mutant: everything from 40 up starts with arc 1.
Split_TwoArcs(first) == IF first < Pack THEN <<0, first>> ELSE <<1, first - Pack>>

\* The arcs packed into the first sub-identifier.
Split(first) ==
    CASE first < Pack -> <<0, first>>
      [] first \in Pack .. 2 * Pack - 1 -> <<1, first - Pack>>
      [] OTHER -> <<2, first - 2 * Pack>>

\* Oid::from_ber: the arcs, or none.
FromBer(content) ==
    LET Step(acc, b) ==
            LET v == acc.v * Digit + (b % Digit)
            IN [ok |-> acc.ok /\ v <= MaxArc /\ (b >= Digit \/ Len(acc.subids) < MaxArcs),
                v |-> IF b >= Digit THEN v ELSE 0,
                more |-> b >= Digit,
                subids |-> IF b >= Digit THEN acc.subids ELSE Append(acc.subids, v)]
        done == FoldLeft(Step, [ok |-> TRUE, v |-> 0, more |-> FALSE, subids |-> << >>], content)
        arcs == Split(done.subids[1]) \o Tail(done.subids)
    IN IF content = << >> \/ ~done.ok \/ done.more \/ Len(arcs) > MaxArcs THEN {} ELSE {arcs}

-----------------------------------------------------------------------------
(* Integers: what is published raw, and what a write makes of it.          *)

Bytes(v, n) == [i \in 1 .. n |-> ((v + IF v < 0 THEN Octet ^ n ELSE 0) \div Octet ^ (n - i)) % Octet]
Negative(octet) == octet >= Octet \div 2

\* Mutant: a leading zero is dropped although the next octet is then read as negative.
EncodeInteger_DropsZero(v) ==
    LET n == Word + 1
        bytes == Bytes(v, n)
        start == Min({i \in 1 .. n : i = n \/ bytes[i] \notin {0, Octet - 1}})
    IN SubSeq(bytes, start, n)

\* encode_integer: minimal two's complement.
EncodeInteger(v) ==
    LET n == Word + 1
        bytes == Bytes(v, n)
        redundant(i) == \/ bytes[i] = 0 /\ ~Negative(bytes[i + 1])
                        \/ bytes[i] = Octet - 1 /\ Negative(bytes[i + 1])
        start == Min({i \in 1 .. n : i = n \/ ~redundant(i)})
    IN SubSeq(bytes, start, n)

\* encode_unsigned: a zero in front of an octet with its top bit set.
EncodeUnsigned(v) ==
    LET bytes == Bytes(v, Word + 1)
        skip == Min({i \in DOMAIN bytes : i = Word + 1 \/ bytes[i] # 0})
    IN (IF Negative(bytes[skip]) THEN <<0>> ELSE << >>) \o SubSeq(bytes, skip, Word + 1)

\* The types a write may have; VarValue::from_library reads the same ones.
Types == {"integer", "unsigned", "counter64", "oid"}
Range32 == -((Octet ^ Word) \div 2) .. (Octet ^ Word) \div 2 - 1
FitsType(type, v) ==
    CASE type = "integer" -> v \in Range32
      [] type = "unsigned" -> v \in 0 .. Octet ^ Word - 1
      [] type = "counter64" -> v \in 0 .. Octet ^ (Word + 1) - 1

\* VarValue::from_library: the canonical octets.
Raw(type, v) ==
    CASE type = "integer" -> EncodeInteger(v)
      [] type = "oid" -> EncodeOid(v)
      [] OTHER -> EncodeUnsigned(v)

Big(content) == FoldLeft(LAMBDA acc, b : acc * Octet + b, 0, content)

\* encode_raw and unsigned: the value, or none.
EncodeRaw(type, content) ==
    LET n == Len(content)
        big == Big(content)
    IN CASE type = "integer" -> {IF Negative(content[1]) THEN big - Octet ^ n ELSE big : k \in {n} \cap 1 .. Word}
         [] type = "unsigned" -> {v \in {big} : n \in 1 .. Word + 1 /\ FitsType(type, v)}
         [] type = "counter64" -> {v \in {big} : n \in 1 .. Word + 2 /\ FitsType(type, v)}
         [] type = "oid" -> FromBer(content)

\* convert: in range of the datatype or bad, and as text beyond what a number holds exactly.
DataTypes == {"bool", "string", "int16", "uint16", "int32", "uint32", "uint64"}
Span(datatype) ==
    CASE datatype = "int16" -> -(Octet \div 2) .. Octet \div 2 - 1
      [] datatype = "uint16" -> 0 .. Octet - 1
      [] datatype = "int32" -> Range32
      [] datatype = "uint32" -> 0 .. Octet ^ Word - 1
      [] datatype = "uint64" -> 0 .. Octet ^ (Word + 1) - 1
Safe == Octet ^ Word + Octet
Convert(v, datatype) ==
    CASE datatype = "bool" -> [as |-> "bool", n |-> IF v # 0 THEN 1 ELSE 0]
      [] datatype = "string" -> [as |-> "text", n |-> v]
      [] OTHER -> IF v \notin Span(datatype) THEN [as |-> Refused, n |-> 0]
                  ELSE [as |-> IF v > Safe THEN "text" ELSE "number", n |-> v]

\* encode_write and integral: a boolean, a number or its text, if the type holds it.
EncodeWrite(type, json) == {v \in {json.n} : FitsType(type, v)}

-----------------------------------------------------------------------------
(* The configuration.                                                      *)

\* v3: the level follows from the passwords when it is not given, and must agree with them.
V3Level(raw) ==
    IF raw.level # "" THEN raw.level
    ELSE IF raw.auth /\ raw.priv THEN "authPriv"
    ELSE IF raw.auth THEN "authNoPriv" ELSE "noAuthNoPriv"

\* Mutant: a level below the passwords that are set is taken.
V3_NotChecked(raw) ==
    LET level == V3Level(raw)
    IN IF \/ level # "noAuthNoPriv" /\ ~(raw.auth_protocol /\ raw.auth)
          \/ level = "authPriv" /\ ~(raw.priv_protocol /\ raw.priv)
       THEN Refused ELSE level

V3(raw) ==
    LET level == V3Level(raw)
    IN IF \/ level = "noAuthNoPriv" /\ raw.auth
          \/ level # "authPriv" /\ raw.priv
          \/ level # "noAuthNoPriv" /\ ~raw.auth_protocol
          \/ (level = "authPriv") # raw.priv_protocol
          \/ level # "noAuthNoPriv" /\ ~raw.auth
          \/ level = "authPriv" /\ ~raw.priv
       THEN Refused ELSE level

V3Tables == [level : {"", "noAuthNoPriv", "authNoPriv", "authPriv"}, auth : BOOLEAN, priv : BOOLEAN,
             auth_protocol : BOOLEAN, priv_protocol : BOOLEAN]

\* SnmpType::from_datatype.
FromDatatype(datatype) ==
    CASE datatype \in {"bool", "int16", "int32"} -> "integer"
      [] datatype \in {"uint16", "uint32"} -> "unsigned"
      [] datatype = "uint64" -> "counter64"
      [] datatype = "string" -> "octets"
      [] OTHER -> ""

\* point: an object, a trap or one of its varbinds.
Point(p) ==
    LET type == IF p.type # "" THEN p.type ELSE FromDatatype(p.datatype)
    IN IF \/ p.datatype = "bytes"
          \/ p.mode = "typed" /\ p.datatype = ""
          \/ ~p.traps /\ ~p.oid
          \/ ~p.traps /\ p.writes /\ type = ""
          \/ p.traps /\ (p.type # "" \/ p.writes \/ p.subscribe = "no")
          \/ p.traps /\ ~p.oid /\ p.mode = "typed" /\ p.datatype \notin {"string", "bool"}
       THEN [kind |-> Refused, type |-> ""]
       ELSE [kind |-> IF ~p.traps THEN "object" ELSE IF p.oid THEN "varbind" ELSE "trap",
             type |-> IF p.traps THEN "" ELSE type]

Points == [traps : BOOLEAN, oid : BOOLEAN, type : {"", "integer"}, writes : BOOLEAN,
           subscribe : {"", "no"}, mode : {"typed", "raw"},
           datatype : {"", "bool", "string", "uint16", "uint64", "float64", "bytes"}]

-----------------------------------------------------------------------------
(* Notifications.                                                          *)

Generic == <<1, 1>>     \* the prefix of the generic traps
Under(name, oid) == IsPrefix(oid, name)

\* from_pdu: what names a notification, if it is one.
TrapOid(pdu) ==
    CASE pdu.version = "v1" /\ pdu.generic \in 0 .. 1 -> Append(Generic, pdu.generic + 1)
      [] pdu.version = "v1" /\ pdu.generic = 2 -> pdu.enterprise \o <<0, pdu.specific>>
      [] pdu.version = "v1" /\ pdu.generic \notin 0 .. 2 -> << >>
      [] OTHER -> IF pdu.named = << >> THEN << >> ELSE pdu.named[1]

\* Mutant: a point without its varbind is passed over.
SamplesFor_SkipsMissing(points, trap, varbinds) ==
    LET matching == SelectSeq(points, LAMBDA p : Under(trap, p.trap) /\
            (p.oid = << >> \/ \E i \in DOMAIN varbinds : Under(varbinds[i], p.oid)))
    IN [k \in DOMAIN matching |-> [point |-> matching[k].id, good |-> TRUE, from |-> << >>]]

\* samples_for: a sample per point the notification matches, of the first varbind under its OID.
SamplesFor(points, trap, varbinds) ==
    LET matching == SelectSeq(points, LAMBDA p : Under(trap, p.trap))
        value(p) == LET found == {i \in DOMAIN varbinds : Under(varbinds[i], p.oid)}
                    IN CASE p.oid = << >> -> [point |-> p.id, good |-> TRUE, from |-> << >>]
                         [] p.oid # << >> /\ found = {} -> [point |-> p.id, good |-> FALSE, from |-> << >>]
                         [] OTHER -> [point |-> p.id, good |-> TRUE, from |-> varbinds[Min(found)]]
    IN [k \in DOMAIN matching |-> value(matching[k])]

-----------------------------------------------------------------------------
(* The cases.                                                              *)

Arcs == UNION {[1 .. n -> 0 .. 2 * Pack + 2] : n \in 1 .. 3}
Numbers == -((Octet ^ (Word + 1)) \div 2) .. Octet ^ (Word + 1) - 1
Pdus == [version : {"v1", "v2c"}, generic : 0 .. 3, enterprise : {<<1, 2>>}, specific : {4},
         named : {<< >>, <<<<1, 2, 0, 4>>>>, <<<<1, 1, 2>>, <<1, 3>>>>}]
Watched == <<[id |-> 1, trap |-> <<1, 2>>, oid |-> << >>], [id |-> 2, trap |-> <<1, 1>>, oid |-> <<1, 5>>],
             [id |-> 3, trap |-> <<1, 2, 0, 4>>, oid |-> <<1, 5, 1>>], [id |-> 4, trap |-> <<1>>, oid |-> <<1, 5>>]>>
Varbinds == {<< >>, <<<<1, 5, 2>>>>, <<<<1, 6>>, <<1, 5, 1, 0>>, <<1, 5, 2>>>>}

Init == form = << >>
Next ==
    /\ form = << >>
    /\ \/ \E arcs \in Arcs : form' = [name |-> "oid", arcs |-> arcs]
       \/ \E type \in Types \ {"oid"}, v \in Numbers :
            FitsType(type, v) /\ form' = [name |-> "raw", type |-> type, v |-> v]
       \/ \E type \in Types \ {"oid"}, v \in Numbers, datatype \in DataTypes :
            FitsType(type, v) /\ form' = [name |-> "typed", type |-> type, v |-> v, datatype |-> datatype]
       \/ \E raw \in V3Tables : form' = [name |-> "v3", raw |-> raw]
       \/ \E p \in Points : form' = [name |-> "point", p |-> p]
       \/ \E pdu \in Pdus, varbinds \in Varbinds : form' = [name |-> "pdu", pdu |-> pdu, varbinds |-> varbinds]

-----------------------------------------------------------------------------
(* Properties.                                                             *)

Is(name) == form # << >> /\ form.name = name

\* An OID that a configuration may name is read back from its encoding, and the octets published
\* raw are taken back as the value they came from.
RawExact ==
    /\ (Is("oid") /\ OidOk(form.arcs)) => EncodeRaw("oid", Raw("oid", form.arcs)) = {form.arcs}
    /\ Is("raw") => EncodeRaw(form.type, Raw(form.type, form.v)) = {form.v}

\* A typed value that is published is written back as it was, also beyond what a number holds.
TypedExact ==
    Is("typed") => LET json == Convert(form.v, form.datatype)
                   IN json.as \in {"number", "text"} => EncodeWrite(form.type, json) = {form.v}

\* A configuration that is taken uses the passwords and protocols it gives and has those it needs,
\* and every point of it can be read: by polling, or by notifications and then never written.
ConfigSound ==
    /\ Is("v3") => LET level == V3(form.raw)
                   IN level # Refused => /\ form.raw.auth <=> level # "noAuthNoPriv"
                                         /\ form.raw.priv <=> level = "authPriv"
                                         /\ form.raw.priv_protocol <=> level = "authPriv"
                                         /\ form.raw.auth => form.raw.auth_protocol
    /\ Is("point") => LET p == Point(form.p)
                      IN p.kind # Refused =>
                            /\ form.p.writes => p.kind = "object" /\ p.type # ""
                            /\ p.kind = "object" => form.p.oid
                            /\ form.p.mode = "typed" => form.p.datatype \notin {"", "bytes"}

\* A notification gives a sample of every point it matches, in their order, and a bad one where
\* what the point asks for is missing: a point is never silently left at its last value.
NotificationTold ==
    Is("pdu") =>
        LET trap == TrapOid(form.pdu)
            samples == SamplesFor(Watched, trap, form.varbinds)
        IN trap # << >> =>
            /\ {samples[k].point : k \in DOMAIN samples} =
                    {Watched[i].id : i \in {j \in DOMAIN Watched : Under(trap, Watched[j].trap)}}
            /\ \A k \in DOMAIN samples : \A i \in DOMAIN Watched :
                    (Watched[i].id = samples[k].point /\ samples[k].good /\ Watched[i].oid # << >>) =>
                        Under(samples[k].from, Watched[i].oid)
            /\ \A j, k \in DOMAIN samples : j < k => samples[j].point < samples[k].point

SnmpFormsSound == RawExact /\ TypedExact /\ ConfigSound /\ NotificationTold
=============================================================================

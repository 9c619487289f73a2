------------------------------ MODULE PiForms ------------------------------
(***************************************************************************)
(* What a PI value, a write, a configuration and an answer of PI Web API   *)
(* mean (connector-aveva-pi: value.rs, sample.rs, config.rs, client.rs,    *)
(* digital_state of resolve.rs).                                           *)
(*                                                                         *)
(* A number is given in halves, so that one in two is not an integer. The  *)
(* integer types have Width bits; a larger integer than Safe is text.      *)
(***************************************************************************)
EXTENDS Integers, Sequences, FiniteSets

CONSTANTS Width, Safe, FloatMax

VARIABLES
    pi     \* the case looked at: << >>, or one with a name and what it is about

Refused == [kind |-> "refused", n |-> 0]
Number(h) == [kind |-> "number", n |-> h]
Bool(b) == [kind |-> "bool", n |-> b]
Text(h) == [kind |-> "text", n |-> h]    \* the text of a number, or of a word
Word == [kind |-> "word", n |-> 0]
Null == [kind |-> "null", n |-> 0]
Digital(code, system) == [kind |-> IF system THEN "system" ELSE "digital", n |-> code]
Errors == [kind |-> "errors", n |-> 0]

Signed == -(2 ^ (Width - 1)) .. 2 ^ (Width - 1) - 1
Unsigned == 0 .. 2 ^ Width - 1
Range(dt) == IF dt = "int" THEN Signed ELSE Unsigned
DataTypes == {"bool", "int", "uint", "float32", "float64", "string"}

-----------------------------------------------------------------------------
(* Values.                                                                 *)

\* int_value: an integer that a float cannot carry exactly is given as text.
IntValue(i) == IF i < Safe /\ -i < Safe THEN Number(2 * i) ELSE Text(2 * i)

FromNumber_Cut(h, dt) == IF h \div 2 \in Range(dt) THEN IntValue(h \div 2) ELSE Refused
FromNumber(h, dt) ==
    CASE dt = "string" -> Text(h)
      [] dt = "bool" -> IF h \in {0, 2} THEN Bool(h) ELSE Refused
      [] dt = "float64" -> Number(h)
      [] dt = "float32" -> IF h <= FloatMax /\ -h <= FloatMax THEN Number(h) ELSE Refused
      [] OTHER -> IF h % 2 = 0 /\ h \div 2 \in Range(dt) THEN IntValue(h \div 2) ELSE Refused

\* A digital state is its name for a string and its code for any other type.
ToDatatype(v, dt) ==
    CASE v.kind \in {"digital", "system"} -> IF dt = "string" THEN Word ELSE FromNumber(v.n, dt)
      [] v.kind = "bool" -> IF dt = "bool" THEN v ELSE IF dt = "string" THEN Word ELSE Refused
      [] v.kind = "number" -> FromNumber(v.n, dt)
      [] v.kind \in {"text", "word"} -> IF dt = "string" THEN v ELSE Refused
      [] OTHER -> Refused

Decode_System(v, good, dt, typed) ==
    LET value == IF typed THEN ToDatatype(v, dt) ELSE v
    IN [good |-> v.kind # "errors" /\ good # "false" /\ value # Refused, value |-> value]
\* The sample of a value: its quality and, when it is good and typed, the value.
Decode(v, good, dt, typed) ==
    LET bad == v.kind \in {"errors", "system", "null"} \/ good = "false"
        value == IF typed THEN ToDatatype(v, dt) ELSE v
    IN IF bad \/ value = Refused THEN [good |-> FALSE, value |-> Refused]
       ELSE [good |-> TRUE, value |-> value]

\* What a write sends: a number may be given as text, and one that would not read back is refused.
EncodeWrite(v, dt) ==
    CASE dt = "string" -> IF v.kind \in {"text", "word"} THEN v ELSE Refused
      [] dt = "bool" -> IF v.kind \in {"bool", "number"} /\ v.n \in {0, 2} THEN Bool(v.n) ELSE Refused
      [] OTHER -> IF v.kind \in {"number", "text"} /\ FromNumber(v.n, dt) # Refused
                  THEN Number(v.n) ELSE Refused

\* The state a write names, in a set of <<name, case, code>>: by its exact name before the name in
\* another case, or by its code.
First(set, Match(_)) ==
    LET at == {i \in DOMAIN set : Match(set[i])}
    IN IF at = {} THEN << >> ELSE set[CHOOSE i \in at : \A j \in at : i <= j]

DigitalState(set, name, case) ==
    LET exact == First(set, LAMBDA s : s[1] = name /\ s[2] = case)
    IN IF exact # << >> THEN exact ELSE First(set, LAMBDA s : s[1] = name)

-----------------------------------------------------------------------------
(* Requests.                                                               *)

\* An answer by its status: a 400 without a PI error is a request that is too long, and a 200 may
\* carry a failure of the whole request.
Classify(status, errors, reading) ==
    CASE status = 200 -> IF errors THEN "server error" ELSE "ok"
      [] status = 401 \/ (status = 403 /\ reading) -> "unauthorized"
      [] status = 414 \/ (status = 400 /\ ~errors) -> "too long"
      [] status >= 500 -> "server error"
      [] OTHER -> "refused"

IsLinkFailure(e) == e \in {"unauthorized", "server error"}

\* After a 401 the token file is read again, and another token is worth one more try.
Send(held, file, taken) ==
    IF held = taken THEN [tries |-> 1, ok |-> TRUE]
    ELSE IF file # held THEN [tries |-> 2, ok |-> file = taken]
    ELSE [tries |-> 1, ok |-> FALSE]

-----------------------------------------------------------------------------
(* Configuration.                                                          *)

Methods == {"none", "basic", "bearer", "certificate"}
AuthKeys == [method : Methods \cup {"other"}, keys : SUBSET {"user", "secret_file", "password", "extra"}]

\* parse_auth: a secret is named by its file, never given in the configuration.
ParseAuth(a) ==
    IF "password" \in a.keys THEN "refused"
    ELSE CASE a.method = "none" -> IF a.keys = {} THEN "none" ELSE "refused"
           [] a.method = "basic" -> IF a.keys = {"user", "secret_file"} THEN "basic" ELSE "refused"
           [] a.method \in {"bearer", "certificate"} -> IF a.keys = {"secret_file"} THEN a.method ELSE "refused"
           [] OTHER -> "refused"

\* A device's own settings replace those of the connection, each as a whole.
Apply(base, own) == IF own = "absent" THEN base ELSE own

Device_OwnOnly(scheme, connection, own) ==
    IF scheme \notin {"http", "https"} \/ (own \notin {"absent", "none"} /\ scheme = "http") THEN "refused"
    ELSE Apply(connection, own)
\* config::device: credentials go over https only, whichever table they come from.
Device(scheme, connection, own) ==
    LET auth == Apply(connection, own)
    IN IF scheme \notin {"http", "https"} \/ (auth # "none" /\ scheme = "http") THEN "refused" ELSE auth

\* config::point: one way to address the point, which gives the full path of a point or of an
\* attribute, and a type in typed mode.
PointForm(p) ==
    LET address ==
            CASE Cardinality(p.keys) # 1 -> "refused"
              [] p.keys = {"tag"} -> IF p.data_server THEN "point" ELSE "refused"
              [] p.keys = {"path"} ->
                    IF p.attribute THEN (IF p.full \/ p.af_database THEN "attribute" ELSE "refused")
                    ELSE IF p.full THEN "point" ELSE "refused"
              [] OTHER -> "stream"
    IN IF p.typed /\ ~p.datatype THEN "refused" ELSE address

PointTables == [keys : SUBSET {"tag", "path", "web_id"}, data_server : BOOLEAN, af_database : BOOLEAN,
                attribute : BOOLEAN, full : BOOLEAN, typed : BOOLEAN, datatype : BOOLEAN]

-----------------------------------------------------------------------------
(* The cases.                                                              *)

Halves == -(2 ^ Width) - 1 .. 2 ^ (Width + 1) + 1
AllValues == {Number(h) : h \in Halves} \cup {Text(h) : h \in Halves} \cup {Bool(b) : b \in {0, 2}}
             \cup {Digital(c, s) : c \in 0 .. 3, s \in BOOLEAN} \cup {Word, Null, Errors}
State == {1, 2} \X {"lower", "upper"} \X {0}

Init == pi = << >>

Next ==
    /\ pi = << >>
    /\ \/ \E v \in AllValues, dt \in DataTypes : pi' = [name |-> "write", v |-> v, dt |-> dt]
       \/ \E v \in AllValues, good \in {"absent", "true", "false"}, dt \in DataTypes, typed \in BOOLEAN :
            pi' = [name |-> "read", v |-> v, good |-> good, dt |-> dt, typed |-> typed]
       \/ \E s1, s2 \in State, n \in {1, 2}, c \in {"lower", "upper"} :
            pi' = [name |-> "state", set |-> <<s1, s2>>, n |-> n, c |-> c]
       \/ \E status \in {200, 400, 401, 403, 404, 414, 503}, errors, reading \in BOOLEAN :
            pi' = [name |-> "answer", status |-> status, errors |-> errors, reading |-> reading]
       \/ \E held, file, taken \in 1 .. 3 : pi' = [name |-> "send", held |-> held, file |-> file, taken |-> taken]
       \/ \E a \in AuthKeys : pi' = [name |-> "auth", a |-> a]
       \/ \E scheme \in {"http", "https", "other"}, c \in Methods, own \in Methods \cup {"absent"} :
            pi' = [name |-> "device", scheme |-> scheme, c |-> c, own |-> own]
       \/ \E p \in PointTables : pi' = [name |-> "point", p |-> p]

-----------------------------------------------------------------------------
(* Properties.                                                             *)

Is(name) == pi # << >> /\ pi.name = name

\* A write that is accepted reads back, for a good answer, as the value that was asked for.
WritesReadBack ==
    Is("write") =>
        LET sent == EncodeWrite(pi.v, pi.dt)
            back == Decode(sent, "true", pi.dt, TRUE)
        IN sent # Refused => back.good /\ back.value.n = pi.v.n

\* A good sample has a value that the source really measured: none is made of a system state, of
\* an error or of what the source does not vouch for, and a number keeps its value.
GoodIsMeasured ==
    Is("read") =>
        LET d == Decode(pi.v, pi.good, pi.dt, pi.typed)
        IN d.good => /\ pi.v.kind \notin {"system", "errors", "null"} /\ pi.good # "false"
                     /\ d.value.kind = "number" => d.value.n = pi.v.n

\* A configuration that is accepted names its secrets by file, has what its method needs and never
\* sends them over plain HTTP; a token the server takes is used once it is in the file.
Trusted ==
    /\ Is("device") => (Device(pi.scheme, pi.c, pi.own) \in Methods \ {"none"} => pi.scheme = "https")
    /\ Is("auth") => (ParseAuth(pi.a) \in Methods \ {"none"} =>
                        "secret_file" \in pi.a.keys /\ "password" \notin pi.a.keys)
    /\ Is("send") => LET s == Send(pi.held, pi.file, pi.taken)
                     IN s.tries <= 2 /\ (s.ok <=> pi.taken \in {pi.held, pi.file})
    /\ Is("answer") => LET e == Classify(pi.status, pi.errors, pi.reading)
                       IN pi.status = 401 => IsLinkFailure(e)

\* A write names the state it spells, whatever comes before it in the set, and a point that loads
\* has a full path.
Addressed ==
    /\ Is("state") => LET s == DigitalState(pi.set, pi.n, pi.c)
                      IN /\ s # << >> => s[1] = pi.n
                         /\ <<pi.n, pi.c, 0>> \in {pi.set[1], pi.set[2]} => s[2] = pi.c
    /\ Is("point") => (PointForm(pi.p) \in {"point", "attribute"} =>
                         pi.p.full \/ pi.p.data_server \/ pi.p.af_database)

PiFormsSound == WritesReadBack /\ GoodIsMeasured /\ Trusted /\ Addressed
=============================================================================

----------------------------- MODULE Descriptor -----------------------------
(***************************************************************************)
(* The parameters of a configuration (sdk/src/descriptor.rs): the sets the *)
(* points are in, what `tedge-dot describe' refuses, warns about and       *)
(* renders for the tenant, and what the retained capability descriptor     *)
(* tells the flows about keys and reporting policies.                      *)
(*                                                                         *)
(* A name is a sequence of characters, with "P" for the text "parameters"  *)
(* and "m", "n" for the names of protocols.  An option that may be left    *)
(* out is a set of at most one value.  A step looks at one group of        *)
(* configurations, given as their devices in order.                        *)
(***************************************************************************)
EXTENDS Naturals, SequencesExt, FiniteSetsExt

CONSTANTS Types, Groups, Names, Keys, Fragments

VARIABLES described   \* the devices looked at: << >> or two of them

-----------------------------------------------------------------------------
(* Names.                                                                  *)

Letters == {"a", "b", "g", "p", "q", "f", "s", "m", "n", "c", "P"}

\* sanitize: a run of other characters becomes one "_".
Sanitize(name) ==
    FoldLeft(LAMBDA out, c :
                 IF c \in Letters THEN Append(out, c)
                 ELSE IF out # << >> /\ out[Len(out)] = "_" THEN out
                 ELSE Append(out, "_"),
             << >>, name)

Default == <<"c">>   \* DEFAULT_GROUP, "control"
SetName(qualifier, group) == Sanitize(qualifier \o <<"_">> \o group \o <<"_", "P">>)

IsValidKey(id) == id # << >> /\ \A i \in DOMAIN id : id[i] \in Letters \union {"_"}

\* dotted_key: both halves of <set>.<key>, split at its only dot.
DottedKey(key) ==
    LET dots == {i \in DOMAIN key : key[i] = "."}
    IN {[set |-> SubSeq(key, 1, i - 1), key |-> SubSeq(key, i + 1, Len(key))] :
            i \in {j \in dots : dots = {j} /\ j \in 2 .. Len(key) - 1}}

Only(given) == CHOOSE v \in given : TRUE
OrElse(given, default) == IF given = {} THEN default ELSE Only(given)

-----------------------------------------------------------------------------
(* Parameters.                                                             *)

Option == [fragment : {{}} \union {{f} : f \in Fragments}, key : {{}} \union {{k} : k \in Keys},
           set : {{}} \union Names, group : {{}} \union Groups]
NoOption == [fragment |-> {}, key |-> {}, set |-> {}, group |-> {}]

\* SetNaming::of: by the declared type, else by the protocol.
Qualifier(device) == IF device.type = << >> THEN device.protocol ELSE device.type

\* Mutant: the sets of a key that names its set follow the point's other options.
SetsOf_KeyLast(device, options, forced) ==
    LET dotted == UNION {DottedKey(k) : k \in options.key}
    IN CASE options.set # {} -> options.set
         [] options.set = {} /\ forced # {} -> forced
         [] options.set = {} /\ forced = {} /\ options.group # {} ->
                {SetName(Qualifier(device), g) : g \in options.group}
         [] options.set = {} /\ forced = {} /\ options.group = {} /\ dotted # {} -> {Only(dotted).set}
         [] OTHER -> {SetName(Qualifier(device), Default)}

\* sets_of: a set named with the key, one named absolutely, the forced one, one per group.
SetsOf(device, options, forced) ==
    LET dotted == UNION {DottedKey(k) : k \in options.key}
    IN CASE dotted # {} -> {Only(dotted).set}
         [] dotted = {} /\ options.set # {} -> options.set
         [] dotted = {} /\ options.set = {} /\ forced # {} -> forced
         [] dotted = {} /\ options.set = {} /\ forced = {} /\ options.group # {} ->
                {SetName(Qualifier(device), g) : g \in options.group}
         [] OTHER -> {SetName(Qualifier(device), Default)}

\* The point has a meta.parameter table, true counting as an empty one.
Has(point) == point.parameter \notin {"absent", "off"}

IsParameter(point) == point.parameter # "off" /\ (point.writes \/ Has(point))

\* The key in the sets: the part after the set, the whole key, or the id.
KeyOf(point) ==
    IF point.options.key = {} THEN point.id
    ELSE LET key == Only(point.options.key)
             dotted == DottedKey(key)
         IN IF dotted = {} THEN key ELSE Only(dotted).key

\* parameters_of: one per set the point is in, or the literal fragment it is.
ParametersOf(device, point, forced) ==
    IF ~IsParameter(point) THEN {}
    ELSE IF point.options.fragment # {}
         THEN {[point |-> point.id, key |-> << >>, set |-> Only(point.options.fragment), literal |-> TRUE]}
         ELSE {[point |-> point.id, key |-> KeyOf(point), set |-> set, literal |-> FALSE] :
                   set \in SetsOf(device, point.options, forced)}

\* parameters: of every device, each with the place of its point.
Parameters(devices, forced) ==
    UNION {{[at |-> <<i, j>>, is |-> p] :
                p \in ParametersOf(devices[i], devices[i].points[j], forced)} :
           <<i, j>> \in UNION {{i} \X (DOMAIN devices[i].points) : i \in DOMAIN devices}}

Before(at, other) == at[1] < other[1] \/ (at[1] = other[1] /\ at[2] < other[2])

-----------------------------------------------------------------------------
(* What describe refuses.                                                  *)

\* invalid_keys_across: a literal is published as its fragment, a point under its key.
InvalidKeys(devices, forced) ==
    {p \in Parameters(devices, forced) : ~IsValidKey(p.is.set) \/ ~(p.is.literal \/ IsValidKey(p.is.key))}

\* Options that exclude one another.
Combines(point) ==
    LET o == point.options IN
    /\ IsParameter(point)
    /\ \/ o.fragment # {} /\ (o.set # {} \/ o.group # {} \/ o.key # {})
       \/ o.fragment = {} /\ o.key # {} /\ (o.set # {} \/ (o.group # {} /\ DottedKey(Only(o.key)) # {}))

\* fragment_set_clashes: a name is a literal's or a set's, in the whole tenant.
FragmentSetClashes(devices, forced) ==
    {<<p, q>> \in Parameters(devices, forced) \X Parameters(devices, forced) :
        p.is.literal /\ ~q.is.literal /\ p.is.set = q.is.set}

\* Mutant: two points are compared by their ids.
KeyConflicts_ById(devices, forced) ==
    \/ \E i \in DOMAIN devices : \E j \in DOMAIN devices[i].points : Combines(devices[i].points[j])
    \/ \E p, q \in Parameters(devices, forced) :
          /\ p.at[1] = q.at[1] /\ Before(p.at, q.at)
          /\ p.is.set = q.is.set /\ p.is.point = q.is.point
    \/ FragmentSetClashes(devices, forced) # {}

\* Mutant: literals and sets are not compared.
KeyConflicts_NoClashes(devices, forced) ==
    \/ \E i \in DOMAIN devices : \E j \in DOMAIN devices[i].points : Combines(devices[i].points[j])
    \/ \E p, q \in Parameters(devices, forced) :
          /\ p.at[1] = q.at[1] /\ Before(p.at, q.at)
          /\ p.is.set = q.is.set /\ p.is.key = q.is.key

\* key_conflicts_across: also two points of a device with one key in one set.
KeyConflicts(devices, forced) ==
    \/ \E i \in DOMAIN devices : \E j \in DOMAIN devices[i].points : Combines(devices[i].points[j])
    \/ \E p, q \in Parameters(devices, forced) :
          /\ p.at[1] = q.at[1] /\ Before(p.at, q.at)
          /\ p.is.set = q.is.set /\ p.is.key = q.is.key
    \/ FragmentSetClashes(devices, forced) # {}

Accepted(devices, forced) == InvalidKeys(devices, forced) = {} /\ ~KeyConflicts(devices, forced)

-----------------------------------------------------------------------------
(* What describe warns about: names that only look apart.                  *)

\* in_a_set, under the naming without a forced set.
InASet(device) ==
    \E j \in DOMAIN device.points : \E p \in ParametersOf(device, device.points[j], {}) : ~p.literal

\* untyped_devices_across: their sets are named after the protocol.
Untyped(devices) == {i \in DOMAIN devices : devices[i].type = << >> /\ InASet(devices[i])}

\* Mutant: types are compared as they are written.
Folded_AsWritten(devices) ==
    {<<i, j>> \in (DOMAIN devices) \X (DOMAIN devices) :
        /\ devices[i].type # devices[j].type /\ InASet(devices[i]) /\ InASet(devices[j])
        /\ << >> \notin {devices[i].type, devices[j].type}
        /\ devices[i].type \o Default = devices[j].type \o Default}

\* Types that derive the same set names.
Folded(devices) ==
    {<<i, j>> \in (DOMAIN devices) \X (DOMAIN devices) :
        /\ devices[i].type # devices[j].type /\ InASet(devices[i]) /\ InASet(devices[j])
        /\ << >> \notin {devices[i].type, devices[j].type}
        /\ SetName(devices[i].type, Default) = SetName(devices[j].type, Default)}

\* type_warnings_across: also types without a character that can be used.
TypeWarnings(devices) ==
    Folded(devices) \union
    {<<i, i>> : i \in {k \in DOMAIN devices :
        devices[k].type # << >> /\ \A c \in DOMAIN devices[k].type : devices[k].type[c] \notin Letters}}

-----------------------------------------------------------------------------
(* What describe renders.                                                  *)

First(ps) == CHOOSE p \in ps : \A q \in ps : p = q \/ Before(p.at, q.at)
Of(ps, name) == {p \in ps : p.is.set = name}

\* Mutant: a set is rendered with the keys of the device that declares it first.
Definition_OneDevice(ps, name) ==
    LET first == First(Of(ps, name))
        same == {p \in Of(ps, name) : p.is.literal = first.is.literal /\ p.at[1] = first.at[1]}
    IN [identifier |-> name, literal |-> first.is.literal,
        keys |-> [key \in {p.is.key : p \in same} |-> First({p \in same : p.is.key = key}).at]]

\* One definition: its first parameter decides the shape, the first of a key its schema.
Definition(ps, name) ==
    LET first == First(Of(ps, name))
        same == {p \in Of(ps, name) : p.is.literal = first.is.literal}
    IN [identifier |-> name, literal |-> first.is.literal,
        keys |-> [key \in {p.is.key : p \in same} |-> First({p \in same : p.is.key = key}).at]]

\* c8y_dtm_definitions_across.
Definitions(devices, forced) ==
    LET ps == Parameters(devices, forced) IN {Definition(ps, name) : name \in {p.is.set : p \in ps}}

-----------------------------------------------------------------------------
(* The capability descriptor, and the flow that reads it.                  *)

\* parameter_keys: the options of a point that is a literal or names its key, as configured.
ParameterKeys(device) ==
    {[point |-> p.id, options |-> IF p.options.fragment # {}
                                  THEN [NoOption EXCEPT !.fragment = p.options.fragment]
                                  ELSE p.options] :
        p \in {q \in Range(device.points) :
                  q.parameter = "table" /\ q.options.fragment \union q.options.key # {}}}

Usable(names) == {name \in names : IsValidKey(name)}

\* Mutant: the whole of a key that names its set is the key.
DeclaredKey_Whole(options) == IF Usable(options.fragment) # {} THEN {<< >>} ELSE Usable(options.key)

\* declaredKey: the key a point declares, when it is usable.
DeclaredKey(options) ==
    IF Usable(options.fragment) # {} THEN {<< >>}
    ELSE LET dotted == UNION {DottedKey(k) : k \in options.key}
         IN IF dotted # {} THEN Usable({d.key : d \in dotted}) ELSE Usable(options.key)

\* The key of a point as the flow knows it: declared, or the id.
FlowKey(device, point) ==
    LET declared == {e \in ParameterKeys(device) : e.point = point.id}
    IN OrElse(UNION {DeclaredKey(e.options) : e \in declared}, point.id)

\* setsOf of ot-parameter-state: what cannot be used falls back instead of being refused.
FlowSetsOf(device, options, forced) ==
    LET dotted == UNION {DottedKey(k) : k \in options.key}
        named == Usable({d.set : d \in dotted})
    IN CASE Usable(options.fragment) # {} -> Usable(options.fragment)
         [] Usable(options.fragment) = {} /\ named # {} -> named
         [] Usable(options.fragment) \union named = {} /\ Usable(options.set) # {} -> Usable(options.set)
         [] Usable(options.fragment) \union named \union Usable(options.set) = {} /\ forced # {} -> forced
         [] OTHER -> {SetName(Qualifier(device), g) :
                         g \in IF options.group = {} THEN {Default} ELSE options.group}

\* setsFromSample: from what a sample echoes of the point.
FlowSets(device, point, forced) ==
    IF IsParameter(point) THEN FlowSetsOf(device, point.options, forced) ELSE {}

-----------------------------------------------------------------------------
(* Inputs.                                                                 *)

\* As the loader leaves it: only a table has more than one option, a string names the set.
Given(o) == Cardinality({f \in DOMAIN o : o[f] # {}})
Point(id, most) ==
    [id : {id}, writes : BOOLEAN, parameter : {"absent", "off", "on"}, options : {NoOption}]
    \union [id : {id}, writes : {TRUE}, parameter : {"table"}, options : {o \in Option : Given(o) \in 1 .. most}]
    \union [id : {id}, writes : {TRUE}, parameter : {"string"},
            options : {o \in Option : Given(o) = 1 /\ Cardinality(o.set) = 1}]

\* Two points of one device, or of two.
Inputs ==
    {<<[protocol |-> <<"m">>, type |-> t, points |-> <<p, q>>]>> :
        <<t, p, q>> \in Types \X Point(<<"p">>, 2) \X Point(<<"q">>, 1)}
    \union
    {<<[protocol |-> <<"m">>, type |-> t, points |-> <<p>>], [protocol |-> n, type |-> u, points |-> <<q>>]>> :
        <<t, u, n, p, q>> \in Types \X Types \X {<<"m">>, <<"n">>} \X Point(<<"p">>, 1) \X Point(<<"q">>, 1)}

Init == described = << >>

Describe ==
    /\ described = << >>
    /\ described' \in Inputs

Next == Describe

-----------------------------------------------------------------------------
(* Properties.                                                             *)

\* `describe' refuses what cannot be rendered: in what it accepts every parameter is in the
\* definition of its set, in that definition's shape and under its key; a key of a set on a
\* device is one point's; and the flow that keeps the twin puts each point in the same sets
\* under the same keys.
Rendered(devices, forced) ==
    Accepted(devices, forced) =>
        LET ps == Parameters(devices, forced)
            definitions == Definitions(devices, forced)
        IN /\ \A p \in ps : \E d \in definitions :
                 d.identifier = p.is.set /\ d.literal = p.is.literal /\ p.is.key \in DOMAIN d.keys
           /\ \A p, q \in ps :
                 p.at[1] = q.at[1] /\ p.is.set = q.is.set /\ p.is.key = q.is.key => p.at = q.at
           /\ \A i \in DOMAIN devices : \A j \in DOMAIN devices[i].points :
                 LET point == devices[i].points[j] IN
                 {<<p.set, p.key>> : p \in ParametersOf(devices[i], point, forced)}
                 = {<<set, FlowKey(devices[i], point)>> : set \in FlowSets(devices[i], point, forced)}

\* Device types that share a set without a warning do so because a point names the set, as long
\* as groups are words: a group with a separator in it reads as the end of another type.
Apart(devices) ==
    TypeWarnings(devices) \union {<<i, i>> : i \in Untyped(devices)} = {} =>
        \A i, j \in DOMAIN devices :
            devices[i].type # devices[j].type =>
                \A k \in DOMAIN devices[i].points, l \in DOMAIN devices[j].points :
                    LET Sets(d, n) == {p.set : p \in ParametersOf(devices[d], devices[d].points[n], {})}
                        o == devices[i].points[k].options
                        u == devices[j].points[l].options
                    IN Sets(i, k) \cap Sets(j, l) # {} =>
                           \E x \in {o, u} : x.fragment # {} \/ x.set # {} \/ \E key \in x.key : DottedKey(key) # {}

\* What `describe' renders is complete, routes back to one point, and is what the flow publishes;
\* nothing is shared across device types by accident.
DescriptorSound ==
    described # << >> =>
        /\ Rendered(described, {}) /\ Rendered(described, {<<"b">>})
        /\ Apart(described)
=============================================================================

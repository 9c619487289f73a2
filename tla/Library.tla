------------------------------- MODULE Library -------------------------------
(***************************************************************************)
(* Loading a configuration (sdk/src/library.rs): devices switched off,     *)
(* point libraries found on a search path and merged with the device's own *)
(* points, and what a management command may not introduce.  A definition  *)
(* of a point carries what the merge tells apart: its address, which is    *)
(* replaced as a whole with the library it belongs to; a field that is     *)
(* replaced; a table that is merged key by key; its access; its switch.    *)
(***************************************************************************)
EXTENDS Naturals, SequencesExt, FiniteSetsExt

VARIABLES
    load,    \* << >>, or the load: [doc, ok, devices]
    guard    \* << >>, or the command judged: [before, after, ok]

vars == <<load, guard>>

None == "none"
Id == {"p", "q"}

\* A definition: unset fields are None; meta is a set of <<key, value>>; origin is the library the
\* address belongs to (ADDRESS_ORIGIN), None for a device's own.
Definition(address, field, meta, enabled) ==
    [address |-> address, field |-> field, meta |-> meta, enabled |-> enabled, origin |-> None,
     access |-> None]

-----------------------------------------------------------------------------
(* Merging.                                                                *)

\* merge_table: the keys of `over' win.
MergeTable(base, over) == {e \in base : ~\E o \in over : o[1] = e[1]} \union over

\* Mutant: an address of the device's own keeps the library of the one it replaces.
MergePointTable_KeepsOrigin(base, over) ==
    [address |-> IF over.address = None THEN base.address ELSE over.address,
     field |-> IF over.field = None THEN base.field ELSE over.field,
     meta |-> MergeTable(base.meta, over.meta),
     enabled |-> IF over.enabled = None THEN base.enabled ELSE over.enabled,
     access |-> IF over.access = None THEN base.access ELSE over.access,
     origin |-> IF over.origin = None THEN base.origin ELSE over.origin]

\* merge_point_table
MergePointTable(base, over) ==
    [address |-> IF over.address = None THEN base.address ELSE over.address,
     field |-> IF over.field = None THEN base.field ELSE over.field,
     meta |-> MergeTable(base.meta, over.meta),
     enabled |-> IF over.enabled = None THEN base.enabled ELSE over.enabled,
     access |-> IF over.access = None THEN base.access ELSE over.access,
     origin |-> IF over.address = None THEN base.origin ELSE over.origin]

\* merge_point: points is a sequence of <<id, definition>>, each id once.
MergePoint(points, incoming) ==
    LET at == {i \in DOMAIN points : points[i][1] = incoming[1]}
    IN IF at = {} THEN Append(points, incoming)
       ELSE LET i == CHOOSE i \in at : TRUE
            IN [points EXCEPT ![i] = <<@[1], MergePointTable(@[2], incoming[2])>>]

\* drop_disabled_points
DropDisabled(points) == SelectSeq(points, LAMBDA e : e[2].enabled # "false")

-----------------------------------------------------------------------------
(* Libraries and devices.                                                  *)

\* A library: [protocol, type, fault, points]; fault names what read_library refuses it for: a
\* connector section, an unknown key or value, no points, a repeated id, or None.
\* Every point that has an address carries the library it belongs to.
ReadLibrary(lib, name) ==
    [i \in DOMAIN lib.points |->
        <<lib.points[i][1],
          [lib.points[i][2] EXCEPT !.origin = IF lib.points[i][2].address = None THEN None ELSE name]>>]
Readable(lib, protocol) == lib.fault = None /\ lib.protocol = protocol /\ lib.points # << >>

\* Mutant: the packaged library shadows the site's.
Locate_PackagedFirst(name, files, path) ==
    LET found == {i \in DOMAIN path : <<path[i], name>> \in DOMAIN files}
    IN IF found = {} THEN None ELSE path[Max(found)]

\* locate for a name: the first directory of the search path that has it.
Locate(name, files, path) ==
    LET found == {i \in DOMAIN path : <<path[i], name>> \in DOMAIN files}
    IN IF found = {} THEN None ELSE path[Min(found)]

Found(doc, name) == <<Locate(name, doc.files, doc.path), name>>

\* check_document: an unknown key is refused wherever it is, in a device switched off too.
KeysOk(doc) == doc.fault # "key" /\ \A i \in DOMAIN doc.devices : doc.devices[i].fault # "key"

\* check_point_values and the checks of a device: its values and those of its own points.
ValuesOk(d) == d.fault # "value"

\* What expand refuses of a device: a switch that is not a Boolean, a value, a reference that is
\* not found or not readable.  A device that is switched off is looked at no further.
DeviceOk(doc, d) ==
    \/ d.enabled = "false"
    \/ /\ d.enabled # "junk" /\ ValuesOk(d)
       /\ \A i \in DOMAIN d.refs :
             /\ Locate(d.refs[i], doc.files, doc.path) # None
             /\ Readable(doc.files[Found(doc, d.refs[i])], doc.protocol)

\* The points of a device: its libraries in order, then its own.  Without a library its own are
\* taken as they are.
DevicePoints(doc, d) ==
    LET libs == FoldLeft(LAMBDA acc, r : acc \o ReadLibrary(doc.files[Found(doc, r)], r), << >>, d.refs)
    IN DropDisabled(IF d.refs = << >> THEN d.inline
                    ELSE FoldLeft(MergePoint, << >>, libs \o d.inline))

\* The type of a device: its own, or that of the first library that names one.
DeviceType(doc, d) ==
    LET named == {i \in DOMAIN d.refs : doc.files[Found(doc, d.refs[i])].type # None}
    IN IF d.type # None \/ named = {} THEN d.type
       ELSE doc.files[Found(doc, d.refs[Min(named)])].type

\* expand: the devices that are switched on, each with its points and its type.
Expand(doc) ==
    LET on == SelectSeq(doc.devices, LAMBDA d : d.enabled # "false")
    IN [i \in DOMAIN on |-> [name |-> on[i].name, type |-> DeviceType(doc, on[i]),
                             points |-> DevicePoints(doc, on[i])]]

\* Mutant: each definition is checked, not what they make together.
MethodsOk_AsWritten(devices) == TRUE

\* check_resolved_methods, and the maps and batches alike: what only the merge decides, here that
\* a method has no field that describes a value.
MethodsOk(devices) ==
    \A i \in DOMAIN devices : \A k \in DOMAIN devices[i].points :
        LET p == devices[i].points[k][2] IN ~(p.access = "method" /\ p.field # None)

\* resolve: check_document, the connector's values, unique names (those switched off included),
\* each device, then the merged points.
ResolveOk(doc) ==
    /\ KeysOk(doc) /\ ValuesOk(doc)
    /\ \A i, j \in DOMAIN doc.devices : doc.devices[i].name = doc.devices[j].name => i = j
    /\ \A i \in DOMAIN doc.devices : DeviceOk(doc, doc.devices[i])
    /\ MethodsOk(Expand(doc))

-----------------------------------------------------------------------------
(* What a management command may not introduce.                            *)

\* A document for the guards: [connection, devices]; a device is [name, paths, settings], paths
\* the path references it makes, settings its restricted keys with their values.
\* reject_path_references
PathsOk(before, after) ==
    \A i \in DOMAIN after.devices : \A r \in after.devices[i].paths :
        \E j \in DOMAIN before.devices :
            before.devices[j].name = after.devices[i].name /\ r \in before.devices[j].paths

\* Mutant: a setting that is removed is not seen.
ChangedKey_NotRemoved(before, after) == after \ before # {}

\* changed_key: a restricted key added, changed or removed.
ChangedKey(before, after) == after \ before # {} \/ before \ after # {}

\* reject_local_only_settings
SettingsOk(before, after) ==
    /\ ~ChangedKey(before.connection, after.connection)
    /\ \A i \in DOMAIN after.devices :
          LET same == {j \in DOMAIN before.devices : before.devices[j].name = after.devices[i].name}
              previous == IF same = {} THEN {} ELSE before.devices[Min(same)].settings
          IN ~ChangedKey(previous, after.devices[i].settings)

-----------------------------------------------------------------------------
(* Inputs.                                                                 *)

Meta == {{}, {<<"k", 1>>}}
Definitions == {Definition(a, f, t, e) : a \in {None, "addr"}, f \in {None, "set"}, t \in Meta,
                                         e \in {None, "true", "false"}}
Few == {Definition("addr", None, {<<"k", 0>>}, None), Definition(None, "set", {}, "false"),
        [Definition("addr", None, {}, None) EXCEPT !.access = "method"]}

Lib(points) == [protocol |-> "modbus", type |-> None, fault |-> None, points |-> points]
Broken == {[Lib(<<<<"p", CHOOSE d \in Few : TRUE>>>>) EXCEPT !.fault = "unknown key"],
           [Lib(<<<<"p", CHOOSE d \in Few : TRUE>>>>) EXCEPT !.protocol = "snmp"],
           Lib(<< >>)}

Device(name, refs, inline) ==
    [name |-> name, enabled |-> None, fault |-> None, type |-> None, refs |-> refs, inline |-> inline]
Doc(devices, files) ==
    [fault |-> None, protocol |-> "modbus", path |-> <<"site", "packaged">>, devices |-> devices,
     files |-> files]
File(dir, name, lib) == <<dir, name>> :> lib

\* Two libraries and the device's own definition of one point; a second point in one of them.
Merges ==
    {Doc(<<Device("d", <<"a", "b">>, <<<<"p", own>>>>)>>,
         File("packaged", "a", [Lib(<<<<"q", c>>, <<"p", x>>>>) EXCEPT !.type = "A"])
         @@ File("site", "b", [Lib(<<<<"p", y>>>>) EXCEPT !.type = "B"])) :
        own \in Definitions, x \in Few, y \in Definitions, c \in Few}

\* A library in either directory or both, found, broken or missing; devices switched off, with a
\* wrong switch or value, or of one name; a device without a library.
Loads ==
    LET good == {Lib(<<<<"p", x>>>>) : x \in Few}
        libs == good \union Broken
        files == {File("site", "a", x) : x \in libs} \union {File("packaged", "a", x) : x \in libs}
                 \union {File("site", "a", x) @@ File("packaged", "a", y) : x \in good, y \in good}
        first == {[Device("d", r, <<<<"p", own>>>>) EXCEPT !.enabled = e, !.fault = f, !.type = t] :
                     r \in {<< >>, <<"a">>}, own \in Few, e \in {None, "true", "false", "junk"},
                     f \in {None, "key", "value"}, t \in {None, "T"}}
        more == {<< >>, <<Device("d", << >>, << >>)>>, <<Device("e", <<"a">>, << >>)>>}
    IN {Doc(<<d>> \o m, f) : d \in first, m \in more, f \in files}
       \union {[Doc(<<d>>, f) EXCEPT !.fault = "value"] : d \in first, f \in files}

Settings == {{}, {<<"password_file", 1>>}, {<<"password_file", 2>>}}
Guarded == [connection : {{}, {<<"pki_dir", 1>>}},
            devices : {<<>>} \union {<<[name |-> n, paths |-> r, settings |-> s]>> :
                                        n \in {"d", "e"}, r \in {{}, {"x"}, {"x", "y"}}, s \in Settings}]

Init == load = << >> /\ guard = << >>

Load ==
    /\ load = << >> /\ guard = << >>
    /\ \E doc \in Merges \union Loads :
          load' = <<[doc |-> doc, ok |-> ResolveOk(doc),
                     devices |-> IF ResolveOk(doc) THEN Expand(doc) ELSE << >>]>>
    /\ UNCHANGED guard

Judge ==
    /\ load = << >> /\ guard = << >>
    /\ \E b, a \in Guarded :
          guard' = <<[before |-> b, after |-> a, ok |-> PathsOk(b, a) /\ SettingsOk(b, a)]>>
    /\ UNCHANGED load

Next == Load \/ Judge

-----------------------------------------------------------------------------
(* Properties.                                                             *)

\* The definitions of a point, in the order a reader of the files would apply them.
Defs(doc, d, id) ==
    LET from == FoldLeft(LAMBDA acc, r :
                    LET l == IF <<"site", r>> \in DOMAIN doc.files THEN doc.files[<<"site", r>>]
                             ELSE doc.files[<<"packaged", r>>]
                    IN acc \o [i \in DOMAIN l.points |-> <<l.points[i], r>>], << >>, d.refs)
        own == [i \in DOMAIN d.inline |-> <<d.inline[i], None>>]
    IN SelectSeq(from \o own, LAMBDA e : e[1][1] = id)

LastSet(defs, value(_)) ==
    LET set == {i \in DOMAIN defs : value(defs[i][1][2]) # None}
    IN IF set = {} THEN 0 ELSE Max(set)

\* A loaded configuration is what its files say, read from the least to the most specific: each
\* field of a point is that of the last definition that sets it, a table that of the last for
\* each key, the address belongs to the library of the definition it comes from, and a point is
\* there exactly when its last switch does not turn it off.  No point is a method and a value,
\* however its definitions are spread over the files.
LoadedAsWritten ==
    \A n \in DOMAIN load : load[n].ok =>
        \A i \in DOMAIN load[n].devices :
            LET dev == load[n].devices[i]
                d == CHOOSE d \in ToSet(load[n].doc.devices) : d.name = dev.name
                defs(id) == Defs(load[n].doc, d, id)
                off(id) == LastSet(defs(id), LAMBDA x : x.enabled)
            IN /\ {dev.points[k][1] : k \in DOMAIN dev.points} =
                     {id \in Id : defs(id) # << >> /\ (off(id) = 0 \/ defs(id)[off(id)][1][2].enabled = "true")}
               /\ \A k \in DOMAIN dev.points :
                     LET id == dev.points[k][1]
                         p == dev.points[k][2]
                         a == LastSet(defs(id), LAMBDA x : x.address)
                         f == LastSet(defs(id), LAMBDA x : x.field)
                     IN /\ ~(p.access = "method" /\ p.field # None)
                        /\ IF a = 0 THEN p.address = None /\ p.origin = None
                           ELSE p.address # None /\ p.origin = defs(id)[a][2]
                        /\ (p.field = None) = (f = 0)
                        /\ \A e \in UNION {defs(id)[j][1][2].meta : j \in DOMAIN defs(id)} :
                              (e \in p.meta) =
                              \E j \in DOMAIN defs(id) :
                                 /\ e \in defs(id)[j][1][2].meta
                                 /\ \A l \in DOMAIN defs(id) : l > j =>
                                       \A o \in defs(id)[l][1][2].meta : o[1] # e[1]

\* A command that is accepted leaves every restricted setting of every device that stays as the
\* file has it, and names no path the device did not name already.
CommandsKeepLocal ==
    \A n \in DOMAIN guard :
        LET before == guard[n].before
            after == guard[n].after
        IN guard[n].ok =>
              /\ after.connection = before.connection
              /\ \A d \in ToSet(after.devices) :
                    IF \E b \in ToSet(before.devices) : b.name = d.name
                    THEN \A b \in ToSet(before.devices) :
                            b.name = d.name => d.settings = b.settings /\ d.paths \subseteq b.paths
                    ELSE d.settings = {} /\ d.paths = {}
=============================================================================

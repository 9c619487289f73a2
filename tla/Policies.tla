------------------------------ MODULE Policies ------------------------------
(***************************************************************************)
(* What a point publishes and when, resolved from the `report' and `batch' *)
(* tables of [connector], its device and itself (sdk/src/report.rs,        *)
(* measure.rs, config.rs): what the loader refuses in a table and in the   *)
(* merge, the names of the series, and what the capability descriptor says *)
(* of it.                                                                  *)
(*                                                                         *)
(* A table is a function of the keys it has.  A duration is a number, a    *)
(* list of aggregates a sequence, a single one a sequence of "only" and    *)
(* it; a name is a sequence of words.  A step loads one configuration, of  *)
(* one device.                                                             *)
(***************************************************************************)
EXTENDS Naturals, SequencesExt, FiniteSetsExt

CONSTANTS
    Shortest, Longest,   \* bounds of window and every
    MaxSeries            \* points of a device that are looked at for their names

VARIABLES
    loaded   \* the configuration looked at: << >>, or one with a name

Empty == [k \in {} |-> 0]
Get(table, key, default) == IF key \in DOMAIN table THEN table[key] ELSE default

-----------------------------------------------------------------------------
(* Merging.                                                                *)

\* merge_into: key by key.
MergeInto(base, over) == [k \in DOMAIN base \union DOMAIN over |-> IF k \in DOMAIN over THEN over[k] ELSE base[k]]

\* Mutant: an aggregate chooses its grouping only where none is inherited.
MergeBatchLevel_Inherited(base, level) ==
    LET merged == MergeInto(base, level)
    IN IF "aggregate" \in DOMAIN level /\ "group_by" \notin DOMAIN merged
       THEN MergeInto(merged, [group_by |-> "sample"]) ELSE merged

\* merge_batch_level: a table with an aggregate chooses "sample", unless it chooses itself.
MergeBatchLevel(base, level) ==
    LET merged == MergeInto(base, level)
    IN IF "aggregate" \in DOMAIN level /\ "group_by" \notin DOMAIN level
       THEN MergeInto(merged, [group_by |-> "sample"]) ELSE merged

\* report_table and batch_table.
ReportTable(c, point) == MergeInto(MergeInto(c.report, c.device.report), point.report)
BatchTable(c, point) ==
    MergeBatchLevel(MergeBatchLevel(MergeBatchLevel(Empty, c.batch), c.device.batch), point.batch)

-----------------------------------------------------------------------------
(* Reporting policies.                                                     *)

\* report::check_values: of one table, as written.
CheckReport(table) ==
    {"min", "max"} \subseteq DOMAIN table /\ table.min # 0 /\ table.max # 0 => table.min < table.max

\* ReportPolicy::from_table: zero switches a setting off, and so does leaving it out.
Policy(table) ==
    [on_change |-> Get(table, "on_change", FALSE), min |-> Get(table, "min", 0), max |-> Get(table, "max", 0)]
IsPassthrough(policy) == policy = Policy(Empty)

\* Mutant: a heartbeat as long as the rate limit is left as it is.
Effective_Equal(table) ==
    LET p == Policy(table)
    IN IF p.min # 0 /\ p.max # 0 /\ p.max < p.min THEN [p EXCEPT !.max = 2 * p.min] ELSE p

\* effective: inheritance may put the heartbeat under the rate limit.
Effective(table) ==
    LET p == Policy(table)
    IN IF p.min # 0 /\ p.max # 0 /\ p.max <= p.min THEN [p EXCEPT !.max = 2 * p.min] ELSE p

-----------------------------------------------------------------------------
(* Grouping.                                                               *)

\* measure::check_values: a table that chooses its policy sets only that policy's keys.
CheckBatch(table) ==
    /\ "group_by" \in DOMAIN table =>
          /\ table.group_by \in {"time", "frame", "sample"}
          /\ "window" \in DOMAIN table => table.group_by = "frame"
          /\ {"every", "aggregate"} \cap DOMAIN table # {} => table.group_by = "sample"
    /\ \A k \in {"window", "every"} \cap DOMAIN table : table[k] \in Shortest .. Longest
    /\ "aggregate" \in DOMAIN table => /\ table.aggregate # << >>
                                       /\ IsInjective(table.aggregate)

\* GroupBy::from_table: the duration the policy needs, and nothing of the others.
GroupBy(table) ==
    CASE Get(table, "group_by", "time") = "frame" -> <<"frame", Get(table, "window", 0)>>
      [] Get(table, "group_by", "time") = "sample" -> <<"sample", Get(table, "every", 0)>>
      [] OTHER -> <<"time", Longest>>
Grouped(table) == GroupBy(table)[2] # 0

\* aggregates_of: of a point that is sampled, unless it raises an event for every reading.
Aggregated(c, point) ==
    LET table == BatchTable(c, point)
    IN IF GroupBy(table)[1] = "sample" /\ Grouped(table) /\ ~point.event THEN Get(table, "aggregate", << >>)
       ELSE << >>

-----------------------------------------------------------------------------
(* Series.                                                                 *)

Measurable(point) == point.measured

\* The place of the separator that splits an id: its first, inside the id.
SplitAt(id) ==
    LET places == {i \in DOMAIN id : id[i] = "."}
    IN IF places = {} \/ Min(places) \in {1, Len(id)} THEN {} ELSE {Min(places)}

\* Naming::resolve: the point's names, the connector's, the halves of the id, the protocol and
\* the id.
Resolve(c, point) ==
    LET cut == IF c.separator THEN SplitAt(point.id) ELSE {}
        First(names) == names[Min({i \in DOMAIN names : names[i] # << >>})]
        Half(Part(_)) == IF cut = {} THEN << >> ELSE Part(Min(cut))
    IN [group |-> First(<<point.group, c.group, Half(LAMBDA i : SubSeq(point.id, 1, i - 1)), <<"modbus">>>>),
        series |-> First(<<point.series, c.series, Half(LAMBDA i : SubSeq(point.id, i + 1, Len(point.id))), point.id>>)]

\* The series a point publishes: a list of aggregates is suffixed.
Series(c, point) ==
    LET name == Resolve(c, point)
        aggregates == Aggregated(c, point)
    IN IF aggregates = << >> \/ aggregates[1] = "only" THEN {name}
       ELSE {[name EXCEPT !.series = @ \o <<"_", a>>] : a \in Range(aggregates)}

\* Mutant: only the name of the point before is remembered.
Named_Last(c, points) ==
    FoldLeft(LAMBDA acc, p :
                 LET mine == Aggregated(c, p) # << >>
                     clash == {n \in Series(c, p) \cap DOMAIN acc.names : mine \/ acc.names[n]}
                 IN [refused |-> acc.refused \/ clash # {},
                     names |-> [n \in Series(c, p) |-> mine]],
             [refused |-> FALSE, names |-> Empty], points)

\* check_resolved's pass over the points: a name keeps the first point that publishes it.
Named(c, points) ==
    FoldLeft(LAMBDA acc, p :
                 LET mine == Aggregated(c, p) # << >>
                     clash == {n \in Series(c, p) \cap DOMAIN acc.names : mine \/ acc.names[n]}
                 IN [refused |-> acc.refused \/ clash # {},
                     names |-> [n \in DOMAIN acc.names \union Series(c, p) |->
                                    IF n \in DOMAIN acc.names THEN acc.names[n] ELSE mine]],
             [refused |-> FALSE, names |-> Empty], points)

\* Mutant: an aggregate is compared with the report table of its point.
CheckResolved_OwnReport(c) ==
    /\ \A p \in Range(c.device.points) : Aggregated(c, p) # << >> => IsPassthrough(Policy(p.report))
    /\ c.output = "measurements" => ~Named(c, SelectSeq(c.device.points, Measurable)).refused

\* check_resolved: an aggregate uses every reading, and its series are its own.
CheckResolved(c) ==
    /\ \A p \in Range(c.device.points) : Aggregated(c, p) # << >> => IsPassthrough(Policy(ReportTable(c, p)))
    /\ c.output = "measurements" => ~Named(c, SelectSeq(c.device.points, Measurable)).refused

\* load: every table as written, then the merge.
Accepted(c) ==
    /\ \A p \in Range(c.device.points) \union {c, c.device} : CheckReport(p.report) /\ CheckBatch(p.batch)
    /\ \A p \in Range(c.device.points) : Grouped(BatchTable(c, p))
    /\ CheckResolved(c)

-----------------------------------------------------------------------------
(* The capability descriptor.                                              *)

NonEmpty(table) == IF table = Empty THEN {} ELSE {table}

\* Mutant: a point is listed when it declares a policy.
Reports_Declared(c) ==
    [default |-> NonEmpty(c.report), device |-> NonEmpty(c.device.report),
     points |-> {[point |-> p.id, report |-> ReportTable(c, p)] :
                    p \in {q \in Range(c.device.points) : q.report # Empty /\ q.report # c.report}}]

\* reports: a point is listed when its policy is not its device's.
Reports(c) ==
    [default |-> NonEmpty(c.report), device |-> NonEmpty(c.device.report),
     points |-> {[point |-> p.id, report |-> ReportTable(c, p)] :
                    p \in {q \in Range(c.device.points) :
                              ReportTable(c, q) # MergeInto(c.report, c.device.report)}}]

\* measure::describe: the device's grouping, without its points'; nothing when all is default.
Describe(c) ==
    LET batch == MergeBatchLevel(MergeBatchLevel(Empty, c.batch), c.device.batch)
    IN IF c.output = "samples" /\ c.batch = Empty /\ c.device.batch = Empty THEN {}
       ELSE {[output |-> c.output, batch |-> MergeInto([group_by |-> "time"], batch)]}

-----------------------------------------------------------------------------
(* Configurations.                                                         *)

Plain(id) == [id |-> <<id>>, report |-> Empty, batch |-> Empty, event |-> FALSE, measured |-> TRUE,
              group |-> << >>, series |-> << >>]
Config(name, report, batch, device) ==
    [name |-> name, report |-> report, batch |-> batch, device |-> device, output |-> "measurements",
     separator |-> TRUE, group |-> << >>, series |-> << >>]

ReportTables ==
    {Empty, [on_change |-> TRUE]} \union [{"min"} -> {0, 1, 2}] \union [{"max"} -> {0, 1, 2}]
        \union [{"min", "max"} -> 0 .. 2]
BatchTables ==
    {Empty} \union [{"group_by"} -> {"time", "frame", "sample"}] \union [{"window"} -> {0, Shortest}]
        \union {[group_by |-> g, window |-> Shortest] : g \in {"time", "frame"}}
        \union {[group_by |-> g, every |-> Longest] : g \in {"frame", "sample"}}
        \union [{"every"} -> {Shortest, Longest + 1}]
        \union [{"aggregate"} -> {<< >>, <<"only", "mean">>, <<"mean", "min">>, <<"mean", "mean">>}]
        \union {[group_by |-> g, aggregate |-> <<"mean">>] : g \in {"time", "sample"}}
        \union {[group_by |-> "sample", every |-> Shortest, aggregate |-> <<"mean">>],
                [every |-> Shortest, aggregate |-> <<"only", "min">>]}

\* Two points under every report of the levels above.
ReportGiven ==
    \E c, d, p \in ReportTables, q \in {Empty, [min |-> 1]} :
        loaded' = Config("report", c, Empty,
                         [report |-> d, batch |-> Empty,
                          points |-> <<[Plain("x") EXCEPT !.report = p], [Plain("y") EXCEPT !.report = q]>>])
\* A point under every batch of the levels above, with and without a report.
BatchGiven ==
    \E c, d, p \in BatchTables, r \in {Empty, [max |-> 2]}, e \in BOOLEAN :
        /\ e => r # Empty
        /\ loaded' = [Config("batch", r, c,
                             [report |-> Empty, batch |-> d,
                              points |-> <<[Plain("x") EXCEPT !.batch = p, !.event = e]>>])
                      EXCEPT !.output = IF e THEN "samples" ELSE "measurements"]
\* Points that are plain or aggregated, under names that may meet: their own, or the connector's.
SeriesGiven ==
    LET ids == {<<"x">>, <<"x", "_", "mean">>, <<"modbus", ".", "x">>, <<"g", ".", "x">>}
        tables == {Empty, [group_by |-> "sample", aggregate |-> <<"only", "mean">>],
                   [group_by |-> "sample", aggregate |-> <<"mean", "min">>]}
        Point == {[Plain("x") EXCEPT !.id = i, !.batch = b, !.series = s] : i \in ids, b \in tables, s \in {<< >>, <<"x">>}}
                 \union {[Plain("x") EXCEPT !.measured = FALSE]}
    IN \E split \in BOOLEAN, group \in {<< >>, <<"g">>}, series \in {<< >>, <<"x">>} :
       \E points \in [1 .. MaxSeries -> Point] :
          loaded' = [Config("series", Empty, [every |-> Shortest],
                            [report |-> Empty, batch |-> Empty, points |-> points])
                     EXCEPT !.separator = split, !.group = group, !.series = series]

Init == loaded = << >>
Next == loaded = << >> /\ (ReportGiven \/ BatchGiven \/ SeriesGiven)

-----------------------------------------------------------------------------
(* Properties.                                                             *)

\* Who reads the descriptor knows every point's policy: its entry, else its device's over the
\* default.
Reconstructed(c) ==
    LET told == Reports(c)
        Table(given) == IF given = {} THEN Empty ELSE CHOOSE t \in given : TRUE
        Read(point) == LET own == {e.report : e \in {f \in told.points : f.point = point.id}}
                       IN IF own # {} THEN Table(own) ELSE MergeInto(Table(told.default), Table(told.device))
    IN \A p \in Range(c.device.points) : Read(p) = ReportTable(c, p)

\* A heartbeat is longer than the rate limit, whatever levels the two come from.
Heartbeats(c) ==
    \A p \in Range(c.device.points) :
        LET e == Effective(ReportTable(c, p)) IN e.min # 0 /\ e.max # 0 => e.min < e.max

\* A point is grouped the way the last level that says anything about it chose, with a duration
\* within bounds; and only a sampled point is aggregated, from all its readings.
Chosen(c) ==
    \A p \in Range(c.device.points) :
        LET levels == <<c.batch, c.device.batch, p.batch>>
            saying == {i \in 1 .. 3 : {"group_by", "aggregate"} \cap DOMAIN levels[i] # {}}
            last == levels[Max(saying)]
            g == GroupBy(BatchTable(c, p))
        IN /\ g[1] = (IF saying = {} THEN "time" ELSE Get(last, "group_by", "sample"))
           /\ g[2] \in Shortest .. Longest
           /\ Aggregated(c, p) # << >> => g[1] = "sample" /\ Effective(ReportTable(c, p)) = Policy(Empty)
           /\ p.batch = Empty =>
                 \A d \in Describe(c) : d.batch.group_by = g[1]

\* A series of an aggregated point is no other point's.
SeriesApart(c) ==
    \A i, j \in DOMAIN c.device.points :
        LET p == c.device.points[i]
            q == c.device.points[j]
        IN i # j /\ p.measured /\ q.measured /\ Aggregated(c, p) # << >> => Series(c, p) \cap Series(c, q) = {}

\* In every configuration that loads, points publish when and under the names that were asked
\* for, and the descriptor says so.
PoliciesSound ==
    loaded # << >> /\ Accepted(loaded) =>
        Reconstructed(loaded) /\ Heartbeats(loaded) /\ Chosen(loaded) /\ SeriesApart(loaded)
=============================================================================

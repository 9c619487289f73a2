--------------------------------- MODULE Cli ---------------------------------
(***************************************************************************)
(* The commands of tedge-dot that do not run the service (src/main.rs):    *)
(* read, once or on a polling loop, and write; and what `run' finds on the *)
(* command line before it starts a connector.                              *)
(*                                                                         *)
(* A device has some of the points "rw", "r" and "w", named for their      *)
(* access.  A selector is [pattern, ids]: a name or a wildcard pattern and *)
(* what it matches.  The commands use the connector directly: no runtime,  *)
(* no timeout, one call at a time.                                         *)
(***************************************************************************)
EXTENDS Integers, SequencesExt, FiniteSetsExt

CONSTANTS
    Points,      \* the points of each device
    Interval,    \* each device's poll interval
    Count,       \* --count
    MaxClock,    \* bound: the time watched
    Alphabet, MaxText   \* bound: the texts that are matched

VARIABLES
    verb,        \* the command: "none", "read", "poll" or "write"
    selectors,   \* the point selectors
    picked,      \* resolve_targets: the points picked on each device
    at,          \* where the command is
    jobs,        \* the devices with a read job, or still to be written to
    due, remaining,  \* of the jobs
    clock,
    pass,        \* when the pass began, and the jobs it has still to read
    failures,    \* unreachable devices and failed writes
    saw_bad,
    fate,        \* history: what became of each point
    polls,       \* history: the reads attempted of each device
    looked       \* the text, paths or configurations looked at

session == <<verb, selectors, picked, at, jobs, due, remaining, clock, pass, failures, saw_bad, fate, polls>>

Device == DOMAIN Points
AllPoints == UNION {Points[d] : d \in Device}
Running == {"connect", "loop", "pass"}

-----------------------------------------------------------------------------
(* wildcard_match: the text is walked once, the last `*' takes the slack.  *)

Get(s, i) == IF i \in DOMAIN s THEN s[i] ELSE ""

\* Mutant: the last star is not tried again.
Resume_Never(p, t, match, sp, st) == FALSE

\* Where the match goes on when a character does not fit.
Resume(p, t, match, sp, st) == IF sp = 0 THEN FALSE ELSE match[sp + 1, st + 1, sp, st + 1]

WildcardMatch(p, t) ==
    LET match[pi \in 1 .. Len(p) + 1, ti \in 1 .. Len(t) + 1, sp \in 0 .. Len(p), st \in 1 .. Len(t) + 1] ==
            IF ti > Len(t) THEN \A i \in pi .. Len(p) : p[i] = "*"
            ELSE IF Get(p, pi) = "?" \/ Get(p, pi) = t[ti] THEN match[pi + 1, ti + 1, sp, st]
            ELSE IF Get(p, pi) = "*" THEN match[pi + 1, ti, pi, ti]
            ELSE Resume(p, t, match, sp, st)
    IN match[1, 1, 0, 1]

\* What a pattern matches, by its first character.
Fits(p, t) ==
    LET fits[i \in 0 .. Len(p), j \in 0 .. Len(t)] ==
            CASE i = 0 -> j = 0
              [] i > 0 /\ p[i] = "*" -> fits[i - 1, j] \/ (j > 0 /\ fits[i, j - 1])
              [] OTHER -> j > 0 /\ (p[i] = "?" \/ p[i] = t[j]) /\ fits[i - 1, j - 1]
    IN fits[Len(p), Len(t)]

-----------------------------------------------------------------------------
(* Configurations on the command line.                                     *)

\* Paths: a directory `dir' with the configs a and b, and other spellings of a.
Paths == {"dir", "dir/a", "dir/b", "link to a", "pipe", "missing"}
Files(path) == IF path = "dir" THEN <<"dir/a", "dir/b">> ELSE <<path>>
Canonical(file) == IF file = "link to a" THEN "dir/a" ELSE file

\* Mutant: a file is kept once per spelling.
Kept_BySpelling(found, file) == file \notin Range(found)

\* A file named twice is judged by where the path resolves to.
Kept(found, file) == Canonical(file) \notin {Canonical(f) : f \in Range(found)}

\* discover_configs: the configs, or none when a path is missing.
Discover(args) ==
    IF "missing" \in Range(args) THEN {}
    ELSE {FoldLeft(LAMBDA found, file : IF Kept(found, file) THEN Append(found, file) ELSE found,
                   << >>, FlattenSeq([i \in DOMAIN args |-> Files(args[i])]))}

\* require_rereadable: `run' reads its configs again.
Rereadable(configs) == "pipe" \notin Range(configs)

\* A device of a config as it is written: `enabled' left out, true, false or something else.
Enabled == {"absent", "true", "false", "other"}
Loads(config) == config.loads /\ \A e \in Range(config.devices) : e.enabled # "other"
Owns(config, name) == \E e \in Range(config.devices) : e.name = name /\ e.enabled \in {"absent", "true"}

\* Mutant: only a config that loads is looked at, for any enabled flag that is given.
DuplicateDevices_Given(configs) ==
    {name \in {"x", "y"} : Cardinality({i \in DOMAIN configs :
        \E e \in Range(configs[i].devices) : e.name = name /\ e.enabled = "true"}) > 1}

\* duplicate_devices, of the configs of one protocol: read raw, whether or not they load.
DuplicateDevices(configs) ==
    {name \in {"x", "y"} : Cardinality({i \in DOMAIN configs : Owns(configs[i], name)}) > 1}

-----------------------------------------------------------------------------
(* resolve_targets.                                                        *)

CanRead == {"rw", "r"}
CanWrite == {"rw", "w"}
FitsVerb(v) == IF v = "write" THEN CanWrite ELSE CanRead

Selectors == {[pattern |-> FALSE, ids |-> {p}] : p \in AllPoints}
             \union {[pattern |-> TRUE, ids |-> AllPoints], [pattern |-> TRUE, ids |-> {"w", "r"}]}

\* Mutant: a pattern takes points the operation has no access to.
Hits_AnyAccess(v, s) == s.ids

\* A pattern only takes points that fit; a named point is always taken.
Hits(v, s) == IF s.pattern THEN s.ids \cap FitsVerb(v) ELSE s.ids

Picked(v, chosen) == [d \in Device |-> Points[d] \cap UNION {Hits(v, s) : s \in chosen}]

\* Every selector has to match a point somewhere.
Resolves(v, chosen) == \A s \in chosen : Hits(v, s) \cap AllPoints # {}

-----------------------------------------------------------------------------
(* The commands.                                                           *)

Idle ==
    /\ verb = "none" /\ selectors = {} /\ picked = [d \in Device |-> {}]
    /\ at = "idle" /\ jobs = {}
    /\ due = [d \in Device |-> 0] /\ remaining = [d \in Device |-> 0]
    /\ clock = 0 /\ pass = [start |-> 0, todo |-> {}]
    /\ failures = 0 /\ saw_bad = FALSE
    /\ fate = [d \in Device |-> [p \in AllPoints |-> "none"]]
    /\ polls = [d \in Device |-> 0]

Init == Idle /\ looked = << >>

Start(v, chosen) ==
    /\ at = "idle" /\ looked = << >>
    /\ verb' = v /\ selectors' = chosen
    /\ picked' = Picked(v, chosen)
    /\ at' = IF Resolves(v, chosen) THEN "connect" ELSE "error"
    /\ UNCHANGED <<jobs, due, remaining, clock, pass, failures, saw_bad, fate, polls, looked>>

Targets == {d \in Device : picked[d] # {}}

\* Mutant: only the devices that answer count.
Unreachable_Forgotten(reachable) == 0

Unreachable(reachable) == Cardinality(Targets \ reachable)

\* connect_targets: connect() is called once; the unreachable devices are left out.
Connect(reachable) ==
    /\ at = "connect"
    /\ reachable \subseteq Targets
    /\ jobs' = reachable
    /\ failures' = Unreachable(reachable)
    /\ remaining' = [d \in Device |-> IF verb = "poll" THEN Count ELSE 1]
    /\ at' = IF reachable = {} THEN "error" ELSE "loop"
    /\ UNCHANGED <<verb, selectors, picked, due, clock, pass, saw_bad, fate, polls, looked>>

\* read_loop: sleep until a job is due, then read every job that is.
BeginPass ==
    LET left == {d \in jobs : remaining[d] # 0}
        next == Min({due[d] : d \in left})
        now == IF verb = "poll" THEN Max({clock, next}) ELSE clock
    IN /\ at = "loop" /\ verb # "write" /\ left # {}
       /\ now <= MaxClock
       /\ clock' = now
       /\ jobs' = left
       /\ pass' = [start |-> now, todo |-> {d \in left : due[d] <= now}]
       /\ at' = "pass"
       /\ UNCHANGED <<verb, selectors, picked, due, remaining, failures, saw_bad, fate, polls, looked>>

EndPass ==
    /\ at = "pass" /\ pass.todo = {}
    /\ at' = "loop"
    /\ UNCHANGED <<verb, selectors, picked, jobs, due, remaining, clock, pass, failures, saw_bad, fate,
                   polls, looked>>

\* Mutant: the next read is due an interval after the last one was, however late that ran.
NextDue_CatchesUp(d) == due[d] + Interval[d]

NextDue(d) == pass.start + Interval[d]

\* Mutant: the last batch decides.
SawBad_Last(d) == \E p \in picked[d] : fate'[d][p] = "bad"

SawBad(d) == saw_bad \/ \E p \in picked[d] : fate'[d][p] = "bad"

\* One device is read, which takes up to MaxClock; a point the access forbids comes back bad.
ReadDevice(d, bad) ==
    /\ at = "pass" /\ d \in pass.todo
    /\ bad \subseteq picked[d] /\ picked[d] \ CanRead \subseteq bad
    /\ fate' = [fate EXCEPT ![d] = [p \in AllPoints |->
                   IF p \notin picked[d] THEN "none" ELSE IF p \in bad THEN "bad" ELSE "good"]]
    /\ saw_bad' = SawBad(d)
    /\ clock' \in IF verb = "poll" THEN clock .. MaxClock ELSE {clock}
    /\ due' = [due EXCEPT ![d] = NextDue(d)]
    /\ remaining' = [remaining EXCEPT ![d] = @ - 1]
    /\ polls' = [polls EXCEPT ![d] = @ + 1]
    /\ pass' = [pass EXCEPT !.todo = @ \ {d}]
    /\ UNCHANGED <<verb, selectors, picked, at, jobs, failures, looked>>

\* The read fails: a one-shot read gives up, a polling one reconnects and goes on.
ReadFails(d) ==
    /\ at = "pass" /\ d \in pass.todo
    /\ IF verb = "poll"
       THEN /\ due' = [due EXCEPT ![d] = NextDue(d)]
            /\ remaining' = [remaining EXCEPT ![d] = @ - 1]
            /\ pass' = [pass EXCEPT !.todo = @ \ {d}]
            /\ UNCHANGED at
       ELSE /\ at' = "error"
            /\ UNCHANGED <<due, remaining, pass>>
    /\ polls' = [polls EXCEPT ![d] = @ + 1]
    /\ UNCHANGED <<verb, selectors, picked, jobs, clock, failures, saw_bad, fate, looked>>

\* Ctrl-C ends a polling session, also while a device is read.
Interrupt ==
    /\ verb = "poll" /\ at \in {"loop", "pass"}
    /\ at' = "interrupted"
    /\ UNCHANGED <<verb, selectors, picked, jobs, due, remaining, clock, pass, failures, saw_bad, fate,
                   polls, looked>>

\* Every count is used up: a one-shot read is strict, a polling session is not.
EndRead ==
    /\ at = "loop" /\ verb # "write" /\ \A d \in jobs : remaining[d] = 0
    /\ at' = IF verb = "read" /\ (failures > 0 \/ saw_bad) THEN "error" ELSE "ok"
    /\ UNCHANGED <<verb, selectors, picked, jobs, due, remaining, clock, pass, failures, saw_bad, fate,
                   polls, looked>>

\* cmd_write: every picked point of every reachable device is attempted, in any case.
WritePoint(d, p, taken) ==
    /\ at = "loop" /\ verb = "write"
    /\ d \in jobs /\ p \in picked[d] /\ fate[d][p] = "none"
    /\ taken => p \in CanWrite
    /\ fate' = [fate EXCEPT ![d][p] = IF taken THEN "good" ELSE "bad"]
    /\ failures' = failures + IF taken THEN 0 ELSE 1
    /\ UNCHANGED <<verb, selectors, picked, at, jobs, due, remaining, clock, pass, saw_bad, polls, looked>>

EndWrite ==
    /\ at = "loop" /\ verb = "write"
    /\ \A d \in jobs : \A p \in picked[d] : fate[d][p] # "none"
    /\ at' = IF failures > 0 THEN "error" ELSE "ok"
    /\ UNCHANGED <<verb, selectors, picked, jobs, due, remaining, clock, pass, failures, saw_bad, fate,
                   polls, looked>>

-----------------------------------------------------------------------------
(* Inputs looked at on their own.                                          *)

Texts(chars) == UNION {[1 .. n -> chars] : n \in 0 .. MaxText}
Devices == {<< >>} \union {<<[name |-> n, enabled |-> e]>> : <<n, e>> \in {"x", "y"} \X Enabled}
           \union {<<[name |-> "x", enabled |-> e], [name |-> "y", enabled |-> "true"]>> : e \in Enabled}
Configs == [loads : BOOLEAN, devices : Devices]

LookAtText ==
    /\ at = "idle" /\ looked = << >>
    /\ \E p \in Texts(Alphabet \union {"*", "?"}), t \in Texts(Alphabet) :
          looked' = [kind |-> "text", pattern |-> p, text |-> t]
    /\ UNCHANGED session

LookAtPaths ==
    /\ at = "idle" /\ looked = << >>
    /\ \E n \in 1 .. 3 : \E args \in [1 .. n -> Paths] : looked' = [kind |-> "paths", args |-> args]
    /\ UNCHANGED session

LookAtConfigs ==
    /\ at = "idle" /\ looked = << >>
    /\ \E a, b \in Configs : looked' = [kind |-> "configs", configs |-> <<a, b>>]
    /\ UNCHANGED session

Next ==
    \/ \E v \in {"read", "poll", "write"}, chosen \in SUBSET Selectors \ {{}} :
          Cardinality(chosen) < 3 /\ Start(v, chosen)
    \/ \E reachable \in SUBSET Targets : Connect(reachable)
    \/ BeginPass \/ EndPass \/ EndRead \/ EndWrite \/ Interrupt
    \/ \E d \in Device :
          \/ ReadFails(d)
          \/ \E bad \in SUBSET picked[d] : ReadDevice(d, bad)
          \/ \E p \in picked[d], taken \in BOOLEAN : WritePoint(d, p, taken)
    \/ LookAtText \/ LookAtPaths \/ LookAtConfigs

-----------------------------------------------------------------------------
(* Properties.                                                             *)

\* A one-shot read or a write that succeeds has read or written every point that any selector
\* names, on every device, reachable or not; and one that selects by patterns only never fails
\* because of a point's access.
ExitTells ==
    /\ at = "ok" /\ verb \in {"read", "write"} =>
          \A d \in Device, s \in selectors : \A p \in s.ids \cap Points[d] :
              (~s.pattern \/ p \in FitsVerb(verb)) => fate[d][p] = "good"
    /\ (\A s \in selectors : s.pattern) =>
          \A d \in Device : \A p \in AllPoints : fate[d][p] # "none" => p \in FitsVerb(verb)

\* A polling session that ends by itself has polled every reachable device --count times, and
\* a device that answers late is not polled again to catch up.
Paced ==
    /\ at = "ok" /\ verb = "poll" => \A d \in jobs \union {e \in Device : polls[e] > 0} : polls[d] = Count
    /\ at \in Running => \A d \in jobs : polls[d] > 0 /\ d \notin pass.todo => due[d] > pass.start

\* A pattern matches what it says; a config is run once, however it is named; and every device
\* that two running connectors own is warned about.
LookedAtRight ==
    looked # << >> =>
        CASE looked.kind = "text" -> WildcardMatch(looked.pattern, looked.text) = Fits(looked.pattern, looked.text)
          [] looked.kind = "paths" ->
                \A found \in Discover(looked.args) :
                    /\ {Canonical(f) : f \in Range(found)}
                       = {Canonical(f) : f \in UNION {Range(Files(a)) : a \in Range(looked.args)}}
                    /\ \A i, j \in DOMAIN found : Canonical(found[i]) = Canonical(found[j]) => i = j
          [] looked.kind = "configs" ->
                \A name \in {"x", "y"} :
                    (\A c \in Range(looked.configs) : Loads(c) /\ Owns(c, name))
                        => name \in DuplicateDevices(looked.configs)

CliSound == ExitTells /\ Paced /\ LookedAtRight
=============================================================================

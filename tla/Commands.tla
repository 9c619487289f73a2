------------------------------ MODULE Commands ------------------------------
(***************************************************************************)
(* The commands of one connector and its configuration                     *)
(* (sdk/src/runtime.rs): the file, the document the connector holds, the   *)
(* configuration it runs, what the protocol module was configured with,    *)
(* what is retained about it, and the schedule built from it; management   *)
(* commands, reloads, writes, write-batches and method calls, with a file  *)
(* edited meanwhile, a disk that cannot be written, a module that refuses, *)
(* a device that cannot be reached, and a process that dies at any point.  *)
(***************************************************************************)
EXTENDS Naturals, Sequences

CONSTANTS
    DeviceName,       \* the names of devices
    MaxCommands,  \* bound: commands received
    MaxMishaps    \* bound: hand edits, failed saves, crashes

VARIABLES
    at,          \* where the loop is: "idle", "candidate", "save", "commit", "reconnect",
                 \* "rearm", "write", or "down"
    request,     \* the command being handled, NoRequest for a reload
    file,        \* the configuration file
    config_doc,  \* the document the connector holds
    candidate,   \* the document being applied
    config,      \* the configuration it runs
    module,      \* the configuration the protocol module holds, or None
    connected,   \* the configuration the sessions were made with, or None
    retained,    \* the configuration the retained descriptor and links describe
    scheduled,   \* the configuration the schedule was built from
    status,      \* the retained command: "none", "init", "executing", "successful", "failed"
    written,     \* history: the points the device took from this command
    results,     \* the results of this command so far
    commands, mishaps

vars == <<at, request, file, config_doc, candidate, config, module, connected, retained,
          scheduled, status, written, results, commands, mishaps>>

\* The sections of a document.  A device is "absent", or its definition is "v1" or "v2", one that
\* names a local path or file, one the resolver refuses, or one the module refuses.
Section == DeviceName \union {"mqtt"}
Definition == {"v1", "v2", "local", "invalid", "unfit"}
Document == [section : [Section -> Definition \union {"absent"}], note : {0, 1}]
None == [s \in Section |-> "none"]
Change(doc, s, d) == [doc EXCEPT !.section[s] = d]

\* library::resolve and Connector::configure; comments do not reach the configuration.
Resolves(doc) == \A s \in Section : doc.section[s] # "invalid"
Resolve(doc) == doc.section
Accepts(c) == \A s \in Section : c[s] # "unfit"

NoRequest == [verb |-> "reload"]
Point == {"p", "q"}

\* What may arrive on the subscribed topics: junk, answers, commands for others; a verb on the
\* wrong topic; management commands; writes and method calls, each with what is wrong with it.
Ignored == [verb : {"elsewhere", "not init"}]
Misplaced == [verb : {"misplaced"}]
Managing ==
    [verb : {"set-config", "define-device"}, target : Section \union {"service_name", "nowhere"},
     def : Definition]
    \union [verb : {"remove-device"}, target : Section]
Writing ==
    [verb : {"write-batch"}, writes : {<<>>, <<"p", "q">>, <<"q", "p">>, <<"p">>, <<"p", "?">>}]
    \union [verb : {"write", "call-method"}, writes : {<<p>> : p \in Point}]
Request == Ignored \union Misplaced \union Managing \union Writing

Init ==
    /\ at = "idle" /\ request = NoRequest
    /\ file = [section |-> [s \in Section |-> IF s = "mqtt" THEN "v1" ELSE "absent"], note |-> 0]
    /\ config_doc = file /\ candidate = file /\ config = Resolve(file)
    /\ module = config /\ connected = config /\ retained = config /\ scheduled = config
    /\ status = "none" /\ written = {} /\ results = << >>
    /\ commands = 0 /\ mishaps = 0

\* The retained answer of a command; a reload has none.
Answer(s) == status' = IF request = NoRequest THEN status ELSE s

-----------------------------------------------------------------------------
(* Commands.                                                               *)

\* apply_set_config, apply_define_device and apply_remove_device, as what they allow and do.
Applies(r, doc) ==
    CASE r.verb = "set-config" -> r.target \in Section /\ doc.section[r.target] # "absent"
      [] r.verb = "define-device" -> r.target \in DeviceName
      [] OTHER -> r.target \in DeviceName /\ doc.section[r.target] # "absent"
Applied(r, doc) == Change(doc, r.target, IF r.verb = "remove-device" THEN "absent" ELSE r.def)

\* Mutant: path references and local settings are not looked at.
Refused_NotLocal(doc, new) == FALSE

\* reject_path_references and reject_local_only_settings: judged against the document as it
\* stood, so only what the command itself introduced is refused.
Refused(doc, new) == \E s \in Section : new.section[s] = "local" /\ doc.section[s] # "local"

\* handle_command and route_command: who it is for, and whether it is a new request.
Receive(r) ==
    /\ at = "idle" /\ commands < MaxCommands /\ r \in Request
    /\ commands' = commands + 1
    /\ written' = {} /\ results' = << >>
    /\ CASE r \in Ignored -> status' = "none" /\ UNCHANGED <<at, request, candidate>>
         [] r \in Misplaced -> status' = "failed" /\ UNCHANGED <<at, request, candidate>>
         [] r \in Managing ->
              /\ request' = r
              /\ IF Applies(r, config_doc) /\ ~Refused(config_doc, Applied(r, config_doc))
                    /\ Resolves(Applied(r, config_doc))
                 THEN /\ at' = "candidate" /\ status' = "executing"
                      /\ candidate' = Applied(r, config_doc)
                 ELSE status' = "failed" /\ UNCHANGED <<at, candidate>>
         \* parse_batch_writes: an empty batch or an entry without a point is refused.
         [] r.verb = "write-batch" /\ (r.writes = << >> \/ r.writes = <<"p", "?">>) ->
              status' = "failed" /\ UNCHANGED <<at, request, candidate>>
         [] OTHER -> /\ at' = "write" /\ request' = r /\ status' = "executing"
                     /\ UNCHANGED candidate
    /\ UNCHANGED <<file, config_doc, config, module, connected, retained, scheduled, mishaps>>

\* Mutant: the module keeps what it made of the refused configuration.
ConfigureFails_NotRestored ==
    /\ at = "candidate" /\ ~Accepts(Resolve(candidate))
    /\ module' = None
    /\ at' = "idle" /\ Answer("failed")
    /\ UNCHANGED <<request, file, config_doc, candidate, config, connected, retained, scheduled,
                   written, results, commands, mishaps>>

\* configure: the module refuses, and is configured again with what it runs.
ConfigureFails ==
    /\ at = "candidate" /\ ~Accepts(Resolve(candidate))
    /\ module' = config
    /\ at' = "idle" /\ Answer("failed")
    /\ UNCHANGED <<request, file, config_doc, candidate, config, connected, retained, scheduled,
                   written, results, commands, mishaps>>

Configure ==
    /\ at = "candidate" /\ Accepts(Resolve(candidate))
    /\ module' = Resolve(candidate)
    /\ at' = IF request = NoRequest THEN "commit" ELSE "save"
    /\ UNCHANGED <<request, file, config_doc, candidate, config, connected, retained, scheduled,
                   status, written, results, commands, mishaps>>

\* persist_config, a write to another file and a rename, as good as the disk allows.
Persist ==
    /\ at = "save"
    /\ \/ file' = candidate /\ UNCHANGED mishaps
       \/ mishaps < MaxMishaps /\ mishaps' = mishaps + 1 /\ UNCHANGED file
    /\ at' = "commit"
    /\ UNCHANGED <<request, config_doc, candidate, config, module, connected, retained,
                   scheduled, status, written, results, commands>>

\* Mutant: the document is not taken.
Commit_KeepsDocument ==
    /\ at = "commit"
    /\ UNCHANGED config_doc
    /\ config' = Resolve(candidate)
    /\ retained' = config'
    /\ connected' = None
    /\ at' = "reconnect"
    /\ UNCHANGED <<request, file, candidate, module, scheduled, status, written, results,
                   commands, mishaps>>

\* commit_config up to the reconnect: the document and the configuration are replaced, the
\* descriptor is republished, and every device is disconnected.
Commit ==
    /\ at = "commit"
    /\ config_doc' = candidate
    /\ config' = Resolve(candidate)
    /\ retained' = config'
    /\ connected' = None
    /\ at' = "reconnect"
    /\ UNCHANGED <<request, file, candidate, module, scheduled, status, written, results,
                   commands, mishaps>>

\* Mutant: a failed connect fails the command.
Reconnect_Fails ==
    /\ at = "reconnect"
    /\ \/ connected' = config /\ Answer("successful") /\ at' = "rearm"
       \/ connected' = None /\ Answer("failed") /\ at' = "idle"
    /\ UNCHANGED <<request, file, config_doc, candidate, config, module, retained, scheduled,
                   written, results, commands, mishaps>>

\* The rest of commit_config: whether the devices are reached or not, the links are republished
\* for the configuration that now runs, and the command has succeeded.
Reconnect ==
    /\ at = "reconnect"
    /\ connected' \in {config, None}
    /\ Answer("successful")
    /\ at' = "rearm"
    /\ UNCHANGED <<request, file, config_doc, candidate, config, module, retained, scheduled,
                   written, results, commands, mishaps>>

\* The loop rebuilds push delivery, the schedule and everything derived from the configuration.
Rearm ==
    /\ at = "rearm"
    /\ scheduled' = config
    /\ at' = "idle" /\ request' = NoRequest
    /\ UNCHANGED <<file, config_doc, candidate, config, module, connected, retained, status,
                   written, results, commands, mishaps>>

-----------------------------------------------------------------------------
(* Writes.                                                                 *)

\* The next point of the request: q takes no value that its map and transform can invert.
Current == request.writes[Len(results) + 1]
Convertible(p) == p = "p"

\* Mutant: a batch goes on after a failure.
WriteFails_GoesOn ==
    /\ at = "write" /\ Len(results) < Len(request.writes)
    /\ \/ UNCHANGED written
       \/ Convertible(Current) /\ written' = written \union {Current}
    /\ results' = Append(results, "failed")
    /\ IF Len(results') = Len(request.writes) THEN Answer("failed") /\ at' = "idle"
       ELSE UNCHANGED <<at, status>>
    /\ UNCHANGED <<request, file, config_doc, candidate, config, module, connected, retained,
                   scheduled, commands, mishaps>>

\* execute_write: raw_unit_request converts before anything is sent; the device refuses, or its
\* answer is late and it may have taken the value.  The batch stops there.
WriteFails ==
    /\ at = "write" /\ Len(results) < Len(request.writes)
    /\ \/ UNCHANGED written
       \/ Convertible(Current) /\ written' = written \union {Current}
    /\ results' = Append(results, "failed")
    /\ Answer("failed") /\ at' = "idle"
    /\ UNCHANGED <<request, file, config_doc, candidate, config, module, connected, retained,
                   scheduled, commands, mishaps>>

\* One write of handle_write_batch, the write of handle_command, or the call of
\* handle_call_method; batch_result closes a batch.
WriteOne ==
    /\ at = "write" /\ Len(results) < Len(request.writes)
    /\ Convertible(Current)
    /\ written' = written \union {Current}
    /\ results' = Append(results, "successful")
    /\ IF Len(results') = Len(request.writes) THEN Answer("successful") /\ at' = "idle"
       ELSE UNCHANGED <<at, status>>
    /\ UNCHANGED <<request, file, config_doc, candidate, config, module, connected, retained,
                   scheduled, commands, mishaps>>

-----------------------------------------------------------------------------
(* Reloads, and what happens around the connector.                         *)

\* needs_restart: the broker, the service, the protocol or the stall limit changes.
NeedsRestart(c) == c["mqtt"] # config["mqtt"]

\* The document is taken although the configuration is the one that runs.
Unchanged == config_doc' = file

\* reload_from_file up to configure: an unusable file keeps what runs.
ReloadFromFile ==
    /\ at = "idle" /\ file # config_doc
    /\ request' = NoRequest
    /\ IF ~Resolves(file) THEN UNCHANGED <<at, config_doc, candidate>>
       ELSE IF NeedsRestart(Resolve(file)) THEN at' = "down" /\ UNCHANGED <<config_doc, candidate>>
       ELSE IF Resolve(file) = config THEN Unchanged /\ UNCHANGED <<at, candidate>>
       ELSE at' = "candidate" /\ candidate' = file /\ UNCHANGED config_doc
    /\ written' = {} /\ results' = << >>
    /\ UNCHANGED <<file, config, module, connected, retained, scheduled, status, commands,
                   mishaps>>

\* Somebody edits the file.
EditFile ==
    /\ mishaps < MaxMishaps
    /\ mishaps' = mishaps + 1
    /\ \/ \E s \in Section, d \in Definition \union {"absent"} :
             (s # "mqtt" \/ d = "v2") /\ file' = Change(file, s, d)
       \/ file' = [file EXCEPT !.note = 1 - @]
    /\ file' # file
    /\ UNCHANGED <<at, request, config_doc, candidate, config, module, connected, retained,
                   scheduled, status, written, results, commands>>

\* The process dies, or the watchdog ends the connector.
Crash ==
    /\ at # "down" /\ mishaps < MaxMishaps
    /\ mishaps' = mishaps + 1
    /\ at' = "down"
    /\ UNCHANGED <<request, file, config_doc, candidate, config, module, connected, retained,
                   scheduled, status, written, results, commands>>

\* The connector starts with the file, once it is usable.
Start ==
    /\ at = "down" /\ Resolves(file) /\ Accepts(Resolve(file))
    /\ at' = "idle" /\ request' = NoRequest
    /\ config_doc' = file /\ candidate' = file /\ config' = Resolve(file)
    /\ module' = config' /\ retained' = config' /\ scheduled' = config'
    /\ connected' \in {config', None}
    /\ written' = {} /\ results' = << >>
    /\ UNCHANGED <<file, status, commands, mishaps>>

Next ==
    \/ \E r \in Request : Receive(r)
    \/ ConfigureFails \/ Configure \/ Persist \/ Commit \/ Reconnect \/ Rearm
    \/ WriteFails \/ WriteOne
    \/ ReloadFromFile \/ EditFile \/ Crash \/ Start

Spec == Init /\ [][Next]_vars

-----------------------------------------------------------------------------
(* Properties.                                                             *)

\* Between two commands or reloads, whatever failed in them, the module, the running
\* configuration, the document, the retained description, the schedule and the sessions are all
\* those of one configuration.
Agreed ==
    at = "idle" =>
        /\ module = config /\ retained = config /\ scheduled = config
        /\ config = Resolve(config_doc)
        /\ connected \in {config, None}

\* Only a hand edit brings a local path or file into a configuration, and a command that failed
\* has changed nothing a restart would read: the file is the document held, unless somebody
\* edited it or it could not be saved.
FileKept ==
    /\ mishaps = 0 /\ at = "idle" => file = config_doc
    /\ mishaps = 0 => \A s \in Section : file.section[s] \notin {"local", "invalid", "unfit"}

\* Commands, reloads, failed saves and crashes leave one configuration behind, and only a hand
\* edit brings local settings or an unusable configuration into its file (handle_management,
\* commit_config, reload_from_file, persist_config).
OneConfiguration == Agreed /\ FileKept

\* A batch tells what it did: the results say which points the device took, in order, only the
\* last of them may be in doubt, and the status is that of the results.
BatchTold ==
    at = "idle" /\ results # << >> =>
        /\ \A i \in 1 .. Len(results) - 1 : results[i] = "successful"
        /\ {request.writes[i] : i \in {j \in DOMAIN results : results[j] = "successful"}}
              \subseteq written
        /\ written \subseteq {request.writes[i] : i \in DOMAIN results}
        /\ status = results[Len(results)]
        /\ status = "successful" => Len(results) = Len(request.writes)
=============================================================================

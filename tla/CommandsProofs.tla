--------------------------- MODULE CommandsProofs ---------------------------
(***************************************************************************)
(* Proofs about Commands, for every set of devices and however many        *)
(* commands, hand edits, failed saves and crashes: what a command or a     *)
(* reload leaves behind is one configuration, a command brings nothing     *)
(* into the file that only an administrator may write, and the answer to a *)
(* batch of writes tells what the device took.  And about the grouped      *)
(* points of Batcher, for every set of points, cap of layers, size of a    *)
(* message and number of readings: a reading is published once, in order.  *)
(***************************************************************************)
EXTENDS Modules, FiniteSetTheorems, TLAPS

-----------------------------------------------------------------------------
(* Types, and what receiving a command does.                               *)

\* The commands that are handled in steps of their own.
Handled == Managing \union Writing

Stages == {"idle", "candidate", "save", "commit", "reconnect", "rearm", "write", "down"}

\* The documents are documents and the loop is somewhere.
TypeOK ==
    /\ at \in Stages
    /\ request \in Handled \union {NoRequest}
    /\ file \in Document /\ config_doc \in Document /\ candidate \in Document
    /\ mishaps \in Nat

\* An edited document is a document.
LEMMA ChangeType ==
    ASSUME NEW doc \in Document, NEW s \in Section, NEW d \in Definition \union {"absent"}
    PROVE  Change(doc, s, d) \in Document
BY DEF Change, Document

\* A command that is handled is no reload.
LEMMA HandledIsNoReload == ASSUME NEW r \in Handled PROVE r # NoRequest
<1>1. r.verb # "reload"
  BY DEF Handled, Managing, Writing
<1> QED
  BY <1>1 DEF NoRequest

\* What is written by a command has points.
LEMMA WritesAreSequences ==
    ASSUME NEW r \in Writing
    PROVE  /\ r.writes \in Seq({"p", "q", "?"})
           /\ Len(r.writes) > 0 \/ (r.verb = "write-batch" /\ r.writes = << >>)
<1>1. /\ <<"p", "q">> \in Seq({"p", "q", "?"}) /\ <<"q", "p">> \in Seq({"p", "q", "?"})
      /\ <<"p">> \in Seq({"p", "q", "?"}) /\ <<"q">> \in Seq({"p", "q", "?"})
      /\ <<"p", "?">> \in Seq({"p", "q", "?"}) /\ << >> \in Seq({"p", "q", "?"})
  OBVIOUS
<1>2. /\ Len(<<"p", "q">>) > 0 /\ Len(<<"q", "p">>) > 0 /\ Len(<<"p">>) > 0
      /\ Len(<<"q">>) > 0 /\ Len(<<"p", "?">>) > 0
  OBVIOUS
<1>3. CASE r \in [verb : {"write-batch"},
                  writes : {<<>>, <<"p", "q">>, <<"q", "p">>, <<"p">>, <<"p", "?">>}]
  <2>1. /\ r.verb = "write-batch"
        /\ r.writes \in {<<>>, <<"p", "q">>, <<"q", "p">>, <<"p">>, <<"p", "?">>}
    BY <1>3
  <2> QED
    BY <1>1, <1>2, <2>1, Zenon
<1>4. CASE r \in [verb : {"write", "call-method"}, writes : {<<p>> : p \in Point}]
  <2>1. r.writes = <<"p">> \/ r.writes = <<"q">>
    BY <1>4 DEF Point
  <2> QED
    BY <1>1, <1>2, <2>1, Zenon
<1> QED
  BY <1>3, <1>4 DEF Writing

\* The command is answered at once, or its document is applied, or its writes begin.
ReceiveResult(r) ==
    \/ /\ UNCHANGED <<at, candidate>>
       /\ request' = request \/ (r \in Managing /\ request' = r)
    \/ /\ r \in Managing /\ at' = "candidate" /\ request' = r
       /\ candidate' \in Document /\ ~Refused(config_doc, candidate') /\ Resolves(candidate')
    \/ /\ r \in Writing /\ at' = "write" /\ request' = r /\ UNCHANGED candidate
       /\ Len(r.writes) > 0

\* That is what route_command does.
LEMMA ReceiveDoes ==
    ASSUME TypeOK, NEW r \in Request, Receive(r)
    PROVE  ReceiveResult(r)
<1> USE DEF ReceiveResult
<1>1. CASE r \in Ignored \/ r \in Misplaced
  <2>1. r \notin Managing /\ r.verb \in {"elsewhere", "not init", "misplaced"}
    BY <1>1 DEF Ignored, Misplaced, Managing
  <2> QED
    BY <1>1, <2>1 DEF Receive, Ignored, Misplaced
<1>2. CASE r \in Managing
  <2>0. r \notin Ignored /\ r \notin Misplaced /\ r.verb # "write-batch"
    BY <1>2 DEF Ignored, Misplaced, Managing
  <2> DEFINE doc == Applied(r, config_doc)
             taken == Applies(r, config_doc) /\ ~Refused(config_doc, doc) /\ Resolves(doc)
  <2>1. request' = r /\ (IF taken THEN at' = "candidate" /\ candidate' = doc
                         ELSE UNCHANGED <<at, candidate>>)
    BY <1>2, <2>0 DEF Receive
  <2>2. CASE ~taken
    BY <1>2, <2>1, <2>2
  <2>3. CASE taken
    <3>1. r.target \in Section
      BY <1>2, <2>3 DEF Applies, Managing, Section
    <3>2. r.verb = "remove-device" \/ r.def \in Definition
      BY <1>2 DEF Managing
    <3>3. doc \in Document
      BY <3>1, <3>2, ChangeType DEF Applied, TypeOK
    <3> HIDE DEF doc
    <3> QED
      BY <1>2, <2>1, <2>3, <3>3
  <2> QED
    BY <2>2, <2>3
<1>3. CASE r \in Writing
  <2>0. r \notin Ignored /\ r \notin Misplaced /\ r \notin Managing
    BY <1>3 DEF Ignored, Misplaced, Managing, Writing
  <2> DEFINE refused == r.verb = "write-batch" /\ (r.writes = << >> \/ r.writes = <<"p", "?">>)
  <2>1. CASE refused
    BY <2>0, <2>1 DEF Receive
  <2>2. CASE ~refused
    <3>1. at' = "write" /\ request' = r /\ UNCHANGED candidate
      BY <2>0, <2>2 DEF Receive
    <3>2. Len(r.writes) > 0
      BY <1>3, <2>2, WritesAreSequences
    <3> QED
      BY <1>3, <3>1, <3>2
  <2> QED
    BY <2>1, <2>2
<1> QED
  BY <1>1, <1>2, <1>3 DEF Request

\* Every step keeps the types.
LEMMA TypeStep == ASSUME TypeOK, [Next]_vars PROVE TypeOK'
<1> USE DEF Stages
<1>1. ASSUME NEW r \in Request, Receive(r) PROVE TypeOK'
  <2>1. ReceiveResult(r)
    BY <1>1, ReceiveDoes
  <2>2. UNCHANGED <<file, config_doc, mishaps>>
    BY <1>1 DEF Receive
  <2> QED
    BY <2>1, <2>2 DEF TypeOK, ReceiveResult, Handled
<1>2. CASE ConfigureFails \/ Configure \/ Commit \/ Reconnect \/ Rearm
  BY <1>2 DEF TypeOK, ConfigureFails, Configure, Commit, Reconnect, Rearm
<1>3. CASE Persist
  BY <1>3 DEF TypeOK, Persist
<1>4. CASE WriteFails \/ WriteOne
  BY <1>4 DEF TypeOK, WriteFails, WriteOne
<1>5. CASE ReloadFromFile
  BY <1>5 DEF TypeOK, ReloadFromFile, Unchanged
<1>6. CASE EditFile
  <2>1. file' \in Document
    <3>1. ASSUME NEW s \in Section, NEW d \in Definition \union {"absent"},
                 file' = Change(file, s, d)
          PROVE  file' \in Document
      BY <3>1, ChangeType DEF TypeOK
    <3>2. CASE file' = [file EXCEPT !.note = 1 - @]
      BY <3>2 DEF TypeOK, Document
    <3> QED
      BY <1>6, <3>1, <3>2 DEF EditFile
  <2> QED
    BY <1>6, <2>1 DEF TypeOK, EditFile
<1>7. CASE Crash \/ Start
  BY <1>7 DEF TypeOK, Crash, Start
<1>8. CASE UNCHANGED vars
  BY <1>8 DEF TypeOK, vars
<1> QED
  BY <1>1, <1>2, <1>3, <1>4, <1>5, <1>6, <1>7, <1>8 DEF Next

\* The types hold at the start.
LEMMA TypeInit == Init => TypeOK
BY DEF Init, TypeOK, Stages, Document, Definition

-----------------------------------------------------------------------------
(* One configuration.  While a document is being applied, the module is    *)
(* already, and the schedule still, that of another configuration.         *)

Aligned ==
    /\ config = Resolve(config_doc)
    /\ retained = config
    /\ at \in {"idle", "candidate", "reconnect", "rearm", "write"} => module = config
    /\ at \in {"save", "commit"} => module = Resolve(candidate)
    /\ at \in {"idle", "candidate", "save", "commit", "write"} => scheduled = config
    /\ at # "down" => connected \in {config, None}

\* A document that no hand has edited.
Plain(doc, defs) == \A s \in Section : doc.section[s] \notin defs

\* Without mishaps the file is the document held, until a command has been saved.
Undisturbed ==
    mishaps = 0 =>
        /\ at # "down"
        /\ at \in {"idle", "candidate", "save", "write"} => file = config_doc
        /\ at \in {"commit", "reconnect", "rearm"} => file = candidate
        /\ at \in {"reconnect", "rearm"} => config_doc = candidate
        /\ at \in {"candidate", "save", "commit"} => request # NoRequest
        /\ Plain(file, {"local", "invalid", "unfit"})
        /\ at = "candidate" => Plain(candidate, {"local", "invalid"})
        /\ at = "save" => Plain(candidate, {"local", "invalid", "unfit"})

\* Every step keeps the parts of the configuration aligned.
LEMMA AlignedStep == ASSUME TypeOK, Aligned, [Next]_vars PROVE Aligned'
<1> USE DEF Aligned, TypeOK, Stages
<1>1. ASSUME NEW r \in Request, Receive(r) PROVE Aligned'
  <2>1. ReceiveResult(r) /\ at = "idle"
    BY <1>1, ReceiveDoes DEF Receive
  <2>2. at' \in {"idle", "candidate", "write"}
    BY <2>1 DEF ReceiveResult
  <2>3. UNCHANGED <<config_doc, config, module, connected, retained, scheduled>>
    BY <1>1 DEF Receive
  <2> QED
    BY <2>1, <2>2, <2>3
<1>2. CASE ConfigureFails
  BY <1>2 DEF ConfigureFails
<1>3. CASE Configure
  BY <1>3 DEF Configure
<1>4. CASE Persist
  BY <1>4 DEF Persist
<1>5. CASE Commit
  BY <1>5 DEF Commit
<1>6. CASE Reconnect
  BY <1>6 DEF Reconnect
<1>7. CASE Rearm
  BY <1>7 DEF Rearm
<1>8. CASE WriteFails \/ WriteOne
  <2>1. at = "write" /\ at' \in {"idle", "write"}
    BY <1>8 DEF WriteFails, WriteOne
  <2>2. UNCHANGED <<config_doc, config, module, connected, retained, scheduled>>
    BY <1>8 DEF WriteFails, WriteOne
  <2> QED
    BY <2>1, <2>2
<1>9. CASE ReloadFromFile
  <2>1. /\ at = "idle" /\ at' \in {"idle", "candidate", "down"}
        /\ config_doc' = config_doc \/ (Resolve(file) = config /\ config_doc' = file)
    BY <1>9 DEF ReloadFromFile, Unchanged
  <2>2. UNCHANGED <<config, module, connected, retained, scheduled>>
    BY <1>9 DEF ReloadFromFile
  <2> QED
    BY <2>1, <2>2
<1>10. CASE EditFile
  BY <1>10 DEF EditFile
<1>11. CASE Crash
  BY <1>11 DEF Crash
<1>12. CASE Start
  BY <1>12 DEF Start
<1>13. CASE UNCHANGED vars
  BY <1>13 DEF vars
<1> QED
  BY <1>1, <1>2, <1>3, <1>4, <1>5, <1>6, <1>7, <1>8, <1>9, <1>10, <1>11, <1>12, <1>13
  DEF Next

\* Without mishaps only what a command may bring reaches the file.
LEMMA UndisturbedStep == ASSUME TypeOK, Undisturbed, [Next]_vars PROVE Undisturbed'
<1> SUFFICES ASSUME mishaps' = 0 PROVE Undisturbed'
  BY DEF Undisturbed
<1>0. mishaps = 0
  BY DEF TypeOK, Next, Receive, ConfigureFails, Configure, Persist, Commit, Reconnect, Rearm,
         WriteFails, WriteOne, ReloadFromFile, EditFile, Crash, Start, vars
<1>1. /\ at # "down"
      /\ at \in {"idle", "candidate", "save", "write"} => file = config_doc
      /\ at \in {"commit", "reconnect", "rearm"} => file = candidate
      /\ at \in {"reconnect", "rearm"} => config_doc = candidate
      /\ at \in {"candidate", "save", "commit"} => request # NoRequest
      /\ Plain(file, {"local", "invalid", "unfit"})
      /\ at = "candidate" => Plain(candidate, {"local", "invalid"})
      /\ at = "save" => Plain(candidate, {"local", "invalid", "unfit"})
  BY <1>0 DEF Undisturbed
<1>2. ASSUME NEW r \in Request, Receive(r) PROVE Undisturbed'
  <2>1. ReceiveResult(r) /\ at = "idle" /\ UNCHANGED <<file, config_doc>>
    BY <1>2, ReceiveDoes DEF Receive
  <2>2. CASE at' = at
    BY <1>1, <2>1, <2>2 DEF Undisturbed, Plain
  <2>3. CASE /\ r \in Managing /\ at' = "candidate" /\ request' = r
             /\ ~Refused(config_doc, candidate') /\ Resolves(candidate')
    <3>1. request' # NoRequest
      BY <2>3, HandledIsNoReload DEF Handled
    <3>2. Plain(candidate', {"local", "invalid"})
      BY <1>1, <2>1, <2>3 DEF Refused, Resolves, Plain
    <3>3. Plain(file', {"local", "invalid", "unfit"})
      BY <1>1, <2>1 DEF Plain
    <3> QED
      BY <1>1, <2>1, <2>3, <3>1, <3>2, <3>3 DEF Undisturbed
  <2>4. CASE r \in Writing /\ at' = "write"
    BY <1>1, <2>1, <2>4 DEF Undisturbed, Plain
  <2> QED
    BY <2>1, <2>2, <2>3, <2>4 DEF ReceiveResult
<1>3. CASE ConfigureFails
  BY <1>1, <1>3 DEF ConfigureFails, Undisturbed, Plain
<1>4. CASE Configure
  <2>1. /\ at = "candidate" /\ at' = "save"
        /\ UNCHANGED <<file, config_doc, candidate, request>>
    BY <1>1, <1>4 DEF Configure
  <2>2. Accepts(Resolve(candidate))
    BY <1>4 DEF Configure
  <2>3. Plain(candidate, {"local", "invalid", "unfit"})
    BY <1>1, <2>1, <2>2 DEF Plain, Accepts, Resolve
  <2> QED
    BY <1>1, <2>1, <2>3 DEF Undisturbed, Plain
<1>5. CASE Persist
  <2>1. /\ at = "save" /\ at' = "commit" /\ file' = candidate
        /\ UNCHANGED <<config_doc, candidate, request>>
    BY <1>0, <1>5 DEF Persist
  <2> QED
    BY <1>1, <2>1 DEF Undisturbed, Plain
<1>6. CASE Commit
  BY <1>1, <1>6 DEF Commit, Undisturbed, Plain
<1>7. CASE Reconnect
  BY <1>1, <1>7 DEF Reconnect, Undisturbed, Plain
<1>8. CASE Rearm
  BY <1>1, <1>8 DEF Rearm, Undisturbed, Plain
<1>9. CASE WriteFails \/ WriteOne
  <2>1. /\ at = "write" /\ at' \in {"idle", "write"}
        /\ UNCHANGED <<file, config_doc, candidate, request>>
    BY <1>9 DEF WriteFails, WriteOne
  <2> QED
    BY <1>1, <2>1 DEF Undisturbed, Plain
<1>10. CASE ReloadFromFile
  BY <1>1, <1>10 DEF ReloadFromFile
<1>11. CASE EditFile \/ Crash
  BY <1>0, <1>11 DEF EditFile, Crash
<1>12. CASE Start
  BY <1>1, <1>12 DEF Start
<1>13. CASE UNCHANGED vars
  BY <1>1, <1>13 DEF vars, Undisturbed, Plain
<1> QED
  BY <1>2, <1>3, <1>4, <1>5, <1>6, <1>7, <1>8, <1>9, <1>10, <1>11, <1>12, <1>13 DEF Next

\* Whatever fails in a command or a reload, it leaves one configuration behind: the module, the
\* running configuration, the document, the retained description, the schedule and the
\* sessions agree.  Without a hand edit or a failed save the file is the document held, and
\* no command has brought a local path, or a configuration that cannot be used, into it
\* (reload_from_file, handle_config_command, commit_config).
THEOREM OneConfigurationLeft == Spec => []OneConfiguration
<1>1. Init => TypeOK /\ Aligned /\ Undisturbed
  <2>1. Init => Aligned
    BY DEF Init, Aligned
  <2>2. Init => Undisturbed
    BY DEF Init, Undisturbed, Plain
  <2> QED
    BY <2>1, <2>2, TypeInit
<1>2. TypeOK /\ Aligned /\ Undisturbed /\ [Next]_vars => (TypeOK /\ Aligned /\ Undisturbed)'
  BY TypeStep, AlignedStep, UndisturbedStep
<1>3. TypeOK /\ Aligned /\ Undisturbed => OneConfiguration
  BY DEF Aligned, Undisturbed, Plain, OneConfiguration, Agreed, FileKept
<1> QED
  BY <1>1, <1>2, <1>3, PTL DEF Spec

-----------------------------------------------------------------------------
(* Batches.                                                                *)

\* The points of the results so far.
Tried == {request.writes[i] : i \in DOMAIN results}

\* While writes go on, all that came before were taken, and a point is left.
Writes ==
    /\ results \in Seq({"successful", "failed"})
    /\ at = "write" =>
        /\ request \in Writing
        /\ Len(results) < Len(request.writes)
        /\ \A i \in DOMAIN results : results[i] = "successful"
        /\ written = Tried
    /\ at \notin {"write", "idle", "down"} => results = << >>
    /\ BatchTold

\* A result more: the results before it stay, and the points tried are one more.
LEMMA OneMore ==
    ASSUME Writes, at = "write", NEW x \in {"successful", "failed"},
           results' = Append(results, x), request' = request
    PROVE  /\ results' \in Seq({"successful", "failed"}) /\ results' # << >>
           /\ Len(results') = Len(results) + 1 /\ Len(results) \in Nat
           /\ results'[Len(results) + 1] = x
           /\ \A i \in 1 .. Len(results) : results'[i] = "successful"
           /\ Tried' = Tried \union {Current}
<1>1. results \in Seq({"successful", "failed"})
  BY DEF Writes
<1>2. \A i \in DOMAIN results : results[i] = "successful"
  BY DEF Writes
<1>3. /\ results' \in Seq({"successful", "failed"}) /\ results' # << >>
      /\ Len(results') = Len(results) + 1 /\ Len(results) \in Nat
      /\ results'[Len(results) + 1] = x
      /\ \A i \in 1 .. Len(results) : results'[i] = results[i]
  BY <1>1
<1>4. DOMAIN results = 1 .. Len(results) /\ DOMAIN results' = 1 .. (Len(results) + 1)
  BY <1>1, <1>3
<1>5. DOMAIN results' = DOMAIN results \union {Len(results) + 1}
  BY <1>3, <1>4
<1>6. Tried' = Tried \union {Current}
  BY <1>5 DEF Tried, Current
<1> QED
  BY <1>2, <1>3, <1>4, <1>6

\* Every step keeps what is known of a batch.
LEMMA WritesStep == ASSUME TypeOK, Writes, [Next]_vars PROVE Writes'
<1>0. /\ results \in Seq({"successful", "failed"}) /\ BatchTold
      /\ at \notin {"write", "idle", "down"} => results = << >>
  BY DEF Writes
<1>1. ASSUME results' = << >>, at' # "write" PROVE Writes'
  BY <1>1 DEF Writes, BatchTold
<1>2. ASSUME NEW r \in Request, Receive(r) PROVE Writes'
  <2>1. ReceiveResult(r) /\ at = "idle" /\ results' = << >> /\ written' = {}
    BY <1>2, ReceiveDoes DEF Receive
  <2>2. CASE at' # "write"
    BY <1>1, <2>1, <2>2
  <2>3. CASE at' = "write"
    <3>1. r \in Writing /\ request' = r /\ Len(r.writes) > 0
      BY <2>1, <2>3 DEF ReceiveResult
    <3>2. Tried' = {} /\ Len(results') = 0 /\ DOMAIN results' = {}
      BY <2>1 DEF Tried
    <3> QED
      BY <2>1, <2>3, <3>1, <3>2 DEF Writes, BatchTold
  <2> QED
    BY <2>2, <2>3
<1>3. CASE ConfigureFails \/ Configure \/ Persist \/ Commit \/ Reconnect \/ Rearm
  <2>1. at \in {"candidate", "save", "commit", "reconnect", "rearm"} /\ results' = results
    BY <1>3 DEF ConfigureFails, Configure, Persist, Commit, Reconnect, Rearm
  <2>2. at' # "write"
    BY <1>3 DEF ConfigureFails, Configure, Persist, Commit, Reconnect, Rearm
  <2> QED
    BY <1>0, <1>1, <2>1, <2>2
<1>4. CASE WriteFails \/ WriteOne
  <2>0. /\ at = "write" /\ request' = request
        /\ request \in Writing /\ Len(results) < Len(request.writes)
        /\ written = Tried
    BY <1>4 DEF WriteFails, WriteOne, Writes
  <2>1. request # NoRequest
    BY <2>0, HandledIsNoReload DEF Handled
  <2>2. request.writes \in Seq({"p", "q", "?"}) /\ Len(request.writes) \in Nat
    BY <2>0, WritesAreSequences
  <2>3. PICK x \in {"successful", "failed"} : results' = Append(results, x)
    BY <1>4 DEF WriteFails, WriteOne
  <2>4. /\ results' \in Seq({"successful", "failed"}) /\ results' # << >>
        /\ Len(results') = Len(results) + 1 /\ Len(results) \in Nat
        /\ results'[Len(results) + 1] = x
        /\ \A i \in 1 .. Len(results) : results'[i] = "successful"
        /\ Tried' = Tried \union {Current}
    BY <2>0, <2>3, OneMore
  <2>5. DOMAIN results' = 1 .. (Len(results) + 1) /\ DOMAIN results = 1 .. Len(results)
    BY <1>0, <2>4
  <2>6. CASE WriteFails
    <3>1. results' = Append(results, "failed")
      BY <2>6 DEF WriteFails
    <3>2. /\ results'[Len(results) + 1] = "failed"
          /\ \A i \in 1 .. Len(results) : results'[i] = "successful"
      BY <2>0, <3>1, OneMore
    <3>3. at' = "idle" /\ status' = "failed"
      BY <2>1, <2>6 DEF WriteFails, Answer
    <3>4. Tried \subseteq written' /\ written' \subseteq Tried'
      BY <2>0, <2>4, <2>6 DEF WriteFails
    <3>5. {j \in DOMAIN results' : results'[j] = "successful"} = DOMAIN results
      BY <2>4, <2>5, <3>2
    <3>6. BatchTold'
      <4>1. \A i \in 1 .. Len(results') - 1 : results'[i] = "successful"
        BY <2>4
      <4>2. {request'.writes[i] : i \in {j \in DOMAIN results' : results'[j] = "successful"}}
               \subseteq written'
        BY <2>0, <3>4, <3>5 DEF Tried
      <4>3. written' \subseteq {request'.writes[i] : i \in DOMAIN results'}
        BY <3>4 DEF Tried
      <4>4. status' = results'[Len(results')] /\ status' # "successful"
        BY <2>4, <3>2, <3>3
      <4> QED
        BY <4>1, <4>2, <4>3, <4>4 DEF BatchTold
    <3> QED
      BY <2>4, <3>3, <3>6 DEF Writes
  <2>7. CASE WriteOne
    <3>1. results' = Append(results, "successful")
      BY <2>7 DEF WriteOne
    <3>2. /\ results'[Len(results) + 1] = "successful"
          /\ \A i \in 1 .. Len(results) : results'[i] = "successful"
      BY <2>0, <3>1, OneMore
    <3>3. written' = Tried'
      BY <2>0, <2>4, <2>7 DEF WriteOne
    <3>4. \A i \in DOMAIN results' : results'[i] = "successful"
      BY <2>4, <2>5, <3>2
    <3>5. CASE Len(results') = Len(request.writes)
      <4>1. at' = "idle" /\ status' = "successful"
        BY <2>1, <2>7, <3>5 DEF WriteOne, Answer
      <4>2. \A i \in 1 .. Len(results') - 1 : results'[i] = "successful"
        BY <2>4
      <4>3. {request'.writes[i] : i \in {j \in DOMAIN results' : results'[j] = "successful"}}
               \subseteq Tried'
        BY DEF Tried
      <4>4. status' = results'[Len(results')] /\ Len(results') = Len(request'.writes)
        BY <2>0, <2>4, <3>2, <3>5, <4>1
      <4>5. Tried' = {request'.writes[i] : i \in DOMAIN results'}
        BY DEF Tried
      <4>6. BatchTold'
        BY <3>3, <4>2, <4>3, <4>4, <4>5 DEF BatchTold
      <4> QED
        BY <2>4, <4>1, <4>6 DEF Writes
    <3>6. CASE Len(results') # Len(request.writes)
      <4>1. at' = "write"
        BY <2>0, <2>7, <3>6 DEF WriteOne
      <4>2. Len(results') < Len(request'.writes)
        BY <2>0, <2>2, <2>4, <3>6
      <4>3. BatchTold'
        BY <4>1 DEF BatchTold
      <4> QED
        BY <2>0, <2>4, <3>3, <3>4, <4>1, <4>2, <4>3 DEF Writes
    <3> QED
      BY <3>5, <3>6
  <2> QED
    BY <1>4, <2>6, <2>7
<1>5. CASE ReloadFromFile \/ Start
  <2>1. results' = << >> /\ at' # "write"
    BY <1>5 DEF ReloadFromFile, Start
  <2> QED
    BY <1>1, <2>1
<1>6. CASE EditFile
  <2>1. UNCHANGED <<at, request, status, written, results>>
    BY <1>6 DEF EditFile
  <2> QED
    BY <2>1 DEF Writes, BatchTold, Tried
<1>7. CASE Crash
  <2>1. at' = "down" /\ results' = results
    BY <1>7 DEF Crash
  <2> QED
    BY <1>0, <2>1 DEF Writes, BatchTold
<1>8. CASE UNCHANGED vars
  <2>1. UNCHANGED <<at, request, status, written, results>>
    BY <1>8 DEF vars
  <2> QED
    BY <2>1 DEF Writes, BatchTold, Tried
<1> QED
  BY <1>2, <1>3, <1>4, <1>5, <1>6, <1>7, <1>8 DEF Next

\* The answer to a write, a batch of writes or a method call tells what the device took: all
\* results but the last are successes, the points that succeeded were taken, only the last may
\* be in doubt, and the command succeeds only when every point did (handle_write_batch,
\* execute_write, batch_result).
THEOREM BatchesTold == Spec => []BatchTold
<1>1. Init => Writes
  BY DEF Init, Writes, BatchTold
<1>2. TypeOK /\ Writes /\ [Next]_vars => TypeOK' /\ Writes'
  BY TypeStep, WritesStep
<1>3. Writes => BatchTold
  BY DEF Writes
<1> QED
  BY <1>1, <1>2, <1>3, TypeInit, PTL DEF Spec

-----------------------------------------------------------------------------
(* Measurements: types, and what is true of the layers o, the depths d,    *)
(* the messages m, the readings R and the last layer's time l.             *)

\* A reading, an open layer and a message.
Reading == [point : G!Points, id : Nat]
LayerType == [time : Nat, opened : Nat, part : SUBSET Reading, points : SUBSET G!Points]
MessageType == [time : Nat, series : SUBSET Reading, units : Nat]

\* The open layers o, the depths d, the messages m, the readings R and the last time of a layer l are
\* what they should be.
BatchTypes(o, d, m, R, l) ==
    /\ o \in [G!Policy -> Seq(LayerType)] /\ d \in [G!Points -> Nat] /\ m \in Seq(MessageType)
    /\ R \in SUBSET Reading /\ l \in Nat

\* Readings are numbered from 1.
Numbered(R) ==
    /\ IsFiniteSet(R)
    /\ \A r \in R : r.id \in 1 .. Cardinality(R)
    /\ \A r, s \in R : r.id = s.id => r = s

\* A layer holds a point once, and a point is in the layers up to its depth.
Layered(o, d) ==
    /\ \A k \in G!Policy : \A i \in 1 .. Len(o[k]) :
          /\ \A p \in o[k][i].points : G!PolicyOf(p) = k
          /\ \A r \in o[k][i].part : r.point \in o[k][i].points
          /\ \A r, s \in o[k][i].part : r.point = s.point => r = s
    /\ \A p \in G!Points :
          /\ d[p] <= Len(o[G!PolicyOf(p)])
          /\ \A i \in 1 .. Len(o[G!PolicyOf(p)]) : p \in o[G!PolicyOf(p)][i].points <=> i <= d[p]

\* A reading is in one place, a message or a layer.
Once(o, m, R) ==
    /\ \A i, j \in 1 .. Len(m) : \A r \in m[i].series : r \in R /\ (r \in m[j].series => i = j)
    /\ \A k, l \in G!Policy : \A i \in 1 .. Len(o[k]), j \in 1 .. Len(o[l]) : \A r \in o[k][i].part :
          r \in R /\ (r \in o[l][j].part => k = l /\ i = j)
    /\ \A k \in G!Policy : \A i \in 1 .. Len(o[k]), j \in 1 .. Len(m) : \A r \in o[k][i].part :
          r \notin m[j].series
    /\ \A r \in R : \/ \E i \in 1 .. Len(m) : r \in m[i].series
                    \/ \E k \in G!Policy : \E i \in 1 .. Len(o[k]) : r \in o[k][i].part
    /\ \A i \in 1 .. Len(m) : \A r, s \in m[i].series : r.point = s.point => r = s

\* A reading has, or will have, the time t.
At(o, m, r, t) ==
    \/ \E i \in 1 .. Len(m) : r \in m[i].series /\ t = m[i].time
    \/ \E i \in 1 .. Len(o["frame"]) : r \in o["frame"][i].part /\ t = o["frame"][i].time

\* The times of a frame's layers ascend and l is the last of them; the readings of a frame point ascend
\* with them, so that a layer the point is not in is later than all of them.
Ascend(o, d, m, R, l) ==
    /\ \A i \in 1 .. Len(o["frame"]) : o["frame"][i].time \in 1 .. l
    /\ \A i, j \in 1 .. Len(o["frame"]) : i < j => o["frame"][i].time < o["frame"][j].time
    /\ \A r \in R : \A t \in Nat : r.point \in FramePoint /\ At(o, m, r, t) =>
          /\ t \in 1 .. l
          /\ \A j \in 1 .. Len(o["frame"]) : j > d[r.point] => t < o["frame"][j].time
    /\ \A r, s \in R : \A t, u \in Nat :
          r.point \in FramePoint /\ r.point = s.point /\ r.id < s.id /\ At(o, m, r, t) /\ At(o, m, s, u)
          => t < u

\* All of this: what every operation on layers preserves.
Batched(o, d, m, R, l) ==
    BatchTypes(o, d, m, R, l) /\ Numbered(R) /\ Layered(o, d) /\ Once(o, m, R) /\ Ascend(o, d, m, R, l)

\* The points are grouped by time or by frame, never both.
LEMMA Policies ==
    /\ G!Policy = {"time", "frame"}
    /\ \A p \in G!Points : G!PolicyOf(p) \in G!Policy
    /\ \A p \in FramePoint : p \in G!Points /\ G!PolicyOf(p) = "frame"
    /\ \A p \in G!Points : G!PolicyOf(p) = "frame" <=> p \in FramePoint
BY GroupAssumption DEF G!Policy, G!PolicyOf, G!Points

\* The messages m2 are those of m, then one for each layer.
Adds(m, layers, m2) ==
    /\ m2 \in Seq(MessageType) /\ Len(m2) = Len(m) + Len(layers)
    /\ \A i \in 1 .. Len(m) : m2[i] = m[i]
    /\ \A i \in 1 .. Len(layers) :
          m2[Len(m) + i].series = layers[i].part /\ m2[Len(m) + i].time = layers[i].time

\* The key k is closed.
Closing(o, d, k, o2, d2) ==
    /\ Len(o2[k]) = 0 /\ \A q \in G!Policy : q # k => o2[q] = o[q]
    /\ \A p \in G!Points : d2[p] = IF \E i \in 1 .. Len(o[k]) : p \in o[k][i].points THEN 0 ELSE d[p]

\* Closing a key moves its layers into messages.
LEMMA CloseMoves ==
    ASSUME NEW o, NEW d, NEW m, NEW R, NEW l, Batched(o, d, m, R, l),
           NEW k \in G!Policy, NEW o2, NEW d2, NEW m2, BatchTypes(o2, d2, m2, R, l),
           Closing(o, d, k, o2, d2), Adds(m, o[k], m2)
    PROVE  Batched(o2, d2, m2, R, l)
<1>p. /\ Len(o2[k]) = 0 /\ \A q \in G!Policy : q # k => o2[q] = o[q]
      /\ \A p \in G!Points : d2[p] = IF \E i \in 1 .. Len(o[k]) : p \in o[k][i].points THEN 0 ELSE d[p]
      /\ Len(m2) = Len(m) + Len(o[k]) /\ \A i \in 1 .. Len(m) : m2[i] = m[i]
      /\ \A i \in 1 .. Len(o[k]) :
            m2[Len(m) + i].series = o[k][i].part /\ m2[Len(m) + i].time = o[k][i].time
  BY DEF Closing, Adds
<1> USE <1>p
<1>0. BatchTypes(o, d, m, R, l) /\ Numbered(R) /\ Layered(o, d) /\ Once(o, m, R) /\ Ascend(o, d, m, R, l)
  BY DEF Batched
<1>1. /\ \A q \in G!Policy : Len(o[q]) \in Nat /\ Len(o2[q]) \in Nat
      /\ Len(m) \in Nat /\ Len(m2) \in Nat
      /\ \A p \in G!Points : d[p] \in Nat
  BY <1>0 DEF BatchTypes
\* A message of m2 is one of m or a layer.
<1>2. \A i \in 1 .. Len(m2) :
          \/ i \in 1 .. Len(m) /\ m2[i] = m[i]
          \/ /\ i - Len(m) \in 1 .. Len(o[k]) /\ i \notin 1 .. Len(m)
             /\ m2[i].series = o[k][i - Len(m)].part /\ m2[i].time = o[k][i - Len(m)].time
  <2> SUFFICES ASSUME NEW i \in 1 .. Len(m2), i \notin 1 .. Len(m)
               PROVE  /\ i - Len(m) \in 1 .. Len(o[k])
                      /\ m2[i].series = o[k][i - Len(m)].part /\ m2[i].time = o[k][i - Len(m)].time
    OBVIOUS
  <2>1. i - Len(m) \in 1 .. Len(o[k]) /\ Len(m) + (i - Len(m)) = i
    BY <1>1
  <2> QED
    BY <2>1
<1>3. Layered(o2, d2)
  <2>1. ASSUME NEW q \in G!Policy, NEW i \in 1 .. Len(o2[q]) PROVE q # k /\ o2[q] = o[q] /\ i \in 1 .. Len(o[q])
    BY <2>1, <1>1
  <2>2. ASSUME NEW p \in G!Points
        PROVE  /\ d2[p] <= Len(o2[G!PolicyOf(p)])
               /\ \A i \in 1 .. Len(o2[G!PolicyOf(p)]) : p \in o2[G!PolicyOf(p)][i].points <=> i <= d2[p]
    <3>1. CASE G!PolicyOf(p) = k
      <4>1. d[p] <= Len(o[k]) /\ \A i \in 1 .. Len(o[k]) : p \in o[k][i].points <=> i <= d[p]
        BY <1>0, <3>1 DEF Layered
      <4>2. d2[p] = 0
        <5>1. CASE d[p] = 0
          BY <5>1
        <5>2. CASE d[p] # 0
          <6>1. 1 \in 1 .. Len(o[k]) /\ p \in o[k][1].points
            BY <5>2, <4>1, <1>1
          <6> QED
            BY <6>1
        <5> QED
          BY <5>1, <5>2
      <4> QED
        BY <4>2, <3>1, <1>1
    <3>2. CASE G!PolicyOf(p) # k
      <4>1. d2[p] = d[p]
        BY <1>0, <3>2 DEF Layered
      <4>2. o2[G!PolicyOf(p)] = o[G!PolicyOf(p)]
        BY <3>2, Policies
      <4> QED
        BY <4>1, <4>2, <1>0 DEF Layered
    <3> QED
      BY <3>1, <3>2
  <2> QED
    BY <2>1, <2>2, <1>0 DEF Layered
<1>4. Once(o2, m2, R)
  <2>1. ASSUME NEW i \in 1 .. Len(m2), NEW j \in 1 .. Len(m2), NEW r \in m2[i].series
        PROVE  r \in R /\ (r \in m2[j].series => i = j)
    <3>1. CASE i \in 1 .. Len(m) /\ j \in 1 .. Len(m)
      BY <3>1, <1>0, <1>2 DEF Once
    <3>2. CASE i \in 1 .. Len(m) /\ j \notin 1 .. Len(m)
      <4>1. r \in m[i].series
        BY <3>2, <1>2
      <4>2. PICK b \in 1 .. Len(o[k]) : m2[j].series = o[k][b].part
        BY <3>2, <1>2
      <4>3. r \in R
        BY <3>2, <4>1, <1>0 DEF Once
      <4>4. r \notin o[k][b].part
        BY <3>2, <4>1, <4>2, <1>0 DEF Once
      <4> QED
        BY <4>2, <4>3, <4>4
    <3>3. CASE i \notin 1 .. Len(m) /\ j \in 1 .. Len(m)
      <4>1. PICK a \in 1 .. Len(o[k]) : m2[i].series = o[k][a].part
        BY <3>3, <1>2
      <4>2. r \in o[k][a].part
        BY <4>1
      <4>3. r \in R /\ r \notin m[j].series
        BY <3>3, <4>2, <1>0 DEF Once
      <4> QED
        BY <3>3, <4>3, <1>2
    <3>4. CASE i \notin 1 .. Len(m) /\ j \notin 1 .. Len(m)
      <4>1. PICK a \in 1 .. Len(o[k]) : m2[i].series = o[k][a].part /\ i = Len(m) + a
        BY <3>4, <1>1, <1>2
      <4>2. PICK b \in 1 .. Len(o[k]) : m2[j].series = o[k][b].part /\ j = Len(m) + b
        BY <3>4, <1>1, <1>2
      <4>3. r \in o[k][a].part
        BY <4>1
      <4>4. r \in R /\ (r \in o[k][b].part => a = b)
        BY <4>3, <1>0 DEF Once
      <4> QED
        BY <4>1, <4>2, <4>4
    <3> QED
      BY <3>1, <3>2, <3>3, <3>4
  <2>2. ASSUME NEW q \in G!Policy, NEW i \in 1 .. Len(o2[q]) PROVE q # k /\ o2[q] = o[q] /\ i \in 1 .. Len(o[q])
    BY <2>2, <1>1
  <2>3. ASSUME NEW q \in G!Policy, NEW n \in G!Policy, NEW i \in 1 .. Len(o2[q]), NEW j \in 1 .. Len(o2[n]),
               NEW r \in o2[q][i].part
        PROVE  r \in R /\ (r \in o2[n][j].part => q = n /\ i = j)
    BY <2>2, <1>0 DEF Once
  <2>4. ASSUME NEW q \in G!Policy, NEW i \in 1 .. Len(o2[q]), NEW j \in 1 .. Len(m2), NEW r \in o2[q][i].part
        PROVE  r \notin m2[j].series
    <3>1. q # k /\ o2[q] = o[q] /\ i \in 1 .. Len(o[q])
      BY <2>2
    <3>2. CASE j \in 1 .. Len(m)
      BY <3>1, <3>2, <1>0, <1>2 DEF Once
    <3>3. CASE j \notin 1 .. Len(m)
      <4>1. PICK b \in 1 .. Len(o[k]) : m2[j].series = o[k][b].part
        BY <3>3, <1>2
      <4>2. r \in o[q][i].part
        BY <3>1
      <4>3. r \notin o[k][b].part
        BY <3>1, <4>2, <1>0 DEF Once
      <4> QED
        BY <4>1, <4>3
    <3> QED
      BY <3>2, <3>3
  <2>5. ASSUME NEW r \in R
        PROVE  \/ \E i \in 1 .. Len(m2) : r \in m2[i].series
               \/ \E q \in G!Policy : \E i \in 1 .. Len(o2[q]) : r \in o2[q][i].part
    <3>1. CASE \E i \in 1 .. Len(m) : r \in m[i].series
      <4>1. PICK i \in 1 .. Len(m) : r \in m[i].series
        BY <3>1
      <4>2. i \in 1 .. Len(m2) /\ r \in m2[i].series
        BY <4>1, <1>1
      <4> QED
        BY <4>2
    <3>2. CASE \E q \in G!Policy : \E i \in 1 .. Len(o[q]) : r \in o[q][i].part
      <4>1. PICK q \in G!Policy : \E i \in 1 .. Len(o[q]) : r \in o[q][i].part
        BY <3>2
      <4>2. PICK i \in 1 .. Len(o[q]) : r \in o[q][i].part
        BY <4>1
      <4>3. CASE q = k
        <5>1. Len(m) + i \in 1 .. Len(m2) /\ r \in m2[Len(m) + i].series
          BY <4>2, <4>3, <1>1
        <5> QED
          BY <5>1
      <4>4. CASE q # k
        BY <4>2, <4>4
      <4> QED
        BY <4>3, <4>4
    <3> QED
      BY <3>1, <3>2, <1>0 DEF Once
  <2>6. ASSUME NEW i \in 1 .. Len(m2), NEW r \in m2[i].series, NEW s \in m2[i].series, r.point = s.point
        PROVE  r = s
    <3>1. CASE i \in 1 .. Len(m)
      BY <2>6, <3>1, <1>0, <1>2 DEF Once
    <3>2. CASE i \notin 1 .. Len(m)
      <4>1. PICK a \in 1 .. Len(o[k]) : m2[i].series = o[k][a].part
        BY <3>2, <1>2
      <4>2. r \in o[k][a].part /\ s \in o[k][a].part
        BY <4>1
      <4> QED
        BY <2>6, <4>2, <1>0 DEF Layered
    <3> QED
      BY <3>1, <3>2
  <2> QED
    BY <2>1, <2>3, <2>4, <2>5, <2>6 DEF Once
<1>5. ASSUME NEW r \in R, NEW t \in Nat, r.point \in FramePoint, At(o2, m2, r, t) PROVE At(o, m, r, t)
  <2>1. CASE \E i \in 1 .. Len(o2["frame"]) : r \in o2["frame"][i].part /\ t = o2["frame"][i].time
    <3>1. PICK i \in 1 .. Len(o2["frame"]) : r \in o2["frame"][i].part /\ t = o2["frame"][i].time
      BY <2>1
    <3>2. "frame" # k /\ o2["frame"] = o["frame"]
      BY <3>1, <1>1, Policies
    <3> QED
      BY <3>1, <3>2 DEF At
  <2>2. CASE \E i \in 1 .. Len(m2) : r \in m2[i].series /\ t = m2[i].time
    <3>1. PICK i \in 1 .. Len(m2) : r \in m2[i].series /\ t = m2[i].time
      BY <2>2
    <3>2. CASE i \in 1 .. Len(m)
      BY <3>1, <3>2, <1>2 DEF At
    <3>3. CASE i \notin 1 .. Len(m)
      <4>1. PICK a \in 1 .. Len(o[k]) : r \in o[k][a].part /\ t = o[k][a].time
        BY <3>1, <3>3, <1>2
      <4>2. r.point \in o[k][a].points
        BY <4>1, <1>0 DEF Layered
      <4>3. G!PolicyOf(r.point) = k
        BY <4>1, <4>2, <1>0 DEF Layered
      <4>4. k = "frame"
        BY <4>3, <1>5, Policies
      <4> QED
        BY <4>1, <4>4 DEF At
    <3> QED
      BY <3>2, <3>3
  <2> QED
    BY <2>1, <2>2, <1>5 DEF At
<1>6. Ascend(o2, d2, m2, R, l)
  <2>1. ASSUME NEW i \in 1 .. Len(o2["frame"]) PROVE "frame" # k /\ o2["frame"] = o["frame"] /\ i \in 1 .. Len(o["frame"])
    BY <2>1, <1>1, Policies
  <2>2. ASSUME NEW r \in R, NEW t \in Nat, r.point \in FramePoint, At(o2, m2, r, t)
        PROVE  /\ t \in 1 .. l
               /\ \A j \in 1 .. Len(o2["frame"]) : j > d2[r.point] => t < o2["frame"][j].time
    <3>1. t \in 1 .. l /\ \A j \in 1 .. Len(o["frame"]) : j > d[r.point] => t < o["frame"][j].time
      BY <2>2, <1>5, <1>0 DEF Ascend
    <3>2. ASSUME NEW j \in 1 .. Len(o2["frame"]), j > d2[r.point] PROVE t < o2["frame"][j].time
      <4>1. "frame" # k /\ o2["frame"] = o["frame"] /\ j \in 1 .. Len(o["frame"])
        BY <2>1
      <4>2. r.point \in G!Points /\ G!PolicyOf(r.point) = "frame"
        BY <2>2, Policies
      <4>3. d2[r.point] = d[r.point]
        <5>1. \A i \in 1 .. Len(o[k]) : \A p \in o[k][i].points : G!PolicyOf(p) = k
          BY <1>0 DEF Layered
        <5>2. ~\E i \in 1 .. Len(o[k]) : r.point \in o[k][i].points
          BY <4>1, <4>2, <5>1
        <5> QED
          BY <4>2, <5>2
      <4> QED
        BY <3>1, <3>2, <4>1, <4>3
    <3> QED
      BY <3>1, <3>2
  <2> QED
    BY <2>1, <2>2, <1>5, <1>0 DEF Ascend
<1> QED
  BY <1>0, <1>3, <1>4, <1>6 DEF Batched

\* A new layer is later than all others, and empty.
LEMMA GrowAdds ==
    ASSUME NEW o, NEW d, NEW m, NEW R, NEW l, Batched(o, d, m, R, l),
           NEW k \in G!Policy, NEW o2, NEW l2, BatchTypes(o2, d, m, R, l2),
           \A q \in G!Policy : q # k => o2[q] = o[q],
           Len(o2[k]) = Len(o[k]) + 1, \A i \in 1 .. Len(o[k]) : o2[k][i] = o[k][i],
           o2[k][Len(o[k]) + 1].part = {}, o2[k][Len(o[k]) + 1].points = {},
           IF k = "frame" THEN l2 = o2[k][Len(o[k]) + 1].time /\ l < l2 ELSE l2 = l
    PROVE  Batched(o2, d, m, R, l2)
<1>0. BatchTypes(o, d, m, R, l) /\ Numbered(R) /\ Layered(o, d) /\ Once(o, m, R) /\ Ascend(o, d, m, R, l)
  BY DEF Batched
<1>1. /\ \A q \in G!Policy : Len(o[q]) \in Nat /\ Len(o2[q]) \in Nat
      /\ Len(m) \in Nat /\ l \in Nat /\ l2 \in Nat
      /\ \A p \in G!Points : d[p] \in Nat
  BY <1>0 DEF BatchTypes
\* A layer is an old one, or the new one and empty.
<1>2. ASSUME NEW q \in G!Policy, NEW i \in 1 .. Len(o2[q])
      PROVE  \/ i \in 1 .. Len(o[q]) /\ o2[q][i] = o[q][i]
             \/ q = k /\ i = Len(o[k]) + 1 /\ o2[q][i].part = {} /\ o2[q][i].points = {}
  <2>1. CASE q # k
    BY <2>1
  <2>2. CASE q = k
    BY <2>2, <1>1
  <2> QED
    BY <2>1, <2>2
<1>3. \A q \in G!Policy : \A i \in 1 .. Len(o[q]) : i \in 1 .. Len(o2[q]) /\ o2[q][i] = o[q][i]
  <2> SUFFICES ASSUME NEW q \in G!Policy, NEW i \in 1 .. Len(o[q])
               PROVE  i \in 1 .. Len(o2[q]) /\ o2[q][i] = o[q][i]
    OBVIOUS
  <2>1. CASE q # k
    BY <2>1
  <2>2. CASE q = k
    BY <2>2, <1>1
  <2> QED
    BY <2>1, <2>2
<1>4. Layered(o2, d)
  <2>1. ASSUME NEW q \in G!Policy, NEW i \in 1 .. Len(o2[q])
        PROVE  /\ \A p \in o2[q][i].points : G!PolicyOf(p) = q
               /\ \A r \in o2[q][i].part : r.point \in o2[q][i].points
               /\ \A r, s \in o2[q][i].part : r.point = s.point => r = s
    <3>1. CASE i \in 1 .. Len(o[q]) /\ o2[q][i] = o[q][i]
      BY <3>1, <1>0 DEF Layered
    <3>2. CASE o2[q][i].part = {} /\ o2[q][i].points = {}
      BY <3>2
    <3> QED
      BY <3>1, <3>2, <1>2
  <2>2. ASSUME NEW p \in G!Points
        PROVE  /\ d[p] <= Len(o2[G!PolicyOf(p)])
               /\ \A i \in 1 .. Len(o2[G!PolicyOf(p)]) : p \in o2[G!PolicyOf(p)][i].points <=> i <= d[p]
    <3>1. G!PolicyOf(p) \in G!Policy
      BY Policies
    <3>2. /\ d[p] <= Len(o[G!PolicyOf(p)])
          /\ \A i \in 1 .. Len(o[G!PolicyOf(p)]) : p \in o[G!PolicyOf(p)][i].points <=> i <= d[p]
      BY <1>0 DEF Layered
    <3>3. Len(o[G!PolicyOf(p)]) <= Len(o2[G!PolicyOf(p)])
      BY <3>1, <1>1
    <3>4. ASSUME NEW i \in 1 .. Len(o2[G!PolicyOf(p)])
          PROVE  p \in o2[G!PolicyOf(p)][i].points <=> i <= d[p]
      <4>1. CASE i \in 1 .. Len(o[G!PolicyOf(p)]) /\ o2[G!PolicyOf(p)][i] = o[G!PolicyOf(p)][i]
        BY <4>1, <3>2
      <4>2. CASE /\ G!PolicyOf(p) = k /\ i = Len(o[k]) + 1
                 /\ o2[G!PolicyOf(p)][i].points = {}
        BY <4>2, <3>2, <3>1, <1>1
      <4> QED
        BY <4>1, <4>2, <3>1, <1>2
    <3> QED
      BY <3>1, <3>2, <3>3, <3>4, <1>1
  <2> QED
    BY <2>1, <2>2 DEF Layered
<1>5. Once(o2, m, R)
  <2>1. ASSUME NEW q \in G!Policy, NEW i \in 1 .. Len(o2[q]), NEW r \in o2[q][i].part
        PROVE  i \in 1 .. Len(o[q]) /\ r \in o[q][i].part
    BY <1>2
  <2>2. ASSUME NEW q \in G!Policy, NEW n \in G!Policy, NEW i \in 1 .. Len(o2[q]), NEW j \in 1 .. Len(o2[n]),
               NEW r \in o2[q][i].part
        PROVE  r \in R /\ (r \in o2[n][j].part => q = n /\ i = j)
    BY <2>1, <1>0 DEF Once
  <2>3. ASSUME NEW q \in G!Policy, NEW i \in 1 .. Len(o2[q]), NEW j \in 1 .. Len(m), NEW r \in o2[q][i].part
        PROVE  r \notin m[j].series
    BY <2>1, <1>0 DEF Once
  <2>4. ASSUME NEW r \in R
        PROVE  \/ \E i \in 1 .. Len(m) : r \in m[i].series
               \/ \E q \in G!Policy : \E i \in 1 .. Len(o2[q]) : r \in o2[q][i].part
    <3>1. CASE \E q \in G!Policy : \E i \in 1 .. Len(o[q]) : r \in o[q][i].part
      <4>1. PICK q \in G!Policy : \E i \in 1 .. Len(o[q]) : r \in o[q][i].part
        BY <3>1
      <4>2. PICK i \in 1 .. Len(o[q]) : r \in o[q][i].part
        BY <4>1
      <4>3. i \in 1 .. Len(o2[q]) /\ r \in o2[q][i].part
        BY <4>2, <1>3
      <4> QED
        BY <4>3
    <3> QED
      BY <3>1, <1>0 DEF Once
  <2> QED
    BY <2>2, <2>3, <2>4, <1>0 DEF Once
<1>6. ASSUME NEW r \in R, NEW t \in Nat, At(o2, m, r, t) PROVE At(o, m, r, t)
  BY <1>6, <1>2, Policies DEF At
<1>7. Ascend(o2, d, m, R, l2)
  <2>0. "frame" \in G!Policy
    BY Policies
  <2>1. ASSUME NEW i \in 1 .. Len(o2["frame"])
        PROVE  \/ i \in 1 .. Len(o["frame"]) /\ o2["frame"][i].time = o["frame"][i].time /\ o2["frame"][i].time \in 1 .. l
               \/ i = Len(o["frame"]) + 1 /\ o2["frame"][i].time = l2 /\ l < l2
    <3>1. CASE i \in 1 .. Len(o["frame"]) /\ o2["frame"][i] = o["frame"][i]
      BY <3>1, <1>0 DEF Ascend
    <3>2. CASE "frame" = k /\ i = Len(o[k]) + 1
      BY <3>2
    <3> QED
      BY <2>0, <3>1, <3>2, <1>2
  <2>2. l <= l2
    BY <1>1
  <2>3. \A i \in 1 .. Len(o2["frame"]) : o2["frame"][i].time \in 1 .. l2
    BY <2>1, <2>2, <1>1
  <2>4. ASSUME NEW i \in 1 .. Len(o2["frame"]), NEW j \in 1 .. Len(o2["frame"]), i < j
        PROVE  o2["frame"][i].time < o2["frame"][j].time
    <3>1. i \in 1 .. Len(o["frame"]) /\ o2["frame"][i].time = o["frame"][i].time /\ o2["frame"][i].time \in 1 .. l
      BY <2>0, <2>1, <2>4, <1>1
    <3>2. CASE j \in 1 .. Len(o["frame"]) /\ o2["frame"][j].time = o["frame"][j].time
      BY <2>4, <3>1, <3>2, <1>0 DEF Ascend
    <3>3. CASE o2["frame"][j].time = l2 /\ l < l2
      BY <3>1, <3>3, <1>1
    <3> QED
      BY <3>2, <3>3, <2>1
  <2>5. ASSUME NEW r \in R, NEW t \in Nat, r.point \in FramePoint, At(o2, m, r, t)
        PROVE  /\ t \in 1 .. l2
               /\ \A j \in 1 .. Len(o2["frame"]) : j > d[r.point] => t < o2["frame"][j].time
    <3>1. t \in 1 .. l /\ \A j \in 1 .. Len(o["frame"]) : j > d[r.point] => t < o["frame"][j].time
      BY <2>5, <1>6, <1>0 DEF Ascend
    <3>2. ASSUME NEW j \in 1 .. Len(o2["frame"]), j > d[r.point] PROVE t < o2["frame"][j].time
      <4>1. CASE j \in 1 .. Len(o["frame"]) /\ o2["frame"][j].time = o["frame"][j].time
        BY <4>1, <3>1, <3>2
      <4>2. CASE o2["frame"][j].time = l2 /\ l < l2
        BY <4>2, <3>1, <1>1
      <4> QED
        BY <4>1, <4>2, <2>1
    <3> QED
      BY <3>1, <3>2, <2>2, <1>1
  <2>6. ASSUME NEW r \in R, NEW s \in R, NEW t \in Nat, NEW u \in Nat,
               r.point \in FramePoint, r.point = s.point, r.id < s.id, At(o2, m, r, t), At(o2, m, s, u)
        PROVE  t < u
    BY <2>6, <1>6, <1>0 DEF Ascend
  <2> QED
    BY <2>3, <2>4, <2>5, <2>6 DEF Ascend
<1> QED
  BY <1>0, <1>4, <1>5, <1>7 DEF Batched

\* The part of the layer a of k is taken out.
Splitting(o, k, a, o2) ==
    /\ \A q \in G!Policy : Len(o2[q]) = Len(o[q])
    /\ \A q \in G!Policy : \A i \in 1 .. Len(o[q]) : ~(q = k /\ i = a) => o2[q][i] = o[q][i]
    /\ o2[k][a].part = {} /\ o2[k][a].points = o[k][a].points /\ o2[k][a].time = o[k][a].time

\* Splitting a layer moves its part into a message with its time.
LEMMA SplitMoves ==
    ASSUME NEW o, NEW d, NEW m, NEW R, NEW l, Batched(o, d, m, R, l),
           NEW k \in G!Policy, NEW a \in 1 .. Len(o[k]), NEW o2, NEW m2, BatchTypes(o2, d, m2, R, l),
           Splitting(o, k, a, o2), Adds(m, <<o[k][a]>>, m2)
    PROVE  Batched(o2, d, m2, R, l)
<1>p. /\ \A q \in G!Policy : Len(o2[q]) = Len(o[q])
      /\ \A q \in G!Policy : \A i \in 1 .. Len(o[q]) : ~(q = k /\ i = a) => o2[q][i] = o[q][i]
      /\ o2[k][a].part = {} /\ o2[k][a].points = o[k][a].points /\ o2[k][a].time = o[k][a].time
  BY DEF Splitting
<1>m. /\ Len(m2) = Len(m) + 1 /\ \A i \in 1 .. Len(m) : m2[i] = m[i]
      /\ m2[Len(m) + 1].series = o[k][a].part /\ m2[Len(m) + 1].time = o[k][a].time
  <2>1. Len(<<o[k][a]>>) = 1 /\ <<o[k][a]>>[1] = o[k][a] /\ 1 \in 1 .. 1
    OBVIOUS
  <2> QED
    BY <2>1 DEF Adds
<1> USE <1>p, <1>m
<1>0. BatchTypes(o, d, m, R, l) /\ Numbered(R) /\ Layered(o, d) /\ Once(o, m, R) /\ Ascend(o, d, m, R, l)
  BY DEF Batched
<1>1. /\ \A q \in G!Policy : Len(o[q]) \in Nat
      /\ Len(m) \in Nat /\ \A p \in G!Points : d[p] \in Nat
  BY <1>0 DEF BatchTypes
<1>2. \A q \in G!Policy : \A i \in 1 .. Len(o[q]) :
          /\ o2[q][i].points = o[q][i].points /\ o2[q][i].time = o[q][i].time
          /\ \/ o2[q][i].part = o[q][i].part /\ <<q, i>> # <<k, a>>
             \/ o2[q][i].part = {} /\ q = k /\ i = a
  OBVIOUS
<1>3. \A i \in 1 .. Len(m2) : i \in 1 .. Len(m) \/ i = Len(m) + 1
  BY <1>1
<1>4. Layered(o2, d)
  <2>1. ASSUME NEW q \in G!Policy, NEW i \in 1 .. Len(o2[q])
        PROVE  /\ \A p \in o2[q][i].points : G!PolicyOf(p) = q
               /\ \A r \in o2[q][i].part : r.point \in o2[q][i].points
               /\ \A r, s \in o2[q][i].part : r.point = s.point => r = s
    <3>1. i \in 1 .. Len(o[q]) /\ o2[q][i].points = o[q][i].points /\ o2[q][i].part \subseteq o[q][i].part
      BY <1>2
    <3> QED
      BY <3>1, <1>0 DEF Layered
  <2>2. ASSUME NEW p \in G!Points
        PROVE  /\ d[p] <= Len(o2[G!PolicyOf(p)])
               /\ \A i \in 1 .. Len(o2[G!PolicyOf(p)]) : p \in o2[G!PolicyOf(p)][i].points <=> i <= d[p]
    <3>1. G!PolicyOf(p) \in G!Policy /\ Len(o2[G!PolicyOf(p)]) = Len(o[G!PolicyOf(p)])
      BY Policies
    <3>2. \A i \in 1 .. Len(o[G!PolicyOf(p)]) : o2[G!PolicyOf(p)][i].points = o[G!PolicyOf(p)][i].points
      BY <3>1, <1>2
    <3> QED
      BY <3>1, <3>2, <1>0 DEF Layered
  <2> QED
    BY <2>1, <2>2 DEF Layered
<1>5. Once(o2, m2, R)
  <2>1. ASSUME NEW q \in G!Policy, NEW i \in 1 .. Len(o2[q]), NEW r \in o2[q][i].part
        PROVE  i \in 1 .. Len(o[q]) /\ r \in o[q][i].part /\ <<q, i>> # <<k, a>>
    <3>1. i \in 1 .. Len(o[q])
      OBVIOUS
    <3> QED
      BY <3>1, <1>2
  <2>2. ASSUME NEW i \in 1 .. Len(m2), NEW j \in 1 .. Len(m2), NEW r \in m2[i].series
        PROVE  r \in R /\ (r \in m2[j].series => i = j)
    <3>1. CASE i \in 1 .. Len(m) /\ j \in 1 .. Len(m)
      BY <3>1, <1>0 DEF Once
    <3>2. CASE i \in 1 .. Len(m) /\ j = Len(m) + 1
      <4>1. r \in m[i].series
        BY <3>2
      <4>2. r \in R /\ r \notin o[k][a].part
        BY <4>1, <3>2, <1>0 DEF Once
      <4> QED
        BY <4>2, <3>2
    <3>3. CASE i = Len(m) + 1 /\ j \in 1 .. Len(m)
      <4>1. r \in o[k][a].part
        BY <3>3
      <4>2. r \in R /\ r \notin m[j].series
        BY <4>1, <3>3, <1>0 DEF Once
      <4> QED
        BY <4>2, <3>3
    <3>4. CASE i = Len(m) + 1 /\ j = Len(m) + 1
      <4>1. r \in o[k][a].part
        BY <3>4
      <4> QED
        BY <4>1, <3>4, <1>0 DEF Once
    <3> QED
      BY <3>1, <3>2, <3>3, <3>4, <1>3
  <2>3. ASSUME NEW q \in G!Policy, NEW n \in G!Policy, NEW i \in 1 .. Len(o2[q]), NEW j \in 1 .. Len(o2[n]),
               NEW r \in o2[q][i].part
        PROVE  r \in R /\ (r \in o2[n][j].part => q = n /\ i = j)
    <3>1. i \in 1 .. Len(o[q]) /\ j \in 1 .. Len(o[n]) /\ r \in o[q][i].part
      BY <2>1
    <3>2. r \in R /\ (r \in o[n][j].part => q = n /\ i = j)
      BY <3>1, <1>0 DEF Once
    <3>3. r \in o2[n][j].part => r \in o[n][j].part
      BY <2>1
    <3> QED
      BY <3>2, <3>3
  <2>4. ASSUME NEW q \in G!Policy, NEW i \in 1 .. Len(o2[q]), NEW j \in 1 .. Len(m2), NEW r \in o2[q][i].part
        PROVE  r \notin m2[j].series
    <3>1. i \in 1 .. Len(o[q]) /\ r \in o[q][i].part /\ <<q, i>> # <<k, a>>
      BY <2>1
    <3>2. CASE j \in 1 .. Len(m)
      BY <3>1, <3>2, <1>0 DEF Once
    <3>3. CASE j = Len(m) + 1
      <4>1. r \notin o[k][a].part
        BY <3>1, <1>0 DEF Once
      <4> QED
        BY <4>1, <3>3
    <3> QED
      BY <3>2, <3>3, <1>3
  <2>5. ASSUME NEW r \in R
        PROVE  \/ \E i \in 1 .. Len(m2) : r \in m2[i].series
               \/ \E q \in G!Policy : \E i \in 1 .. Len(o2[q]) : r \in o2[q][i].part
    <3>1. CASE \E i \in 1 .. Len(m) : r \in m[i].series
      <4>1. PICK i \in 1 .. Len(m) : r \in m[i].series
        BY <3>1
      <4>2. i \in 1 .. Len(m2) /\ r \in m2[i].series
        BY <4>1, <1>1
      <4> QED
        BY <4>2
    <3>2. CASE \E q \in G!Policy : \E i \in 1 .. Len(o[q]) : r \in o[q][i].part
      <4>1. PICK q \in G!Policy : \E i \in 1 .. Len(o[q]) : r \in o[q][i].part
        BY <3>2
      <4>2. PICK i \in 1 .. Len(o[q]) : r \in o[q][i].part
        BY <4>1
      <4>3. CASE q = k /\ i = a
        <5>1. Len(m) + 1 \in 1 .. Len(m2) /\ r \in m2[Len(m) + 1].series
          BY <4>2, <4>3, <1>1
        <5> QED
          BY <5>1
      <4>4. CASE ~(q = k /\ i = a)
        <5>1. o2[q][i].part = o[q][i].part
          BY <4>4, <1>2
        <5> QED
          BY <5>1, <4>2
      <4> QED
        BY <4>3, <4>4
    <3> QED
      BY <3>1, <3>2, <1>0 DEF Once
  <2>6. ASSUME NEW i \in 1 .. Len(m2), NEW r \in m2[i].series, NEW s \in m2[i].series, r.point = s.point
        PROVE  r = s
    <3>1. CASE i \in 1 .. Len(m)
      BY <2>6, <3>1, <1>0 DEF Once
    <3>2. CASE i = Len(m) + 1
      <4>1. r \in o[k][a].part /\ s \in o[k][a].part
        BY <3>2
      <4> QED
        BY <2>6, <4>1, <1>0 DEF Layered
    <3> QED
      BY <3>1, <3>2, <1>3
  <2> QED
    BY <2>2, <2>3, <2>4, <2>5, <2>6 DEF Once
<1>6. ASSUME NEW r \in R, NEW t \in Nat, r.point \in FramePoint, At(o2, m2, r, t) PROVE At(o, m, r, t)
  <2>1. CASE \E i \in 1 .. Len(o2["frame"]) : r \in o2["frame"][i].part /\ t = o2["frame"][i].time
    BY <2>1, <1>2, Policies DEF At
  <2>2. CASE \E i \in 1 .. Len(m2) : r \in m2[i].series /\ t = m2[i].time
    <3>1. PICK i \in 1 .. Len(m2) : r \in m2[i].series /\ t = m2[i].time
      BY <2>2
    <3>2. CASE i \in 1 .. Len(m)
      BY <3>1, <3>2 DEF At
    <3>3. CASE i = Len(m) + 1
      <4>1. r \in o[k][a].part /\ t = o[k][a].time
        BY <3>1, <3>3
      <4>2. r.point \in o[k][a].points
        BY <4>1, <1>0 DEF Layered
      <4>3. G!PolicyOf(r.point) = k
        BY <4>2, <1>0 DEF Layered
      <4>4. k = "frame"
        BY <4>3, <1>6, Policies
      <4> QED
        BY <4>1, <4>4 DEF At
    <3> QED
      BY <3>2, <3>3, <1>3
  <2> QED
    BY <2>1, <2>2, <1>6 DEF At
<1>7. Ascend(o2, d, m2, R, l)
  <2>0. "frame" \in G!Policy
    BY Policies
  <2>1. Len(o2["frame"]) = Len(o["frame"]) /\ \A i \in 1 .. Len(o["frame"]) : o2["frame"][i].time = o["frame"][i].time
    BY <2>0, <1>2
  <2>2. ASSUME NEW r \in R, NEW t \in Nat, r.point \in FramePoint, At(o2, m2, r, t)
        PROVE  /\ t \in 1 .. l
               /\ \A j \in 1 .. Len(o2["frame"]) : j > d[r.point] => t < o2["frame"][j].time
    BY <2>1, <2>2, <1>6, <1>0 DEF Ascend
  <2>3. ASSUME NEW r \in R, NEW s \in R, NEW t \in Nat, NEW u \in Nat,
               r.point \in FramePoint, r.point = s.point, r.id < s.id, At(o2, m2, r, t), At(o2, m2, s, u)
        PROVE  t < u
    BY <2>3, <1>6, <1>0 DEF Ascend
  <2> QED
    BY <2>1, <2>2, <2>3, <1>0 DEF Ascend
<1> QED
  BY <1>0, <1>4, <1>5, <1>7 DEF Batched

\* A reading x goes into the layer a, where its point is not yet.
Putting(o, d, R, x, k, a, o2, d2) ==
    /\ x \in Reading /\ x.id = Cardinality(R) + 1
    /\ k = G!PolicyOf(x.point) /\ a \in 1 .. Len(o[k]) /\ a = d[x.point] + 1
    /\ \A q \in G!Policy : Len(o2[q]) = Len(o[q])
    /\ \A q \in G!Policy : \A i \in 1 .. Len(o[q]) : ~(q = k /\ i = a) => o2[q][i] = o[q][i]
    /\ o2[k][a].part = o[k][a].part \union {x} /\ o2[k][a].points = o[k][a].points \union {x.point}
    /\ o2[k][a].time = o[k][a].time
    /\ \A p \in G!Points : d2[p] = IF p = x.point THEN a ELSE d[p]

\* A reading that is put into the layer after the last one of its point is later than all readings of
\* its point.
LEMMA PutAdds ==
    ASSUME NEW o, NEW d, NEW m, NEW R, NEW l, Batched(o, d, m, R, l), NEW x, NEW k, NEW a, NEW o2, NEW d2,
           BatchTypes(o2, d2, m, R \union {x}, l), Putting(o, d, R, x, k, a, o2, d2)
    PROVE  Batched(o2, d2, m, R \union {x}, l)
<1>p. /\ x \in Reading /\ x.id = Cardinality(R) + 1
      /\ k = G!PolicyOf(x.point) /\ a \in 1 .. Len(o[k]) /\ a = d[x.point] + 1
      /\ \A q \in G!Policy : Len(o2[q]) = Len(o[q])
      /\ \A q \in G!Policy : \A i \in 1 .. Len(o[q]) : ~(q = k /\ i = a) => o2[q][i] = o[q][i]
      /\ o2[k][a].part = o[k][a].part \union {x} /\ o2[k][a].points = o[k][a].points \union {x.point}
      /\ o2[k][a].time = o[k][a].time
      /\ \A p \in G!Points : d2[p] = IF p = x.point THEN a ELSE d[p]
  BY DEF Putting
<1> USE <1>p
<1>0. BatchTypes(o, d, m, R, l) /\ Numbered(R) /\ Layered(o, d) /\ Once(o, m, R) /\ Ascend(o, d, m, R, l)
  BY DEF Batched
<1>k. k \in G!Policy /\ x.point \in G!Points
  BY Policies DEF Reading
<1>1. /\ \A q \in G!Policy : Len(o[q]) \in Nat
      /\ Len(m) \in Nat /\ \A p \in G!Points : d[p] \in Nat
  BY <1>0 DEF BatchTypes
<1>2. \A q \in G!Policy : \A i \in 1 .. Len(o[q]) :
          /\ o2[q][i].time = o[q][i].time
          /\ \/ o2[q][i].part = o[q][i].part /\ o2[q][i].points = o[q][i].points /\ <<q, i>> # <<k, a>>
             \/ /\ o2[q][i].part = o[q][i].part \union {x} /\ q = k /\ i = a
                /\ o2[q][i].points = o[q][i].points \union {x.point}
  OBVIOUS
<1>3. x \notin R /\ (\A r \in R : r.id < x.id) /\ Numbered(R \union {x})
  <2>1. IsFiniteSet(R) /\ (\A r \in R : r.id \in 1 .. Cardinality(R)) /\ \A r, s \in R : r.id = s.id => r = s
    BY <1>0 DEF Numbered
  <2>2. Cardinality(R) \in Nat
    BY <2>1, FS_CardinalityType
  <2>3. x \notin R /\ \A r \in R : r.id < x.id
    BY <2>1, <2>2
  <2>4. IsFiniteSet(R \union {x}) /\ Cardinality(R \union {x}) = Cardinality(R) + 1
    BY <2>1, <2>3, FS_AddElement
  <2>5. \A r \in R \union {x} : r.id \in 1 .. Cardinality(R \union {x})
    BY <2>1, <2>2, <2>4
  <2>6. \A r, s \in R \union {x} : r.id = s.id => r = s
    BY <2>1, <2>2, <2>3
  <2> QED
    BY <2>3, <2>4, <2>5, <2>6 DEF Numbered
<1>4. Layered(o2, d2)
  <2>0. x.point \notin o[k][a].points /\ d[x.point] + 1 = a
    BY <1>0, <1>1, <1>k DEF Layered
  <2>1. ASSUME NEW q \in G!Policy, NEW i \in 1 .. Len(o2[q])
        PROVE  /\ \A p \in o2[q][i].points : G!PolicyOf(p) = q
               /\ \A r \in o2[q][i].part : r.point \in o2[q][i].points
               /\ \A r, s \in o2[q][i].part : r.point = s.point => r = s
    <3>1. i \in 1 .. Len(o[q])
      OBVIOUS
    <3>2. /\ \A p \in o[q][i].points : G!PolicyOf(p) = q
          /\ \A r \in o[q][i].part : r.point \in o[q][i].points
          /\ \A r, s \in o[q][i].part : r.point = s.point => r = s
      BY <3>1, <1>0 DEF Layered
    <3>3. CASE o2[q][i].part = o[q][i].part /\ o2[q][i].points = o[q][i].points
      BY <3>2, <3>3
    <3>4. CASE /\ o2[q][i].part = o[q][i].part \union {x} /\ q = k /\ i = a
               /\ o2[q][i].points = o[q][i].points \union {x.point}
      <4>1. \A p \in o2[q][i].points : G!PolicyOf(p) = q
        BY <3>2, <3>4
      <4>2. \A r \in o2[q][i].part : r.point \in o2[q][i].points
        BY <3>2, <3>4
      <4>3. \A r \in o[q][i].part : r.point # x.point
        BY <3>2, <3>4, <2>0
      <4>4. \A r, s \in o2[q][i].part : r.point = s.point => r = s
        <5> SUFFICES ASSUME NEW r \in o2[q][i].part, NEW s \in o2[q][i].part, r.point = s.point PROVE r = s
          OBVIOUS
        <5>1. CASE r = x /\ s = x
          BY <5>1
        <5>2. CASE r \in o[q][i].part /\ s \in o[q][i].part
          BY <5>2, <3>2
        <5>3. r \in o[q][i].part \/ r = x
          BY <3>4
        <5>4. s \in o[q][i].part \/ s = x
          BY <3>4
        <5> QED
          BY <5>1, <5>2, <5>3, <5>4, <4>3
      <4> QED
        BY <4>1, <4>2, <4>4
    <3> QED
      BY <3>1, <3>3, <3>4, <1>2
  <2>2. ASSUME NEW p \in G!Points
        PROVE  /\ d2[p] <= Len(o2[G!PolicyOf(p)])
               /\ \A i \in 1 .. Len(o2[G!PolicyOf(p)]) : p \in o2[G!PolicyOf(p)][i].points <=> i <= d2[p]
    <3>1. G!PolicyOf(p) \in G!Policy /\ Len(o2[G!PolicyOf(p)]) = Len(o[G!PolicyOf(p)])
      BY Policies
    <3>2. /\ d[p] <= Len(o[G!PolicyOf(p)])
          /\ \A i \in 1 .. Len(o[G!PolicyOf(p)]) : p \in o[G!PolicyOf(p)][i].points <=> i <= d[p]
      BY <1>0 DEF Layered
    <3>3. CASE p = x.point
      <4>1. d2[p] = a /\ G!PolicyOf(p) = k /\ a = d[p] + 1
        BY <3>3
      <4>2. ASSUME NEW i \in 1 .. Len(o[k]) PROVE p \in o2[k][i].points <=> i <= a
        <5>1. CASE i = a
          BY <5>1, <3>3
        <5>2. CASE i # a
          <6>1. o2[k][i].points = o[k][i].points
            BY <5>2, <1>2, <1>k
          <6>2. p \in o[k][i].points <=> i <= d[p]
            BY <3>2, <4>1
          <6> QED
            BY <6>1, <6>2, <5>2, <4>1, <1>1
        <5> QED
          BY <5>1, <5>2
      <4> QED
        BY <4>1, <4>2, <3>1
    <3>4. CASE p # x.point
      <4>1. d2[p] = d[p]
        BY <3>4
      <4>2. ASSUME NEW i \in 1 .. Len(o[G!PolicyOf(p)])
            PROVE  p \in o2[G!PolicyOf(p)][i].points <=> p \in o[G!PolicyOf(p)][i].points
        BY <3>1, <3>4, <1>2
      <4> QED
        BY <4>1, <4>2, <3>1, <3>2
    <3> QED
      BY <3>3, <3>4
  <2> QED
    BY <2>1, <2>2 DEF Layered
<1>5. Once(o2, m, R \union {x})
  <2>1. ASSUME NEW q \in G!Policy, NEW i \in 1 .. Len(o2[q]), NEW r \in o2[q][i].part
        PROVE  /\ i \in 1 .. Len(o[q])
               /\ \/ r \in o[q][i].part /\ r \in R /\ r # x
                  \/ r = x /\ q = k /\ i = a
    <3>1. i \in 1 .. Len(o[q])
      OBVIOUS
    <3>2. CASE r \in o[q][i].part
      BY <3>1, <3>2, <1>0, <1>3 DEF Once
    <3>3. CASE r \notin o[q][i].part
      BY <3>1, <3>3, <1>2
    <3> QED
      BY <3>1, <3>2, <3>3
  <2>2. ASSUME NEW i \in 1 .. Len(m), NEW j \in 1 .. Len(m), NEW r \in m[i].series
        PROVE  r \in R \union {x} /\ r \in R /\ (r \in m[j].series => i = j)
    BY <1>0 DEF Once
  <2>3. ASSUME NEW q \in G!Policy, NEW n \in G!Policy, NEW i \in 1 .. Len(o2[q]), NEW j \in 1 .. Len(o2[n]),
               NEW r \in o2[q][i].part
        PROVE  r \in R \union {x} /\ (r \in o2[n][j].part => q = n /\ i = j)
    BY <2>1, <1>0 DEF Once
  <2>4. ASSUME NEW q \in G!Policy, NEW i \in 1 .. Len(o2[q]), NEW j \in 1 .. Len(m), NEW r \in o2[q][i].part
        PROVE  r \notin m[j].series
    <3>1. CASE r = x
      BY <3>1, <2>2, <1>3
    <3>2. CASE r # x
      BY <3>2, <2>1, <1>0 DEF Once
    <3> QED
      BY <3>1, <3>2
  <2>5. ASSUME NEW r \in R \union {x}
        PROVE  \/ \E i \in 1 .. Len(m) : r \in m[i].series
               \/ \E q \in G!Policy : \E i \in 1 .. Len(o2[q]) : r \in o2[q][i].part
    <3>1. CASE r = x
      BY <3>1, <1>k
    <3>2. CASE \E q \in G!Policy : \E i \in 1 .. Len(o[q]) : r \in o[q][i].part
      <4>1. PICK q \in G!Policy : \E i \in 1 .. Len(o[q]) : r \in o[q][i].part
        BY <3>2
      <4>2. PICK i \in 1 .. Len(o[q]) : r \in o[q][i].part
        BY <4>1
      <4>3. i \in 1 .. Len(o2[q]) /\ r \in o2[q][i].part
        BY <4>2, <1>2
      <4> QED
        BY <4>3
    <3> QED
      BY <3>1, <3>2, <1>0 DEF Once
  <2> QED
    BY <2>2, <2>3, <2>4, <2>5, <1>0 DEF Once
<1>6. ASSUME NEW r \in R, NEW t \in Nat, At(o2, m, r, t) PROVE At(o, m, r, t)
  BY <1>6, <1>2, <1>3, Policies DEF At
<1>7. ASSUME NEW t \in Nat, At(o2, m, x, t), x.point \in FramePoint
      PROVE  k = "frame" /\ t = o["frame"][a].time
  <2>1. k = "frame"
    BY <1>7, Policies
  <2>2. ASSUME NEW i \in 1 .. Len(m) PROVE x \notin m[i].series
    BY <1>0, <1>3 DEF Once
  <2>3. PICK i \in 1 .. Len(o2["frame"]) : x \in o2["frame"][i].part /\ t = o2["frame"][i].time
    BY <1>7, <2>2 DEF At
  <2>4. i \in 1 .. Len(o["frame"]) /\ x \notin o["frame"][i].part
    BY <2>1, <2>3, <1>0, <1>3, <1>k DEF Once
  <2>5. i = a
    BY <2>1, <2>3, <2>4, <1>2, <1>k
  <2> QED
    BY <2>1, <2>3, <2>5
<1>8. Ascend(o2, d2, m, R \union {x}, l)
  <2>0. "frame" \in G!Policy
    BY Policies
  <2>1. Len(o2["frame"]) = Len(o["frame"]) /\ \A i \in 1 .. Len(o["frame"]) : o2["frame"][i].time = o["frame"][i].time
    BY <2>0, <1>2
  <2>2. ASSUME NEW r \in R, NEW t \in Nat, r.point \in FramePoint, At(o2, m, r, t)
        PROVE  /\ t \in 1 .. l
               /\ \A j \in 1 .. Len(o["frame"]) : j > d[r.point] => t < o["frame"][j].time
    BY <2>2, <1>6, <1>0 DEF Ascend
  <2>3. ASSUME NEW r \in R \union {x}, NEW t \in Nat, r.point \in FramePoint, At(o2, m, r, t)
        PROVE  /\ t \in 1 .. l
               /\ \A j \in 1 .. Len(o2["frame"]) : j > d2[r.point] => t < o2["frame"][j].time
    <3>1. CASE r = x
      <4>1. k = "frame" /\ t = o["frame"][a].time /\ d2[x.point] = a
        BY <3>1, <2>3, <1>7, <1>k
      <4>2. t \in 1 .. l /\ \A j \in 1 .. Len(o["frame"]) : j > a => t < o["frame"][j].time
        BY <4>1, <1>0 DEF Ascend
      <4> QED
        BY <4>1, <4>2, <3>1, <2>1
    <3>2. CASE r # x
      <4>1. r \in R /\ r.point \in G!Points
        BY <3>2, <2>3, Policies
      <4>2. d[r.point] \in Nat /\ d[r.point] <= d2[r.point] /\ d2[r.point] \in Nat
        BY <4>1, <1>1, <1>k
      <4>3. t \in 1 .. l /\ \A j \in 1 .. Len(o["frame"]) : j > d[r.point] => t < o["frame"][j].time
        BY <4>1, <2>2, <2>3
      <4>4. ASSUME NEW j \in 1 .. Len(o2["frame"]), j > d2[r.point] PROVE t < o2["frame"][j].time
        <5>1. j \in 1 .. Len(o["frame"]) /\ j > d[r.point]
          BY <4>2, <4>4, <2>1
        <5> QED
          BY <5>1, <4>3, <2>1
      <4> QED
        BY <4>3, <4>4
    <3> QED
      BY <3>1, <3>2
  <2>4. ASSUME NEW r \in R \union {x}, NEW s \in R \union {x}, NEW t \in Nat, NEW u \in Nat,
               r.point \in FramePoint, r.point = s.point, r.id < s.id, At(o2, m, r, t), At(o2, m, s, u)
        PROVE  t < u
    <3>0. x.id \in Nat /\ \A y \in R : y.id \in Nat
      BY <1>0 DEF Reading, BatchTypes
    <3>1. r # x
      BY <2>4, <1>3, <3>0
    <3>2. CASE s = x
      <4>1. k = "frame" /\ u = o["frame"][a].time
        BY <3>2, <2>4, <1>7
      <4>2. a > d[r.point] /\ a \in 1 .. Len(o["frame"])
        BY <3>2, <2>4, <4>1, <1>1, <1>k
      <4> QED
        BY <3>1, <4>1, <4>2, <2>2, <2>4
    <3>3. CASE s # x
      BY <3>1, <3>3, <2>4, <1>6, <1>0 DEF Ascend
    <3> QED
      BY <3>2, <3>3
  <2> QED
    BY <2>1, <2>3, <2>4, <1>0 DEF Ascend
<1> QED
  BY <1>3, <1>4, <1>5, <1>8 DEF Batched

-----------------------------------------------------------------------------
\* What the operations of Batcher make of this.

\* The same operator in two modules.
LEMMA BatchCardinality == ASSUME NEW S PROVE G!Cardinality(S) = Cardinality(S)
BY DEF G!Cardinality, Cardinality

\* The units of a message are those of the table.
LEMMA UnitsType ==
    ASSUME NEW layers, G!Publish(layers), unit \in Nat, published_units \in Nat
    PROVE  published_units' \in Nat
<1>1. CASE layers = << >>
  BY <1>1 DEF G!Publish
<1>2. CASE layers # << >>
  BY <1>2 DEF G!Publish, G!Settle
<1> QED
  BY <1>1, <1>2

\* Publishing layers adds a message for each.
LEMMA PublishAdds ==
    ASSUME NEW layers \in Seq(LayerType), G!Publish(layers), out \in Seq(MessageType), published_units' \in Nat
    PROVE  Adds(out, layers, out')
<1> DEFINE more == [i \in DOMAIN layers |-> G!Message(layers[i])]
<1>1. out' = out \o more
  BY DEF G!Publish
<1>2. ASSUME NEW y \in LayerType
      PROVE  /\ G!Message(y) \in MessageType
             /\ G!Message(y).series = y.part /\ G!Message(y).time = y.time
  BY DEF G!Message, MessageType, LayerType
<1>3. DOMAIN layers = 1 .. Len(layers) /\ Len(layers) \in Nat /\ \A i \in 1 .. Len(layers) : layers[i] \in LayerType
  OBVIOUS
<1>4. more \in Seq(MessageType) /\ Len(more) = Len(layers)
      /\ \A i \in 1 .. Len(layers) : more[i] = G!Message(layers[i])
  <2>1. more = [i \in 1 .. Len(layers) |-> G!Message(layers[i])]
    BY <1>3
  <2>2. \A i \in 1 .. Len(layers) : G!Message(layers[i]) \in MessageType
    BY <1>2, <1>3
  <2> HIDE DEF more
  <2> QED
    BY <2>1, <2>2, <1>3
<1> HIDE DEF more
<1>5. out' \in Seq(MessageType) /\ Len(out') = Len(out) + Len(layers)
  <2>1. more \in Seq(MessageType) /\ Len(more) = Len(layers)
    BY <1>4
  <2>2. out \o more \in Seq(MessageType)
    BY <2>1
  <2>3. Len(out \o more) = Len(out) + Len(more)
    BY <2>1
  <2> QED
    BY <1>1, <2>1, <2>2, <2>3
<1>6. \A i \in 1 .. Len(out) : out'[i] = out[i]
  BY <1>1, <1>4
<1>7. ASSUME NEW i \in 1 .. Len(layers) PROVE out'[Len(out) + i] = more[i]
  <2>1. /\ Len(out) \in Nat /\ Len(out) + i \in 1 .. Len(out) + Len(more) /\ Len(out) + i > Len(out)
        /\ (Len(out) + i) - Len(out) = i
    BY <1>3, <1>4
  <2> QED
    BY <1>1, <1>4, <2>1
<1>8. ASSUME NEW i \in 1 .. Len(layers)
      PROVE  out'[Len(out) + i].series = layers[i].part /\ out'[Len(out) + i].time = layers[i].time
  <2>1. out'[Len(out) + i] = G!Message(layers[i]) /\ layers[i] \in LayerType
    BY <1>3, <1>4, <1>7
  <2> QED
    BY <2>1, <1>2
<1> QED
  BY <1>5, <1>6, <1>8 DEF Adds

\* A layer that is opened is empty, has a time, and in a frame it is later than the last.
LEMMA NewLayerType ==
    ASSUME BatchTypes(open, depth, out, readings, last_layer), clock \in Nat,
           NEW p \in G!Points, NEW ts \in 1 .. MaxTs
    PROVE  /\ G!NewLayer(p, ts) \in LayerType
           /\ G!NewLayer(p, ts).part = {} /\ G!NewLayer(p, ts).points = {}
           /\ G!NewLayer(p, ts).time = G!LayerTime(p, ts) /\ G!LayerTime(p, ts) \in Nat
           /\ G!PolicyOf(p) = "frame" => G!LayerTime(p, ts) > last_layer
<1>1. G!LayerTime(p, ts) \in Nat /\ (G!PolicyOf(p) = "frame" => G!LayerTime(p, ts) > last_layer)
  BY GroupAssumption DEF G!LayerTime, BatchTypes
<1>2. G!Opened(p) \in Nat
  <2> DEFINE k == G!PolicyOf(p)
  <2>1. k \in G!Policy /\ open[k] \in Seq(LayerType)
    BY Policies DEF BatchTypes
  <2>2. CASE k = "frame" /\ open[k] # << >> /\ Head(open[k]).opened + Window > clock
    <3>1. Head(open[k]) \in LayerType
      BY <2>1, <2>2
    <3>2. Head(open[k]).opened \in Nat
      BY <3>1 DEF LayerType
    <3> QED
      BY <2>2, <3>2 DEF G!Opened
  <2>3. CASE ~(k = "frame" /\ open[k] # << >> /\ Head(open[k]).opened + Window > clock)
    BY <2>3 DEF G!Opened
  <2> QED
    BY <2>2, <2>3
<1> QED
  BY <1>1, <1>2 DEF G!NewLayer, LayerType

\* A key with another layer.
LEMMA GrowStep ==
    ASSUME NEW o, NEW d, NEW m, NEW R, NEW l, Batched(o, d, m, R, l),
           NEW k \in G!Policy, NEW y \in LayerType, y.part = {}, y.points = {}, k = "frame" => y.time > l
    PROVE  Batched([o EXCEPT ![k] = Append(o[k], y)], d, m, R, IF k = "frame" THEN y.time ELSE l)
<1> DEFINE o2 == [o EXCEPT ![k] = Append(o[k], y)]
           l2 == IF k = "frame" THEN y.time ELSE l
<1>0. BatchTypes(o, d, m, R, l)
  BY DEF Batched
<1>1. o \in [G!Policy -> Seq(LayerType)] /\ o[k] \in Seq(LayerType) /\ l \in Nat /\ y.time \in Nat
  BY <1>0 DEF BatchTypes, LayerType
<1>2. o2[k] = Append(o[k], y) /\ \A q \in G!Policy : q # k => o2[q] = o[q]
  BY <1>1
<1>3. Append(o[k], y) \in Seq(LayerType)
  BY <1>1
<1>4. o2 \in [G!Policy -> Seq(LayerType)]
  BY <1>1, <1>3
<1>5. l2 \in Nat /\ (IF k = "frame" THEN l2 = y.time /\ l < l2 ELSE l2 = l)
  BY <1>1
<1>6. Len(o2[k]) = Len(o[k]) + 1 /\ (\A i \in 1 .. Len(o[k]) : o2[k][i] = o[k][i]) /\ o2[k][Len(o[k]) + 1] = y
  BY <1>1, <1>2
<1> HIDE DEF o2, l2
<1>7. BatchTypes(o2, d, m, R, l2)
  BY <1>0, <1>4, <1>5 DEF BatchTypes
<1>8. Batched(o2, d, m, R, l2)
  BY <1>2, <1>5, <1>6, <1>7, GrowAdds
<1> QED
  BY <1>8 DEF o2, l2

\* A reading put into a layer.
LEMMA PutStep ==
    ASSUME NEW o, NEW d, NEW m, NEW R, NEW l, Batched(o, d, m, R, l), NEW p \in G!Points,
           NEW a \in 1 .. Len(o[G!PolicyOf(p)]), a = d[p] + 1,
           NEW x, x = [point |-> p, id |-> Cardinality(R) + 1],
           ~G!Full(o[G!PolicyOf(p)][a])
    PROVE  Batched([o EXCEPT ![G!PolicyOf(p)] = [o[G!PolicyOf(p)] EXCEPT ![a] = G!Put(@, x)]],
                   [d EXCEPT ![p] = a], m, R \union {x}, l)
<1> DEFINE k == G!PolicyOf(p)
           y == G!Put(o[k][a], x)
           s2 == [o[k] EXCEPT ![a] = y]
           o2 == [o EXCEPT ![k] = s2]
           d2 == [d EXCEPT ![p] = a]
<1>0. BatchTypes(o, d, m, R, l) /\ Numbered(R)
  BY DEF Batched
<1>1. /\ o \in [G!Policy -> Seq(LayerType)] /\ k \in G!Policy /\ o[k] \in Seq(LayerType) /\ o[k][a] \in LayerType
      /\ d \in [G!Points -> Nat] /\ a \in Nat
  BY <1>0, Policies DEF BatchTypes
<1>2. x \in Reading /\ x.point = p /\ x.id = Cardinality(R) + 1
  <2>1. Cardinality(R) \in Nat
    BY <1>0, FS_CardinalityType DEF Numbered
  <2> QED
    BY <2>1 DEF Reading
<1>3. y \in LayerType /\ y.part = o[k][a].part \union {x} /\ y.points = o[k][a].points \union {p} /\ y.time = o[k][a].time
  BY <1>1, <1>2 DEF G!Put, LayerType
<1> HIDE DEF y
<1>4. /\ s2 \in Seq(LayerType) /\ Len(s2) = Len(o[k]) /\ s2[a] = y
      /\ \A i \in 1 .. Len(o[k]) : i # a => s2[i] = o[k][i]
  BY <1>1, <1>3
<1> HIDE DEF s2
<1>5. o2 \in [G!Policy -> Seq(LayerType)] /\ o2[k] = s2 /\ \A q \in G!Policy : q # k => o2[q] = o[q]
  BY <1>1, <1>4
<1>6. d2 \in [G!Points -> Nat] /\ \A q \in G!Points : d2[q] = IF q = p THEN a ELSE d[q]
  BY <1>1
<1> HIDE DEF o2, d2
<1>7. BatchTypes(o2, d2, m, R \union {x}, l)
  BY <1>0, <1>2, <1>5, <1>6 DEF BatchTypes
<1>8. \A q \in G!Policy : Len(o2[q]) = Len(o[q])
  BY <1>4, <1>5
<1>9. \A q \in G!Policy : \A i \in 1 .. Len(o[q]) : ~(q = k /\ i = a) => o2[q][i] = o[q][i]
  BY <1>4, <1>5
<1>10. /\ o2[k][a].part = o[k][a].part \union {x} /\ o2[k][a].points = o[k][a].points \union {x.point}
       /\ o2[k][a].time = o[k][a].time
  BY <1>2, <1>3, <1>4, <1>5
<1>11. \A q \in G!Points : d2[q] = IF q = x.point THEN a ELSE d[q]
  BY <1>2, <1>6
<1>12. a = d[x.point] + 1 /\ k = G!PolicyOf(x.point)
  BY <1>2
<1> HIDE DEF k
<1>13. a \in 1 .. Len(o[k])
  BY DEF k
<1>14. Batched(o2, d2, m, R \union {x}, l)
  <2>1. Putting(o, d, R, x, k, a, o2, d2)
    BY <1>2, <1>8, <1>9, <1>10, <1>11, <1>12, <1>13 DEF Putting
  <2> QED
    BY <2>1, <1>7, PutAdds
<1> QED
  BY <1>14 DEF o2, d2, s2, y, k

\* Sequences that agree in everything are equal.
LEMMA SameSequence ==
    ASSUME NEW S, NEW s \in Seq(S), NEW t \in Seq(S), Len(s) = Len(t), \A i \in 1 .. Len(t) : s[i] = t[i]
    PROVE  s = t
OBVIOUS

\* The second change at a place is the one that stays.
LEMMA ExceptTwice ==
    ASSUME NEW S, NEW T, NEW f \in [S -> T], NEW a \in S, NEW y, NEW z
    PROVE  [[f EXCEPT ![a] = y] EXCEPT ![a] = z] = [f EXCEPT ![a] = z]
OBVIOUS

\* The full part of a layer is published.
LEMMA SplitStep ==
    ASSUME NEW o, NEW d, NEW m, NEW R, NEW l, Batched(o, d, m, R, l), NEW k \in G!Policy,
           NEW a \in 1 .. Len(o[k]), NEW m2, Adds(m, <<o[k][a]>>, m2)
    PROVE  Batched([o EXCEPT ![k] = [o[k] EXCEPT ![a] = [o[k][a] EXCEPT !.part = {}]]], d, m2, R, l)
<1> DEFINE y == [o[k][a] EXCEPT !.part = {}]
           s2 == [o[k] EXCEPT ![a] = y]
           o2 == [o EXCEPT ![k] = s2]
<1>0. BatchTypes(o, d, m, R, l)
  BY DEF Batched
<1>1. o \in [G!Policy -> Seq(LayerType)] /\ o[k] \in Seq(LayerType) /\ o[k][a] \in LayerType
  BY <1>0 DEF BatchTypes
<1>2. y \in LayerType /\ y.part = {} /\ y.points = o[k][a].points /\ y.time = o[k][a].time
  BY <1>1 DEF LayerType
<1> HIDE DEF y
<1>3. /\ s2 \in Seq(LayerType) /\ Len(s2) = Len(o[k]) /\ s2[a] = y
      /\ \A i \in 1 .. Len(o[k]) : i # a => s2[i] = o[k][i]
  BY <1>1, <1>2
<1> HIDE DEF s2
<1>4. o2 \in [G!Policy -> Seq(LayerType)] /\ o2[k] = s2 /\ \A q \in G!Policy : q # k => o2[q] = o[q]
  BY <1>1, <1>3
<1> HIDE DEF o2
<1>5. BatchTypes(o2, d, m2, R, l)
  BY <1>0, <1>4 DEF BatchTypes, Adds
<1>6. \A q \in G!Policy : Len(o2[q]) = Len(o[q])
  BY <1>3, <1>4
<1>7. \A q \in G!Policy : \A i \in 1 .. Len(o[q]) : ~(q = k /\ i = a) => o2[q][i] = o[q][i]
  BY <1>3, <1>4
<1>8. o2[k][a].part = {} /\ o2[k][a].points = o[k][a].points /\ o2[k][a].time = o[k][a].time
  BY <1>2, <1>3, <1>4
<1>9. Batched(o2, d, m2, R, l)
  <2>1. Splitting(o, k, a, o2)
    BY <1>6, <1>7, <1>8 DEF Splitting
  <2> QED
    BY <2>1, <1>5, SplitMoves
<1> QED
  BY <1>9 DEF o2, s2, y

\* A reading put into a layer, which is split before when it is full.
LEMMA PutOrSplit ==
    ASSUME NEW o, NEW d, NEW m, NEW R, NEW l, Batched(o, d, m, R, l), NEW p \in G!Points,
           NEW a \in 1 .. Len(o[G!PolicyOf(p)]), a = d[p] + 1,
           NEW x, x = [point |-> p, id |-> Cardinality(R) + 1], NEW m2,
           IF G!Full(o[G!PolicyOf(p)][a]) THEN Adds(m, <<o[G!PolicyOf(p)][a]>>, m2) ELSE m2 = m
    PROVE  Batched([o EXCEPT ![G!PolicyOf(p)] = [o[G!PolicyOf(p)] EXCEPT ![a] = G!Put(@, x)]],
                   [d EXCEPT ![p] = a], m2, R \union {x}, l)
<1> DEFINE k == G!PolicyOf(p)
<1>1. CASE ~G!Full(o[k][a])
  BY <1>1, PutStep
<1>2. CASE G!Full(o[k][a])
  <2> DEFINE y == [o[k][a] EXCEPT !.part = {}]
             s2 == [o[k] EXCEPT ![a] = y]
             o2 == [o EXCEPT ![k] = s2]
  <2>1. k \in G!Policy
    BY Policies
  <2>2. Batched(o2, d, m2, R, l)
    BY <1>2, <2>1, SplitStep
  <2>3. o \in [G!Policy -> Seq(LayerType)] /\ o[k] \in Seq(LayerType) /\ o[k][a] \in LayerType
    BY <2>1 DEF Batched, BatchTypes
  <2>4. y \in LayerType /\ y.part = {}
    BY <2>3 DEF LayerType
  <2>5. ~G!Full(y)
    BY <2>4 DEF G!Full
  <2>6. G!Put(y, x) = G!Put(o[k][a], x)
    <3>1. G!Put(y, x) = [y EXCEPT !.part = {x}, !.points = @ \union {x.point}]
      BY <2>4, <2>5 DEF G!Put
    <3>2. G!Put(o[k][a], x) = [o[k][a] EXCEPT !.part = {x}, !.points = @ \union {x.point}]
      BY <1>2 DEF G!Put
    <3> QED
      BY <3>1, <3>2, <2>3 DEF LayerType
  <2> HIDE DEF y
  <2>7. s2[a] = y /\ Len(s2) = Len(o[k]) /\ [s2 EXCEPT ![a] = G!Put(y, x)] = [o[k] EXCEPT ![a] = G!Put(o[k][a], x)]
    <3>1. o[k] \in [1 .. Len(o[k]) -> LayerType]
      BY <2>3
    <3>2. s2[a] = y /\ Len(s2) = Len(o[k])
      BY <2>3, <2>4
    <3>3. [s2 EXCEPT ![a] = G!Put(y, x)] = [o[k] EXCEPT ![a] = G!Put(y, x)]
      BY <3>1, ExceptTwice
    <3> QED
      BY <3>2, <3>3, <2>6
  <2>8. [s2 EXCEPT ![a] = G!Put(@, x)] = [o[k] EXCEPT ![a] = G!Put(@, x)]
    BY <2>7
  <2> HIDE DEF s2
  <2>9. o2[k] = s2 /\ \A z : [o2 EXCEPT ![k] = z] = [o EXCEPT ![k] = z]
    BY <2>1, <2>3
  <2> HIDE DEF o2
  <2>10. a \in 1 .. Len(o2[k]) /\ ~G!Full(o2[k][a])
    BY <2>5, <2>7, <2>9
  <2>11. Batched([o2 EXCEPT ![k] = [o2[k] EXCEPT ![a] = G!Put(@, x)]], [d EXCEPT ![p] = a], m2, R \union {x}, l)
    BY <2>2, <2>10, PutStep
  <2>12. [o2 EXCEPT ![k] = [o2[k] EXCEPT ![a] = G!Put(@, x)]] = [o EXCEPT ![k] = [o[k] EXCEPT ![a] = G!Put(@, x)]]
    BY <2>8, <2>9
  <2> QED
    BY <2>11, <2>12
<1> QED
  BY <1>1, <1>2

\* A key is closed.
LEMMA CloseStep ==
    ASSUME NEW o, NEW d, NEW m, NEW R, NEW l, Batched(o, d, m, R, l), NEW k \in G!Policy,
           NEW m2, Adds(m, o[k], m2), NEW d2 \in [G!Points -> Nat],
           \A p \in G!Points : d2[p] = IF \E i \in DOMAIN o[k] : p \in o[k][i].points THEN 0 ELSE d[p]
    PROVE  Batched([o EXCEPT ![k] = << >>], d2, m2, R, l)
<1> DEFINE o2 == [o EXCEPT ![k] = << >>]
<1>0. BatchTypes(o, d, m, R, l)
  BY DEF Batched
<1>1. o \in [G!Policy -> Seq(LayerType)] /\ o[k] \in Seq(LayerType) /\ d \in [G!Points -> Nat]
  BY <1>0 DEF BatchTypes
<1>2. DOMAIN o[k] = 1 .. Len(o[k])
  BY <1>1
<1>3. << >> \in Seq(LayerType) /\ Len(<< >>) = 0
  OBVIOUS
<1>4. o2 \in [G!Policy -> Seq(LayerType)] /\ o2[k] = << >> /\ \A q \in G!Policy : q # k => o2[q] = o[q]
  BY <1>1, <1>3
<1>5. \A p \in G!Points : d2[p] = IF \E i \in 1 .. Len(o[k]) : p \in o[k][i].points THEN 0 ELSE d[p]
  BY <1>2
<1> HIDE DEF o2
<1>6. BatchTypes(o2, d2, m2, R, l)
  BY <1>0, <1>4 DEF BatchTypes, Adds
<1>7. Closing(o, d, k, o2, d2)
  BY <1>3, <1>4, <1>5 DEF Closing
<1>8. Batched(o2, d2, m2, R, l)
  BY <1>6, <1>7, CloseMoves
<1> QED
  BY <1>8 DEF o2

\* The inductive invariant of the grouped points: the table is such, and empty once it is flushed.
BatchInv ==
    /\ Batched(open, depth, out, readings, last_layer)
    /\ clock \in Nat /\ unit \in Nat /\ published_units \in Nat
    /\ phase = "flushed" => \A k \in G!Policy : Len(open[k]) = 0

\* The points of a key that is closed go back to the first layer, and no others.
LEMMA ResetType ==
    ASSUME BatchTypes(open, depth, out, readings, last_layer), NEW k \in G!Policy
    PROVE  /\ G!Reset(k) \in [G!Points -> Nat]
           /\ \A p \in G!Points :
                 G!Reset(k)[p] = IF \E i \in DOMAIN open[k] : p \in open[k][i].points THEN 0 ELSE depth[p]
BY DEF G!Reset, BatchTypes

\* A point of a key that is closed goes into the first layer.
LEMMA ResetsPoint ==
    ASSUME BatchTypes(open, depth, out, readings, last_layer), Layered(open, depth), NEW p \in G!Points
    PROVE  G!Reset(G!PolicyOf(p))[p] = 0
<1> DEFINE k == G!PolicyOf(p)
<1>1. k \in G!Policy /\ open[k] \in Seq(LayerType) /\ depth[p] \in Nat
  BY Policies DEF BatchTypes
<1>2. /\ depth[p] <= Len(open[k]) /\ Len(open[k]) \in Nat /\ DOMAIN open[k] = 1 .. Len(open[k])
      /\ \A i \in 1 .. Len(open[k]) : p \in open[k][i].points <=> i <= depth[p]
  BY <1>1 DEF Layered
<1>3. G!Reset(k)[p] = IF \E i \in DOMAIN open[k] : p \in open[k][i].points THEN 0 ELSE depth[p]
  BY <1>1, ResetType
<1>4. CASE depth[p] = 0
  BY <1>3, <1>4
<1>5. CASE depth[p] # 0
  <2>1. 1 \in 1 .. Len(open[k]) /\ p \in open[k][1].points
    BY <1>1, <1>2, <1>5
  <2> QED
    BY <2>1, <1>2, <1>3
<1> QED
  BY <1>4, <1>5

\* Taking a reading.
LEMMA OfferStep ==
    ASSUME BatchInv, NEW p \in G!Points, NEW ts \in 1 .. MaxTs, G!Offer(p, ts)
    PROVE  BatchInv'
<1> DEFINE k == G!PolicyOf(p)
           x == [point |-> p, id |-> Cardinality(readings) + 1]
           closes == G!Closes(p, ts)
           layers == IF closes THEN << >> ELSE open[k]
           before == IF closes THEN G!Reset(k) ELSE depth
           a == before[p] + 1
           new == a > Len(layers)
           y == G!NewLayer(p, ts)
           grown == IF new THEN Append(layers, y) ELSE layers
<1>1. /\ last_layer' = IF new /\ k = "frame" THEN G!LayerTime(p, ts) ELSE last_layer
      /\ G!Publish((IF closes THEN G!Closed(k) ELSE << >>) \o (IF G!Full(grown[a]) THEN <<grown[a]>> ELSE << >>))
      /\ open' = [open EXCEPT ![k] = [grown EXCEPT ![a] = G!Put(@, x)]]
      /\ depth' = [before EXCEPT ![p] = a]
      /\ readings' = readings \union {x}
      /\ clock' = clock /\ unit' = unit /\ phase' = phase /\ phase = "run"
  BY BatchCardinality DEF G!Offer
<1>2. /\ Batched(open, depth, out, readings, last_layer)
      /\ BatchTypes(open, depth, out, readings, last_layer)
      /\ clock \in Nat /\ unit \in Nat /\ published_units \in Nat
  BY DEF BatchInv, Batched
<1>3. published_units' \in Nat
  BY <1>1, <1>2, UnitsType
<1>4. /\ k \in G!Policy /\ open \in [G!Policy -> Seq(LayerType)] /\ open[k] \in Seq(LayerType)
      /\ out \in Seq(MessageType) /\ depth \in [G!Points -> Nat] /\ last_layer \in Nat
  BY <1>2, Policies DEF BatchTypes
<1>5. /\ y \in LayerType /\ y.part = {} /\ y.points = {} /\ y.time = G!LayerTime(p, ts)
      /\ k = "frame" => y.time > last_layer
  BY <1>2, NewLayerType
<1> HIDE DEF closes, y
\* The reading is put into layers that are what they should be.
<1>6. ASSUME NEW o, NEW m, NEW l, Batched(o, before, m, readings, l), l = last_layer',
             o[k] = grown, \A z : [o EXCEPT ![k] = z] = [open EXCEPT ![k] = z],
             IF G!Full(grown[a]) THEN Adds(m, <<grown[a]>>, out') ELSE out' = m, a \in 1 .. Len(grown)
      PROVE  BatchInv'
  <2>1. Batched([o EXCEPT ![k] = [o[k] EXCEPT ![a] = G!Put(@, x)]], [before EXCEPT ![p] = a], out',
                readings \union {x}, l)
    <3> HIDE DEF before, grown
    <3> DEFINE b == a
    <3>1. b \in 1 .. Len(o[G!PolicyOf(p)]) /\ b = before[p] + 1
      BY <1>6
    <3>2. IF G!Full(o[G!PolicyOf(p)][b]) THEN Adds(m, <<o[G!PolicyOf(p)][b]>>, out') ELSE out' = m
      BY <1>6
    <3> HIDE DEF b, x
    <3>3. x = [point |-> p, id |-> Cardinality(readings) + 1]
      BY DEF x
    <3>4. Batched([o EXCEPT ![G!PolicyOf(p)] = [o[G!PolicyOf(p)] EXCEPT ![b] = G!Put(@, x)]],
                  [before EXCEPT ![p] = b], out', readings \union {x}, l)
      BY <1>6, <3>1, <3>2, <3>3, PutOrSplit
    <3> QED
      BY <3>4 DEF b
  <2>2. Batched(open', depth', out', readings', last_layer')
    BY <2>1, <1>1, <1>6
  <2> QED
    BY <2>2, <1>1, <1>2, <1>3 DEF BatchInv
\* A new layer, if there is one.
<1>7. ASSUME NEW o, NEW m, Batched(o, before, m, readings, last_layer), o[k] = layers,
             \A z : [o EXCEPT ![k] = z] = [open EXCEPT ![k] = z], layers \in Seq(LayerType),
             IF G!Full(grown[a]) THEN Adds(m, <<grown[a]>>, out') ELSE out' = m
      PROVE  BatchInv'
  <2>1. before[p] \in Nat /\ before[p] <= Len(layers) /\ Len(layers) \in Nat
    BY <1>7 DEF Batched, BatchTypes, Layered
  <2>2. CASE new
    <3>1. grown = Append(layers, y) /\ Len(grown) = Len(layers) + 1 /\ a \in 1 .. Len(grown)
      BY <2>1, <2>2, <1>5, <1>7
    <3> DEFINE o2 == [o EXCEPT ![k] = Append(o[k], y)]
               l2 == IF k = "frame" THEN y.time ELSE last_layer
    <3>2. Batched(o2, before, m, readings, l2)
      BY <1>4, <1>5, <1>7, GrowStep
    <3>3. l2 = last_layer'
      BY <2>2, <1>1, <1>5
    <3>4. o \in [G!Policy -> Seq(LayerType)]
      BY <1>7 DEF Batched, BatchTypes
    <3>5. o2[k] = grown
      BY <3>1, <3>4, <1>4, <1>7
    <3>6. ASSUME NEW z PROVE [o2 EXCEPT ![k] = z] = [open EXCEPT ![k] = z]
      <4>1. [o2 EXCEPT ![k] = z] = [o EXCEPT ![k] = z]
        BY <3>4, <1>4, ExceptTwice
      <4> QED
        BY <4>1, <1>7
    <3> HIDE DEF o2, l2
    <3> QED
      BY <3>1, <3>2, <3>3, <3>5, <3>6, <1>6, <1>7
  <2>3. CASE ~new
    <3>1. grown = layers /\ a \in 1 .. Len(grown) /\ last_layer = last_layer'
      BY <2>1, <2>3, <1>1
    <3> QED
      BY <3>1, <1>6, <1>7
  <2> QED
    BY <2>2, <2>3
<1>8. CASE closes
  <2> DEFINE o == [open EXCEPT ![k] = << >>]
  <2>1. layers = << >> /\ before = G!Reset(k) /\ layers \in Seq(LayerType) /\ Len(layers) = 0
    BY <1>8
  <2>2. before = [q \in G!Points |-> IF \E i \in DOMAIN open[k] : q \in open[k][i].points THEN 0 ELSE depth[q]]
    BY <2>1 DEF G!Reset
  <2> HIDE DEF before
  <2>3. before[p] \in Nat
    BY <2>2, <1>4
  <2>4. new /\ grown = <<y>>
    <3>1. a > 0
      BY <2>3
    <3>2. Append(<< >>, y) = <<y>>
      OBVIOUS
    <3> QED
      BY <2>1, <3>1, <3>2
  <2>5. ~G!Full(grown[a])
    <3>1. before[p] = 0
      BY <2>1, <1>2, ResetsPoint DEF Batched
    <3>2. grown[a] = y
      BY <3>1, <2>4
    <3> QED
      BY <3>2, <1>5 DEF G!Full
  <2>6. G!Publish(open[k])
    <3>1. (IF closes THEN G!Closed(k) ELSE << >>) \o (IF G!Full(grown[a]) THEN <<grown[a]>> ELSE << >>) = open[k] \o << >>
      BY <1>8, <2>5 DEF G!Closed
    <3>2. open[k] \o << >> = open[k]
      BY <1>4
    <3> QED
      BY <1>1, <3>1, <3>2
  <2>7. Adds(out, open[k], out')
    BY <2>6, <1>3, <1>4, PublishAdds
  <2>8. Batched(o, before, out', readings, last_layer)
    <3>1. /\ before \in [G!Points -> Nat]
          /\ \A q \in G!Points :
                before[q] = IF \E i \in DOMAIN open[k] : q \in open[k][i].points THEN 0 ELSE depth[q]
      BY <2>2, <1>4
    <3> QED
      BY <3>1, <2>7, <1>2, <1>4, CloseStep
  <2>9. o[k] = layers /\ \A z : [o EXCEPT ![k] = z] = [open EXCEPT ![k] = z]
    BY <2>1, <1>4, ExceptTwice
  <2> HIDE DEF o
  <2> QED
    BY <2>1, <2>5, <2>8, <2>9, <1>7
<1>9. CASE ~closes
  <2>1. layers = open[k] /\ before = depth
    BY <1>9
  <2>2. G!Publish(IF G!Full(grown[a]) THEN <<grown[a]>> ELSE << >>)
    <3>1. ASSUME NEW z, z = << >> \/ z = <<grown[a]>> PROVE << >> \o z = z
      BY <3>1
    <3> QED
      BY <1>1, <1>9, <3>1
  <2>3. IF G!Full(grown[a]) THEN Adds(out, <<grown[a]>>, out') ELSE out' = out
    <3>1. CASE G!Full(grown[a])
      <4>1. before[p] \in Nat /\ before[p] <= Len(layers) /\ Len(layers) \in Nat
        BY <2>1, <1>2, <1>4 DEF Batched, Layered
      <4>2. grown \in Seq(LayerType) /\ a \in 1 .. Len(grown)
        BY <4>1, <2>1, <1>4, <1>5
      <4>3. <<grown[a]>> \in Seq(LayerType)
        BY <4>2
      <4> HIDE DEF grown, a
      <4> QED
        BY <3>1, <4>3, <2>2, <1>3, <1>4, PublishAdds
    <3>2. CASE ~G!Full(grown[a])
      <4>1. << >> \in Seq(LayerType) /\ Len(<< >>) = 0
        OBVIOUS
      <4>2. Adds(out, << >>, out')
        BY <3>2, <4>1, <2>2, <1>3, <1>4, PublishAdds
      <4>3. out' \in Seq(MessageType) /\ Len(out') = Len(out) /\ \A i \in 1 .. Len(out) : out'[i] = out[i]
        BY <4>1, <4>2, <1>4 DEF Adds
      <4> QED
        BY <3>2, <4>3, <1>4, SameSequence
    <3> QED
      BY <3>1, <3>2
  <2> QED
    BY <2>1, <2>3, <1>2, <1>4, <1>7
<1> QED
  BY <1>8, <1>9

\* Closing the open messages of one key.
LEMMA CloseOne ==
    ASSUME BatchInv, NEW k \in G!Policy, G!Publish(G!Closed(k)), depth' = G!Reset(k),
           open' = [open EXCEPT ![k] = << >>], UNCHANGED <<clock, last_layer, unit, readings, phase>>,
           phase = "run"
    PROVE  BatchInv'
<1>1. /\ Batched(open, depth, out, readings, last_layer)
      /\ BatchTypes(open, depth, out, readings, last_layer)
      /\ clock \in Nat /\ unit \in Nat /\ published_units \in Nat
  BY DEF BatchInv, Batched
<1>2. published_units' \in Nat
  BY <1>1, UnitsType
<1>3. open[k] \in Seq(LayerType) /\ out \in Seq(MessageType) /\ G!Closed(k) = open[k]
  BY <1>1 DEF BatchTypes, G!Closed
<1>4. Adds(out, open[k], out')
  BY <1>2, <1>3, PublishAdds
<1>5. Batched(open', depth', out', readings, last_layer)
  BY <1>1, <1>4, ResetType, CloseStep
<1> QED
  BY <1>1, <1>2, <1>5 DEF BatchInv

\* Messages are added one batch after the other.
LEMMA AddsTwice ==
    ASSUME NEW m \in Seq(MessageType), NEW s \in Seq(LayerType), NEW t \in Seq(LayerType), NEW m2,
           Adds(m, s \o t, m2)
    PROVE  \E n : Adds(m, s, n) /\ Adds(n, t, m2)
<1> DEFINE n == [i \in 1 .. Len(m) + Len(s) |-> m2[i]]
<1>1. Len(m) \in Nat /\ Len(s) \in Nat /\ Len(t) \in Nat /\ Len(s \o t) = Len(s) + Len(t)
  OBVIOUS
<1>2. /\ m2 \in Seq(MessageType) /\ Len(m2) = Len(m) + Len(s \o t)
      /\ \A i \in 1 .. Len(m) : m2[i] = m[i]
      /\ \A i \in 1 .. Len(s \o t) :
            m2[Len(m) + i].series = (s \o t)[i].part /\ m2[Len(m) + i].time = (s \o t)[i].time
  BY DEF Adds
<1>3. \A i \in 1 .. Len(m) + Len(s) : m2[i] \in MessageType
  BY <1>1, <1>2
<1>4. n \in Seq(MessageType) /\ Len(n) = Len(m) + Len(s) /\ \A i \in 1 .. Len(m) + Len(s) : n[i] = m2[i]
  BY <1>1, <1>3
<1> HIDE DEF n
<1>5. ASSUME NEW i \in 1 .. Len(s)
      PROVE  n[Len(m) + i].series = s[i].part /\ n[Len(m) + i].time = s[i].time
  <2>1. i \in 1 .. Len(s \o t) /\ (s \o t)[i] = s[i] /\ Len(m) + i \in 1 .. Len(m) + Len(s)
    BY <1>1
  <2> QED
    BY <2>1, <1>2, <1>4
<1>6. ASSUME NEW i \in 1 .. Len(t)
      PROVE  m2[Len(n) + i].series = t[i].part /\ m2[Len(n) + i].time = t[i].time
  <2>1. Len(s) + i \in 1 .. Len(s \o t) /\ Len(n) + i = Len(m) + (Len(s) + i)
    BY <1>1, <1>4
  <2>2. (s \o t)[Len(s) + i] = t[i]
    BY <1>1
  <2> QED
    BY <2>1, <2>2, <1>2
<1>7. Adds(m, s, n)
  BY <1>1, <1>2, <1>4, <1>5 DEF Adds
<1>8. Adds(n, t, m2)
  BY <1>1, <1>2, <1>4, <1>6 DEF Adds
<1> QED
  BY <1>7, <1>8

\* Closing both keys.
LEMMA FlushStep ==
    ASSUME BatchInv, G!FlushAll
    PROVE  BatchInv'
<1>1. /\ Batched(open, depth, out, readings, last_layer)
      /\ BatchTypes(open, depth, out, readings, last_layer)
      /\ clock \in Nat /\ unit \in Nat /\ published_units \in Nat
  BY DEF BatchInv, Batched
<1>2. /\ G!Publish(open["time"] \o open["frame"]) /\ open' = [k \in G!Policy |-> << >>]
      /\ depth' = [p \in G!Points |-> 0]
      /\ clock' = clock /\ last_layer' = last_layer /\ unit' = unit /\ readings' = readings
  BY DEF G!FlushAll, G!Closed
<1>3. /\ "time" \in G!Policy /\ "frame" \in G!Policy /\ \A k \in G!Policy : k = "time" \/ k = "frame"
  BY Policies
<1>4. /\ open["time"] \in Seq(LayerType) /\ open["frame"] \in Seq(LayerType)
      /\ out \in Seq(MessageType) /\ open \in [G!Policy -> Seq(LayerType)]
      /\ open["time"] \o open["frame"] \in Seq(LayerType)
  BY <1>1, <1>3 DEF BatchTypes
<1>5. published_units' \in Nat
  BY <1>1, <1>2, UnitsType
<1>6. Adds(out, open["time"] \o open["frame"], out')
  BY <1>2, <1>4, <1>5, PublishAdds
<1>7. PICK n : Adds(out, open["time"], n) /\ Adds(n, open["frame"], out')
  BY <1>4, <1>6, AddsTwice
<1> DEFINE o == [open EXCEPT !["time"] = << >>]
           d == G!Reset("time")
<1>8. Batched(o, d, n, readings, last_layer)
  BY <1>1, <1>3, <1>7, ResetType, CloseStep
<1>9. o["frame"] = open["frame"] /\ o["time"] = << >> /\ o \in [G!Policy -> Seq(LayerType)]
  BY <1>3, <1>4
<1> HIDE DEF o, d
<1>10. \A p \in G!Points : depth'[p] = IF \E i \in DOMAIN o["frame"] : p \in o["frame"][i].points THEN 0 ELSE d[p]
  <2> SUFFICES ASSUME NEW p \in G!Points, ~\E i \in DOMAIN o["frame"] : p \in o["frame"][i].points
               PROVE  d[p] = 0
    BY <1>2
  <2>1. /\ d[p] \in Nat /\ d[p] <= Len(o[G!PolicyOf(p)])
        /\ \A i \in 1 .. Len(o[G!PolicyOf(p)]) : p \in o[G!PolicyOf(p)][i].points <=> i <= d[p]
    BY <1>8 DEF Batched, BatchTypes, Layered
  <2>2. Len(o["time"]) = 0 /\ DOMAIN o["frame"] = 1 .. Len(o["frame"]) /\ Len(o["frame"]) \in Nat
    BY <1>4, <1>9
  <2>3. CASE G!PolicyOf(p) = "time"
    BY <2>1, <2>2, <2>3
  <2>4. CASE G!PolicyOf(p) = "frame"
    <3>1. d[p] # 0 => 1 \in 1 .. Len(o["frame"]) /\ p \in o["frame"][1].points
      BY <2>1, <2>2, <2>4
    <3> QED
      BY <3>1, <2>2
  <2> QED
    BY <2>3, <2>4, <1>3, Policies
<1>11. depth' \in [G!Points -> Nat]
  BY <1>2
<1>12. Batched([o EXCEPT !["frame"] = << >>], depth', out', readings, last_layer)
  BY <1>3, <1>7, <1>8, <1>9, <1>10, <1>11, CloseStep
<1>13. [o EXCEPT !["frame"] = << >>] = open'
  BY <1>2, <1>3, <1>9, Policies
<1>14. \A k \in G!Policy : Len(open'[k]) = 0
  BY <1>2
<1> QED
  BY <1>1, <1>2, <1>5, <1>12, <1>13, <1>14 DEF BatchInv

\* A table that is rebuilt has no layers, messages or readings.
LEMMA RebuildStep ==
    ASSUME BatchInv, G!Rebuild
    PROVE  BatchInv'
<1>1. /\ BatchTypes(open, depth, out, readings, last_layer) /\ Layered(open, depth)
      /\ clock \in Nat /\ published_units \in Nat
      /\ \A k \in G!Policy : Len(open[k]) = 0
  BY DEF BatchInv, Batched, G!Rebuild
<1>2. /\ open' = open /\ depth' = depth /\ out' = << >> /\ readings' = {} /\ last_layer' = 0
      /\ clock' = clock /\ published_units' = published_units /\ unit' \in {0, 1} /\ phase' = "run"
  BY DEF G!Rebuild
<1>3. << >> \in Seq(MessageType) /\ Len(<< >>) = 0
  OBVIOUS
<1>4. BatchTypes(open, depth, << >>, {}, 0)
  BY <1>1, <1>3 DEF BatchTypes
<1>5. Numbered({})
  BY FS_EmptySet DEF Numbered
<1>6. Once(open, << >>, {})
  BY <1>1, <1>3 DEF Once
<1>7. Ascend(open, depth, << >>, {}, 0)
  BY <1>1, Policies DEF Ascend
<1>8. Batched(open, depth, << >>, {}, 0)
  BY <1>1, <1>4, <1>5, <1>6, <1>7 DEF Batched
<1>9. Batched(open', depth', out', readings', last_layer')
  BY <1>2, <1>8
<1>10. clock' \in Nat /\ unit' \in Nat /\ published_units' \in Nat
  BY <1>1, <1>2
<1> QED
  BY <1>2, <1>9, <1>10 DEF BatchInv

\* Neither time nor a sampled point touches the grouped ones.
LEMMA OtherStep ==
    ASSUME BatchInv, clock' \in Nat,
           UNCHANGED <<open, depth, out, readings, last_layer, unit, published_units, phase>>
    PROVE  BatchInv'
BY DEF BatchInv

\* What is published and what waits stays complete in every step.
LEMMA BatchStep == ASSUME BatchInv, [G!Next]_G!vars PROVE BatchInv'
<1>0. clock \in Nat
  BY DEF BatchInv
<1>1. ASSUME NEW p \in G!Points, NEW ts \in 1 .. MaxTs, G!Offer(p, ts) PROVE BatchInv'
  BY <1>1, OfferStep
<1>2. ASSUME NEW v, G!OfferSampled(v) PROVE BatchInv'
  BY <1>2 DEF G!OfferSampled
<1>3. CASE G!SetStale
  BY <1>3 DEF G!SetStale
<1>4. CASE G!Tick
  BY <1>4, <1>0, OtherStep DEF G!Tick
<1>5. CASE G!EndOfPass
  BY <1>5, CloseOne, Policies DEF G!EndOfPass
<1>6. CASE G!Due
  <2>1. phase = "run" /\ UNCHANGED <<clock, last_layer, unit, readings, phase>>
    BY <1>6 DEF G!Due
  <2>2. \/ /\ G!Publish(G!Closed("frame")) /\ depth' = G!Reset("frame")
           /\ open' = [open EXCEPT !["frame"] = << >>]
        \/ UNCHANGED <<open, depth, out, published_units>>
    BY <1>6 DEF G!Due
  <2> QED
    BY <2>1, <2>2, <1>0, CloseOne, OtherStep, Policies
<1>7. CASE G!FlushAll
  BY <1>7, FlushStep
<1>8. CASE G!Rebuild
  BY <1>8, RebuildStep
<1>9. CASE UNCHANGED G!vars
  BY <1>9, <1>0, OtherStep DEF G!vars
<1> QED
  BY <1>1, <1>2, <1>3, <1>4, <1>5, <1>6, <1>7, <1>8, <1>9 DEF G!Next

\* A table begins empty.
LEMMA BatchInit == ASSUME G!Init PROVE BatchInv
<1>1. /\ open = [k \in G!Policy |-> << >>] /\ depth = [p \in G!Points |-> 0] /\ last_layer = 0
      /\ out = << >> /\ readings = {} /\ clock = 0 /\ unit = 1 /\ published_units = 0 /\ phase = "run"
  BY DEF G!Init
<1>2. /\ << >> \in Seq(MessageType) /\ << >> \in Seq(LayerType) /\ Len(<< >>) = 0
      /\ 0 \in Nat
  OBVIOUS
<1>3. /\ \A k \in G!Policy : open[k] = << >> /\ Len(open[k]) = 0
      /\ \A p \in G!Points : depth[p] = 0
      /\ "frame" \in G!Policy
  BY <1>1, <1>2, Policies
<1>4. BatchTypes(open, depth, out, readings, last_layer)
  BY <1>1, <1>2 DEF BatchTypes
<1>5. Numbered(readings)
  BY <1>1, FS_EmptySet DEF Numbered
<1>6. Layered(open, depth)
  BY <1>3, Policies DEF Layered
<1>7. Once(open, out, readings)
  BY <1>1, <1>2, <1>3 DEF Once
<1>8. Ascend(open, depth, out, readings, last_layer)
  BY <1>1, <1>2, <1>3 DEF Ascend
<1> QED
  BY <1>1, <1>4, <1>5, <1>6, <1>7, <1>8 DEF BatchInv, Batched

\* Every layer that is opened is filled in the same step.
LEMMA FilledStep == ASSUME BatchInv, G!LayersFilled, [G!Next]_G!vars PROVE G!LayersFilled'
<1>0. /\ open \in [G!Policy -> Seq(LayerType)]
      /\ \A k \in G!Policy : \A i \in 1 .. Len(open[k]) : open[k][i].part # {}
      /\ \A k \in G!Policy : DOMAIN open[k] = 1 .. Len(open[k])
  <2>1. open \in [G!Policy -> Seq(LayerType)]
    BY DEF BatchInv, Batched, BatchTypes
  <2>2. \A k \in G!Policy : DOMAIN open[k] = 1 .. Len(open[k])
    BY <2>1
  <2>3. \A k \in G!Policy : \A i \in DOMAIN open[k] : open[k][i].part # {}
    BY DEF G!LayersFilled
  <2> QED
    BY <2>1, <2>2, <2>3
<1>c. ASSUME NEW k \in G!Policy, open' = [open EXCEPT ![k] = << >>] PROVE G!LayersFilled'
  <2>1. \A q \in G!Policy : open'[q] = open[q] \/ open'[q] = << >>
    BY <1>c, <1>0
  <2> QED
    BY <2>1 DEF G!LayersFilled
<1>u. ASSUME open' = open PROVE G!LayersFilled'
  BY <1>u DEF G!LayersFilled
<1>1. ASSUME NEW p \in G!Points, NEW ts \in 1 .. MaxTs, G!Offer(p, ts) PROVE G!LayersFilled'
  <2> DEFINE k == G!PolicyOf(p)
             x == [point |-> p, id |-> Cardinality(readings) + 1]
             closes == G!Closes(p, ts)
             layers == IF closes THEN << >> ELSE open[k]
             before == IF closes THEN G!Reset(k) ELSE depth
             a == before[p] + 1
             y == G!NewLayer(p, ts)
             grown == IF a > Len(layers) THEN Append(layers, y) ELSE layers
             filled == [grown EXCEPT ![a] = G!Put(@, x)]
  <2>1. open' = [open EXCEPT ![k] = filled]
    BY <1>1, BatchCardinality DEF G!Offer
  <2>2. /\ k \in G!Policy /\ open[k] \in Seq(LayerType) /\ y \in LayerType
        /\ depth \in [G!Points -> Nat] /\ depth[p] <= Len(open[k])
    BY NewLayerType, Policies DEF BatchInv, Batched, BatchTypes, Layered
  <2> HIDE DEF y
  <2>3. layers \in Seq(LayerType) /\ \A i \in 1 .. Len(layers) : layers[i].part # {}
    <3>1. CASE closes
      BY <3>1
    <3>2. CASE ~closes
      BY <3>2, <2>2, <1>0
    <3> QED
      BY <3>1, <3>2
  <2>4. before[p] \in Nat /\ before[p] <= Len(layers)
    <3>1. CASE closes
      <4>1. before[p] = 0 /\ Len(layers) = 0
        BY <3>1, ResetsPoint DEF BatchInv, Batched
      <4> QED
        BY <4>1
    <3>2. CASE ~closes
      BY <3>2, <2>2
    <3> QED
      BY <3>1, <3>2
  <2> HIDE DEF layers, before
  <2>5. /\ grown \in Seq(LayerType) /\ a \in 1 .. Len(grown)
        /\ \A i \in 1 .. Len(grown) : i # a => grown[i].part # {}
    <3>1. CASE a > Len(layers)
      <4>1. grown = Append(layers, y) /\ Len(grown) = Len(layers) + 1 /\ a = Len(layers) + 1
        BY <3>1, <2>2, <2>3, <2>4
      <4>2. \A i \in 1 .. Len(layers) : grown[i] = layers[i]
        BY <4>1, <2>2, <2>3
      <4>3. grown \in Seq(LayerType) /\ Len(layers) \in Nat
        BY <4>1, <2>2, <2>3
      <4> HIDE DEF grown, a
      <4> QED
        BY <4>1, <4>2, <4>3, <2>3
    <3>2. CASE ~(a > Len(layers))
      BY <3>2, <2>3, <2>4
    <3> QED
      BY <3>1, <3>2
  <2>6. G!Put(grown[a], x).part # {}
    <3>1. grown[a] \in LayerType
      BY <2>5
    <3>2. x \in G!Put(grown[a], x).part
      <4> HIDE DEF grown, a, x
      <4> QED
        BY <3>1 DEF G!Put, LayerType
    <3> QED
      BY <3>2
  <2> HIDE DEF grown, a, x
  <2>7. /\ DOMAIN filled = 1 .. Len(grown) /\ filled[a] = G!Put(grown[a], x)
        /\ \A i \in 1 .. Len(grown) : i # a => filled[i] = grown[i]
    BY <2>5
  <2> HIDE DEF filled
  <2>8. open'[k] = filled /\ \A q \in G!Policy : q # k => open'[q] = open[q]
    BY <2>1, <2>2, <1>0
  <2>9. \A i \in DOMAIN filled : filled[i].part # {}
    BY <2>5, <2>6, <2>7
  <2> QED
    BY <2>8, <2>9 DEF G!LayersFilled
<1>2. ASSUME NEW v, G!OfferSampled(v) PROVE G!LayersFilled'
  BY <1>2 DEF G!OfferSampled
<1>3. CASE G!SetStale
  BY <1>3 DEF G!SetStale
<1>4. CASE G!Tick
  BY <1>4, <1>u DEF G!Tick
<1>5. CASE G!EndOfPass
  BY <1>5, <1>c, Policies DEF G!EndOfPass
<1>6. CASE G!Due
  <2>1. open' = [open EXCEPT !["frame"] = << >>] \/ open' = open
    BY <1>6 DEF G!Due
  <2> QED
    BY <2>1, <1>c, <1>u, Policies
<1>7. CASE G!FlushAll
  BY <1>7 DEF G!FlushAll, G!LayersFilled
<1>8. CASE G!Rebuild
  BY <1>8, <1>u DEF G!Rebuild
<1>9. CASE UNCHANGED G!vars
  BY <1>9, <1>u DEF G!vars
<1> QED
  BY <1>1, <1>2, <1>3, <1>4, <1>5, <1>6, <1>7, <1>8, <1>9 DEF G!Next

\* A set and its numbering by a function into another set have as many elements.
LEMMA SameCount ==
    ASSUME NEW S, NEW T, IsFiniteSet(T), NEW f \in [S -> T],
           \A a, b \in S : f[a] = f[b] => a = b, \A t \in T : \E s \in S : f[s] = t
    PROVE  Cardinality(S) = Cardinality(T)
<1>1. f \in Injection(S, T) /\ f \in Surjection(S, T)
  BY DEF Injection, Surjection, IsInjective
<1> QED
  BY <1>1, FS_Injection

\* The readings published and those that wait are all readings, each in one place.
LEMMA InvOnce == ASSUME BatchInv PROVE G!EachOnce
<1>0. /\ BatchTypes(open, depth, out, readings, last_layer) /\ Numbered(readings)
      /\ Once(open, out, readings)
      /\ phase = "flushed" => \A k \in G!Policy : Len(open[k]) = 0
  BY DEF BatchInv, Batched
<1>1. DOMAIN out = 1 .. Len(out) /\ \A k \in G!Policy : DOMAIN open[k] = 1 .. Len(open[k])
  BY <1>0 DEF BatchTypes
<1> DEFINE P == {s[2] : s \in G!Series}
           W == G!Waiting
<1>2. \A s : s \in G!Series <=> \E i \in 1 .. Len(out) : \E r \in out[i].series : s = <<i, r>>
  BY <1>1 DEF G!Series
<1>3. \A r : r \in P <=> \E i \in 1 .. Len(out) : r \in out[i].series
  <2>1. ASSUME NEW r, r \in P PROVE \E i \in 1 .. Len(out) : r \in out[i].series
    <3>1. PICK s \in G!Series : r = s[2]
      BY <2>1
    <3>2. PICK i \in 1 .. Len(out) : \E q \in out[i].series : s = <<i, q>>
      BY <1>2
    <3> QED
      BY <3>1, <3>2
  <2>2. ASSUME NEW r, NEW i \in 1 .. Len(out), r \in out[i].series PROVE r \in P
    <3>1. <<i, r>> \in G!Series /\ <<i, r>>[2] = r
      BY <2>2, <1>2
    <3> QED
      BY <3>1
  <2> QED
    BY <2>1, <2>2
<1>4. \A r : r \in W <=> \E k \in G!Policy : \E i \in 1 .. Len(open[k]) : r \in open[k][i].part
  BY <1>1 DEF G!Waiting
<1>5. P \union W = readings
  <2> HIDE DEF P, W
  <2>1. \A r \in P : r \in readings
    BY <1>0, <1>3 DEF Once
  <2>2. \A r \in W : r \in readings
    BY <1>0, <1>4 DEF Once
  <2>3. \A r \in readings : r \in P \/ r \in W
    BY <1>0, <1>3, <1>4 DEF Once
  <2> QED
    BY <2>1, <2>2, <2>3
<1>6. P \intersect W = {}
  BY <1>0, <1>3, <1>4 DEF Once
<1>7. IsFiniteSet(readings) /\ IsFiniteSet(P) /\ IsFiniteSet(W)
  <2>1. P \in SUBSET readings /\ W \in SUBSET readings /\ IsFiniteSet(readings)
    BY <1>0, <1>5 DEF Numbered
  <2> HIDE DEF P, W
  <2> QED
    BY <2>1, FS_Subset
<1>8. Cardinality(G!Series) = Cardinality(P)
  <2> DEFINE f == [s \in G!Series |-> s[2]]
  <2>1. f \in [G!Series -> P]
    OBVIOUS
  <2>2. \A a, b \in G!Series : f[a] = f[b] => a = b
    <3> SUFFICES ASSUME NEW a \in G!Series, NEW b \in G!Series, a[2] = b[2] PROVE a = b
      OBVIOUS
    <3>1. PICK i \in 1 .. Len(out) : \E r \in out[i].series : a = <<i, r>>
      BY <1>2
    <3>2. PICK j \in 1 .. Len(out) : \E r \in out[j].series : b = <<j, r>>
      BY <1>2
    <3>3. a = <<i, a[2]>> /\ a[2] \in out[i].series /\ b = <<j, b[2]>> /\ b[2] \in out[j].series
      BY <3>1, <3>2
    <3>4. i = j
      BY <3>3, <1>0 DEF Once
    <3> QED
      BY <3>3, <3>4
  <2>3. \A t \in P : \E s \in G!Series : f[s] = t
    OBVIOUS
  <2> HIDE DEF f, P
  <2> QED
    BY <2>1, <2>2, <2>3, <1>7, SameCount
<1>9. Cardinality(P \union W) = Cardinality(P) + Cardinality(W)
  <2> HIDE DEF P, W
  <2>1. Cardinality(P \union W) = Cardinality(P) + Cardinality(W) - Cardinality({})
    BY <1>6, <1>7, FS_Union
  <2>2. Cardinality({}) = 0 /\ Cardinality(P) \in Nat /\ Cardinality(W) \in Nat
    BY <1>7, FS_EmptySet, FS_CardinalityType
  <2> QED
    BY <2>1, <2>2
<1>10. G!Cardinality(G!Series) + G!Cardinality(G!Waiting) = G!Cardinality(readings)
  <2> HIDE DEF P
  <2> QED
    BY <1>5, <1>8, <1>9, BatchCardinality
<1>11. phase = "flushed" => G!Waiting = {}
  BY <1>0, <1>4
<1>12. \A i \in DOMAIN out : \A a, b \in out[i].series : a.point = b.point => a = b
  BY <1>0, <1>1 DEF Once
<1> QED
  BY <1>5, <1>10, <1>11, <1>12 DEF G!EachOnce

\* The times of a frame point's messages are in the order of its readings.
LEMMA InvOrder == ASSUME BatchInv PROVE G!FrameOrder
<1>0. /\ BatchTypes(open, depth, out, readings, last_layer)
      /\ Once(open, out, readings) /\ Ascend(open, depth, out, readings, last_layer)
  BY DEF BatchInv, Batched
<1>1. DOMAIN out = 1 .. Len(out) /\ \A i \in 1 .. Len(out) : out[i].time \in Nat
  <2>1. out \in Seq(MessageType)
    BY <1>0 DEF BatchTypes
  <2>2. \A i \in 1 .. Len(out) : out[i] \in MessageType
    BY <2>1
  <2>3. \A x \in MessageType : x.time \in Nat
    BY DEF MessageType
  <2> QED
    BY <2>1, <2>2, <2>3
<1>2. \A s \in G!Series : /\ s[1] \in 1 .. Len(out) /\ s[2] \in out[s[1]].series
                          /\ s[2] \in readings /\ At(open, out, s[2], out[s[1]].time)
  <2> SUFFICES ASSUME NEW s \in G!Series
               PROVE  /\ s[1] \in 1 .. Len(out) /\ s[2] \in out[s[1]].series
                      /\ s[2] \in readings /\ At(open, out, s[2], out[s[1]].time)
    OBVIOUS
  <2>1. PICK i \in 1 .. Len(out) : s \in {<<i, r>> : r \in out[i].series}
    BY <1>1 DEF G!Series
  <2>2. s[1] = i /\ s[2] \in out[i].series
    BY <2>1
  <2>3. s[2] \in readings
    BY <2>2, <1>0 DEF Once
  <2>4. At(open, out, s[2], out[i].time)
    BY <2>2 DEF At
  <2> QED
    BY <2>2, <2>3, <2>4
<1>3. ASSUME NEW x \in G!Series, NEW y \in G!Series,
             x[2].point \in FramePoint, x[2].point = y[2].point, x[2].id < y[2].id
      PROVE  out[x[1]].time < out[y[1]].time
  <2>1. out[x[1]].time \in Nat /\ out[y[1]].time \in Nat
    BY <1>1, <1>2
  <2> QED
    BY <2>1, <1>0, <1>2, <1>3 DEF Ascend
<1> QED
  BY <1>3 DEF G!FrameOrder

\* Measurements, however many points, readings and layers: a reading is published in one message or
\* waits in an open one, and a frame point's messages are in the order of its readings.
THEOREM EachReadingOnce == G!Spec => []MeasuredOnce
<1>1. G!Init => BatchInv /\ G!LayersFilled
  <2> SUFFICES ASSUME G!Init PROVE BatchInv /\ G!LayersFilled
    OBVIOUS
  <2>1. \A k \in G!Policy : open[k] = << >>
    BY DEF G!Init
  <2>2. G!LayersFilled
    BY <2>1 DEF G!LayersFilled
  <2> QED
    BY <2>2, BatchInit
<1>2. BatchInv /\ G!LayersFilled /\ [G!Next]_G!vars => (BatchInv /\ G!LayersFilled)'
  BY BatchStep, FilledStep
<1>3. BatchInv /\ G!LayersFilled => MeasuredOnce
  BY InvOnce, InvOrder DEF MeasuredOnce
<1> QED
  BY <1>1, <1>2, <1>3, PTL DEF G!Spec
=============================================================================

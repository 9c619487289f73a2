------------------------------ MODULE OpcUaRead ------------------------------
(***************************************************************************)
(* A polling read of an OPC UA device (read_models and                     *)
(* read_in_blocks_pipelined in connector-opcua/src/lib.rs): the nodes are  *)
(* read in blocks, several in flight as the endpoint's budget allows; a    *)
(* busy server, a timeout, a refused block and a lost link are told apart. *)
(***************************************************************************)
EXTENDS Naturals, SequencesExt

CONSTANTS
    Nodes,        \* how many nodes are read
    BlockSize,    \* nodes per Read (nodes_per_read)
    MaxInFlight,  \* the largest budget of the endpoint
    BusyRetries   \* how often a block is sent again (BUSY_RETRIES, 8)

VARIABLES
    blocks,   \* the blocks to send: [start, tries], the next one first
    running,  \* the blocks in flight
    result,   \* per node: "none", "value" or "error"
    lost,     \* whether the link was found lost
    any_ok,   \* whether a block was answered with values
    sent,     \* history: Reads sent after the link was found lost
    answer    \* "none", "samples", or "link lost" with the samples read

vars == <<blocks, running, result, lost, any_ok, sent, answer>>

Node == 1 .. Nodes
\* nodes_per_read: the block size of a session, never 0.
Block == IF BlockSize = 0 THEN 1 ELSE BlockSize
Of(b) == {n \in Node : n \in b.start + 1 .. b.start + Block}

Init ==
    /\ blocks = [i \in 1 .. (Nodes + Block - 1) \div Block |-> [start |-> (i - 1) * Block, tries |-> 0]]
    /\ running = {}
    /\ result = [n \in Node |-> "none"]
    /\ lost = FALSE /\ any_ok = FALSE /\ sent = 0
    /\ answer = "none"

\* Mutant: blocks are sent although the link is lost.
Send_AfterLoss ==
    /\ answer = "none" /\ blocks # << >>
    /\ \E budget \in 1 .. MaxInFlight : Cardinality(running) < budget
    /\ running' = running \union {Head(blocks)}
    /\ blocks' = Tail(blocks)
    /\ sent' = IF lost THEN sent + 1 ELSE sent
    /\ UNCHANGED <<result, lost, any_ok, answer>>

\* The next block goes out while the budget, which others may change, allows.
Send ==
    /\ answer = "none" /\ blocks # << >> /\ ~lost
    /\ \E budget \in 1 .. MaxInFlight : Cardinality(running) < budget
    /\ running' = running \union {Head(blocks)}
    /\ blocks' = Tail(blocks)
    /\ sent' = IF lost THEN sent + 1 ELSE sent
    /\ UNCHANGED <<result, lost, any_ok, answer>>

\* A block is answered, perhaps with fewer values than it asked for.
Values(b) ==
    /\ b \in running
    /\ running' = running \ {b}
    /\ any_ok' = TRUE
    /\ \E k \in 0 .. Cardinality(Of(b)) :
          result' = [n \in Node |-> IF n \notin Of(b) THEN result[n]
                                    ELSE IF n <= b.start + k THEN "value" ELSE "error"]
    /\ UNCHANGED <<blocks, lost, sent, answer>>

\* The server is busy, or late while other Reads are in flight: the block is sent again first.
SendAgain(b) ==
    /\ b \in running /\ ~lost /\ b.tries < BusyRetries
    /\ running' = running \ {b}
    /\ blocks' = <<[start |-> b.start, tries |-> b.tries + 1]>> \o blocks
    /\ UNCHANGED <<result, lost, any_ok, sent, answer>>

\* The link is lost, or a block on its own timed out: nothing more is sent.
Loses(b) ==
    /\ b \in running
    /\ running' = running \ {b}
    /\ lost' = TRUE
    /\ UNCHANGED <<blocks, result, any_ok, sent, answer>>

\* The server refuses the block (or is busy once too often): its points fail, and only they.
Refused(b) ==
    /\ b \in running
    /\ running' = running \ {b}
    /\ result' = [n \in Node |-> IF n \in Of(b) THEN "error" ELSE result[n]]
    /\ UNCHANGED <<blocks, lost, any_ok, sent, answer>>

\* Mutant: points that were not read are left out although no value was read.
Finish_LeavesOut ==
    /\ answer = "none" /\ running = {} /\ (lost \/ blocks = << >>)
    /\ answer' = IF lost /\ any_ok THEN "link lost" ELSE "samples"
    /\ UNCHANGED <<blocks, running, result, lost, any_ok, sent>>

\* Every block in flight has ended: before any value was read a lost link fails every point,
\* afterwards it is reported with the samples read so far.
Finish ==
    /\ answer = "none" /\ running = {} /\ (lost \/ blocks = << >>)
    /\ answer' = IF lost /\ any_ok THEN "link lost" ELSE "samples"
    /\ result' = IF lost /\ ~any_ok
                 THEN [n \in Node |-> IF result[n] = "none" THEN "error" ELSE result[n]]
                 ELSE result
    /\ UNCHANGED <<blocks, running, lost, any_ok, sent>>

Outcome(b) == Values(b) \/ SendAgain(b) \/ Loses(b) \/ Refused(b)

Next == Send \/ Finish \/ \E b \in running : Outcome(b)

Spec == Init /\ [][Next]_vars

-----------------------------------------------------------------------------
\* A read answers for every point: all of them have a sample, or the runtime is told that the
\* link is lost; a value that was read is never replaced, and no Read is sent over a lost link.
ReadAnswers ==
    /\ answer = "samples" => \A n \in Node : result[n] # "none"
    /\ answer = "link lost" => any_ok
    /\ sent = 0

\* A block is in one place: to be sent, in flight, or with the outcome of its points.
BlocksKept ==
    lost \/ \A n \in Node :
        Cardinality({b \in running : n \in Of(b)})
        + Cardinality({i \in DOMAIN blocks : n \in Of(blocks[i])})
        + (IF result[n] = "none" THEN 0 ELSE 1) = 1
=============================================================================

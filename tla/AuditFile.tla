------------------------------ MODULE AuditFile ------------------------------
(***************************************************************************)
(* The JSONL audit file as the offline verifier reads it: decision traces  *)
(* chained by hash, an optional leading prune checkpoint, and whatever a   *)
(* short write leaves behind (pkg/audit/streaming.go, checkpoint.go,       *)
(* canonical.go, hasher.go, verifier.go).                                  *)
(*                                                                         *)
(* A trace hash covers the trace and the previous hash, so it is the       *)
(* sequence of contents up to and including the trace: equal hashes mean   *)
(* equal histories.                                                        *)
(***************************************************************************)
EXTENDS Naturals, Sequences, FiniteSets

NoHash == <<>>

Versions == {"v1", "v2"}

\* canonicalTraceVersionRank.
Rank(v) == IF v = "v1" THEN 1 ELSE 2

\* ComputeCanonicalTraceHash over a content and its previous hash.
TraceHash(content, prev) == Append(prev, content)

TraceLine(content, prev) ==
    [kind |-> "trace", content |-> content, prev |-> prev,
     hash |-> TraceHash(content, prev)]

\* A line that does not parse.
TornLine == [kind |-> "torn"]

\* A checkpoint commits to the removed prefix's end and to the retained suffix.
CheckpointLine(removed, last, lastTs, ver, cutoff, retained, tail) ==
    [kind |-> "checkpoint", removed |-> removed, last |-> last, lastTs |-> lastTs,
     ver |-> ver, cutoff |-> cutoff, retained |-> retained, tail |-> tail]

\* ParsePruneCheckpoint's constraints.
ValidCheckpoint(c) ==
    /\ c.removed > 0 /\ c.retained >= 0
    /\ c.lastTs < c.cutoff
    /\ c.ver \in Versions
    /\ c.last # NoHash /\ c.tail # NoHash
    /\ c.retained = 0 => c.tail = c.last

\* Line positions by kind, and the traces in order.
Is(lines, k) == {i \in 1..Len(lines) : lines[i].kind = k}

Pruned(lines) == Is(lines, "checkpoint") # {}

TracesOf(lines) ==
    LET scanned[i \in 0..Len(lines)] ==
            IF i = 0 THEN <<>>
            ELSE IF lines[i].kind = "trace" THEN Append(scanned[i - 1], lines[i])
            ELSE scanned[i - 1]
    IN scanned[Len(lines)]

\* The hash the first trace must name, and the version it may not fall below.
StartHash(lines) == IF Pruned(lines) THEN lines[1].last ELSE NoHash

StartRank(lines) == IF Pruned(lines) THEN Rank(lines[1].ver) ELSE 0

\* StreamReport.Tail of an intact file.
TailHash(lines) ==
    LET ts == TracesOf(lines)
    IN IF ts = <<>> THEN StartHash(lines) ELSE ts[Len(ts)].hash

\* verifyChainFromReader: every line parses, a checkpoint is first and allowed,
\* each trace links to the one before it, hashes to what it says and does not
\* go back to an older canonical version, and the checkpoint's count and tail
\* are those of the suffix.
Intact(lines, allowPruned) ==
    LET ts == TracesOf(lines) IN
    /\ Is(lines, "torn") = {}
    /\ Pruned(lines) =>
         /\ allowPruned
         /\ Is(lines, "checkpoint") = {1}
         /\ ValidCheckpoint(lines[1])
         /\ lines[1].retained = Len(ts) /\ lines[1].tail = TailHash(lines)
    /\ \A i \in 1..Len(ts) :
         /\ ts[i].prev = IF i = 1 THEN StartHash(lines) ELSE ts[i - 1].hash
         /\ ts[i].hash = TraceHash(ts[i].content, ts[i].prev)
         /\ Rank(ts[i].content.ver)
              >= IF i = 1 THEN StartRank(lines) ELSE Rank(ts[i - 1].content.ver)

\* A file: whether it is there, its lines, and whether its last line lacks its
\* newline.
NoFile == [exists |-> FALSE, lines |-> <<>>, open |-> FALSE]

FileOf(lines, open) == [exists |-> TRUE, lines |-> lines, open |-> open]

\* NeedsRecordSeparator.
NeedsSeparator(f) == f.lines # <<>> /\ f.open

=============================================================================

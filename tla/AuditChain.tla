----------------------------- MODULE AuditChain -----------------------------
(***************************************************************************)
(* The hash-chained audit writer of tg-proxy (cmd/tg-proxy/audit_chain.go):*)
(* append, write rollback, fsync modes, size-triggered rotation, the       *)
(* sticky poisoned state, process and power failures, and the recovery and *)
(* verification every start performs.                                      *)
(*                                                                         *)
(* The rotation set (auditPath.1, ..., auditPath.n, auditPath) is read by  *)
(* recovery and by `tg verify' as one concatenated JSONL stream, so it is  *)
(* modelled as one sequence of tokens, stream, together with cuts: the     *)
(* offset at which each rotated file ends.  A token is a record body, the  *)
(* newline that ends a line, or the torn prefix of a record body.          *)
(*                                                                         *)
(* The canonical hash is modelled by what it commits to: a record's hash   *)
(* is the sequence of trace ids from the genesis record up to it, i.e. a   *)
(* collision-free hash of the previous hash and the record's own content.  *)
(***************************************************************************)
EXTENDS Naturals, Sequences

CONSTANTS MaxTraces,     \* bound: how many traces are ever offered for append
          SyncMode,      \* -audit-sync-mode: "every", "interval" or "none"
          SyncEvery,     \* -audit-sync-every
          RotateTokens,  \* -audit-rotate-bytes, in tokens; 0 turns rotation off
          MaxRotations,  \* the 1<<20 limit on rotation indexes
          MaxCrashes     \* bound: process kills plus power losses

ASSUME AuditAssumption ==
    /\ MaxTraces \in Nat
    /\ SyncMode \in {"every", "interval", "none"}
    /\ SyncEvery \in Nat \ {0}
    /\ RotateTokens \in Nat
    /\ MaxRotations \in Nat
    /\ MaxCrashes \in Nat

VARIABLES
    stream,          \* what a reader of the rotation set sees now (page cache)
    images,          \* every content stable storage may hold for the stream
    synced,          \* length of the prefix a successful Sync has covered
    cuts,            \* offsets at which the rotated files end
    cutsSynced,      \* the same as a power loss may leave it
    status,          \* "down", "serving" or "refused" (start-up failed)
    lastHash,        \* p.lastHash
    needsSeparator,  \* p.auditNeedsSeparator
    appendSeq,       \* p.auditAppendSeq
    poisoned,        \* p.auditPoisoned
    op,              \* the append that holds auditMu
    result,          \* what the caller of each append was told
    acks,            \* history: successful appends and whether Sync covered them
    nextId,          \* the next trace id
    crashes          \* kills and power losses so far

diskVars == <<stream, images, synced>>
dirVars  == <<cuts, cutsSynced>>
procVars == <<lastHash, needsSeparator, appendSeq, poisoned>>
vars == <<stream, images, synced, cuts, cutsSynced, status, lastHash,
          needsSeparator, appendSeq, poisoned, op, result, acks, nextId, crashes>>

-----------------------------------------------------------------------------
(* Tokens, records and hashes *)

TraceId == 1..MaxTraces

Rec(h, id) == [kind |-> "rec", prev |-> h, id |-> id]
LF   == [kind |-> "lf",   prev |-> <<>>, id |-> 0]
Torn == [kind |-> "torn", prev |-> <<>>, id |-> 0]

Token == [kind : {"rec", "lf", "torn"}, prev : Seq(Nat), id : Nat]

\* ComputeCanonicalTraceHash of a record: previous hash and content
Hash(r) == Append(r.prev, r.id)

RecIdx(s) == {i \in DOMAIN s : s[i].kind = "rec"}

LastRec(s) == CHOOSE i \in RecIdx(s) : \A j \in RecIdx(s) : j <= i

\* The hash recoverAuditTail finds: that of the last record scanned, or "".
TailHash(s) == IF RecIdx(s) = {} THEN <<>> ELSE Hash(s[LastRec(s)])

\* The stream does not end in a newline.
EndsOpen(s) == Len(s) > 0 /\ s[Len(s)].kind # "lf"

\* A line that json.Unmarshal rejects: a torn body, or two bodies with no
\* newline between them.
Unparseable(s) ==
    \/ \E i \in DOMAIN s : s[i].kind = "torn"
    \/ \E i \in 1..(Len(s) - 1) : s[i].kind # "lf" /\ s[i+1].kind # "lf"

\* verifyChainFromReader with allowPruned false, on records of the current
\* canonical version: every line parses, the genesis record has no predecessor
\* and every other record names the one before it.
Intact(s) ==
    /\ ~Unparseable(s)
    /\ \A i \in RecIdx(s) : s[i].prev = TailHash(SubSeq(s, 1, i - 1))

TracesIn(s) == {s[i].id : i \in RecIdx(s)}

\* audit.NeedsRecordSeparator of the newest file that holds a record: no newline
\* follows the last record in its own file.  A newer file that holds only the
\* separator of an interrupted append is not looked at.
TailFileOpen ==
    /\ RecIdx(stream) # {}
    /\ LastRec(stream) \in {cuts[k] : k \in DOMAIN cuts} \cup {Len(stream)}

ActiveStart == IF cuts = <<>> THEN 0 ELSE cuts[Len(cuts)]

-----------------------------------------------------------------------------
(* The append in progress *)

Pc == {"idle", "rotateSync", "rename", "openActive", "barrier", "statNew",
       "write", "sync", "truncate", "rollbackSync"}

Op == [pc : Pc, id : Nat, force : BOOLEAN, pre : Nat, prevHash : Seq(Nat),
       prevSeq : Nat, prevSep : BOOLEAN, complete : BOOLEAN]

Idle == [pc |-> "idle", id |-> 0, force |-> FALSE, pre |-> 0,
         prevHash |-> <<>>, prevSeq |-> 0, prevSep |-> FALSE,
         complete |-> FALSE]

Results == {"none", "running",
            "ok",             \* nil error
            "failed",         \* an error that leaves the writer usable
            "poisoned",       \* refused, or rotation uncertain: nothing written
            "indeterminate",  \* errAuditStateIndeterminate
            "committed",      \* ... joined with errAuditRecordCommitted
            "lost"}           \* the process died before answering

TypeDisk ==
    /\ stream \in Seq(Token)
    /\ images \in SUBSET Seq(Token)
    /\ synced \in Nat
    /\ cuts \in Seq(Nat) /\ cutsSynced \in Seq(Nat)

TypeProc ==
    /\ status \in {"down", "serving", "refused"}
    /\ lastHash \in Seq(Nat)
    /\ needsSeparator \in BOOLEAN
    /\ appendSeq \in Nat
    /\ poisoned \in BOOLEAN

TypeCall ==
    /\ op \in Op
    /\ result \in [TraceId -> Results]
    /\ acks \in SUBSET [hash : Seq(Nat), durable : BOOLEAN]
    /\ nextId \in Nat \ {0}
    /\ crashes \in Nat

TypeOK == TypeDisk /\ TypeProc /\ TypeCall

Init ==
    /\ stream = <<>> /\ images = {<<>>} /\ synced = 0
    /\ cuts = <<>> /\ cutsSynced = <<>>
    /\ status = "down"
    /\ lastHash = <<>> /\ needsSeparator = FALSE
    /\ appendSeq = 0 /\ poisoned = FALSE
    /\ op = Idle
    /\ result = [t \in TraceId |-> "none"]
    /\ acks = {}
    /\ nextId = 1
    /\ crashes = 0

-----------------------------------------------------------------------------
(* openAuditLog: recover the tail, verify the whole rotation set, open *)

\* mutant: recovery reads only the active file, not the newest non-empty one
Open_ActiveOnly ==
    /\ status \in {"down", "refused"}
    /\ Intact(stream)
    /\ status' = "serving"
    /\ lastHash' = TailHash(SubSeq(stream, ActiveStart + 1, Len(stream)))
    /\ needsSeparator' = TailFileOpen
    /\ appendSeq' = 0
    /\ poisoned' = FALSE
    /\ UNCHANGED <<diskVars, dirVars, op, result, acks, nextId, crashes>>

\* mutant: recovery forgets that the last line lacks its newline
Open_NoSeparator ==
    /\ status \in {"down", "refused"}
    /\ Intact(stream)
    /\ status' = "serving"
    /\ lastHash' = TailHash(stream)
    /\ needsSeparator' = FALSE
    /\ appendSeq' = 0
    /\ poisoned' = FALSE
    /\ UNCHANGED <<diskVars, dirVars, op, result, acks, nextId, crashes>>

\* openAuditLog succeeds: the whole set verifies and its tail is published.
Open ==
    /\ status \in {"down", "refused"}
    /\ Intact(stream)
    /\ status' = "serving"
    /\ lastHash' = TailHash(stream)
    /\ needsSeparator' = TailFileOpen
    /\ appendSeq' = 0
    /\ poisoned' = FALSE
    /\ UNCHANGED <<diskVars, dirVars, op, result, acks, nextId, crashes>>

OpenRefused ==
    /\ status = "down"
    /\ ~Intact(stream)
    /\ status' = "refused"
    /\ lastHash' = <<>>
    /\ needsSeparator' = FALSE
    /\ UNCHANGED <<diskVars, dirVars, appendSeq, poisoned, op, result, acks,
                   nextId, crashes>>

-----------------------------------------------------------------------------
(* appendTraceWithDurability, under auditMu *)

Finish(r) ==
    /\ op' = Idle
    /\ result' = [result EXCEPT ![op.id] = r]

\* The bytes of the record: a separator where the tail lacks its newline.
RecordOf(h, sep, id) ==
    (IF sep THEN <<LF>> ELSE <<>>) \o <<Rec(h, id), LF>>

RecordTokens == RecordOf(lastHash, needsSeparator, op.id)

RecordSize == IF needsSeparator THEN 3 ELSE 2

RotationDue ==
    /\ RotateTokens > 0
    /\ Len(stream) > ActiveStart
    /\ (Len(stream) - ActiveStart) + RecordSize >= RotateTokens

AppendBegin(force) ==
    /\ status = "serving" /\ op.pc = "idle" /\ ~poisoned
    /\ nextId \in TraceId
    /\ op' = [Idle EXCEPT !.pc = IF RotationDue THEN "rotateSync" ELSE "write",
                          !.id = nextId, !.force = force]
    /\ result' = [result EXCEPT ![nextId] = "running"]
    /\ nextId' = nextId + 1
    /\ UNCHANGED <<diskVars, dirVars, status, procVars, acks, crashes>>

\* Hashing, marshalling or Stat fails before anything is written; or the
\* writer is already poisoned.
AppendRejected ==
    /\ status = "serving" /\ op.pc = "idle"
    /\ nextId \in TraceId
    /\ result' = [result EXCEPT ![nextId] = IF poisoned THEN "poisoned" ELSE "failed"]
    /\ nextId' = nextId + 1
    /\ UNCHANGED <<diskVars, dirVars, status, procVars, op, acks, crashes>>

(* auditLog.Write: all of the record, or a part of it and an error *)

ShouldSync(seq) ==
    \/ op.force
    \/ SyncMode = "every"
    \/ SyncMode = "interval" /\ seq % SyncEvery = 0

Ack(durable) == acks' = acks \cup {[hash |-> Append(op.prevHash, op.id),
                                    durable |-> durable]}

Write ==
    /\ op.pc = "write"
    /\ stream' = stream \o RecordTokens
    /\ images' = images \cup {stream'}
    /\ appendSeq' = appendSeq + 1
    /\ needsSeparator' = FALSE
    /\ lastHash' = Append(lastHash, op.id)
    /\ IF ShouldSync(appendSeq + 1)
       THEN /\ op' = [op EXCEPT !.pc = "sync", !.pre = Len(stream),
                                !.prevHash = lastHash, !.prevSeq = appendSeq,
                                !.prevSep = needsSeparator, !.complete = TRUE]
            /\ UNCHANGED <<result, acks>>
       ELSE /\ Finish("ok")
            /\ acks' = acks \cup {[hash |-> lastHash', durable |-> FALSE]}
    /\ UNCHANGED <<synced, dirVars, status, poisoned, nextId, crashes>>

\* A write that reports an error after n tokens, the next one possibly torn.
PartialWrites ==
    {SubSeq(RecordTokens, 1, n) : n \in 0..Len(RecordTokens)}
      \cup {Append(SubSeq(RecordTokens, 1, n), Torn) :
              n \in {m \in 0..(Len(RecordTokens) - 1) :
                        RecordTokens[m + 1].kind = "rec"}}

\* mutant: a failed write is reported but not rolled back
WriteFails_NoRollback ==
    /\ op.pc = "write"
    /\ \E w \in PartialWrites : stream' = stream \o w
    /\ images' = images \cup {stream'}
    /\ Finish("failed")
    /\ UNCHANGED <<synced, dirVars, status, procVars, acks, nextId, crashes>>

WriteFails ==
    /\ op.pc = "write"
    /\ \E w \in PartialWrites :
          /\ stream' = stream \o w
          /\ op' = [op EXCEPT !.pc = "truncate", !.pre = Len(stream),
                              !.prevHash = lastHash, !.prevSeq = appendSeq,
                              !.prevSep = needsSeparator,
                              !.complete = (w = RecordTokens)]
    /\ images' = images \cup {stream'}
    /\ UNCHANGED <<synced, dirVars, status, procVars, result, acks, nextId, crashes>>

(* The durability barrier *)

SyncedNow ==  \* a successful fsync: file content, size and directory entries
    /\ images' = {stream'}
    /\ synced' = Len(stream')
    /\ cutsSynced' = cuts'

Sync ==
    /\ op.pc = "sync"
    /\ UNCHANGED <<stream, cuts>>
    /\ SyncedNow
    /\ Finish("ok")
    /\ Ack(TRUE)
    /\ UNCHANGED <<status, procVars, nextId, crashes>>

\* mutant: the error of the durability barrier is ignored
SyncFails_Ignored ==
    /\ op.pc = "sync"
    /\ Finish("ok")
    /\ Ack(TRUE)
    /\ UNCHANGED <<diskVars, dirVars, status, procVars, nextId, crashes>>

SyncFails ==
    /\ op.pc = "sync"
    /\ op' = [op EXCEPT !.pc = "truncate"]
    /\ UNCHANGED <<diskVars, dirVars, status, procVars, result, acks, nextId, crashes>>

(* rollbackAuditWriteLocked: Truncate, Sync, Stat *)

\* mutant: the rollback boundary is the last synced offset
RollbackTruncate_ToSynced ==
    /\ op.pc = "truncate"
    /\ stream' = SubSeq(stream, 1, synced)
    /\ images' = images \cup {stream'}
    /\ op' = [op EXCEPT !.pc = "rollbackSync"]
    /\ UNCHANGED <<synced, dirVars, status, procVars, result, acks, nextId, crashes>>

RollbackTruncate ==
    /\ op.pc = "truncate"
    /\ stream' = SubSeq(stream, 1, op.pre)
    /\ images' = images \cup {stream'}
    /\ op' = [op EXCEPT !.pc = "rollbackSync"]
    /\ UNCHANGED <<synced, dirVars, status, procVars, result, acks, nextId, crashes>>

\* mutant: the rollback lives in the page cache only
RollbackSync_NoFsync ==
    /\ op.pc = "rollbackSync"
    /\ UNCHANGED <<diskVars, dirVars>>
    /\ lastHash' = op.prevHash
    /\ appendSeq' = op.prevSeq
    /\ needsSeparator' = op.prevSep
    /\ Finish("failed")
    /\ UNCHANGED <<status, poisoned, acks, nextId, crashes>>

RollbackSync ==
    /\ op.pc = "rollbackSync"
    /\ UNCHANGED <<stream, cuts>>
    /\ SyncedNow
    /\ lastHash' = op.prevHash
    /\ appendSeq' = op.prevSeq
    /\ needsSeparator' = op.prevSep
    /\ Finish("failed")
    /\ UNCHANGED <<status, poisoned, acks, nextId, crashes>>

\* Truncate, Sync or the final Stat fails: poisonIndeterminateAuditLocked.
RollbackFails ==
    /\ op.pc \in {"truncate", "rollbackSync"}
    /\ \/ UNCHANGED <<diskVars, dirVars>>
       \/ /\ op.pc = "rollbackSync"           \* only the size check failed
          /\ UNCHANGED <<stream, cuts>>
          /\ SyncedNow
    /\ poisoned' = TRUE
    /\ Finish(IF op.complete THEN "committed" ELSE "indeterminate")
    /\ UNCHANGED <<status, lastHash, needsSeparator, appendSeq, acks, nextId, crashes>>

-----------------------------------------------------------------------------
(* rotateAuditLocked *)

RotateSync ==
    /\ op.pc = "rotateSync"
    /\ UNCHANGED <<stream, cuts>>
    /\ SyncedNow
    /\ op' = [op EXCEPT !.pc = "rename"]
    /\ UNCHANGED <<status, procVars, result, acks, nextId, crashes>>

\* "sync before rotate": nothing has moved, so the writer stays usable.
RotateSyncFails ==
    /\ op.pc = "rotateSync"
    /\ Finish("failed")
    /\ UNCHANGED <<diskVars, dirVars, status, procVars, acks, nextId, crashes>>

\* Close, then rename auditPath to the next free index.
RotateRename ==
    /\ op.pc = "rename"
    /\ Len(cuts) < MaxRotations
    /\ cuts' = Append(cuts, Len(stream))
    /\ op' = [op EXCEPT !.pc = "openActive"]
    /\ UNCHANGED <<diskVars, cutsSynced, status, procVars, result, acks, nextId, crashes>>

\* openDiskAuditLog of a fresh auditPath
RotateOpen ==
    /\ op.pc = "openActive"
    /\ op' = [op EXCEPT !.pc = "barrier"]
    /\ UNCHANGED <<diskVars, dirVars, status, procVars, result, acks, nextId, crashes>>

\* Sync of the new file and of its directory
RotateBarrier ==
    /\ op.pc = "barrier"
    /\ cutsSynced' = cuts
    /\ op' = [op EXCEPT !.pc = "statNew"]
    /\ UNCHANGED <<diskVars, cuts, status, procVars, result, acks, nextId, crashes>>

\* Any failure after Close is errAuditRotationStateUncertain: Close, the
\* rename, the index overflow, the open, either barrier.
RotateFails ==
    /\ op.pc \in {"rename", "openActive", "barrier"}
    /\ poisoned' = TRUE
    /\ Finish("poisoned")
    /\ UNCHANGED <<diskVars, dirVars, status, lastHash, needsSeparator, appendSeq,
                   acks, nextId, crashes>>

\* Stat of the new active file
RotateStat ==
    /\ op.pc = "statNew"
    /\ \/ /\ op' = [op EXCEPT !.pc = "write"]
          /\ UNCHANGED result
       \/ Finish("failed")
    /\ UNCHANGED <<diskVars, dirVars, status, procVars, acks, nextId, crashes>>

-----------------------------------------------------------------------------
(* Failures of the process and of the machine, and the operator *)

Die ==
    /\ crashes < MaxCrashes
    /\ crashes' = crashes + 1
    /\ status' = "down"
    /\ op' = Idle
    /\ result' = IF op.pc = "idle" THEN result ELSE [result EXCEPT ![op.id] = "lost"]
    /\ UNCHANGED <<procVars, nextId>>

\* The process dies; the page cache survives.
Kill ==
    /\ status = "serving"
    /\ Die
    /\ UNCHANGED <<diskVars, dirVars, acks>>

\* What a power loss may leave of a content: a prefix no shorter than what was
\* synced, perhaps ending in the torn part of the next record.
Survivors(img) ==
    {SubSeq(img, 1, k) : k \in synced..Len(img)}
      \cup {Append(SubSeq(img, 1, k), Torn) :
              k \in {m \in synced..(Len(img) - 1) : img[m + 1].kind = "rec"}}

\* An acknowledgement that no Sync covered promises nothing after power loss.
PowerLoss ==
    /\ Die
    /\ \E img \in images : stream' \in Survivors(img)
    /\ images' = {stream'}
    /\ synced' = Len(stream')
    /\ cuts' \in {cuts, cutsSynced}
    /\ cutsSynced' = cuts'
    /\ acks' = {a \in acks : a.durable}

\* "repair or rotate it before restarting": the operator removes a torn tail.
OperatorRepair ==
    /\ status = "refused"
    /\ Len(stream) > 0 /\ stream[Len(stream)].kind = "torn"
    /\ stream' = SubSeq(stream, 1, Len(stream) - 1)
    /\ UNCHANGED cuts
    /\ SyncedNow
    /\ UNCHANGED <<status, procVars, op, result, acks, nextId, crashes>>

Next ==
    \/ Open \/ OpenRefused
    \/ \E force \in BOOLEAN : AppendBegin(force)
    \/ AppendRejected
    \/ Write \/ WriteFails
    \/ Sync \/ SyncFails
    \/ RollbackTruncate \/ RollbackSync \/ RollbackFails
    \/ RotateSync \/ RotateSyncFails
    \/ RotateRename \/ RotateOpen \/ RotateBarrier \/ RotateFails \/ RotateStat
    \/ Kill \/ PowerLoss \/ OperatorRepair

Spec == Init /\ [][Next]_vars

-----------------------------------------------------------------------------
(* Properties *)

\* Positions of the append at which no byte of its record is on disk yet.
BeforeWrite == op.pc \notin {"sync", "truncate", "rollbackSync"}

\* The writer always appends at the true tail: between appends, and up to the
\* moment appendTraceWithDurability writes, the whole rotation set verifies,
\* lastHash is the hash of its last record and the separator flag is up whenever
\* that record still lacks its newline.  Failed writes, failed syncs, rotations
\* and restarts all have to re-establish this.
WriterAtTail ==
    (status = "serving" /\ ~poisoned /\ BeforeWrite) =>
        /\ Intact(stream)
        /\ lastHash = TailHash(stream)
        /\ EndsOpen(stream) => needsSeparator

\* A stream openAuditLog accepts as it is, or after the torn line at its very
\* end is removed.
Recoverable(s) ==
    \/ Intact(s)
    \/ /\ Len(s) > 0
       /\ s[Len(s)].kind = "torn"
       /\ Intact(SubSeq(s, 1, Len(s) - 1))

\* Whenever the machine stops, whatever content reached the disk is one
\* unforked chain, at worst with a torn last line: no failed append is ever
\* followed by another record.
EveryImageRecoverable == \A img \in images : Recoverable(img)

HasRecord(s, n, h) == \E i \in RecIdx(s) : i <= n /\ Hash(s[i]) = h

\* An append acknowledged after its Sync (mode "every", or appendTraceDurable)
\* is in the synced part of the chain from then on, through rotations,
\* rollbacks of later appends, kills, power losses and repairs.
DurableAckSurvives ==
    \A a \in acks : a.durable => HasRecord(stream, synced, a.hash)

\* An append acknowledged without Sync stays in the chain until a power loss:
\* the rollback of a later append never cuts into it.
AckStaysVisible ==
    \A a \in acks : HasRecord(stream, Len(stream), a.hash)

\* appendTrace's plain errors are transactional: when the caller was told that
\* the append failed, or that the writer refused it, its record is not in the
\* log and no crash can bring it back, so a denied action is never recorded as
\* allowed.
FailedLeavesNoRecord ==
    \A t \in TraceId : result[t] \in {"failed", "poisoned"} =>
        \A img \in images : t \notin TracesIn(img)

\* The chain implements the abstract log.
Log == INSTANCE AuditLog WITH
          log     <- TailHash(stream),
          firm    <- Len(TailHash(SubSeq(stream, 1, synced))),
          offered <- 1..(nextId - 1)

ImplementsAuditLog == Log!Spec
=============================================================================

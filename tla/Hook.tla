--------------------------------- MODULE Hook ---------------------------------
(***************************************************************************)
(* tg hook: one short-lived process per tool call of a coding agent        *)
(* (cmd/tg/hook.go), each deciding, printing its decision and then         *)
(* appending a record to one shared log (cmd/tg/hook_audit.go) under an    *)
(* advisory file lock with a bounded wait.  Processes may be killed at any *)
(* point; the kernel then releases the lock.  Writes are not rolled back.  *)
(***************************************************************************)
EXTENDS AuditFile

CONSTANTS Hooks,      \* hook processes
          Times,      \* timestamps of their envelopes
          Actions,    \* the engine's actions (ActionTaken)
          MaxDamage   \* bound on short writes, failed syncs, kills and power losses

\* A hook is neither the free lock nor the author of the records before them.
ASSUME HookAssumption ==
    /\ Times \subseteq Nat
    /\ "free" \notin Hooks /\ "old" \notin Hooks

VARIABLES
    flags,    \* -fail-closed and -fail-closed-tools, set once for the agent
    hook,     \* the state of each hook process
    lock,     \* the holder of <log>.lock, or "free"
    file,     \* the log
    synced,   \* lines of the log known to be on stable storage
    damage,   \* faults so far
    acked     \* history: hooks whose append returned without error

hookVars == <<flags, hook, lock, file, synced, damage, acked>>

-----------------------------------------------------------------------------
(* Deciding *)

Tools == {"listed", "other"}

FlagSets == [failClosed : BOOLEAN, tools : {{}, {"listed"}}]

\* What the agent is told.
Decisions == {"allow", "ask", "deny"}

\* failDecide: the tool list overrides the global flag.
FailDecide(tool) ==
    IF flags.tools # {} THEN IF tool \in flags.tools THEN "deny" ELSE "allow"
    ELSE IF flags.failClosed THEN "deny" ELSE "allow"

\* failUnattributable: with no tool name to go by, any fail-closed flag denies.
FailUnattributable ==
    IF flags.failClosed \/ flags.tools # {} THEN "deny" ELSE "allow"

\* evalHook on an engine result.
FromAction(a) ==
    CASE a = "denied" -> "deny"
      [] a = "escalated" -> "ask"
      [] OTHER -> "allow"

\* hookDecisionToDomain, for records of decisions the engine did not make.
ToAction(dec) ==
    CASE dec = "deny" -> "denied"
      [] dec = "ask" -> "escalated"
      [] OTHER -> "allowed"

NewHook == [pc |-> "start", tool |-> "none", dec |-> "none", by |-> "none",
            act |-> "none", ts |-> 0, prev |-> NoHash, sep |-> FALSE]

HookInit ==
    /\ flags \in FlagSets
    /\ hook = [h \in Hooks |-> NewHook]
    /\ lock = "free"
    /\ damage = 0
    /\ acked = {}

\* The call cannot be attributed to a tool (bad flags, unreadable, oversized
\* or malformed input): decided and printed, never audited.
Unattributable(h) ==
    /\ hook[h].pc = "start"
    /\ hook' = [hook EXCEPT ![h].pc = "done", ![h].dec = FailUnattributable,
                            ![h].by = "failure"]
    /\ UNCHANGED <<flags, lock, file, synced, damage, acked>>

\* A decision is printed first and audited after.
Emit(h, tool, dec, by, act) ==
    /\ hook[h].pc = "start"
    /\ \E ts \in Times :
         hook' = [hook EXCEPT ![h].pc = "lock", ![h].tool = tool, ![h].dec = dec,
                              ![h].by = by, ![h].act = act, ![h].ts = ts]
    /\ UNCHANGED <<flags, lock, file, synced, damage, acked>>

\* A protected path, or a tool no enforcement policy declares.
DenyBeforeEngine(h) == \E t \in Tools : Emit(h, t, "deny", "guard", ToAction("deny"))

\* No policy source, a load, validation or hash failure, an empty set, or a
\* panic in the engine.
FailsToEvaluate(h) ==
    \E t \in Tools : Emit(h, t, FailDecide(t), "failure", ToAction(FailDecide(t)))

Evaluates(h) == \E t \in Tools, a \in Actions : Emit(h, t, FromAction(a), "engine", a)

-----------------------------------------------------------------------------
(* Appending *)

Lock(h) ==
    /\ hook[h].pc = "lock" /\ lock = "free"
    /\ lock' = h
    /\ hook' = [hook EXCEPT ![h].pc = "verify"]
    /\ UNCHANGED <<flags, file, synced, damage, acked>>

\* Appending without the lock once the wait is over.
AppendUnlocked(h) ==
    /\ hook[h].pc = "lock" /\ lock \notin {"free", h}
    /\ hook' = [hook EXCEPT ![h].pc = "verify"]
    /\ UNCHANGED <<flags, lock, file, synced, damage, acked>>

\* The bounded wait ends while another process holds the lock: the record is
\* given up and the decision stands.
LockTimeout(h) ==
    /\ hook[h].pc = "lock" /\ lock \notin {"free", h}
    /\ hook' = [hook EXCEPT ![h].pc = "done"]
    /\ UNCHANGED <<flags, lock, file, synced, damage, acked>>

\* The lock is released whether the append succeeded or not.
Finish(h, ok) ==
    /\ hook' = [hook EXCEPT ![h].pc = "done", ![h].prev = NoHash, ![h].sep = FALSE]
    /\ lock' = IF lock = h THEN "free" ELSE lock
    /\ acked' = IF ok THEN acked \cup {h} ELSE acked

\* verifyHookAuditChain's condition to go on: the whole chain is replayed, and
\* a pruned one may not be extended.
VerifyHookAuditChain == Intact(file.lines, FALSE)

Verify(h) ==
    /\ hook[h].pc = "verify"
    /\ IF VerifyHookAuditChain
       THEN /\ hook' = [hook EXCEPT ![h].pc = "write",
                                    ![h].prev = TailHash(file.lines),
                                    ![h].sep = NeedsSeparator(file)]
            /\ UNCHANGED <<lock, acked>>
       ELSE Finish(h, FALSE)
    /\ UNCHANGED <<flags, file, synced, damage>>

\* The record reduced to the printed decision.
ReducedAction(h) == ToAction(hook[h].dec)

\* The action the record carries: the engine's own where it was asked.
RecordedAction(h) == hook[h].act

RecordOf(h) ==
    TraceLine([by |-> h, act |-> RecordedAction(h), ts |-> hook[h].ts, ver |-> "v2"],
              hook[h].prev)

\* The log after an O_APPEND write of lines ls: the first of them continues
\* the last line of the file when that one lacks its newline and the writer
\* put none before it.
Written(h, ls, open) ==
    IF file.open /\ ~hook[h].sep
    THEN FileOf([file.lines EXCEPT ![Len(file.lines)] = TornLine], open)
    ELSE FileOf(file.lines \o ls, open)

Write(h) ==
    /\ hook[h].pc = "write"
    /\ file' = Written(h, <<RecordOf(h)>>, FALSE)
    /\ hook' = [hook EXCEPT ![h].pc = "sync"]
    /\ UNCHANGED <<flags, lock, synced, damage, acked>>

\* A short write: nothing but the separator, part of the line, or all of it but
\* its newline.  The hook reports the error and leaves the file as it is.
ShortWrite(h) ==
    /\ hook[h].pc = "write" /\ damage < MaxDamage
    /\ \/ file' = FileOf(file.lines, file.open /\ ~hook[h].sep)
       \/ \E l \in {TornLine, RecordOf(h)} : file' = Written(h, <<l>>, TRUE)
    /\ damage' = damage + 1
    /\ Finish(h, FALSE)
    /\ UNCHANGED <<flags, synced>>

\* The append acknowledged before fsync.
AckWithoutSync(h) ==
    /\ hook[h].pc = "sync"
    /\ Finish(h, TRUE)
    /\ UNCHANGED <<flags, file, synced, damage>>

Sync(h) ==
    /\ hook[h].pc = "sync"
    /\ synced' = Len(file.lines)
    /\ Finish(h, TRUE)
    /\ UNCHANGED <<flags, file, damage>>

SyncFails(h) ==
    /\ hook[h].pc = "sync" /\ damage < MaxDamage
    /\ damage' = damage + 1
    /\ Finish(h, FALSE)
    /\ UNCHANGED <<flags, file, synced>>

-----------------------------------------------------------------------------
(* Faults and repair *)

\* The process dies; the kernel releases its lock.
Kill(h) ==
    /\ hook[h].pc \notin {"start", "done"} /\ damage < MaxDamage
    /\ damage' = damage + 1
    /\ Finish(h, FALSE)
    /\ UNCHANGED <<flags, file, synced>>

\* Power is lost: unsynced lines survive, are torn or disappear.
PowerLoss ==
    /\ damage < MaxDamage /\ Len(file.lines) > synced
    /\ damage' = damage + 1
    /\ \/ file' = [file EXCEPT !.lines = SubSeq(@, 1, synced), !.open = FALSE]
       \/ file' = [file EXCEPT !.lines = Append(SubSeq(@, 1, synced), TornLine), !.open = TRUE]
    /\ lock' = "free"
    /\ hook' = [h \in Hooks |-> IF hook[h].pc = "start" THEN hook[h]
                                ELSE [hook[h] EXCEPT !.pc = "done", !.prev = NoHash,
                                                     !.sep = FALSE]]
    /\ UNCHANGED <<flags, synced, acked>>

\* The operator removes a torn last line, as verify reports its position.
Repair ==
    /\ lock = "free"
    /\ Len(file.lines) > 0 /\ file.lines[Len(file.lines)] = TornLine
    /\ file' = [file EXCEPT !.lines = SubSeq(@, 1, Len(@) - 1), !.open = FALSE]
    /\ synced' = IF synced > Len(file.lines) - 1 THEN Len(file.lines) - 1 ELSE synced
    /\ UNCHANGED <<flags, hook, lock, damage, acked>>

HookStep(h) ==
    \/ Unattributable(h) \/ DenyBeforeEngine(h) \/ FailsToEvaluate(h) \/ Evaluates(h)
    \/ Lock(h) \/ LockTimeout(h) \/ Verify(h)
    \/ Write(h) \/ ShortWrite(h) \/ Sync(h) \/ SyncFails(h) \/ Kill(h)

HookNext == (\E h \in Hooks : HookStep(h)) \/ PowerLoss \/ Repair

-----------------------------------------------------------------------------
(* Properties *)

\* Whatever hooks race, give up, die or write short, the damage is confined to
\* the last line: everything before it is one intact chain, nothing is ever
\* appended behind a line that does not parse, and a pruned chain is never
\* extended (its checkpoint still counts its records).
DamageConfined ==
    LET n == Len(file.lines) IN
    \/ Intact(file.lines, TRUE)
    \/ n > 0 /\ file.lines[n] = TornLine /\ Intact(SubSeq(file.lines, 1, n - 1), TRUE)

\* The history the log vouches for, removed records included.
History == TailHash(file.lines)

\* An append that reported success is in the history of the log for good,
\* through kills, power loss, repairs and pruning.
AckedStays == \A h \in acked : \E i \in 1..Len(History) : History[i].by = h

\* The log never contradicts what the agent was told: a hook has at most one
\* record, carrying the engine's own action, shadow included, when it was asked
\* and otherwise the action its printed decision stands for.
RecordMatchesDecision ==
    \A h \in Hooks :
        LET mine == {i \in 1..Len(History) : History[i].by = h} IN
        /\ Cardinality(mine) <= 1
        /\ \A i \in mine :
             /\ FromAction(History[i].act) = hook[h].dec
             /\ hook[h].by = "engine" => History[i].act = hook[h].act

=============================================================================

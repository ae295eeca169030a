# TLA+ model of Tool Guard Core

Tool Guard Core is a policy decision point for AI agents: an agent posts a tool
call to `tg-proxy`, gets allow, deny or escalate, and the decision is appended
to a hash-chained audit log before the answer goes out. This directory holds
TLA+ modules for the parts of it that are hard to test: the audit log through
faults and crashes, the evaluate handler with its rate limiter and policy
reload, the human-approval path, the velocity window under concurrency, how
enforcement and shadow policies combine, what conditions, path guards and the
model classifier make of a call, the coding-agent hook with the log its
processes share, prune, and the commands that install and remove the hook. With
them come the TLC configurations that check them, and proofs.

## Inventory

| Component | State | Operations | Talks to | What is hard | What makes it correct |
|---|---|---|---|---|---|
| Audit chain writer (`cmd/tg-proxy/audit_chain.go`) | rotation set on disk, `lastHash`, separator flag, append counter, sticky poison | open/recover/verify, append, rollback, rotate | everything that decides | short writes, failed fsyncs, crash at any step of append, rollback, rotation | one unforked chain; acknowledged records stay; failed appends leave nothing |
| Record format and verifier (`pkg/audit`) | none | canonical hash, stream verification, rotation order, prune checkpoints | writer, `tg verify`, `tg prune` | separators across files, version ordering, checkpoints | accepts exactly what writer and prune produce |
| Escalation registry (`escalation.go`, `escalation_handlers.go`) | map id → entry, mutex | reserve, publish, discard, evict, approve/deny, reap | evaluate, audit writer, reaper goroutine | mutex held across an fsync, deadlines, indeterminate appends, cap | audit before visibility, one outcome, deadline decides, cap |
| Evaluate handler (`handlers.go`, `helpers.go`) | counters | rate limit → mode → protected paths → velocity → engine → escalation → audit → velocity record | all | order of the stages, fail-closed downgrade after the decision | a call proceeds only if recorded (fail-closed); answer agrees with the record |
| Velocity tracker (`velocity.go`) | map key → window of events | windowFor/sweep, aggregate, record, prune | evaluate | read and write are separate critical sections; idle sweep | serial spending stays under the cap |
| Rate limiter (`ratelimit.go`) | map key → bucket | allow, sweep | evaluate | bucket used after it was swept | grants bounded by burst + rate × time |
| Policy reload (`policy_loader.go`, `pkg/policyload`) | policies + hash | reload | evaluate, SIGHUP, POST /reload | two reloads overlapping | snapshot and hash agree; only a valid set is served |
| Policy engine (`pkg/engine`) | regex cache | Evaluate, ResolveDecision, matching, conditions, validation | evaluate, hook, CLI | shadow versus enforcement contributions; what the loader must refuse | most severe enforcement effect is applied; no accepted rule is dead or fails open |
| Path guards and classifiers (`protect.go`, `*_classify.go`, `reversibility.go`), SQL guard | registries | protected paths, path/write/shell/HTTP/SQL requirements | engine, evaluate, hook | symbolic links, redirections, unreadable input | hold for what the tool will open; fail closed |
| LLM guard (`llm_classify.go`, `pkg/llmguard`) | one question | image fetch, request, retry, interpret | engine, model endpoint | late, missing and malformed answers; retries against a deadline | only a confident "safe" passes; every question ends |
| Hook and its log (`cmd/tg/hook*.go`) | one log file, lock file | verify-then-append per process | Claude Code | concurrent processes, bounded lock wait, no rollback | no fork between processes |
| Prune (`cmd/tg/prune.go`) | files | select prefix, checkpoint, publish | verifier | input changing meanwhile | output verifies, input untouched |
| Protect/unprotect (`cmd/tg/protect.go`) | settings, backup, state file | install, reinstall, remove | hook | crash between writes; the user saves the file meanwhile | status is true; an installation can be taken out; the user's settings stay |
| CLI, SDK, harnesses | none | front ends | engine, proxy | – | – |

Lock order is escalation store → policies (read) → audit; evaluate holds none
of them while it takes another.

## Modules

| Module | Models |
|---|---|
| `AuditChain` | the audit writer and its start-up recovery, disk included |
| `AuditLog` | what the writer promises: an append-only log with a firm prefix |
| `AuditChainProofs` | TLAPS proofs about `AuditChain`, and that it implements `AuditLog` |
| `EscalationStore` | registry, escalation path of evaluate, approver endpoints, reaper |
| `EscalationLifecycle` | the lifecycle of docs/escalation.md |
| `EscalationStoreProofs` | TLAPS proofs about `EscalationStore`, and that it implements `EscalationLifecycle` |
| `MCEscalationStore` | symmetry for TLC |
| `Velocity` | velocity tracker and the order evaluate uses it in |
| `VelocityProofs` | TLAPS proofs about `Velocity` |
| `MCVelocity` | symmetry for TLC |
| `PolicyEngine` | `Evaluator.Evaluate`: matching, sorting, rule loop, decision, action, explanation |
| `PolicyEngineProofs` | TLAPS proofs about `PolicyEngine` |
| `MCPolicyEngine` | the policies and calls of the TLC instance |
| `RateLimiter` | keyed token buckets and their idle sweep |
| `PolicyReload` | directory, overlapping reloads, the published set and its hash |
| `Evaluate` | the evaluate handler; extends `RateLimiter` and `PolicyReload` |
| `EvaluateProofs` | TLAPS proofs about `Evaluate` with `RateLimiter` and `PolicyReload` |
| `MCEvaluate` | symmetry and the constraint of the TLC instance |
| `AuditFile` | the log file as the offline verifier reads it, prune checkpoints included |
| `Hook` | `tg hook` processes and their shared log; extends `AuditFile` |
| `Prune` | `tg prune` beside the hooks; extends `Hook` |
| `HookLogProofs` | TLAPS proofs about `Hook` and `Prune` |
| `MCPrune` | symmetry and the constraint of the TLC instance |
| `Protect` | `tg protect`, `status`, `unprotect` and the files they keep |
| `ProtectProofs` | TLAPS proofs about `Protect` |
| `PathGuard` | protected paths, path, write and shell classification |
| `Condition` | condition trees: validation at load, evaluation, HTTP and SQL requirements; extends `PathGuard` and `LLMGuard` |
| `LLMGuard` | `llm_classify`: its block, one question after the other (`Question`) |
| `LLMGuardProofs` | TLAPS proofs about `LLMGuard` |
| `RuleEval` | load, protected-path check and evaluation of one call; extends `Condition` |
| `MCRuleEval` | the worlds (rules, calls, links) of the TLC instance |

`PROJECT.json` maps every definition to its source lines. Operators commented
`mutant:` are deliberately wrong variants of the definition after them; they
are not part of any specification and show that each property can fail.

### AuditChain

The rotation set is one sequence of tokens, `stream`: record bodies, newlines
and torn bodies. `cuts` are the offsets where rotated files end. That is how the
code reads it too: recovery and `tg verify` concatenate the files. A record's
hash is the sequence of trace ids it commits to, which is a collision-free hash
by construction. `images` is every content stable storage may hold (each write
and truncate since the last fsync adds one), `synced` the length a successful
fsync covered. A power loss picks an image, keeps at least the synced prefix and
may tear the next record. A kill keeps the page cache.

One append is the sequence of system calls of `appendTraceWithDurability` under
`auditMu`, one action each, with its failures: `AppendBegin` (and
`AppendRejected`), optionally `RotateSync`, `RotateRename`, `RotateOpen`,
`RotateBarrier`, `RotateStat`, then `Write`/`WriteFails`, `Sync`/`SyncFails`,
and on failure `RollbackTruncate`, `RollbackSync`, `RollbackFails`. `Open` is
`openAuditLog`; `OpenRefused` its error returns; `OperatorRepair` is the repair
its message asks for.

Storage assumptions: a successful fsync makes the file's content, size and its
directory entries durable; a failed fsync leaves any of the images possible;
a rename is atomic and is on disk wholly or not at all. Records are all of the
current canonical version and the set is not pruned (a pruned set is refused).

### EscalationStore

One step per critical section or audit append. `resolveAudited` and
`reapExpiredAudited` keep the store mutex during the append, so `mu` and the
prepared candidate `txn` are variables, and time, faults elsewhere and a restart
may fall between `ResolveBegin`/`ReapBegin`, `TxnAppend` and `TxnReturn`. The
audit writer is what `AuditChain` shows of it: `ok` (durable), `failed` (nothing
left), `poisoned` (nothing written, sticky), `indeterminate` (sticky, the record
may surface after a restart, kept in `maybe`). The clock is read where the code
reads it, before the mutex in `reserve` and in the reaper, under it in
`resolveAudited`. Calls that return without a change (not found, already
resolved, past due) are not actions.

### Velocity

`Arrive`, `WindowFor`, `Aggregate`, `Decide`, `Record` are the steps of one
evaluate call; `Decide` stands for everything between the aggregate and the
record, during which no velocity lock is held. A window object is named after
the call that created it, so a call can hold one that the map no longer has.
The rule is the one in docs/operating.md (deny when the 1h sum exceeds the
cap). A restart empties the tracker, as documented, and is not modelled.

### PolicyEngine

One evaluation, with one action per turn of each loop: `MatchPolicy`, `Sort` (any
order of equal priorities, as `sort.Slice` is unstable), `SkipRule`/`EvalRule`,
`NextPolicy`, `Resolve`. A rule's condition is its outcome on the call. The
properties compare the result with `Firing`, the set of rules that bear on the
call, defined without loops or order.

### Evaluate, RateLimiter, PolicyReload

One call of `evaluate` takes a step per piece of shared state: `Receive` (the
policy snapshot and its hash under one read lock), `Limit` (find or make the
bucket), `TakeToken`, the gates `RejectMode`, `DenyProtectedPath`,
`DenyNoPolicies`, `Decide` or `DenyPanic`, `Reserve`, `AppendTrace`, and after a
failed append `Discard`, `RetryDeny`, `ReappendDeny`, then `Answer`. Rejections
before the envelope is known are `RejectBody`. The engine's verdict is a choice
of action and of the mode's effect; the audit writer is `AuditEffect`, the
outcomes `AuditChain` allows: recorded, failed with nothing left, or poisoned
with or without the record left behind. A bucket is an object of its own because
`allow` takes the token after it has released the limiter's mutex. A reload
reads file by file (`ReadDir`, `LoadFile`) while `EditDir` changes the
directory, and `PublishSet` validates and swaps set and hash together. The
history variables `admitted` and `stale` count tokens.

### AuditFile, Hook, Prune

A file is a sequence of lines: traces, torn lines, a checkpoint. A hash is the
sequence of contents it commits to. `Intact` is `verifyChainFromReader` with
canonical versions that may not go back and the checkpoint's counts and hashes.
A hook process decides (`Unattributable`, `DenyBeforeEngine`, `FailsToEvaluate`,
`Evaluates`), prints its decision (`Emit`) and then appends: `Lock` or
`LockTimeout`, `Verify`, `Write` or `ShortWrite`, `Sync` or `SyncFails`,
`Finish`. `Kill`, `PowerLoss` and `Repair` are the environment. A prune is
`PruneOpen`, `PruneSelect`, `PruneCopy`, `PruneCheck`, `PrunePublish`, with the
input changing in between (`PruneCopy` reads the lines behind the boundary up to
the size the input had, or to its end when it has shrunk); `Adopt` puts an output in the log's place and
`OtherCreates` takes an output path. Only the Linux publication (rename without
replacement) is modelled.

### Protect

The settings, the backup, the state file and the policy files are variables;
each action is one file written: `ProtectPolicy`, `ProtectBackup`,
`ProtectConfig`, `ProtectState` (with its compensation `ProtectStateFails`),
`UnprotectConfig`, `UnprotectState`. `Kill` and `WriteFails` may come between any two;
`EditConfig`, `EditPolicy`, `MoveRoot` and `DamageState` are the user. Three
history variables, which no action reads, serve the properties: `base` is the
settings file the installation in force started from, `late` says that the
settings were saved while the command in progress ran, `interrupted` that some
first installation stopped between its settings and its state. `Spec` is the
whole behaviour; `UninterruptedSpec` is the part of it where every command runs
to its end and every write succeeds. Left out: the checks of the agent's version and of the tg
executable, the text of the starter policy, dry runs.

### PathGuard, Condition, LLMGuard, RuleEval

A path is absolute or not, with components; a shell command is its tokens, as
`shell_tokenize.go` returns them; texts are sequences of tokens and patterns are
literal; a field is a whole name; what a SQL dialect's parser or `url.Parse`
returns is part of the value; probabilities are in tenths. `EvalSymlinks` and
the links it reads are external, and `Relink` changes them between calls.
`Load` refuses what `validateCondition` refuses, so every checked tree is one
the program can have in force. A call goes through `CheckProtected`, then
`Decide`, or `Ask`, `Wait`, `Elapse`, `DecideAnswered` when evaluation comes to a
model question (one per tree). `Wait` is what the endpoint does: answer
anything, be busy, fail, or nothing.

The reference for a path is `Walk`, the walk a kernel does, defined apart from
the code's resolution. Links may dangle: the code then matches the path as
written, the kernel creates the target. `ProtectedHolds` and `AllowListHolds`
therefore ask of a path whose walk meets a dangling link (`Dangles`) only what
is said of it as written (`Forms`), and so do not claim more than the code does;
`path_classify` with clean, resolve and deny on failure needs no exception. A
command substitution is a command inside a command; the check looks into
`MaxShellSubstDepth` of them (8 in the code) and no further, and `Commands`, the
commands of a call by the depth they are nested at, stops there too.
Assumptions: the tool opens the lexically cleaned path; what exists in the model
is a directory; the program name of a command is a literal word (the code
documents an expansion there as undetected). The Windows forms of paths are left
out.

## Runs

| Run | Bounds | Shows |
|---|---|---|
| `audit` | 4 appends, fsync every 2nd plus forced ones, rotation at 5 tokens, 2 rotations, 2 crashes | the writer is at the true tail, every image verifies up to a torn line, acknowledged records survive, failed ones cannot come back, rollbacks spare unsynced acknowledged records, refinement of `AuditLog` |
| `escalation_safety` | 3 calls, 2 ids, store of 1, timeouts 0 (default) and 1, clock to 3, 1 audit fault, 1 restart | publication, one outcome, audit before visibility, answers stand, deadline, refinement of `EscalationLifecycle`; no deadlock |
| `escalation_liveness` | 2 calls, 2 ids, store of 2, 1 fault, no restart, `FairSpec` | every pending escalation settles unless the writer is poisoned; no deadlock |
| `velocity_serial` | 3 calls, 2 keys, map cap 1, 2 events per window, clock to 3, idle < hour < day as 0 < 1 < 2 | the cap holds for calls made one after the other, the day sum is complete; while the keys seen fit into the map, for all the key's spending |
| `velocity_concurrent` | as above, 1 key | violated: concurrent calls cross the cap |
| `velocity_keys` | as above | violated: the key map passes `maxKeys` |
| `policy_engine` | at most 2 policies out of 73 (at most 4 triggered rules), 2 calls, 3 call-site modes | order does not matter, enforcement is never weakened, shadow never gates, citation and guidance fit the action |
| `evaluate` | 3 calls on 2 keys and 2 ids, burst 1, map cap 1, clock to 2, 2 policy files, 2 reloaders, 1 edit, 2 reloads, store of 1, 1 audit fault | a call proceeds only when recorded, no record contradicts an answer but the one that poisoned the writer, records name the policy set that decided, counters and reservations agree with answers, the token budget, only valid sets are served |
| `hook_log` | 3 hooks, 2 outputs, 2 prunes, 1 fault | damage stays in the last line, acknowledged records stay through prune and repair, records match decisions, a pruned file accounts for its whole history, outputs are never replaced |
| `protect` | 2 settings, 2 edits, 3 commands | an undrifted status is true, a promised restore has a backup, an installation can be taken out unless its settings were written and its state was not, no command changes settings that were not saved while it ran |
| `protect_restore` | 2 settings, 1 edit, 4 commands, `UninterruptedSpec` | violated: the backup of an earlier installation is restored |
| `rule_eval` | ten worlds of rules and calls, links of at most 3 hops (one dangling), substitutions nested in up to 3 others with a limit of 2, trees of depth 2, 3 attempts, deadlines of 2 and 3 ticks | protected paths and allow-lists hold where the write really goes unless a link dangles, unreadable input never helps a call past a classifier with an allow-list, every accepted leaf decides, only a confident safe answer passes, only validated configurations are asked about (`RuleEval` implements `Question`), every call ends; no deadlock |

`evaluate` and `hook_log` have a state constraint (`MCFocus`) that takes one
source of trouble at a time: three limited calls over a fixed policy set, two
unlimited calls with audit faults, or one call among reloads; two hooks with every flag
and decision, three hooks with a fault, or one hook beside prunes. The unconstrained
product of these independent parts is out of reach and adds no interaction: the
limiter, the reload and the audit writer share no variable.

Why the bounds are enough. Two crashes let a recovery itself be interrupted and
its result be used again; three appends reach an append after a rotation and
after a rollback; rotation sizes are chosen so that a rotation happens with and
without a pending separator. A store of one entry makes every reservation after
the first meet the cap; a third call is needed for eviction to race a
reservation. Two calls of one key suffice for the velocity race, the third is
the later call that has to see both. With a map of one place the keys fit while
one key is in use, and the second key makes the sweep drop a window; the clock
passes the idle time, the hour and the day's edge. The audit runs and the velocity runs end
when the bound on calls is used up, and one evaluation of the engine ends, so
deadlock is not checked there. Four triggered rules of two policies cover every
combination of an aggregate, an enforced and a shadow maximum with ties. Three
limited calls let one take from a bucket that the second's sweep dropped and
the third replaced. Three hooks put one append before, one in and one after a
fault. Two prunes make the second start from a checkpoint. Four commands,
all run to their ends, are the shortest way to a second installation and its
removal: the trace of `protect_restore` has 16 actions and no interruption,
since interrupted first installations would give a shorter trace of another
matter (see below). Three commands suffice for `protect`, where any of them may
be interrupted: an interrupted one, its repetition, and the removal. A limit of
two substitutions has commands above, at and below it. The evaluate, hook
and protect runs end when their calls are used up, so deadlock is not checked
there. The worlds of `rule_eval` each vary one guard: file tools under a
directory, a link, a pattern and a relative prefix; shell commands with
assignments, redirections, options and substitutions; path and write rules;
leaves of every operator over every kind of value; classifiers under and, or
and not; model answers of both backends.

Fairness (`FairSpec`): the clock advances, the ticker goroutine runs, whoever
holds the mutex finishes its append and returns, and the waiting reaper gets the
mutex (strong fairness: Go's mutex hands itself to a waiter starved for 1 ms).
Approvers and evaluate calls have no fairness. In `RuleEval` the evaluating
goroutine runs on and the clock with its timers advances (weak fairness of
both); the model endpoint owes nothing, so `CallEnds` rests on the deadline.

## Findings

1. `velocity_concurrent`: docs/operating.md says a `> cap` rule "denies the call
   that crosses the line". The window is read before the decision and written
   after it with no lock in between, so overlapping calls of one key do not see
   each other. `SerialCap` states what does hold.
2. `velocity_keys`: the key maps of the velocity tracker and the rate limiter are
   documented as bounded by 100k keys; insertion happens after the sweep whether
   or not it freed a place.
3. `protect_restore`: docs/protect.md says unprotect "restores the original bytes
   and permissions from the pristine backup" when the settings are unchanged since
   installation. The backup is written only if there is none and is never removed,
   so protect, unprotect, an edit, protect, unprotect, none of them interrupted,
   ends with the settings of before the edit. `EditsKept` states what holds for
   edits made while installed.

Observed while modelling and not a run of its own: the engine looks at the
call-site mode only when no enforcement rule flags, escalates or denies, so for a
direct caller of the Go API with an unknown mode a triggered flag makes a shadow
deny observe-only (the comment at evaluator.go:90 says unknown stays
enforcement; the proxy and the hook never pass one). A number of a million or more
is rendered with an exponent by the text operators, and a text that parses as
NaN satisfies no strict threshold. The following bound what a property claims,
and the property's comment names each:

* `Reversible`: a first `tg protect` that stops between its settings
  (protect.go:223) and its state (236) leaves a hook without a state, and
  unprotect refuses for want of one. Running protect again mends that if a
  settings file was there before. If none was, the second protect takes the
  hooked file for the original, backs it up, and a later unprotect restores it,
  hook included.
* `EditsKept`: unprotect reads the settings (protect.go:328), then writes what it
  made of them (353, 371) or removes them (357); protect does the same (161,
  224). A save in between is overwritten, although docs/protect.md:114-118 says
  that later changes are preserved.
* `ProtectedHolds`, `AllowListHolds`: `resolveSymlinksBestEffort` puts the name of
  a dangling link back as if it were a file, so a write through it to a protected
  target that does not exist yet passes the protected-path check, and one that
  leaves an allowed directory passes `write_classify`. The comments at
  protect.go:118-122 and write_classify.go:45-51 promise more.
* `ProtectedHolds`: a command nested in more than `maxShellSubstDepth`
  substitutions is not looked into, and passes (protect.go:395).
* `FailsClosed`: an `http_classify` with deny lists only does not fire on a
  missing or empty URL (http_classify.go:30-42), as the comment on its function
  says; validate.go:187-189 says of every classifier that it does.
* `LoadedLeafDecides`: `exists` on `amount`, which every call has, always fires or
  never; so does a comparison of it with a text that is no number.

## Proofs

`AuditChainProofs` proves for every number of appends, crashes and rotations,
every sync mode and every rotation size:

* `TypeCorrect`: `Spec => []TypeOK`
* `WriterAlwaysAtTail`: `Spec => []WriterAtTail`
* `CrashNeverForksChain`: `Spec => []EveryImageRecoverable`

All three follow from `ChainInvariant`, the inductive invariant `ChainInv`.
Neither property is inductive alone: after `Write` the stream is one record
ahead of what the rollback will restore, and an image is only harmless because
of how it relates to the stream and to the synced prefix. `ChainInv` is
`TypeOK /\ DiskInv /\ OpInv`. `DiskInv`: the stream is one of the images, and
every image is `Clean` (each body followed by a newline, only the last token may
be torn, each body names the body before it) and agrees with the stream on the
synced prefix. `OpInv`: before the write the cached hash and separator flag are
those of the stream's tail; from the write to the end of a rollback the stream
up to `op.pre` is the chain the rollback returns to, with the saved hash and
flag as its tail. `ChainInv` quantifies over all hashes, so TLC cannot evaluate
it; TLC checks its consequences. "The hash of the last
record" is handled by the relation `IsTail` (a position with no record after
it), proved unique and stable under the extensions and cuts the actions make,
so that no induction over sequences is needed. The proof has one lemma per
action (`Step…`), two for what partial writes and power losses leave
(`PartialWriteClean`, `SurvivorClean`), and uses only `AuditAssumption`.

`PolicyEngineProofs` proves for every set of policies, every input length and every
order the sort may choose:

* `EngineTypeCorrect`: `Spec => []TypeOK`
* `EnforcementAlwaysApplies`: `Spec => []EnforcementApplies`
* `ShadowNeverGates`: `Spec => []ShadowOnlyObserves`
* `EnforcementPoliciesDecide`: `Spec => []EnforcementDecides`, the two together, which the run checks
* `OrderNeverMatters`: `Spec => []OrderIndependent`
* `ExplanationsFit`: `Spec => []ExplainsAction`

They follow from `EngineInvariant`. The properties speak of the finished result
only, so the invariant `EngineInv` has to follow the loops: `MatchInv` (matched
holds the applicable policies looked at, each once), `RuleInv` (the two result
sequences *tell* of exactly the firing rules passed so far, and of the enforced
ones among them; both shadow flags and the counter agree with that set) and
`DoneInv` (the result is what the accumulators resolve to, and nothing is left
to pass). Each loop turn passes at most one rule (`PassOne`), which is not yet
in the set because no policy is matched twice; the sort keeps that because a map
of 1..n onto itself is one-to-one. For the citation and the guidance `DoneInv`
also says where they come from: the first result of the worst effect among the
triggered ones, which is a firing rule whatever the order. The only assumption is `PolicyAssumption`:
rules have known effects, which `ValidatePolicy` enforces.

The second half of `AuditChainProofs` builds on `ChainInv`, for the same
parameters:

* `DurableAcksSurvive`, `AcksStayVisible`, `FailedAppendsLeaveNoRecord`: the
  three promises to callers, `DurableAckSurvives`, `AckStaysVisible` and
  `FailedLeavesNoRecord`
* `WriterImplementsAuditLog`: `Spec => ImplementsAuditLog`, the refinement

Their invariant `PromiseInv` (theorem `PromiseInvariant`) adds to `ChainInv`:
`AckInv` (acknowledged records are in the part of the stream the append in
progress will not roll back, durable ones in the synced part), `FailInv` (a
trace not yet written, or refused, is in no image) and `LogInv` (in every image
each body commits to all bodies before it). Every step treats the disk in one of
seven ways (`DiskSteps`), so each argument, the refinement included, has seven
cases instead of one per action.

`EscalationStoreProofs` proves for every number of calls, ids, faults and
restarts, every store size and set of timeouts:

* `ReservationsSurvive` (`PublishNeverFails`), `ChainTellsOneOutcome`
  (`OneOutcome`), `StoreNeverAheadOfLog` (`VisibleIsAudited`), `AnswersAreBacked`
  (`AnswersStand`), `DeadlineAlwaysDecides` (`DeadlineDecides`)
* `RegistryImplementsLifecycle`: `Spec => ImplementsLifecycle`, the refinement

The invariant `EscInv` (theorem `EscInvariant`) is `TypeOK`, `DeadlineDecides`
and three parts the code relies on without saying so. `Owned`: a slot of the map
belongs to the one call that asked for its id, hidden while the call is in
flight, visible once it was accepted; this is why publish finds its reservation.
`Locked`: the entry under the mutex stays pending between the clock reading and
the commit, and the candidate has the date its state needs. `Logged`: which
outcomes the log holds, or may turn out to hold, at each point; at most one
because a candidate is only made for an entry without any.

`EvaluateProofs` proves for every number of calls, keys, ids, policy files,
reloaders, edits and faults:

* `ServedSetIsValid` (`ServingValid`), `RecordsNameTheirDecider`
  (`StampedByDecider`), `FailClosedProceedsAudited` (`ProceedIsAudited`),
  `ChainNeverContradicts` (`ChainAgrees`), `MetricsAreHonest` (`MetricsHonest`),
  `ReservationsAreHeld` (`ReservationsHeld`), `KeysStayInBudget` (`RateBudget`)

The invariant `EvalInv` (theorem `EvalInvariant`) has a part per piece of shared
state and `CallsOK`, what a call carries at each program point. The budget needs
`Budget`: what a key was granted *and what is left in its bucket* is within
burst, rate and the grants of dropped buckets, and a key without a bucket can
afford a full one, because it was idle long enough to refill (when `IdleEvict *
Rate >= Burst`, the condition of `RateBudget`). `Chain` says that at
most one call's record can differ from its answer, and that the writer is
poisoned then. `Counted` counts with cardinalities, so its steps cite the
library's facts about finite sets.

`HookLogProofs` proves for every number of hooks, faults, outputs and prunes:

* `DamageIsConfined` (`DamageConfined`), `AckedStaysForGood` (`AckedStays`),
  `RecordsMatchDecisions` (`RecordMatchesDecision`), `OutputsAreFaithful`
  (`PrunedFaithful`)
* `NoOutputIsReplaced`: `Spec => OutputsNeverReplaced`, an action property

The invariant `FileInv` (theorem `FileInvariant`) says that every file is a
picture of a history: `Whole(lines, H, k, b)`, the records of `H` behind the
`k`-th, after a checkpoint if `b = 1`. The log is whole, whole with a torn line
behind it that is not synced, or an adopted output that nobody extends. Whoever
verifies, writes or syncs holds the lock, so what it verified is what it
extends. For prune the argument is that the check at the end suffices: what was
copied are lines of some history (`Copied`), whatever the input became after it
was opened; that the copy verifies with the checkpoint's count and last hash
then leaves only the records behind the boundary (`CheckedCopy`).

`ProtectProofs` proves for every set of settings and number of edits and commands:

* `StatusIsHonest` (`StatusHonest`), `InstallationIsReversible` (`Reversible`)
* `EditsAreKept`: `Spec => EditsKept`, an action property

The invariant `ProtectInv` (theorem `ProtectInvariant`) says what the state file
and a command between two writes may rely on: the installed settings carry the
hook of the state that records them, and an exact restore is only promised with
a backup and while the installation holds the settings it started from. Two
more parts are theorem `HooksInvariant`. `HooksOK`: as long as no first
installation was interrupted, a hook is in the settings only with a state or
under a running command, and never in the backup; protect writes a first backup
only from settings without a hook, because there was no state. `ReadOK`: what a
command has read is what the file holds, unless it was saved since.

`VelocityProofs` proves for every number of calls and keys, all amounts, caps,
windows, map and event bounds:

* `SerialSpendingIsCapped` (`SerialCap`), `DaySumIsComplete` (`DayComplete`)

Both speak of all the spending of the call's key while the keys seen so far fit
into the map (`KeysFit`), and of what went into the call's window beyond that.

The invariant `VelInv` (theorem `VelocityInvariant`) keeps the tracker's books.
`WindowInv`: for every window object there is a map from its events to the calls
that recorded into it (`Accounts`); no call has two events, and while the calls
are no more than the event cap, each of the last day has one. Prunes at the
clocks of other calls keep that because a clock is never ahead of `now`, and what
is older than a day at an earlier clock is older at a later one. `ReadInv` carries what was
read over to the decision: the sums cover what was answered before the call
arrived, and a call that went on stayed within the cap. `PastInv` says that this
earlier spending does not change any more, `HeldInv` that a window is never
allocated twice, `FitInv` that while the keys seen so far fit, nothing was swept
and a call's window is the one its key has. TLC checked `VelInv` on small instances before it was proved.
Sums are compared by counting: an amount of n is n units, a sum over a set is
the number of its units (`SumIsCount`), and the books are an injection from the
units of the calls into those of the events (`SumCovers`).

`LLMGuardProofs` proves for every label list, answer, timeout and number of
attempts:

* `SafeAnswersOnly`: `Question => []OnlySafePasses`

The invariant `LLMInv` (theorem `QuestionInvariant`) adds that a question under
way is about a configuration that validates, which keeps "safe" and the
forbidden labels apart; as the distribution sums to one, "safe" at or above the
floor leaves them the rest. `Question` is the protocol of the guard alone; the
run `rule_eval` checks that every behaviour of `RuleEval` follows it, so with
that run the theorem is about the whole evaluation. It assumes that an answer's
confidence is an integer number of tenths (`LLMAssumption`).

Assumptions are the named `ASSUME`s of the component modules: bounds are
natural numbers, sizes and periods that the code defaults are positive, and the
model's marker values ("none", "free", "absent", ...) are no ids, hooks or
policies. TLC evaluates each in a run.

Loops over sequences that the theorems need (`matchedRuleResults`,
`removeManagedClaudeHooks`, the verifier's scan `TracesOf`) are written as
recursive functions. What they compute is proved by the least counterexample: the set of
turns after which the claim fails would have a least element (`LeastNumber`, from
the well-foundedness of the naturals), and the turn before it is right.

`ChainInv`, `PromiseInv` and `FileInv` quantify over all hashes or histories, so
the runs check their consequences only.

Only model-checked: `ProtectedHolds`, `AllowListHolds`, `FailsClosed` and
`LoadedLeafDecides`, since `Condition` and `PathGuard` evaluate trees and nested
commands with RECURSIVE operators, and what a recursion over such data computes
needs an induction the provers cannot instantiate; that `RuleEval` implements
`Question`, for the same reason; and liveness (`CallEnds` and the settling of
escalations), since fairness and ENABLED are out of the prover's reach.

## Plan

Done: the modules above, a theorem for every safety property outside the
evaluation of condition trees. Worth adding next: a non-recursive form of
condition trees (a tree as a set of nodes with their parents), so that
`FailsClosed` can be proved from what validation guarantees at each node.

## Not modelled

* `reversibility.go`: a table of commands and their severities.
* The shell tokenizer, the SQL tokenizers and the dialect parsers: parsing at
  the character level. What they return is an input of the model.
* YAML and JSON decoding, the canonical byte encoding, the receipts' wire form.
* Flag parsing and HTTP shutdown of the proxy; health, metrics and schema output.
* The `tg` front ends (`simulate`, `export`, `coverage`, `verify` output), the
  Python SDK, the stress and battle tests and the examples.
* Windows path forms and the non-Linux publication of prune.

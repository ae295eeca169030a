------------------------------- MODULE Protect -------------------------------
(***************************************************************************)
(* tg protect, status and unprotect (cmd/tg/protect.go): the commands that *)
(* put the hook into a coding agent's settings file and take it out again. *)
(* A command reads the settings, the managed state and the policy, then    *)
(* writes one file after another, each by an atomic rename; it may fail or *)
(* be killed between any two, and the user edits the settings all along.   *)
(* One command runs at a time.  Without -apply a command changes nothing.  *)
(***************************************************************************)
EXTENDS Naturals, Sequences, FiniteSets

CONSTANTS Settings,   \* what a user may have in the settings file
          MaxEdits,   \* bound on the user's edits of the settings
          MaxRuns     \* bound on the commands that start

VARIABLES
    config,    \* settings.json
    backup,    \* settings.json.tool-guard.bak
    state,     \* settings.json.tool-guard-state.json
    policy,    \* the policy files, by path
    roots,     \* the directories that may hold managed files
    cmd,       \* the command in progress
    edits,     \* edits so far
    runs,      \* commands so far
    \* History, which no action reads:
    base,        \* the settings the installation in force was made from
    late,        \* the settings were saved while the command in progress ran
    interrupted  \* a first installation stopped after it wrote the settings

files == <<config, backup, state, policy, roots>>
history == <<base, late, interrupted>>
vars == <<config, backup, state, policy, roots, cmd, edits, runs, base, late, interrupted>>

-----------------------------------------------------------------------------
(* Files. *)

NoFile == [kind |-> "absent"]

Unreadable == [kind |-> "unreadable"]

\* hooks.PreToolUse: missing, a list of entries, or anything else.
NoHooks == [shape |-> "missing", entries |-> <<>>]
NotAList == [shape |-> "other", entries |-> <<>>]
ListOf(entries) == [shape |-> "list", entries |-> entries]

\* A settings file: the user's part, the hook entries, the bytes' layout and
\* the permissions.  Two files with the same first three have the same digest.
File(settings, pre, layout, mode) ==
    [kind |-> "settings", settings |-> settings, pre |-> pre, layout |-> layout, mode |-> mode]

SameDigest(f, g) == [f EXCEPT !.mode = "any"] = [g EXCEPT !.mode = "any"]

Roots == {"native", "legacy"}

\* Each root has a default policy in it; "custom" stands for -policy.
Policies == Roots \cup {"custom"}

OtherHook == [agent |-> "other"]

\* The command that settings.json runs before each tool call.
claudeHookHandler(p) == [agent |-> "tool-guard-claude", policy |-> p.policy, audit |-> p.audit]

isManagedClaudeHook(entry) == entry.agent = "tool-guard-claude"

Managed(pre) == {i \in DOMAIN pre.entries : isManagedClaudeHook(pre.entries[i])}

removeManagedClaudeHooks(pre) ==
    LET groups[i \in 0..Len(pre.entries)] ==
            IF i = 0 THEN <<>>
            ELSE IF isManagedClaudeHook(pre.entries[i]) THEN groups[i - 1]
            ELSE Append(groups[i - 1], pre.entries[i])
    IN groups[Len(pre.entries)]

\* MarshalIndent of the settings with these hooks; an empty list that
\* removeManagedClaudeHooks built is a nil slice, which is written as null.
Encoded(settings, entries) ==
    File(settings, IF entries = <<>> THEN NotAList ELSE ListOf(entries), "indented", "0600")

\* Unmanaged settings that were read but are not there count as empty.
Original(f) == IF f = NoFile THEN File("empty", NoHooks, "typed", "0600") ELSE f

\* The managed entry goes to the end, after every earlier one is gone.
mergeClaudeHook(original, handler) ==
    Encoded(original.settings, Append(removeManagedClaudeHooks(original.pre), handler))

\* A merge that found an entry counts as a change only if the meaning differs.
Changed(original, proposed) == Managed(original.pre) # {} => original.pre # proposed.pre

-----------------------------------------------------------------------------
(* Where the managed files go. *)

\* native: the platform's root can be resolved, and exists; legacy: the old
\* root shows evidence of an installation, a real policies or audit directory.
RootStates == [native : {"unresolved", "absent", "present"}, legacy : BOOLEAN]

resolveManagedRoot ==
    CASE roots.native = "unresolved" /\ roots.legacy -> {"legacy"}
      [] roots.native = "unresolved" /\ ~roots.legacy -> {}
      [] roots.native = "absent" /\ roots.legacy -> {"legacy"}
      [] OTHER -> {"native"}

\* An installation in force keeps its policy and its audit log, unless
\* -policy names another policy.
Pinned(base0, explicit) ==
    LET prior == state.kind = "state"
    IN [policy |-> IF explicit THEN "custom" ELSE IF prior THEN state.policy ELSE base0,
        audit  |-> IF prior THEN state.audit ELSE base0]

\* What a write under a root leaves behind.
Populated(root) == [roots EXCEPT !.native = IF root = "native" THEN "present" ELSE @,
                                 !.legacy = @ \/ root = "legacy"]

-----------------------------------------------------------------------------

Idle == [pc |-> "idle"]

Ends == cmd' = Idle /\ late' = FALSE

Init ==
    /\ config \in {NoFile} \cup {File(s, pre, "typed", "user") :
                                    s \in Settings, pre \in {NoHooks, ListOf(<<OtherHook>>)}}
    /\ backup = NoFile
    /\ state = NoFile
    /\ policy = [p \in Policies |-> IF p = "custom" THEN "valid" ELSE "absent"]
    /\ roots \in RootStates
    /\ cmd = Idle
    /\ edits = 0
    /\ runs = 0
    /\ base = NoFile
    /\ late = FALSE
    /\ interrupted = FALSE

-----------------------------------------------------------------------------
(* The world around the commands. *)

\* The user saves other settings, or a list without the managed hook, or a
\* hooks field the commands do not accept.
EditConfig ==
    /\ edits < MaxEdits
    /\ edits' = edits + 1
    /\ \E s \in Settings, pre \in {Original(config).pre, NoHooks, NotAList,
                                    ListOf(removeManagedClaudeHooks(Original(config).pre))} :
        config' = File(s, pre, "typed", IF config = NoFile THEN "user" ELSE config.mode)
    /\ config' # config
    /\ late' = (cmd # Idle)
    /\ UNCHANGED <<backup, state, policy, roots, cmd, runs, base, interrupted>>

\* A policy is repaired, broken or removed.
EditPolicy ==
    /\ edits < MaxEdits
    /\ edits' = edits + 1
    /\ \E p \in Policies, c \in {"absent", "invalid", "valid"} :
        /\ policy[p] # c
        /\ policy' = [policy EXCEPT ![p] = c]
    /\ UNCHANGED <<config, backup, state, roots, cmd, runs, history>>

\* The environment comes to resolve the managed root elsewhere.
MoveRoot ==
    /\ edits < MaxEdits
    /\ edits' = edits + 1
    /\ roots' \in RootStates \ {roots}
    /\ UNCHANGED <<config, backup, state, policy, cmd, runs, history>>

\* The state file no longer parses, or is of an unknown version.
DamageState ==
    /\ state.kind = "state"
    /\ edits < MaxEdits
    /\ edits' = edits + 1
    /\ state' = Unreadable
    /\ UNCHANGED <<config, backup, policy, roots, cmd, runs, history>>

\* A first installation has written the settings, and no state yet.
SettingsOnly == cmd.pc = "state" /\ cmd.prior = NoFile

\* The command is killed; what it wrote stays.
Kill ==
    /\ cmd # Idle
    /\ Ends
    /\ interrupted' = (interrupted \/ SettingsOnly)
    /\ UNCHANGED <<files, edits, runs, base>>

-----------------------------------------------------------------------------
(* tg protect claude -apply. *)

\* An unusable executable, an old Claude Code, settings that do not parse or a
\* state that is there and unreadable end it before anything is written.
StartProtect ==
    /\ cmd = Idle
    /\ runs < MaxRuns
    /\ runs' = runs + 1
    /\ state.kind # "unreadable"
    /\ Original(config).pre # NotAList
    /\ \E root \in resolveManagedRoot, explicit \in BOOLEAN :
        LET p == Pinned(root, explicit)
            proposed == mergeClaudeHook(Original(config), claudeHookHandler(p))
        IN cmd' = [pc |-> "policy", paths |-> p, default |-> ~explicit, original |-> config,
                   proposed |-> proposed, prior |-> state,
                   changed |-> Changed(Original(config), proposed)]
    /\ UNCHANGED <<files, edits, history>>

\* The starter policy is installed where no policy is, and whatever is there
\* has to load and validate.
ProtectPolicy ==
    /\ cmd.pc = "policy"
    /\ LET p == cmd.paths.policy
       IN /\ policy' = [policy EXCEPT ![p] = IF @ = "absent" /\ cmd.default THEN "valid" ELSE @]
          /\ roots' = IF policy'[p] # policy[p] THEN Populated(p) ELSE roots
          /\ IF policy'[p] = "valid" THEN cmd' = [cmd EXCEPT !.pc = "backup"] /\ UNCHANGED late
                                     ELSE Ends
    /\ UNCHANGED <<config, backup, state, edits, runs, base, interrupted>>

FirstInstall == cmd.prior = NoFile

\* Every installation keeps the bytes it found.
NeedsBackupAlways == cmd.original # NoFile

\* The first installation keeps the bytes it found, unless a backup is there.
NeedsBackup == FirstInstall /\ cmd.original # NoFile /\ backup = NoFile

ProtectBackup ==
    /\ cmd.pc = "backup"
    /\ backup' = IF NeedsBackup THEN [cmd.original EXCEPT !.mode = "0600"] ELSE backup
    /\ cmd' = [cmd EXCEPT !.pc = "config"]
    /\ UNCHANGED <<config, state, policy, roots, edits, runs, history>>

\* The audit directory, then the settings with the hook.
ProtectConfig ==
    /\ cmd.pc = "config"
    /\ roots' = Populated(cmd.paths.audit)
    /\ config' = IF cmd.changed THEN cmd.proposed ELSE config
    /\ cmd' = [cmd EXCEPT !.pc = "state"]
    /\ UNCHANGED <<backup, state, policy, edits, runs, history>>

\* Safe for good once the first installation was.
SafeIfPriorWas == FirstInstall \/ cmd.prior.safe

\* Restoring exactly stays safe only while every protect found what the one
\* before it had installed.
ExactRestoreSafe ==
    \/ FirstInstall
    \/ cmd.prior.safe /\ cmd.original # NoFile /\ SameDigest(cmd.original, cmd.prior.installed)

\* A later protect keeps the policy of the first, as it keeps the mode.
RecordsPriorPolicy == IF FirstInstall THEN cmd.paths.policy ELSE cmd.prior.policy

RecordedPolicy == cmd.paths.policy

ProtectState ==
    /\ cmd.pc = "state"
    /\ state' = [kind |-> "state", policy |-> RecordedPolicy, audit |-> cmd.paths.audit,
                 installed |-> cmd.proposed,
                 existed |-> IF FirstInstall THEN cmd.original # NoFile ELSE cmd.prior.existed,
                 mode |-> IF FirstInstall THEN Original(cmd.original).mode ELSE cmd.prior.mode,
                 safe |-> ExactRestoreSafe]
    /\ base' = IF FirstInstall THEN cmd.original ELSE base
    /\ Ends
    /\ UNCHANGED <<config, backup, policy, roots, edits, runs, interrupted>>

\* The state cannot be written: the settings go back to what was read, which
\* may fail as well.
ProtectStateFails ==
    /\ cmd.pc = "state"
    /\ config' \in {config, IF cmd.changed THEN cmd.original ELSE config}
    /\ Ends
    /\ interrupted' = (interrupted \/ (SettingsOnly /\ config' = config))
    /\ UNCHANGED <<backup, state, policy, roots, edits, runs, base>>

\* Any other write fails: the command ends.
WriteFails ==
    /\ cmd.pc \in {"policy", "backup", "config", "restore", "forget"}
    /\ Ends
    /\ UNCHANGED <<files, edits, runs, base, interrupted>>

-----------------------------------------------------------------------------
(* tg unprotect claude -apply. *)

\* It refuses without a readable state or without a managed hook to remove.
StartUnprotect ==
    /\ cmd = Idle
    /\ runs < MaxRuns
    /\ runs' = runs + 1
    /\ state.kind = "state"
    /\ Managed(Original(config).pre) # {}
    /\ cmd' = [pc |-> "restore", original |-> config, prior |-> state]
    /\ UNCHANGED <<files, edits, history>>

ExactRestore == cmd.prior.safe /\ SameDigest(cmd.original, cmd.prior.installed)

\* The backup, nothing, or the settings without the hook.
UnprotectConfig ==
    /\ cmd.pc = "restore"
    /\ ExactRestore /\ cmd.prior.existed => backup # NoFile
    /\ config' =
        CASE ExactRestore /\ cmd.prior.existed -> [backup EXCEPT !.mode = cmd.prior.mode]
          [] ExactRestore /\ ~cmd.prior.existed -> NoFile
          [] OTHER -> [Encoded(cmd.original.settings, removeManagedClaudeHooks(cmd.original.pre))
                         EXCEPT !.mode = IF cmd.prior.existed THEN cmd.prior.mode ELSE "0600"]
    /\ cmd' = [cmd EXCEPT !.pc = "forget"]
    /\ UNCHANGED <<backup, state, policy, roots, edits, runs, history>>

UnprotectState ==
    /\ cmd.pc = "forget"
    /\ state' = NoFile
    /\ Ends
    /\ UNCHANGED <<config, backup, policy, roots, edits, runs, base, interrupted>>

-----------------------------------------------------------------------------

Next ==
    \/ EditConfig
    \/ EditPolicy
    \/ MoveRoot
    \/ DamageState
    \/ Kill
    \/ StartProtect
    \/ ProtectPolicy
    \/ ProtectBackup
    \/ ProtectConfig
    \/ ProtectState
    \/ ProtectStateFails
    \/ WriteFails
    \/ StartUnprotect
    \/ UnprotectConfig
    \/ UnprotectState

Spec == Init /\ [][Next]_vars

\* Every command runs to its end and every write succeeds.
UninterruptedSpec == Init /\ [][Next /\ ~Kill /\ ~ProtectStateFails /\ ~WriteFails]_vars

-----------------------------------------------------------------------------
(* tg status, with the tg executable in its place. *)

Drifted == config = NoFile \/ ~SameDigest(config, state.installed)

Protected ==
    /\ state.kind = "state"
    /\ Managed(Original(config).pre) # {}
    /\ policy[state.policy] = "valid"

-----------------------------------------------------------------------------
(* Properties. *)

\* When status reports an installation that is protected and has not drifted,
\* every managed hook in the settings runs the policy and writes the log that
\* the state names and status has just validated, whatever was edited, moved,
\* killed or failed before (runProtectStatus, the pins of runProtect).
StatusHonest ==
    Protected /\ ~Drifted =>
        \A i \in Managed(config.pre) : config.pre.entries[i] = claudeHookHandler(state)

\* No hook is left in the settings without the state that unprotect needs to
\* take it out, the backup is never a file that has the hook already, and a
\* state that promises an exact restore has its backup, through uninstalls,
\* reinstalls, edits and kills (the order in which runProtect and runUnprotect
\* write, and the rollback of runProtect).  The first two except what follows a
\* first installation that stopped between its settings and its state: the hook
\* is then there without a state, unprotect refuses, and where no backup was
\* made the next protect backs the hooked file up.
Reversible ==
    /\ state.kind = "state" /\ state.safe /\ state.existed => backup # NoFile
    /\ ~interrupted =>
          /\ cmd = Idle /\ state = NoFile => Managed(Original(config).pre) = {}
          /\ Managed(Original(backup).pre) = {}

\* The user's part of the settings is changed by nobody but the user: not by
\* protect, its rollback or unprotect's removal of the hook, however often
\* protect ran or was killed in between; only an exact restore may, and only if
\* the settings it replaces are those the installation was made from (what it
\* then restores is the question of OriginalRestored).  Excepted are settings
\* saved while the command runs: protect and unprotect write what they made of
\* the file they read, and a save in between is overwritten, although
\* docs/protect.md says that unprotect preserves later changes.
EditsKept ==
    [][/\ cmd' # cmd
       /\ ~late
       /\ Original(config').settings # Original(config).settings
       => /\ cmd.pc = "restore"
          /\ ExactRestore
          /\ Original(config).settings = Original(base).settings]_vars

\* An exact restore brings back the bytes and permissions that the
\* installation was made from (docs/protect.md).
OriginalRestored ==
    [][cmd.pc = "restore" /\ cmd'.pc = "forget" /\ ExactRestore => config' = base]_vars

=============================================================================

---------------------------- MODULE ProtectProofs ----------------------------
(***************************************************************************)
(* Proofs about Protect for every set of settings and every number of      *)
(* edits, commands, kills and failed writes.  The inductive invariant says *)
(* what the state file, and the command in progress, may rely on: what was *)
(* installed carries the hook of the state that records it, an exact       *)
(* restore that is promised has its backup, and it is only promised while  *)
(* the installation holds the settings it started from.                    *)
(* Two further parts say where the hook may be as long as no first         *)
(* installation stopped half way, and what a command has read.             *)
(***************************************************************************)
EXTENDS Protect, SequenceTheorems, WellFoundedInduction, TLAPS

Entry == {OtherHook} \cup [agent : {"tool-guard-claude"}, policy : Policies, audit : Roots]

PreT == [shape : {"missing", "other", "list"}, entries : Seq(Entry)]

FileT == [kind : {"settings"}, settings : Settings \cup {"empty"}, pre : PreT,
          layout : {"typed", "indented"}, mode : {"user", "0600"}]

PathsT == [policy : Policies, audit : Roots]

StateT == [kind : {"state"}, policy : Policies, audit : Roots, installed : FileT,
           existed : BOOLEAN, mode : {"user", "0600"}, safe : BOOLEAN]

\* Every managed entry of f is the hook of p.
Runs(f, p) ==
    \A i \in Managed(f.pre) : f.pre.entries[i] = claudeHookHandler(p)

\* What a state file promises: the hook it records, a backup for an exact
\* restore, and settings that are still those of the base.
StateOK(s, start, saved) ==
    /\ s \in {NoFile, Unreadable} \cup StateT
    /\ s.kind = "state" =>
          /\ Runs(s.installed, s)
          /\ s.safe => s.installed.settings = Original(start).settings
          /\ s.safe /\ s.existed => saved # NoFile

FilesOK ==
    /\ config \in {NoFile} \cup FileT
    /\ backup \in {NoFile} \cup FileT
    /\ base \in {NoFile} \cup FileT
    /\ StateOK(state, base, backup)

ProtectPcs == {"policy", "backup", "config", "state"}

ProtectT == [pc : ProtectPcs, paths : PathsT, default : BOOLEAN,
             original : {NoFile} \cup FileT, proposed : FileT,
             prior : {NoFile} \cup StateT, changed : BOOLEAN]

UnprotectT == [pc : {"restore", "forget"}, original : FileT, prior : StateT]

\* A protect in progress: what it will write, and the backup it has made.
ProtectOK ==
    cmd.pc \in ProtectPcs =>
        /\ cmd \in ProtectT
        /\ StateOK(cmd.prior, base, backup)
        /\ Runs(cmd.proposed, cmd.paths)
        /\ cmd.proposed.settings = Original(cmd.original).settings
        /\ (cmd.pc \in {"config", "state"} /\ FirstInstall /\ cmd.original # NoFile)
              => backup # NoFile

\* An unprotect in progress.
UnprotectOK ==
    cmd.pc \in {"restore", "forget"} =>
        /\ cmd \in UnprotectT
        /\ StateOK(cmd.prior, base, backup)

\* f has no managed hook.
Clean(f) == Managed(Original(f).pre) = {}

\* Where the hook may be while no first installation was interrupted: never in
\* the backup or in what a first installation has read, and in the settings
\* only when there is a state, or a first installation is about to write it.
HooksOK ==
    ~interrupted =>
        /\ Clean(backup)
        /\ cmd = Idle /\ state = NoFile => Clean(config)
        /\ cmd.pc \in ProtectPcs => (FirstInstall <=> state = NoFile)
        /\ cmd.pc \in ProtectPcs /\ FirstInstall => Clean(cmd.original)
        /\ cmd.pc \in {"policy", "backup", "config"} /\ FirstInstall => Clean(config)
        /\ cmd.pc \in {"restore", "forget"} => state # NoFile
        /\ cmd.pc = "forget" => Clean(config)

\* What a command has read is what there is, or the user has saved since.
ReadOK ==
    ~late =>
        /\ cmd.pc \in {"policy", "backup", "config", "restore"} => config = cmd.original
        /\ cmd.pc = "state" => Original(config).settings = Original(cmd.original).settings

ProtectInv ==
    /\ FilesOK /\ ProtectOK /\ UnprotectOK
    /\ cmd = Idle \/ cmd.pc \in ProtectPcs \cup {"restore", "forget"}

-----------------------------------------------------------------------------
(* Files and hooks *)

\* The least element of a set of numbers: proofs about the loop go by its
\* least counterexample.
LEMMA LeastNumber ==
    ASSUME NEW T, T \subseteq Nat, T # {}
    PROVE  \E m \in T : \A k \in T : m <= k
<1> DEFINE R == {ss \in Nat \X Nat : ss[1] < ss[2]}
<1>1. IsWellFoundedOn(R, Nat)
  BY NatLessThanWellFounded DEF OpToRel
<1>2. \A x, y \in Nat : x < y => <<x, y>> \in R
  OBVIOUS
<1> HIDE DEF R
<1>3. PICK x \in T : \A y \in T : ~ (<<y, x>> \in R)
  BY <1>1, WFMin
<1>4. \A y \in T : ~(y < x)
  BY <1>2, <1>3
<1>5. \A y \in T : x <= y
  BY <1>4
<1> QED BY <1>5

\* groups after each turn of the loop.
Turns(g, e, n) ==
    g = [i \in 0..n |-> IF i = 0 THEN <<>>
                        ELSE IF isManagedClaudeHook(e[i]) THEN g[i - 1]
                        ELSE Append(g[i - 1], e[i])]

\* The loop of removeManagedClaudeHooks computes groups turn by turn.
LEMMA LoopRuns ==
    ASSUME NEW e, NEW n \in Nat
    PROVE  \E g : Turns(g, e, n)
<1> DEFINE T == {m \in Nat : ~ \E g : Turns(g, e, m)}
<1> SUFFICES ASSUME T # {} PROVE FALSE
  OBVIOUS
<1>1. PICK m \in T : \A k \in T : m <= k
  BY LeastNumber
<1>2. m \in Nat /\ ~ \E g : Turns(g, e, m)
  OBVIOUS
<1>3. CASE m = 0
  <2> DEFINE h == [i \in 0..m |-> <<>>]
  <2>1. Turns(h, e, m)
    BY <1>3 DEF Turns
  <2> QED BY <1>2, <2>1
<1>4. CASE m > 0
  <2>1. m - 1 \in Nat /\ ~(m <= m - 1)
    BY <1>2, <1>4
  <2>2. PICK g : Turns(g, e, m - 1)
    BY <1>1, <2>1
  <2> DEFINE h == [i \in 0..m |-> IF i = m THEN IF isManagedClaudeHook(e[m]) THEN g[m - 1]
                                             ELSE Append(g[m - 1], e[m])
                                  ELSE g[i]]
  <2>3. ASSUME NEW i \in 0..m
        PROVE  h[i] = IF i = 0 THEN <<>>
                      ELSE IF isManagedClaudeHook(e[i]) THEN h[i - 1]
                      ELSE Append(h[i - 1], e[i])
    <3>1. CASE i = m
      <4>1. h[m - 1] = g[m - 1]
        BY <1>2, <1>4
      <4> QED BY <4>1, <3>1, <1>4
    <3>2. CASE i # m
      <4>1. /\ i \in 0..(m - 1) /\ h[i] = g[i]
            /\ i # 0 => i - 1 \in 0..m /\ i - 1 # m /\ h[i - 1] = g[i - 1]
        BY <3>2, <1>2
      <4>2. g[i] = IF i = 0 THEN <<>>
                   ELSE IF isManagedClaudeHook(e[i]) THEN g[i - 1]
                   ELSE Append(g[i - 1], e[i])
        BY <2>2, <4>1 DEF Turns
      <4> QED BY <4>1, <4>2
    <3> QED BY <3>1, <3>2
  <2>4. Turns(h, e, m)
    BY <2>3 DEF Turns
  <2> QED BY <1>2, <2>4
<1> QED BY <1>2, <1>3, <1>4

\* What is left after removeManagedClaudeHooks is a list of entries, none of
\* them managed.
LEMMA NoneManaged ==
    ASSUME NEW pre \in PreT
    PROVE  /\ removeManagedClaudeHooks(pre) \in Seq(Entry)
           /\ \A j \in 1..Len(removeManagedClaudeHooks(pre)) :
                 ~isManagedClaudeHook(removeManagedClaudeHooks(pre)[j])
<1> DEFINE e == pre.entries
           Good(s) == s \in Seq(Entry) /\ \A j \in 1..Len(s) : ~isManagedClaudeHook(s[j])
<1>1. e \in Seq(Entry) /\ Len(e) \in Nat
  BY DEF PreT
<1>2. PICK g : Turns(g, e, Len(e)) /\ removeManagedClaudeHooks(pre) = g[Len(e)]
  BY <1>1, LoopRuns DEF removeManagedClaudeHooks, Turns
<1> HIDE DEF e
<1> DEFINE T == {m \in 0..Len(e) : ~Good(g[m])}
<1> SUFFICES ASSUME T # {} PROVE FALSE
  BY <1>1, <1>2
<1>3. T \subseteq Nat
  BY <1>1
<1>4. PICK m \in T : \A k \in T : m <= k
  BY <1>3, LeastNumber
<1>5. m \in 0..Len(e) /\ m \in Nat /\ ~Good(g[m])
  BY <1>3
<1>6. g[m] = IF m = 0 THEN <<>>
             ELSE IF isManagedClaudeHook(e[m]) THEN g[m - 1]
             ELSE Append(g[m - 1], e[m])
  BY <1>2, <1>5 DEF Turns
<1>7. CASE m = 0
  BY <1>5, <1>6, <1>7
<1>8. CASE m # 0
  <2>1. m - 1 \in 0..Len(e) /\ ~(m <= m - 1) /\ m \in 1..Len(e)
    BY <1>1, <1>5, <1>8
  <2>2. Good(g[m - 1])
    BY <1>4, <2>1
  <2>3. e[m] \in Entry
    BY <1>1, <2>1, ElementOfSeq
  <2> DEFINE s == g[m - 1]
  <2>4. ASSUME ~isManagedClaudeHook(e[m]) PROVE Good(Append(s, e[m]))
    <3>1. s \in Seq(Entry) /\ \A j \in 1..Len(s) : ~isManagedClaudeHook(s[j])
      BY <2>2
    <3> HIDE DEF s
    <3>2. Append(s, e[m]) \in Seq(Entry)
      BY <2>3, <3>1, AppendProperties
    <3>3. /\ Len(Append(s, e[m])) = Len(s) + 1 /\ Append(s, e[m])[Len(s) + 1] = e[m]
          /\ Len(s) \in Nat /\ \A j \in 1..Len(s) : Append(s, e[m])[j] = s[j]
      BY <2>3, <3>1, AppendProperties
    <3>4. ASSUME NEW j \in 1..Len(Append(s, e[m]))
          PROVE  ~isManagedClaudeHook(Append(s, e[m])[j])
      <4>1. j \in 1..Len(s) \/ j = Len(s) + 1
        BY <3>3
      <4> QED BY <4>1, <3>1, <3>3, <2>4
    <3> QED BY <3>2, <3>4
  <2> QED BY <1>5, <1>6, <1>8, <2>2, <2>4
<1> QED BY <1>5, <1>7, <1>8

\* Kinds tell the files apart.
LEMMA Kinds ==
    /\ NoFile \notin FileT /\ NoFile \notin StateT /\ Unreadable \notin StateT
    /\ NoFile.kind # "state" /\ Unreadable.kind # "state"
    /\ \A s \in StateT : s.kind = "state"
BY DEF NoFile, Unreadable, FileT, StateT

\* A settings file made of parts of the right type.
LEMMA FileType ==
    ASSUME NEW s \in Settings \cup {"empty"}, NEW pre \in PreT,
           NEW l \in {"typed", "indented"}, NEW m \in {"user", "0600"}
    PROVE  /\ File(s, pre, l, m) \in FileT
           /\ File(s, pre, l, m).pre = pre /\ File(s, pre, l, m).settings = s
BY DEF File, FileT

\* A mode is all that chmod changes.
LEMMA ModeType ==
    ASSUME NEW f \in FileT, NEW m \in {"user", "0600"}
    PROVE  /\ [f EXCEPT !.mode = m] \in FileT
           /\ [f EXCEPT !.mode = m].settings = f.settings
BY DEF FileT

\* The three shapes of hooks.PreToolUse.
LEMMA PreTypes ==
    /\ NoHooks \in PreT /\ NotAList \in PreT
    /\ \A es \in Seq(Entry) : ListOf(es) \in PreT /\ ListOf(es).entries = es
BY DEF NoHooks, NotAList, ListOf, PreT

\* What is read from a settings file that may be missing.
LEMMA OriginalType ==
    ASSUME NEW f \in {NoFile} \cup FileT
    PROVE  /\ Original(f) \in FileT /\ Original(f).pre \in PreT
           /\ Original(f).settings \in Settings \cup {"empty"}
           /\ Original(f).mode \in {"user", "0600"}
           /\ f # NoFile => Original(f) = f /\ f \in FileT
           /\ Managed(Original(f).pre) # {} => f # NoFile
<1>1. NoHooks \in PreT
  BY PreTypes
<1>2. Original(f) \in FileT
  BY <1>1, FileType DEF Original
<1>3. f = NoFile => Managed(Original(f).pre) = {}
  BY DEF Original, File, NoHooks, Managed
<1>4. f # NoFile => Original(f) = f /\ f \in FileT
  BY DEF Original
<1>5. /\ Original(f).pre \in PreT /\ Original(f).settings \in Settings \cup {"empty"}
      /\ Original(f).mode \in {"user", "0600"}
  BY <1>2 DEF FileT
<1> QED BY <1>2, <1>3, <1>4, <1>5

\* Files with the same digest have the same hooks and the same settings.
LEMMA DigestFacts ==
    ASSUME NEW f \in FileT, NEW g \in FileT, SameDigest(f, g)
    PROVE  f.pre = g.pre /\ f.settings = g.settings
<1>1. [f EXCEPT !.mode = "any"].pre = f.pre /\ [g EXCEPT !.mode = "any"].pre = g.pre
  BY DEF FileT
<1>2. [f EXCEPT !.mode = "any"].settings = f.settings /\ [g EXCEPT !.mode = "any"].settings = g.settings
  BY DEF FileT
<1> QED BY <1>1, <1>2 DEF SameDigest

\* The settings json writes back after the managed hooks are out.
LEMMA EncodedType ==
    ASSUME NEW s \in Settings \cup {"empty"}, NEW es \in Seq(Entry)
    PROVE  Encoded(s, es) \in FileT /\ Encoded(s, es).settings = s
<1>1. NotAList \in PreT /\ ListOf(es) \in PreT
  BY PreTypes
<1>2. CASE es = <<>>
  BY <1>1, <1>2, FileType DEF Encoded
<1>3. CASE es # <<>>
  BY <1>1, <1>3, FileType DEF Encoded
<1> QED BY <1>2, <1>3

\* mergeClaudeHook: the only managed entry is the new one, and the user's part
\* stays.
LEMMA MergeFacts ==
    ASSUME NEW o \in FileT, NEW p \in PathsT
    PROVE  /\ mergeClaudeHook(o, claudeHookHandler(p)) \in FileT
           /\ mergeClaudeHook(o, claudeHookHandler(p)).settings = o.settings
           /\ Runs(mergeClaudeHook(o, claudeHookHandler(p)), p)
<1> DEFINE h == claudeHookHandler(p)
           r == removeManagedClaudeHooks(o.pre)
           es == Append(r, h)
           m == mergeClaudeHook(o, h)
<1>1. o.pre \in PreT /\ o.settings \in Settings \cup {"empty"}
  BY DEF FileT
<1>2. h \in Entry
  BY DEF claudeHookHandler, Entry, PathsT
<1>3. r \in Seq(Entry) /\ \A j \in 1..Len(r) : ~isManagedClaudeHook(r[j])
  BY <1>1, NoneManaged
<1>4. m = Encoded(o.settings, es)
  BY DEF mergeClaudeHook
<1> HIDE DEF h, r
<1>5. /\ es \in Seq(Entry) /\ es # <<>> /\ Len(es) = Len(r) + 1 /\ Len(r) \in Nat
      /\ es[Len(r) + 1] = h /\ \A j \in 1..Len(r) : es[j] = r[j]
  <2>1. es \in Seq(Entry) /\ Len(es) = Len(r) + 1 /\ Len(r) \in Nat
    BY <1>2, <1>3, AppendProperties
  <2>2. es[Len(r) + 1] = h /\ \A j \in 1..Len(r) : es[j] = r[j]
    BY <1>2, <1>3, AppendProperties
  <2>3. es # <<>>
    BY <1>2, <1>3, AppendProperties
  <2> QED BY <2>1, <2>2, <2>3
<1> HIDE DEF es
<1>6. m \in FileT /\ m.settings = o.settings
  BY <1>1, <1>4, <1>5, EncodedType
<1>7. m.pre = ListOf(es) /\ m.pre.entries = es
  <2>1. ListOf(es) \in PreT /\ ListOf(es).entries = es
    BY <1>5, PreTypes
  <2>2. m = File(o.settings, ListOf(es), "indented", "0600")
    BY <1>4, <1>5 DEF Encoded
  <2>3. m.pre = ListOf(es)
    BY <2>1, <2>2, <1>1, FileType
  <2> QED BY <2>1, <2>3
<1>8. \A i \in 1..Len(es) : i \in 1..Len(r) \/ i = Len(r) + 1
  BY <1>5
<1> HIDE DEF m
<1>9. Runs(m, p)
  <2> SUFFICES ASSUME NEW i \in Managed(m.pre) PROVE m.pre.entries[i] = claudeHookHandler(p)
    BY DEF Runs
  <2>1. i \in 1..Len(es) /\ isManagedClaudeHook(es[i])
    BY <1>5, <1>7 DEF Managed
  <2> QED BY <2>1, <1>3, <1>5, <1>7, <1>8 DEF h
<1> QED BY <1>6, <1>9 DEF m, h

\* A backup that appears does not harm what a state file promises.
LEMMA StateStays ==
    ASSUME NEW s, NEW start, NEW saved, NEW saved2, StateOK(s, start, saved),
           saved # NoFile => saved2 # NoFile
    PROVE  StateOK(s, start, saved2)
BY DEF StateOK

-----------------------------------------------------------------------------
(* The steps *)

\* No command in progress, nothing promised about one.
LEMMA IdleFacts == Idle.pc = "idle" /\ "idle" \notin ProtectPcs \cup {"restore", "forget"}
BY DEF Idle, ProtectPcs

\* A command that ends leaves only the files to account for.
LEMMA EndsKeeps ==
    ASSUME Ends, FilesOK'
    PROVE  ProtectInv'
<1>1. cmd' = Idle /\ cmd'.pc = "idle"
  BY IdleFacts DEF Ends
<1> QED BY <1>1, IdleFacts DEF ProtectInv, ProtectOK, UnprotectOK

\* What the environment does to the files leaves a command in progress with
\* what it has read.
LEMMA CmdKeeps ==
    ASSUME ProtectInv, FilesOK', UNCHANGED <<cmd, base, backup>>
    PROVE  ProtectInv'
<1>1. ProtectOK'
  BY DEF ProtectInv, ProtectOK, FirstInstall
<1>2. UnprotectOK'
  BY DEF ProtectInv, UnprotectOK
<1> QED BY <1>1, <1>2 DEF ProtectInv

\* The invariant holds before any command.
LEMMA ProtectInit ==
    ASSUME Init PROVE ProtectInv
<1>1. config \in {NoFile} \cup FileT
  <2>1. ListOf(<<OtherHook>>) \in PreT /\ NoHooks \in PreT
    <3>1. <<OtherHook>> \in Seq(Entry)
      BY DEF Entry
    <3> QED BY <3>1, PreTypes
  <2>2. \A s \in Settings, pre \in {NoHooks, ListOf(<<OtherHook>>)} :
           File(s, pre, "typed", "user") \in FileT
    BY <2>1, FileType
  <2> QED BY <2>2 DEF Init
<1>2. StateOK(state, base, backup)
  BY Kinds DEF Init, StateOK
<1>3. FilesOK
  BY <1>1, <1>2 DEF Init, FilesOK
<1> QED BY <1>3, IdleFacts DEF Init, ProtectInv, ProtectOK, UnprotectOK

\* The user, the environment and a kill.
LEMMA WorldStep ==
    ASSUME ProtectInv, EditConfig \/ EditPolicy \/ MoveRoot \/ DamageState \/ Kill
    PROVE  ProtectInv'
<1>0. FilesOK
  BY DEF ProtectInv
<1>1. CASE EditConfig
  <2>1. config \in {NoFile} \cup FileT
    BY <1>0 DEF FilesOK
  <2>2. Original(config).pre \in PreT /\ NoHooks \in PreT /\ NotAList \in PreT
    BY <2>1, OriginalType, PreTypes
  <2>3. ListOf(removeManagedClaudeHooks(Original(config).pre)) \in PreT
    BY <2>2, NoneManaged, PreTypes
  <2> DEFINE m == IF config = NoFile THEN "user" ELSE config.mode
  <2>4. m \in {"user", "0600"}
    BY <2>1 DEF FileT
  <2>5. PICK s \in Settings, pre \in {Original(config).pre, NoHooks, NotAList,
                                    ListOf(removeManagedClaudeHooks(Original(config).pre))} :
           config' = File(s, pre, "typed", m)
    BY <1>1 DEF EditConfig
  <2> HIDE DEF m
  <2>6. config' \in FileT
    BY <2>2, <2>3, <2>4, <2>5, FileType
  <2>7. UNCHANGED <<cmd, base, backup, state>>
    BY <1>1 DEF EditConfig
  <2>8. FilesOK'
    BY <1>0, <2>6, <2>7 DEF FilesOK
  <2> QED BY <2>7, <2>8, CmdKeeps
<1>2. CASE EditPolicy \/ MoveRoot
  <2>1. UNCHANGED <<cmd, base, backup, config, state>>
    BY <1>2 DEF EditPolicy, MoveRoot, history
  <2>2. FilesOK'
    BY <1>0, <2>1 DEF FilesOK
  <2> QED BY <2>1, <2>2, CmdKeeps
<1>3. CASE DamageState
  <2>1. UNCHANGED <<cmd, base, backup, config>> /\ state' = Unreadable
    BY <1>3 DEF DamageState, history
  <2>2. StateOK(Unreadable, base, backup)
    BY Kinds DEF StateOK
  <2>3. FilesOK'
    BY <1>0, <2>1, <2>2 DEF FilesOK
  <2> QED BY <2>1, <2>3, CmdKeeps
<1>4. CASE Kill
  <2>1. FilesOK' /\ Ends
    BY <1>0, <1>4 DEF Kill, files, FilesOK
  <2> QED BY <2>1, EndsKeeps
<1> QED BY <1>1, <1>2, <1>3, <1>4

\* The roots a new installation may use.
LEMMA ManagedRoot == resolveManagedRoot \subseteq Roots
BY DEF resolveManagedRoot, Roots

\* StartProtect plans from what it reads.
LEMMA StartProtectStep ==
    ASSUME ProtectInv, StartProtect
    PROVE  ProtectInv'
<1>0. FilesOK /\ config \in {NoFile} \cup FileT
  BY DEF ProtectInv, FilesOK
<1>1. state \in {NoFile} \cup StateT /\ StateOK(state, base, backup)
  BY <1>0, Kinds DEF FilesOK, StateOK, StartProtect, Unreadable
<1>2. PICK root \in resolveManagedRoot, explicit \in BOOLEAN :
        cmd' = [pc |-> "policy", paths |-> Pinned(root, explicit), default |-> ~explicit,
                original |-> config,
                proposed |-> mergeClaudeHook(Original(config),
                                             claudeHookHandler(Pinned(root, explicit))),
                prior |-> state,
                changed |-> Changed(Original(config),
                                    mergeClaudeHook(Original(config),
                                                    claudeHookHandler(Pinned(root, explicit))))]
  BY DEF StartProtect
<1> DEFINE p == Pinned(root, explicit)
           f == mergeClaudeHook(Original(config), claudeHookHandler(p))
           c == Changed(Original(config), f)
           d == ~explicit
<1>3. p \in PathsT
  <2>1. root \in Roots /\ root \in Policies /\ "custom" \in Policies
    BY ManagedRoot DEF Policies
  <2>2. state.kind = "state" => state.policy \in Policies /\ state.audit \in Roots
    BY <1>1, Kinds DEF StateT
  <2> QED BY <2>1, <2>2 DEF Pinned, PathsT
<1>4. Original(config) \in FileT
  BY <1>0, OriginalType
<1>5. f \in FileT /\ f.settings = Original(config).settings /\ Runs(f, p)
  BY <1>3, <1>4, MergeFacts
<1>6. c \in BOOLEAN /\ d \in BOOLEAN
  BY DEF Changed
<1>7. cmd' = [pc |-> "policy", paths |-> p, default |-> d, original |-> config,
              proposed |-> f, prior |-> state, changed |-> c]
  BY <1>2
<1> HIDE DEF p, f, c, d
<1>8. /\ cmd' \in ProtectT /\ cmd'.pc = "policy" /\ cmd'.prior = state /\ cmd'.proposed = f
      /\ cmd'.paths = p /\ cmd'.original = config
  BY <1>0, <1>1, <1>3, <1>5, <1>6, <1>7 DEF ProtectT, ProtectPcs
<1>9. UNCHANGED <<config, backup, state, base>>
  BY DEF StartProtect, files, history
<1>10. FilesOK'
  BY <1>0, <1>9 DEF FilesOK
<1>11. ProtectOK' /\ UnprotectOK' /\ cmd'.pc \in ProtectPcs
  BY <1>1, <1>5, <1>8, <1>9 DEF ProtectOK, UnprotectOK, ProtectPcs
<1> QED BY <1>10, <1>11 DEF ProtectInv

\* A protect that moves on keeps all it has planned.
LEMMA ProtectMoves ==
    ASSUME cmd \in ProtectT, NEW q \in ProtectPcs, cmd' = [cmd EXCEPT !.pc = q]
    PROVE  /\ cmd' \in ProtectT /\ cmd'.pc = q
           /\ cmd'.paths = cmd.paths /\ cmd'.original = cmd.original
           /\ cmd'.proposed = cmd.proposed /\ cmd'.prior = cmd.prior
BY DEF ProtectT

\* The policy, the backup and the settings of a protect.
LEMMA ProtectWrites ==
    ASSUME ProtectInv, ProtectPolicy \/ ProtectBackup \/ ProtectConfig
    PROVE  ProtectInv'
<1>0. FilesOK /\ ProtectOK
  BY DEF ProtectInv
<1>1. /\ cmd.pc \in ProtectPcs /\ cmd \in ProtectT /\ StateOK(cmd.prior, base, backup)
      /\ Runs(cmd.proposed, cmd.paths)
      /\ cmd.proposed.settings = Original(cmd.original).settings
  BY <1>0 DEF ProtectOK, ProtectPolicy, ProtectBackup, ProtectConfig, ProtectPcs
<1>2. /\ "backup" \in ProtectPcs /\ "config" \in ProtectPcs /\ "state" \in ProtectPcs
      /\ "restore" \notin ProtectPcs /\ "forget" \notin ProtectPcs
  BY DEF ProtectPcs
<1>3. /\ cmd.original \in {NoFile} \cup FileT /\ cmd.proposed \in FileT
  BY <1>1 DEF ProtectT
<1>4. CASE ProtectPolicy
  <2>1. UNCHANGED <<config, backup, state, base>>
    BY <1>4 DEF ProtectPolicy
  <2>2. FilesOK'
    BY <1>0, <2>1 DEF FilesOK
  <2>3. CASE Ends
    BY <2>2, <2>3, EndsKeeps
  <2>4. CASE cmd' = [cmd EXCEPT !.pc = "backup"]
    <3>1. /\ cmd' \in ProtectT /\ cmd'.pc = "backup"
          /\ cmd'.paths = cmd.paths /\ cmd'.original = cmd.original
          /\ cmd'.proposed = cmd.proposed /\ cmd'.prior = cmd.prior
      BY <1>1, <1>2, <2>4, ProtectMoves
    <3>2. ProtectOK' /\ UnprotectOK'
      BY <1>1, <2>1, <3>1 DEF ProtectOK, UnprotectOK
    <3> QED BY <1>2, <2>2, <3>1, <3>2 DEF ProtectInv
  <2> QED BY <1>4, <2>3, <2>4 DEF ProtectPolicy
<1>5. CASE ProtectBackup
  <2>1. UNCHANGED <<config, state, base>> /\ cmd' = [cmd EXCEPT !.pc = "config"]
    BY <1>5 DEF ProtectBackup, history
  <2>2. /\ cmd' \in ProtectT /\ cmd'.pc = "config"
        /\ cmd'.paths = cmd.paths /\ cmd'.original = cmd.original
        /\ cmd'.proposed = cmd.proposed /\ cmd'.prior = cmd.prior
    BY <1>1, <1>2, <2>1, ProtectMoves
  <2>3. /\ backup' \in {NoFile} \cup FileT
        /\ backup # NoFile => backup' # NoFile
        /\ FirstInstall /\ cmd.original # NoFile => backup' # NoFile
    <3>1. CASE NeedsBackup
      <4>1. cmd.original \in FileT
        BY <1>3, <3>1 DEF NeedsBackup
      <4>2. backup' \in FileT
        BY <1>5, <3>1, <4>1, ModeType DEF ProtectBackup
      <4> QED BY <4>2, Kinds
    <3>2. CASE ~NeedsBackup
      <4>1. backup' = backup
        BY <1>5, <3>2 DEF ProtectBackup
      <4> QED BY <1>0, <4>1, <3>2 DEF FilesOK, NeedsBackup
    <3> QED BY <3>1, <3>2
  <2>4. StateOK(state, base, backup') /\ StateOK(cmd.prior, base, backup')
    BY <1>0, <1>1, <2>3, StateStays DEF FilesOK
  <2>5. FilesOK'
    BY <1>0, <2>1, <2>3, <2>4 DEF FilesOK
  <2>6. ProtectOK' /\ UnprotectOK'
    BY <1>1, <2>1, <2>2, <2>3, <2>4 DEF ProtectOK, UnprotectOK, FirstInstall
  <2> QED BY <1>2, <2>2, <2>5, <2>6 DEF ProtectInv
<1>6. CASE ProtectConfig
  <2>1. UNCHANGED <<backup, state, base>> /\ cmd' = [cmd EXCEPT !.pc = "state"]
    BY <1>6 DEF ProtectConfig, history
  <2>2. /\ cmd' \in ProtectT /\ cmd'.pc = "state"
        /\ cmd'.paths = cmd.paths /\ cmd'.original = cmd.original
        /\ cmd'.proposed = cmd.proposed /\ cmd'.prior = cmd.prior
    BY <1>1, <1>2, <2>1, ProtectMoves
  <2>3. config' \in {NoFile} \cup FileT
    BY <1>0, <1>3, <1>6 DEF ProtectConfig, FilesOK
  <2>4. FilesOK'
    BY <1>0, <2>1, <2>3 DEF FilesOK
  <2>5. FirstInstall /\ cmd.original # NoFile => backup # NoFile
    BY <1>0, <1>6 DEF ProtectOK, ProtectConfig, ProtectPcs
  <2>6. ProtectOK' /\ UnprotectOK'
    BY <1>1, <2>1, <2>2, <2>5 DEF ProtectOK, UnprotectOK, FirstInstall
  <2> QED BY <1>2, <2>2, <2>4, <2>6 DEF ProtectInv
<1> QED BY <1>4, <1>5, <1>6

\* The state a protect writes promises an exact restore only with its backup,
\* and only if the settings are still those the installation started from.
LEMMA ProtectStateStep ==
    ASSUME ProtectInv, ProtectState
    PROVE  ProtectInv'
<1>0. FilesOK /\ ProtectOK
  BY DEF ProtectInv
<1>1. /\ cmd \in ProtectT /\ StateOK(cmd.prior, base, backup)
      /\ Runs(cmd.proposed, cmd.paths)
      /\ cmd.proposed.settings = Original(cmd.original).settings
      /\ FirstInstall /\ cmd.original # NoFile => backup # NoFile
  BY <1>0 DEF ProtectOK, ProtectState, ProtectPcs
<1>2. /\ cmd.original \in {NoFile} \cup FileT /\ cmd.proposed \in FileT
      /\ cmd.paths.policy \in Policies /\ cmd.paths.audit \in Roots
      /\ cmd.prior \in {NoFile} \cup StateT
  BY <1>1 DEF ProtectT, PathsT
<1> DEFINE e == IF FirstInstall THEN cmd.original # NoFile ELSE cmd.prior.existed
           m == IF FirstInstall THEN Original(cmd.original).mode ELSE cmd.prior.mode
           s == [kind |-> "state", policy |-> cmd.paths.policy, audit |-> cmd.paths.audit,
                 installed |-> cmd.proposed, existed |-> e, mode |-> m,
                 safe |-> ExactRestoreSafe]
<1>3. state' = s /\ base' = IF FirstInstall THEN cmd.original ELSE base
  BY DEF ProtectState, RecordedPolicy
<1>4. ~FirstInstall => cmd.prior \in StateT /\ cmd.prior.kind = "state"
  BY <1>2, Kinds DEF FirstInstall
<1>5. e \in BOOLEAN /\ m \in {"user", "0600"} /\ ExactRestoreSafe \in BOOLEAN
  <2>1. e \in BOOLEAN
    BY <1>4 DEF StateT
  <2>2. m \in {"user", "0600"}
    BY <1>2, <1>4, OriginalType DEF StateT
  <2>3. ExactRestoreSafe \in BOOLEAN
    BY DEF ExactRestoreSafe
  <2> QED BY <2>1, <2>2, <2>3
<1>6. ExactRestoreSafe => cmd.proposed.settings = Original(base').settings
  <2>1. CASE FirstInstall
    BY <1>1, <1>3, <2>1
  <2>2. CASE ~FirstInstall /\ ExactRestoreSafe
    <3>1. cmd.prior.safe /\ cmd.original # NoFile /\ SameDigest(cmd.original, cmd.prior.installed)
      BY <2>2 DEF ExactRestoreSafe
    <3>2. cmd.original \in FileT /\ cmd.prior.installed \in FileT
      BY <1>2, <1>4, <2>2, <3>1 DEF StateT
    <3>3. cmd.original.settings = cmd.prior.installed.settings
      BY <3>1, <3>2, DigestFacts
    <3>4. cmd.prior.installed.settings = Original(base).settings
      BY <1>1, <1>4, <2>2, <3>1 DEF StateOK
    <3>5. Original(cmd.original) = cmd.original
      BY <1>2, <3>1, OriginalType
    <3> QED BY <1>1, <1>3, <2>2, <3>3, <3>4, <3>5
  <2> QED BY <2>1, <2>2
<1>7. ExactRestoreSafe /\ e => backup # NoFile
  <2>1. CASE FirstInstall
    BY <1>1, <2>1
  <2>2. CASE ~FirstInstall /\ ExactRestoreSafe /\ e
    <3>1. cmd.prior.safe /\ cmd.prior.existed
      BY <2>2 DEF ExactRestoreSafe
    <3> QED BY <1>1, <1>4, <2>2, <3>1 DEF StateOK
  <2> QED BY <2>1, <2>2
<1> HIDE DEF e, m
<1>8. /\ s \in StateT /\ s.installed = cmd.proposed /\ s.policy = cmd.paths.policy
      /\ s.audit = cmd.paths.audit /\ s.safe = ExactRestoreSafe /\ s.existed = e
  <2>1. s.installed = cmd.proposed /\ s.policy = cmd.paths.policy
    OBVIOUS
  <2>2. s.audit = cmd.paths.audit /\ s.safe = ExactRestoreSafe /\ s.existed = e
    OBVIOUS
  <2>3. s \in StateT
    BY <1>2, <1>5 DEF StateT
  <2> QED BY <2>1, <2>2, <2>3
<1> HIDE DEF s
<1>9. Runs(s.installed, s)
  BY <1>1, <1>8 DEF Runs, claudeHookHandler
<1>10. UNCHANGED <<config, backup>> /\ Ends
  BY DEF ProtectState
<1>11. StateOK(s, base', backup)
  BY <1>6, <1>7, <1>8, <1>9 DEF StateOK
<1>12. base' \in {NoFile} \cup FileT
  BY <1>0, <1>2, <1>3 DEF FilesOK
<1>13. FilesOK'
  BY <1>0, <1>3, <1>10, <1>11, <1>12 DEF FilesOK
<1> QED BY <1>10, <1>13, EndsKeeps

\* A write that fails, and the settings put back.
LEMMA FailsStep ==
    ASSUME ProtectInv, ProtectStateFails \/ WriteFails
    PROVE  ProtectInv'
<1>0. FilesOK /\ ProtectOK
  BY DEF ProtectInv
<1>1. CASE ProtectStateFails
  <2>1. cmd \in ProtectT
    BY <1>0, <1>1 DEF ProtectOK, ProtectStateFails, ProtectPcs
  <2>2. config' \in {NoFile} \cup FileT
    BY <1>0, <1>1, <2>1 DEF ProtectStateFails, ProtectT, FilesOK
  <2>3. FilesOK' /\ Ends
    BY <1>0, <1>1, <2>2 DEF ProtectStateFails, FilesOK
  <2> QED BY <2>3, EndsKeeps
<1>2. CASE WriteFails
  <2>1. FilesOK' /\ Ends
    BY <1>0, <1>2 DEF WriteFails, files, FilesOK
  <2> QED BY <2>1, EndsKeeps
<1> QED BY <1>1, <1>2

\* unprotect reads, restores and forgets.
LEMMA UnprotectStep ==
    ASSUME ProtectInv, StartUnprotect \/ UnprotectConfig \/ UnprotectState
    PROVE  ProtectInv'
<1>0. /\ FilesOK /\ UnprotectOK /\ config \in {NoFile} \cup FileT
      /\ backup \in {NoFile} \cup FileT /\ StateOK(state, base, backup)
  BY DEF ProtectInv, FilesOK
<1>00. "restore" \notin ProtectPcs /\ "forget" \notin ProtectPcs
  BY DEF ProtectPcs
<1>1. CASE StartUnprotect
  <2>1. state \in StateT
    BY <1>0, <1>1, Kinds DEF StartUnprotect, StateOK
  <2>2. config \in FileT
    BY <1>0, <1>1, OriginalType DEF StartUnprotect
  <2>3. /\ cmd' = [pc |-> "restore", original |-> config, prior |-> state]
        /\ UNCHANGED <<config, backup, state, base>>
    BY <1>1 DEF StartUnprotect, files, history
  <2>4. cmd' \in UnprotectT /\ cmd'.pc = "restore" /\ cmd'.prior = state
    BY <2>1, <2>2, <2>3 DEF UnprotectT
  <2>5. FilesOK'
    BY <1>0, <2>3 DEF FilesOK
  <2>6. ProtectOK' /\ UnprotectOK'
    BY <1>0, <1>00, <2>3, <2>4 DEF ProtectOK, UnprotectOK
  <2> QED BY <2>4, <2>5, <2>6 DEF ProtectInv
<1>2. CASE UnprotectConfig
  <2>1. cmd \in UnprotectT /\ StateOK(cmd.prior, base, backup)
    BY <1>0, <1>2 DEF UnprotectOK, UnprotectConfig
  <2>2. /\ cmd.original \in FileT /\ cmd.prior.mode \in {"user", "0600"}
        /\ cmd.original.settings \in Settings \cup {"empty"} /\ cmd.original.pre \in PreT
    <3>1. cmd.original \in FileT /\ cmd.prior \in StateT
      BY <2>1 DEF UnprotectT
    <3> QED BY <3>1 DEF FileT, StateT
  <2>3. /\ cmd' \in UnprotectT /\ cmd'.pc = "forget" /\ cmd'.prior = cmd.prior
    BY <1>2, <2>1 DEF UnprotectConfig, UnprotectT
  <2>4. UNCHANGED <<backup, state, base>>
    BY <1>2 DEF UnprotectConfig, history
  <2>5. config' \in {NoFile} \cup FileT
    <3>1. CASE ExactRestore /\ cmd.prior.existed
      <4>1. backup \in FileT /\ config' = [backup EXCEPT !.mode = cmd.prior.mode]
        BY <1>0, <1>2, <3>1 DEF UnprotectConfig
      <4> QED BY <2>2, <4>1, ModeType
    <3>2. CASE ExactRestore /\ ~cmd.prior.existed
      BY <1>2, <3>2 DEF UnprotectConfig
    <3>3. CASE ~ExactRestore
      <4> DEFINE f == Encoded(cmd.original.settings, removeManagedClaudeHooks(cmd.original.pre))
                 m == IF cmd.prior.existed THEN cmd.prior.mode ELSE "0600"
      <4>1. config' = [f EXCEPT !.mode = m]
        BY <1>2, <3>3 DEF UnprotectConfig
      <4>2. f \in FileT
        BY <2>2, NoneManaged, EncodedType
      <4>3. m \in {"user", "0600"}
        BY <2>2
      <4> HIDE DEF f, m
      <4> QED BY <4>1, <4>2, <4>3, ModeType
    <3> QED BY <3>1, <3>2, <3>3
  <2>6. FilesOK'
    BY <1>0, <2>4, <2>5 DEF FilesOK
  <2>7. ProtectOK' /\ UnprotectOK'
    BY <1>00, <2>1, <2>3, <2>4 DEF ProtectOK, UnprotectOK
  <2> QED BY <2>3, <2>6, <2>7 DEF ProtectInv
<1>3. CASE UnprotectState
  <2>1. UNCHANGED <<config, backup, base>> /\ state' = NoFile /\ Ends
    BY <1>3 DEF UnprotectState
  <2>2. StateOK(NoFile, base, backup)
    BY Kinds DEF StateOK
  <2>3. FilesOK'
    BY <1>0, <2>1, <2>2 DEF FilesOK
  <2> QED BY <2>1, <2>3, EndsKeeps
<1> QED BY <1>1, <1>2, <1>3

-----------------------------------------------------------------------------
(* Where the hook is *)

\* Settings without a managed hook.
LEMMA CleanFacts ==
    /\ Clean(NoFile)
    /\ Managed(NoHooks) = {} /\ Managed(NotAList) = {}
    /\ \A f \in FileT : Clean(f) <=> Managed(f.pre) = {}
<1>1. Managed(NoHooks) = {} /\ Managed(NotAList) = {}
  BY DEF Managed, NoHooks, NotAList
<1>2. Original(NoFile).pre = NoHooks
  BY DEF Original, File
<1>3. \A f \in FileT : Original(f) = f
  BY Kinds DEF Original
<1> QED BY <1>1, <1>2, <1>3 DEF Clean

\* A mode has no hook in it.
LEMMA CleanMode ==
    ASSUME NEW f \in FileT, NEW m \in {"user", "0600"}, Clean(f)
    PROVE  Clean([f EXCEPT !.mode = m])
<1>1. [f EXCEPT !.mode = m] \in FileT /\ [f EXCEPT !.mode = m].pre = f.pre
  BY ModeType DEF FileT
<1> QED BY <1>1, CleanFacts

\* What removeManagedClaudeHooks leaves is clean, as a list and written back.
LEMMA CleanRemoved ==
    ASSUME NEW pre \in PreT
    PROVE  /\ Managed(ListOf(removeManagedClaudeHooks(pre))) = {}
           /\ \A s \in Settings \cup {"empty"} : Clean(Encoded(s, removeManagedClaudeHooks(pre)))
<1> DEFINE r == removeManagedClaudeHooks(pre)
<1>1. r \in Seq(Entry) /\ \A j \in 1..Len(r) : ~isManagedClaudeHook(r[j])
  BY NoneManaged
<1> HIDE DEF r
<1>2. ListOf(r) \in PreT /\ ListOf(r).entries = r
  BY <1>1, PreTypes
<1>3. Managed(ListOf(r)) = {}
  BY <1>1, <1>2 DEF Managed
<1>4. ASSUME NEW s \in Settings \cup {"empty"} PROVE Clean(Encoded(s, r))
  <2> DEFINE q == IF r = <<>> THEN NotAList ELSE ListOf(r)
  <2>1. q \in PreT /\ Managed(q) = {}
    BY <1>2, <1>3, PreTypes, CleanFacts
  <2>2. Encoded(s, r) = File(s, q, "indented", "0600")
    BY DEF Encoded
  <2> HIDE DEF q
  <2>3. Encoded(s, r) \in FileT /\ Encoded(s, r).pre = q
    BY <2>1, <2>2, FileType
  <2> QED BY <2>1, <2>3, CleanFacts
<1> QED BY <1>3, <1>4 DEF r

\* The user puts no managed hook into settings that have none.
LEMMA EditStaysClean ==
    ASSUME ProtectInv, EditConfig, Clean(config)
    PROVE  Clean(config')
<1>1. config \in {NoFile} \cup FileT
  BY DEF ProtectInv, FilesOK
<1>2. Original(config).pre \in PreT
  BY <1>1, OriginalType
<1> DEFINE r == ListOf(removeManagedClaudeHooks(Original(config).pre))
           m == IF config = NoFile THEN "user" ELSE config.mode
<1>3. r \in PreT /\ Managed(r) = {}
  BY <1>2, NoneManaged, PreTypes, CleanRemoved
<1>4. m \in {"user", "0600"}
  BY <1>1 DEF FileT
<1>5. PICK s \in Settings, pre \in {Original(config).pre, NoHooks, NotAList, r} :
         config' = File(s, pre, "typed", m)
  BY DEF EditConfig
<1> HIDE DEF r, m
<1>6. pre \in PreT /\ Managed(pre) = {}
  BY <1>2, <1>3, <1>5, PreTypes, CleanFacts DEF Clean
<1>7. config' \in FileT /\ config'.pre = pre
  BY <1>4, <1>5, <1>6, FileType
<1> QED BY <1>6, <1>7, CleanFacts

\* A command that ends without a write leaves no hook behind that has no state.
LEMMA EndsClean ==
    ASSUME ProtectInv, HooksOK, Ends, cmd # Idle, UNCHANGED <<config, backup, state>>,
           ~interrupted' => ~interrupted /\ ~SettingsOnly
    PROVE  HooksOK'
<1> SUFFICES ASSUME ~interrupted' PROVE Clean(backup)' /\ (state' = NoFile => Clean(config)')
  BY IdleFacts DEF HooksOK, Ends
<1>1. ~interrupted /\ ~SettingsOnly
  OBVIOUS
<1>2. Clean(backup)
  BY <1>1 DEF HooksOK
<1>3. ASSUME state = NoFile PROVE Clean(config)
  <2>1. cmd.pc \in {"restore", "forget"} => FALSE
    BY <1>1, <1>3 DEF HooksOK
  <2>2. cmd.pc = "state" => FALSE
    BY <1>1, <1>3 DEF HooksOK, SettingsOnly, FirstInstall, ProtectPcs
  <2>3. cmd.pc \in {"policy", "backup", "config"} => Clean(config)
    BY <1>1, <1>3 DEF HooksOK, ProtectPcs
  <2> QED BY <2>1, <2>2, <2>3 DEF ProtectInv, ProtectPcs
<1> QED BY <1>2, <1>3
\* A protect that moves on, with what it knows of the hook.
LEMMA ProtectClean ==
    ASSUME ProtectInv, HooksOK, ProtectPolicy \/ ProtectBackup \/ ProtectConfig
    PROVE  HooksOK'
<1>0. FilesOK /\ ProtectOK /\ cmd.pc \in {"policy", "backup", "config"} /\ cmd # Idle
  BY IdleFacts DEF ProtectInv, ProtectPolicy, ProtectBackup, ProtectConfig
<1>1. cmd.pc \in ProtectPcs /\ cmd \in ProtectT
  BY <1>0 DEF ProtectOK, ProtectPcs
<1>2. UNCHANGED <<state, interrupted>>
  BY DEF ProtectPolicy, ProtectBackup, ProtectConfig, history
<1>3. CASE Ends
  <2>1. cmd'.pc = "idle"
    BY <1>3, IdleFacts DEF Ends
  <2>2. ProtectPolicy
    <3>1. \A q \in {"config", "state"} : cmd' = [cmd EXCEPT !.pc = q] => cmd'.pc = q
      BY <1>1, ProtectMoves DEF ProtectPcs
    <3> QED BY <2>1, <3>1 DEF ProtectBackup, ProtectConfig
  <2>3. UNCHANGED <<config, backup>> /\ cmd.pc = "policy"
    BY <2>2 DEF ProtectPolicy
  <2> QED BY <1>0, <1>2, <1>3, <2>3, EndsClean DEF SettingsOnly
<1>4. CASE ~Ends
  <2>1. /\ \E q \in {"backup", "config", "state"} : cmd' = [cmd EXCEPT !.pc = q]
        /\ ProtectConfig => cmd' = [cmd EXCEPT !.pc = "state"]
    BY <1>4 DEF ProtectPolicy, ProtectBackup, ProtectConfig
  <2>2. /\ cmd' \in ProtectT /\ cmd'.pc \in {"backup", "config", "state"}
        /\ cmd'.original = cmd.original /\ cmd'.prior = cmd.prior
        /\ ProtectConfig => cmd'.pc = "state"
    BY <1>1, <2>1, ProtectMoves DEF ProtectPcs
  <2>3. cmd' # Idle /\ cmd'.pc \notin {"restore", "forget"} /\ (FirstInstall' <=> FirstInstall)
    BY <2>2, IdleFacts DEF ProtectPcs, FirstInstall
  <2>4. ProtectConfig \/ config' = config
    BY DEF ProtectPolicy, ProtectBackup
  <2> SUFFICES ASSUME ~interrupted
               PROVE  /\ Clean(backup)'
                      /\ FirstInstall <=> state = NoFile
                      /\ FirstInstall => Clean(cmd.original)
                      /\ FirstInstall => Clean(config)
    BY <1>2, <2>2, <2>3, <2>4 DEF HooksOK, Clean, ProtectPcs
  <2>5. /\ Clean(backup) /\ (FirstInstall <=> state = NoFile)
        /\ FirstInstall => Clean(cmd.original)
        /\ FirstInstall => Clean(config)
    BY <1>0, <1>1 DEF HooksOK
  <2>6. Clean(backup)'
    <3>1. CASE backup' = backup
      BY <2>5, <3>1
    <3>2. CASE backup' # backup
      <4>1. ProtectBackup /\ NeedsBackup
        BY <3>2 DEF ProtectPolicy, ProtectBackup, ProtectConfig
      <4>2. FirstInstall /\ cmd.original # NoFile /\ backup' = [cmd.original EXCEPT !.mode = "0600"]
        BY <4>1 DEF ProtectBackup, NeedsBackup
      <4>3. cmd.original \in FileT
        BY <1>1, <4>2 DEF ProtectT
      <4> QED BY <2>5, <4>2, <4>3, CleanMode
    <3> QED BY <3>1, <3>2
  <2> QED BY <2>5, <2>6
<1> QED BY <1>3, <1>4

\* What unprotect writes is clean.
LEMMA UnprotectClean ==
    ASSUME ProtectInv, HooksOK, StartUnprotect \/ UnprotectConfig \/ UnprotectState
    PROVE  HooksOK'
<1>0. /\ UnprotectOK /\ config \in {NoFile} \cup FileT /\ backup \in {NoFile} \cup FileT
  BY DEF ProtectInv, FilesOK
<1>1. CASE StartUnprotect
  <2>1. /\ cmd' = [pc |-> "restore", original |-> config, prior |-> state] /\ cmd = Idle
        /\ UNCHANGED <<config, backup, state, interrupted>> /\ state.kind = "state"
    BY <1>1 DEF StartUnprotect, files, history
  <2>2. state # NoFile /\ cmd'.pc = "restore" /\ cmd' # Idle
    BY <2>1, Kinds, IdleFacts
  <2> QED BY <2>1, <2>2 DEF HooksOK, ProtectPcs, Clean
<1>2. CASE UnprotectConfig
  <2>1. cmd \in UnprotectT /\ UNCHANGED <<backup, state, interrupted>>
    BY <1>0, <1>2 DEF UnprotectOK, UnprotectConfig, history
  <2>2. cmd'.pc = "forget" /\ cmd' # Idle
    BY <1>2, <2>1, IdleFacts DEF UnprotectConfig, UnprotectT
  <2>3. /\ cmd.prior.mode \in {"user", "0600"} /\ cmd.original.pre \in PreT
        /\ cmd.original.settings \in Settings \cup {"empty"}
    <3>1. cmd.original \in FileT /\ cmd.prior \in StateT
      BY <2>1 DEF UnprotectT
    <3> QED BY <3>1 DEF FileT, StateT
  <2> SUFFICES ASSUME ~interrupted PROVE Clean(backup) /\ state # NoFile /\ Clean(config)'
    BY <2>1, <2>2 DEF HooksOK, ProtectPcs, Clean
  <2>4. Clean(backup) /\ state # NoFile
    BY <1>2 DEF HooksOK, UnprotectConfig
  <2>5. Clean(config)'
    <3>1. CASE ExactRestore /\ cmd.prior.existed
      <4>1. backup \in FileT /\ config' = [backup EXCEPT !.mode = cmd.prior.mode]
        BY <1>0, <1>2, <3>1 DEF UnprotectConfig
      <4> QED BY <2>3, <2>4, <4>1, CleanMode
    <3>2. CASE ExactRestore /\ ~cmd.prior.existed
      <4>1. config' = NoFile
        BY <1>2, <3>2 DEF UnprotectConfig
      <4> QED BY <4>1, CleanFacts
    <3>3. CASE ~ExactRestore
      <4> DEFINE f == Encoded(cmd.original.settings, removeManagedClaudeHooks(cmd.original.pre))
                 m == IF cmd.prior.existed THEN cmd.prior.mode ELSE "0600"
      <4>1. config' = [f EXCEPT !.mode = m]
        BY <1>2, <3>3 DEF UnprotectConfig
      <4>2. f \in FileT /\ Clean(f)
        BY <2>3, NoneManaged, EncodedType, CleanRemoved
      <4>3. m \in {"user", "0600"}
        BY <2>3
      <4> HIDE DEF f, m
      <4> QED BY <4>1, <4>2, <4>3, CleanMode
    <3> QED BY <3>1, <3>2, <3>3
  <2> QED BY <2>4, <2>5
<1>3. CASE UnprotectState
  <2>1. UNCHANGED <<config, backup, interrupted>> /\ cmd' = Idle /\ cmd.pc = "forget"
    BY <1>3 DEF UnprotectState, Ends
  <2> QED BY <2>1, IdleFacts DEF HooksOK, Clean
<1> QED BY <1>1, <1>2, <1>3

\* The other steps of protect.
LEMMA ProtectEndsClean ==
    ASSUME ProtectInv, HooksOK, StartProtect \/ ProtectState \/ ProtectStateFails \/ WriteFails
    PROVE  HooksOK'
<1>1. CASE StartProtect
  <2>1. /\ cmd'.pc = "policy" /\ cmd'.original = config /\ cmd'.prior = state /\ cmd = Idle
        /\ UNCHANGED <<config, backup, state, interrupted>>
    BY <1>1 DEF StartProtect, files, history
  <2>2. FirstInstall' <=> state = NoFile
    BY <2>1 DEF FirstInstall
  <2>3. cmd' # Idle
    BY <2>1, IdleFacts DEF ProtectPcs
  <2> QED BY <2>1, <2>2, <2>3 DEF HooksOK, Clean
<1>2. CASE ProtectState
  <2>1. UNCHANGED <<config, backup, interrupted>> /\ cmd' = Idle /\ state'.kind = "state"
    BY <1>2 DEF ProtectState, Ends
  <2> QED BY <2>1, IdleFacts, Kinds DEF HooksOK, Clean
<1>3. CASE ProtectStateFails
  <2>1. /\ cmd.pc = "state" /\ cmd' = Idle /\ cmd # Idle /\ UNCHANGED <<backup, state>>
        /\ interrupted' = (interrupted \/ (SettingsOnly /\ config' = config))
        /\ config' = config \/ config' = cmd.original
    BY <1>3, IdleFacts DEF ProtectStateFails, Ends, ProtectPcs
  <2> SUFFICES ASSUME ~interrupted' PROVE Clean(backup) /\ (state = NoFile => Clean(config)')
    BY <2>1, IdleFacts DEF HooksOK, Clean
  <2>2. ~interrupted /\ (SettingsOnly => config' = cmd.original)
    BY <2>1
  <2>3. cmd.pc \in ProtectPcs
    BY <2>1 DEF ProtectPcs
  <2>4. Clean(backup) /\ (FirstInstall <=> state = NoFile) /\ (FirstInstall => Clean(cmd.original))
    BY <2>2, <2>3 DEF HooksOK
  <2> QED BY <2>1, <2>2, <2>4 DEF SettingsOnly, FirstInstall, Clean
<1>4. CASE WriteFails
  <2>1. /\ Ends /\ UNCHANGED <<config, backup, state, interrupted>> /\ ~SettingsOnly /\ cmd # Idle
    BY <1>4, IdleFacts DEF WriteFails, files, SettingsOnly, ProtectPcs
  <2> QED BY <2>1, EndsClean
<1> QED BY <1>1, <1>2, <1>3, <1>4

\* The user, the environment and a kill.
LEMMA WorldClean ==
    ASSUME ProtectInv, HooksOK, EditConfig \/ EditPolicy \/ MoveRoot \/ DamageState \/ Kill
    PROVE  HooksOK'
<1>1. CASE EditConfig
  <2>1. UNCHANGED <<cmd, backup, state, interrupted>>
    BY <1>1 DEF EditConfig
  <2>2. Clean(config) => Clean(config)'
    BY <1>1, EditStaysClean DEF Clean
  <2> QED BY <2>1, <2>2 DEF HooksOK, FirstInstall, Clean
<1>2. CASE EditPolicy \/ MoveRoot
  <2>1. UNCHANGED <<cmd, backup, state, config, interrupted>>
    BY <1>2 DEF EditPolicy, MoveRoot, history
  <2> QED BY <2>1 DEF HooksOK, FirstInstall, Clean
<1>3. CASE DamageState
  <2>1. UNCHANGED <<cmd, backup, config, interrupted>> /\ state' = Unreadable /\ state.kind = "state"
    BY <1>3 DEF DamageState, history
  <2>2. state' # NoFile /\ state # NoFile
    BY <2>1, Kinds DEF Unreadable, NoFile
  <2> QED BY <2>1, <2>2 DEF HooksOK, FirstInstall, Clean
<1>4. CASE Kill
  <2>1. /\ Ends /\ cmd # Idle /\ UNCHANGED <<config, backup, state>>
        /\ interrupted' = (interrupted \/ SettingsOnly)
    BY <1>4 DEF Kill, files
  <2> QED BY <2>1, EndsClean
<1> QED BY <1>1, <1>2, <1>3, <1>4

-----------------------------------------------------------------------------
(* What a command has read *)

\* Only the user changes the settings under a command, and that is marked.
LEMMA ReadStep ==
    ASSUME ProtectInv, ReadOK, Next
    PROVE  ReadOK'
<1> SUFFICES ASSUME ~late' PROVE ReadOK'
  BY DEF ReadOK
<1>1. CASE cmd' = Idle
  BY <1>1, IdleFacts DEF ReadOK, ProtectPcs
<1>2. CASE cmd = Idle /\ cmd' # Idle
  <2>1. cmd'.original = config /\ config' = config /\ cmd'.pc \in {"policy", "restore"}
    <3>1. StartProtect \/ StartUnprotect
      <4>1. cmd.pc = "idle"
        BY <1>2, IdleFacts
      <4> QED BY <1>2, <4>1 DEF Next, EditConfig, EditPolicy, MoveRoot, DamageState, Kill,
              ProtectPolicy, ProtectBackup, ProtectConfig, ProtectState, ProtectStateFails,
              WriteFails, UnprotectConfig, UnprotectState
    <3> QED BY <3>1 DEF StartProtect, StartUnprotect, files
  <2> QED BY <2>1 DEF ReadOK
<1>3. CASE cmd # Idle /\ cmd' # Idle
  <2>1. ~Ends /\ ~EditConfig
    BY <1>3 DEF Ends, EditConfig
  <2>2. CASE EditPolicy \/ MoveRoot \/ DamageState
    <3>1. UNCHANGED <<config, cmd, late>>
      BY <2>2 DEF EditPolicy, MoveRoot, DamageState, history
    <3> QED BY <3>1 DEF ReadOK
  <2>3. CASE ProtectPolicy \/ ProtectBackup
    <3>1. /\ config' = config /\ late' = late /\ cmd.pc \in {"policy", "backup"}
          /\ \E q \in {"backup", "config"} : cmd' = [cmd EXCEPT !.pc = q]
      BY <2>1, <2>3 DEF ProtectPolicy, ProtectBackup, history
    <3>2. cmd \in ProtectT
      BY <3>1 DEF ProtectInv, ProtectOK, ProtectPcs
    <3>3. cmd'.original = cmd.original /\ cmd'.pc \in {"backup", "config"}
      BY <3>1, <3>2, ProtectMoves DEF ProtectPcs
    <3> QED BY <3>1, <3>3 DEF ReadOK
  <2>4. CASE ProtectConfig
    <3>1. /\ config' = IF cmd.changed THEN cmd.proposed ELSE config
          /\ late' = late /\ cmd.pc = "config" /\ cmd' = [cmd EXCEPT !.pc = "state"]
      BY <2>4 DEF ProtectConfig, history
    <3>2. /\ cmd \in ProtectT /\ cmd.proposed.settings = Original(cmd.original).settings
      BY <3>1 DEF ProtectInv, ProtectOK, ProtectPcs
    <3>3. cmd'.original = cmd.original /\ cmd'.pc = "state"
      BY <3>1, <3>2, ProtectMoves DEF ProtectPcs
    <3>4. config = cmd.original
      BY <3>1 DEF ReadOK
    <3>5. cmd.proposed \in FileT /\ Original(cmd.proposed) = cmd.proposed
      BY <3>2, OriginalType, Kinds DEF ProtectT
    <3>6. Original(config)'.settings = Original(cmd.original).settings
      BY <3>1, <3>2, <3>4, <3>5
    <3> QED BY <3>3, <3>6 DEF ReadOK
  <2>5. CASE UnprotectConfig
    <3>1. cmd \in UnprotectT /\ cmd' = [cmd EXCEPT !.pc = "forget"]
      BY <2>5 DEF ProtectInv, UnprotectOK, UnprotectConfig
    <3>2. cmd'.pc = "forget"
      BY <3>1 DEF UnprotectT
    <3> QED BY <3>2 DEF ReadOK
  <2> QED BY <1>3, <2>1, <2>2, <2>3, <2>4, <2>5
          DEF Next, Kill, StartProtect, StartUnprotect, ProtectState, ProtectStateFails,
              WriteFails, UnprotectState
<1> QED BY <1>1, <1>2, <1>3

-----------------------------------------------------------------------------
(* Theorems *)

\* What the files on disk, and a command between two writes, can rely on holds
\* after every edit, command, kill and failed write (protect.go).
THEOREM ProtectInvariant == Spec => []ProtectInv
<1>1. Init => ProtectInv
  BY ProtectInit
<1>2. ProtectInv /\ [Next]_vars => ProtectInv'
  <2> SUFFICES ASSUME ProtectInv, [Next]_vars PROVE ProtectInv'
    OBVIOUS
  <2>1. CASE UNCHANGED vars
    <3>1. UNCHANGED <<config, backup, state, base, cmd>>
      BY <2>1 DEF vars
    <3>2. FilesOK'
      BY <3>1 DEF FilesOK, ProtectInv
    <3> QED BY <3>1, <3>2, CmdKeeps
  <2>2. CASE Next
    BY <2>2, WorldStep, StartProtectStep, ProtectWrites, ProtectStateStep, FailsStep, UnprotectStep
       DEF Next
  <2> QED BY <2>1, <2>2
<1> QED BY <1>1, <1>2, PTL DEF Spec

\* tg status, when it reports protected and not drifted, speaks of hooks that
\* run the policy and write the log of the state it has read (runProtectStatus).
THEOREM StatusIsHonest == Spec => []StatusHonest
<1>1. ProtectInv => StatusHonest
  <2> SUFFICES ASSUME ProtectInv, Protected, ~Drifted
               PROVE  \A i \in Managed(config.pre) : config.pre.entries[i] = claudeHookHandler(state)
    BY DEF StatusHonest
  <2>1. /\ config \in {NoFile} \cup FileT /\ StateOK(state, base, backup)
        /\ state.kind = "state"
    BY DEF ProtectInv, FilesOK, Protected
  <2>2. config \in FileT /\ SameDigest(config, state.installed)
    BY <2>1 DEF Drifted
  <2>3. state.installed \in FileT /\ Runs(state.installed, state)
    BY <2>1, Kinds DEF StateOK, StateT
  <2>4. config.pre = state.installed.pre
    BY <2>2, <2>3, DigestFacts
  <2> QED BY <2>3, <2>4 DEF Runs
<1> QED BY <1>1, ProtectInvariant, PTL

\* The hook is only where a state, or a command about to write one, accounts
\* for it, and a command that was not overtaken by the user knows what is there.
THEOREM HooksInvariant == Spec => [](HooksOK /\ ReadOK)
<1>1. Init => HooksOK /\ ReadOK
  <2> SUFFICES ASSUME Init PROVE HooksOK /\ ReadOK
    OBVIOUS
  <2>1. backup = NoFile /\ cmd = Idle /\ config \in {NoFile} \cup FileT
    <3>1. config \in {NoFile} \cup FileT
      BY ProtectInit DEF ProtectInv, FilesOK
    <3> QED BY <3>1 DEF Init
  <2>2. Clean(config)
    <3>1. CASE config = NoFile
      BY <3>1, CleanFacts
    <3>2. CASE config # NoFile
      <4>1. PICK s \in Settings, pre \in {NoHooks, ListOf(<<OtherHook>>)} :
               config = File(s, pre, "typed", "user")
        BY <3>2 DEF Init
      <4>2. config.pre = pre /\ config \in FileT
        BY <2>1, <3>2, <4>1 DEF File
      <4>3. Managed(ListOf(<<OtherHook>>)) = {}
        BY DEF Managed, ListOf, OtherHook, isManagedClaudeHook
      <4> QED BY <4>1, <4>2, <4>3, CleanFacts
    <3> QED BY <3>1, <3>2
  <2> QED BY <2>1, <2>2, CleanFacts, IdleFacts DEF HooksOK, ReadOK, ProtectPcs
<1>2. ProtectInv /\ HooksOK /\ ReadOK /\ [Next]_vars => (HooksOK /\ ReadOK)'
  <2> SUFFICES ASSUME ProtectInv, HooksOK, ReadOK, [Next]_vars PROVE (HooksOK /\ ReadOK)'
    OBVIOUS
  <2>1. CASE UNCHANGED vars
    BY <2>1 DEF vars, HooksOK, ReadOK, FirstInstall, Clean
  <2>2. CASE Next
    <3>1. HooksOK'
      BY <2>2, WorldClean, ProtectClean, ProtectEndsClean, UnprotectClean DEF Next
    <3> QED BY <2>2, <3>1, ReadStep
  <2> QED BY <2>1, <2>2
<1> QED BY <1>1, <1>2, ProtectInvariant, PTL DEF Spec

\* Unless a first installation stopped halfway, the hook never is in the
\* settings without a state, nor in the backup, and an exact restore that is
\* promised always has its backup (runProtect, runUnprotect).
THEOREM InstallationIsReversible == Spec => []Reversible
<1>1. ProtectInv /\ HooksOK => Reversible
  BY DEF ProtectInv, FilesOK, StateOK, HooksOK, Clean, Reversible
<1> QED BY <1>1, ProtectInvariant, HooksInvariant, PTL

\* No command changes the user's part of the settings, unless they were saved
\* after it had read them, or it restores exactly what the installation, which
\* still held these settings, was made from (runProtect, runUnprotect).
THEOREM EditsAreKept == Spec => EditsKept
<1> DEFINE A == /\ cmd' # cmd
                /\ ~late
                /\ Original(config').settings # Original(config).settings
                => /\ cmd.pc = "restore"
                   /\ ExactRestore
                   /\ Original(config).settings = Original(base).settings
<1>1. ProtectInv /\ ReadOK /\ [Next]_vars => [A]_vars
  <2> SUFFICES ASSUME ProtectInv, ReadOK, [Next]_vars, cmd' # cmd, ~late,
                      Original(config').settings # Original(config).settings
               PROVE  /\ cmd.pc = "restore" /\ ExactRestore
                      /\ Original(config).settings = Original(base).settings
    OBVIOUS
  <2>1. CASE ProtectConfig
    <3>1. cmd.pc = "config" /\ config' \in {config, cmd.proposed}
      BY <2>1 DEF ProtectConfig
    <3>2. cmd \in ProtectT /\ cmd.proposed.settings = Original(cmd.original).settings
      BY <3>1 DEF ProtectInv, ProtectOK, ProtectPcs
    <3>3. config = cmd.original
      BY <3>1 DEF ReadOK
    <3>4. Original(cmd.proposed) = cmd.proposed
      BY <3>2, OriginalType, Kinds DEF ProtectT
    <3> QED BY <3>1, <3>2, <3>3, <3>4
  <2>2. CASE ProtectStateFails
    <3>1. cmd.pc = "state" /\ config' \in {config, cmd.original}
      BY <2>2 DEF ProtectStateFails
    <3>2. Original(config).settings = Original(cmd.original).settings
      BY <3>1 DEF ReadOK
    <3> QED BY <3>1, <3>2
  <2>3. CASE UnprotectConfig
    <3>1. /\ cmd.pc = "restore" /\ config = cmd.original
      BY <2>3 DEF UnprotectConfig, ReadOK
    <3>2. cmd \in UnprotectT /\ StateOK(cmd.prior, base, backup)
      BY <3>1 DEF ProtectInv, UnprotectOK
    <3>3. /\ cmd.original \in FileT /\ cmd.prior \in StateT /\ cmd.prior.kind = "state"
          /\ cmd.prior.installed \in FileT /\ Original(cmd.original) = cmd.original
      BY <3>2, OriginalType, Kinds DEF UnprotectT, StateT
    <3>4. CASE ExactRestore
      <4>1. cmd.prior.safe /\ SameDigest(cmd.original, cmd.prior.installed)
        BY <3>4 DEF ExactRestore
      <4>2. cmd.original.settings = cmd.prior.installed.settings
        BY <3>3, <4>1, DigestFacts
      <4>3. cmd.prior.installed.settings = Original(base).settings
        BY <3>2, <3>3, <4>1 DEF StateOK
      <4> QED BY <3>1, <3>3, <3>4, <4>2, <4>3
    <3>5. CASE ~ExactRestore
      <4> DEFINE f == Encoded(cmd.original.settings, removeManagedClaudeHooks(cmd.original.pre))
                 m == IF cmd.prior.existed THEN cmd.prior.mode ELSE "0600"
      <4>1. config' = [f EXCEPT !.mode = m]
        BY <2>3, <3>5 DEF UnprotectConfig
      <4>2. f \in FileT /\ f.settings = cmd.original.settings
        <5>1. cmd.original.pre \in PreT /\ cmd.original.settings \in Settings \cup {"empty"}
          BY <3>3 DEF FileT
        <5> QED BY <5>1, NoneManaged, EncodedType
      <4>3. m \in {"user", "0600"}
        BY <3>3 DEF StateT
      <4> HIDE DEF f, m
      <4>4. config' \in FileT /\ config'.settings = cmd.original.settings
        BY <4>1, <4>2, <4>3, ModeType
      <4>5. Original(config') = config'
        BY <4>4, OriginalType, Kinds
      <4> QED BY <3>1, <3>3, <4>4, <4>5
    <3> QED BY <3>4, <3>5
  <2> QED BY <2>1, <2>2, <2>3
          DEF Next, vars, files, EditConfig, EditPolicy, MoveRoot, DamageState, Kill, StartProtect,
              ProtectPolicy, ProtectBackup, ProtectState, WriteFails, StartUnprotect, UnprotectState
<1>2. Spec => [][A]_vars
  BY <1>1, ProtectInvariant, HooksInvariant, PTL DEF Spec
<1> QED BY <1>2 DEF EditsKept

=============================================================================

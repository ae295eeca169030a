-------------------------------- MODULE Prune --------------------------------
(***************************************************************************)
(* tg prune (cmd/tg/prune.go, prune_publish_linux.go) beside the hooks     *)
(* that write the log: a copy of the log without its oldest records, under *)
(* a checkpoint that commits to what was removed and what is retained.     *)
(* The input is read several times and may change in between, the output   *)
(* is published by a rename that replaces nothing, and an output may be    *)
(* pruned again or take the place of the log.  The files here have no      *)
(* rotation siblings, which the command refuses before anything else.      *)
(***************************************************************************)
EXTENDS Hook

CONSTANTS Outs,       \* output paths
          Cutoffs,    \* cutoff times
          MaxPrunes   \* bound on prune runs

ASSUME PruneAssumption == Cutoffs \subseteq Nat

VARIABLES
    out,     \* the output files
    prune,   \* the prune command in progress
    prunes,  \* prune runs so far
    foreign  \* output paths some other program created

pruneVars == <<out, prune, prunes, foreign>>
vars == <<hookVars, pruneVars>>

-----------------------------------------------------------------------------

NoPrune == [pc |-> "idle", in |-> "log", out |-> "log", cutoff |-> 0, size |-> 0,
            snap |-> NoFile, from |-> 0, temp |-> NoFile]

\* The input as it is now.
Input(name) == IF name = "log" THEN file ELSE out[name]

\* The command is over, with or without an output.
Ends == prune' = NoPrune

\* Counting from zero when the input was pruned before.
PriorRemovedForgotten(lines) == 0

\* An earlier checkpoint's count, carried on.
PriorRemoved(lines) == IF Pruned(lines) THEN lines[1].removed ELSE 0

\* The prefix of traces older than the cutoff, up to the first that is not.
EligibleCount(lines, cutoff) ==
    LET ts == TracesOf(lines)
        upto == {n \in 0..Len(ts) : \A i \in 1..n : ts[i].content.ts < cutoff}
    IN CHOOSE n \in upto : \A m \in upto : m <= n

\* The checkpoint for removing the first n traces.
Checkpoint(lines, n, cutoff) ==
    LET ts == TracesOf(lines)
    IN CheckpointLine(PriorRemoved(lines) + n, ts[n].hash, ts[n].content.ts,
                      ts[n].content.ver, cutoff, Len(ts) - n, TailHash(lines))

PruneInit ==
    /\ out = [o \in Outs |-> NoFile]
    /\ prune = NoPrune
    /\ prunes = 0
    /\ foreign = {}

\* The output may not exist yet; the input is opened, digested and verified.
PruneOpen(in, o, cutoff) ==
    /\ prune.pc = "idle" /\ prunes < MaxPrunes
    /\ Input(in).exists /\ ~out[o].exists
    /\ prunes' = prunes + 1
    /\ prune' = IF Intact(Input(in).lines, TRUE)
                THEN [NoPrune EXCEPT !.pc = "select", !.in = in, !.out = o,
                                     !.cutoff = cutoff, !.snap = Input(in)]
                ELSE NoPrune
    /\ UNCHANGED <<hookVars, out, foreign>>

\* pruneInputStable: same size, time and contents as when it was opened.
InputStable == Input(prune.in) = prune.snap

\* The second pass chooses the prefix; an input that changed, nothing to
\* remove, or a dry run ends the command.
PruneSelect ==
    /\ prune.pc = "select"
    /\ LET n == EligibleCount(prune.snap.lines, prune.cutoff) IN
       \/ InputStable /\ n > 0 /\ prune' = [prune EXCEPT !.pc = "copy", !.from = n]
       \/ Ends
    /\ UNCHANGED <<hookVars, out, prunes, foreign>>

\* The checkpoint and the bytes behind the prefix, read again from the input up
\* to the size it had when it was opened or to its end, are written to a
\* temporary file and synced.
PruneCopy ==
    /\ prune.pc = "copy"
    /\ LET in == Input(prune.in)
           size == Len(prune.snap.lines)
           cp == Checkpoint(prune.snap.lines, prune.from, prune.cutoff)
           behind == prune.from + IF Pruned(prune.snap.lines) THEN 1 ELSE 0
           rest == IF Len(in.lines) < size
                   THEN FileOf(SubSeq(in.lines, behind + 1, Len(in.lines)), in.open)
                   ELSE FileOf(SubSeq(in.lines, behind + 1, size), prune.snap.open)
       IN prune' = [prune EXCEPT !.pc = "check",
                                 !.temp = FileOf(<<cp>> \o rest.lines, rest.open)]
    /\ UNCHANGED <<hookVars, out, prunes, foreign>>

\* The output is verified as a reader would and the input must still be as it
\* was.
PruneCheck ==
    /\ prune.pc = "check"
    /\ prune' = IF Intact(prune.temp.lines, TRUE) /\ InputStable
                THEN [prune EXCEPT !.pc = "publish"] ELSE NoPrune
    /\ UNCHANGED <<hookVars, out, prunes, foreign>>

\* Publication by plain rename.
PrunePublishReplacing ==
    /\ prune.pc = "publish"
    /\ out' = [out EXCEPT ![prune.out] = prune.temp]
    /\ Ends
    /\ UNCHANGED <<hookVars, prunes, foreign>>

\* RENAME_NOREPLACE: an output that appeared meanwhile stays.
PrunePublish ==
    /\ prune.pc = "publish"
    /\ out' = IF out[prune.out].exists THEN out
              ELSE [out EXCEPT ![prune.out] = prune.temp]
    /\ Ends
    /\ UNCHANGED <<hookVars, prunes, foreign>>

\* Killed: the temporary file is not an output.
PruneKilled ==
    /\ prune.pc # "idle"
    /\ Ends
    /\ UNCHANGED <<hookVars, out, prunes, foreign>>

\* Another program creates an output path while a prune is on its way to it.
OtherCreates ==
    /\ prune.pc # "idle" /\ ~out[prune.out].exists
    /\ out' = [out EXCEPT ![prune.out] = FileOf(<<TornLine>>, TRUE)]
    /\ foreign' = foreign \cup {prune.out}
    /\ UNCHANGED <<hookVars, prune, prunes>>

\* With the writers stopped the operator puts an output in the log's place.
Adopt(o) ==
    /\ prune.pc = "idle" /\ lock = "free"
    /\ out[o].exists /\ o \notin foreign
    /\ Is(file.lines, "torn") = {} /\ TailHash(out[o].lines) = TailHash(file.lines)
    /\ file' = out[o]
    /\ synced' = Len(out[o].lines)
    /\ UNCHANGED <<flags, hook, lock, damage, acked, pruneVars>>

PruneNext ==
    \/ \E in \in Outs \cup {"log"}, o \in Outs, c \in Cutoffs : in # o /\ PruneOpen(in, o, c)
    \/ PruneSelect \/ PruneCopy \/ PruneCheck \/ PrunePublish \/ PruneKilled
    \/ OtherCreates
    \/ \E o \in Outs : Adopt(o)

\* The log starts missing, or with a record of an older version.
OldRecord(t) == TraceLine([by |-> "old", act |-> "allowed", ts |-> t, ver |-> "v1"], NoHash)

Init ==
    /\ HookInit /\ PruneInit
    /\ file \in {NoFile} \cup {FileOf(<<OldRecord(t)>>, FALSE) : t \in Times}
    /\ synced = Len(file.lines)

Next == (HookNext /\ UNCHANGED pruneVars) \/ PruneNext

Spec == Init /\ [][Next]_vars

-----------------------------------------------------------------------------
(* Properties *)

\* A published output verifies, and however often its input was pruned before
\* its checkpoint accounts for every record since the first one: the removed
\* ones are exactly the history before the boundary, and the retained ones
\* start at a record the cutoff keeps.
PrunedFaithful ==
    \A o \in Outs : out[o].exists /\ o \notin foreign =>
        LET cp == out[o].lines[1]
            ts == TracesOf(out[o].lines)
        IN /\ Intact(out[o].lines, TRUE) /\ Pruned(out[o].lines)
           /\ Len(cp.tail) = cp.removed + cp.retained
           /\ cp.last = SubSeq(cp.tail, 1, cp.removed)
           /\ ts # <<>> => ts[1].content.ts >= cp.cutoff

\* An output path that exists is never written again, whoever created it.
OutputsNeverReplaced ==
    [][\A o \in Outs : out[o].exists => out'[o] = out[o]]_vars

=============================================================================

---------------------------- MODULE HookLogProofs ----------------------------
(***************************************************************************)
(* Proofs about the log of the hooks, and of prune beside them, for any    *)
(* number of hooks, records, faults, outputs and prunes.                   *)
(*                                                                         *)
(* A log is a picture of its history H, the sequence of contents that its  *)
(* last hash commits to: line by line it holds the records of H, from the  *)
(* first one or behind a checkpoint from a later one.  The inductive       *)
(* invariant says that of every file, with at most a torn line after it.   *)
(***************************************************************************)
EXTENDS Prune, SequenceTheorems, FiniteSetTheorems, WellFoundedInduction, TLAPS

Acts == Actions \cup {"allowed", "escalated", "denied", "none"}

Content == [by : Hooks \cup {"old"}, act : Acts, ts : Nat, ver : Versions]

TraceT == [kind : {"trace"}, content : Content, prev : Seq(Content), hash : Seq(Content)]

CheckpointT == [kind : {"checkpoint"}, removed : Nat, last : Seq(Content), lastTs : Nat,
                ver : Versions, cutoff : Nat, retained : Nat, tail : Seq(Content)]

LineT == TraceT \cup CheckpointT \cup {TornLine}

FileT == [exists : BOOLEAN, lines : Seq(LineT), open : BOOLEAN]

HookT == [pc : {"start", "lock", "verify", "write", "sync", "done"}, tool : Tools \cup {"none"},
          dec : Decisions \cup {"none"}, by : {"none", "failure", "guard", "engine"},
          act : Acts, ts : Nat, prev : Seq(Content), sep : BOOLEAN]

PruneT == [pc : {"idle", "select", "copy", "check", "publish"}, in : Outs \cup {"log"},
           out : Outs \cup {"log"}, cutoff : Nat, size : {0}, snap : FileT, from : Nat,
           temp : FileT]

\* A history: only its first record may be of the older version.
HistoryOK(H) == H \in Seq(Content) /\ \A i \in 2..Len(H) : H[i].ver = "v2"

\* The line of the i-th record.
Rec(H, i) == TraceLine(H[i], SubSeq(H, 1, i - 1))

\* The checkpoint of a file that starts behind the k-th record.
Cap(c, H, k) ==
    /\ c \in CheckpointT /\ ValidCheckpoint(c)
    /\ c.removed = k /\ c.last = SubSeq(H, 1, k) /\ c.ver = H[k].ver
    /\ c.retained = Len(H) - k /\ c.tail = H

\* The lines are the records of H behind the k-th, after a checkpoint if b = 1.
Whole(lines, H, k, b) ==
    /\ HistoryOK(H) /\ k \in 0..Len(H) /\ b \in {0, 1}
    /\ lines \in Seq(LineT) /\ Len(lines) = Len(H) - k + b
    /\ \A i \in 1..(Len(H) - k) : lines[b + i] = Rec(H, k + i)
    /\ IF b = 1 THEN k > 0 /\ Cap(lines[1], H, k) ELSE k = 0

\* The records of H and a torn line.
TornAfter(lines, H) ==
    /\ lines \in Seq(LineT) /\ Len(lines) > 0 /\ lines[Len(lines)] = TornLine
    /\ Whole(SubSeq(lines, 1, Len(lines) - 1), H, 0, 0)

\* A published output: its first retained record is one the cutoff keeps.
Faithful(lines) ==
    LET H == TailHash(lines)
    IN \E k \in 1..Len(H) :
          /\ Whole(lines, H, k, 1)
          /\ k < Len(H) => H[k + 1].ts >= lines[1].cutoff

-----------------------------------------------------------------------------

Busy == {"verify", "write", "sync"}

\* The log is a picture of its history; what is synced is no torn line, and
\* nothing is appended to a pruned file.
LogInv ==
    /\ file \in FileT /\ (file.open => file.lines # <<>>)
    /\ synced \in 0..Len(file.lines)
    /\ \/ Whole(file.lines, History, 0, 0)
       \/ TornAfter(file.lines, History) /\ synced < Len(file.lines)
       \/ /\ \E k \in 1..Len(History) : Whole(file.lines, History, k, 1)
          /\ synced = Len(file.lines)

\* Whoever verifies, writes or syncs has the lock; what it verified is the log.
HookInv ==
    /\ hook \in [Hooks -> HookT] /\ acked \subseteq Hooks
    /\ flags \in FlagSets
    /\ \A h \in Hooks :
          /\ hook[h].pc \in Busy => lock = h
          /\ hook[h].pc \in {"lock", "verify", "write", "sync"} =>
                hook[h].dec = FromAction(hook[h].act)
          /\ hook[h].pc = "write" =>
                /\ Whole(file.lines, History, 0, 0)
                /\ hook[h].prev = History /\ hook[h].sep = NeedsSeparator(file)
          /\ hook[h].pc = "sync" =>
                /\ Whole(file.lines, History, 0, 0)
                /\ Len(History) > 0 /\ History[Len(History)].by = h

\* A record of a hook is its only one, of its decision, and written when it
\* was its turn.
RecordInv ==
    \A i \in 1..Len(History) : \A h \in Hooks :
        History[i].by = h =>
            /\ hook[h].pc \in {"sync", "done"}
            /\ History[i].act = hook[h].act
            /\ hook[h].dec = FromAction(hook[h].act)
            /\ \A j \in 1..Len(History) : History[j].by = h => j = i

\* An acknowledged record is on stable storage.
AckInv ==
    \A h \in acked : \E i \in 1..Len(History) :
        History[i].by = h /\ (i <= synced \/ Pruned(file.lines))

\* Outputs are faithful, but for those of other programs.
OutInv ==
    /\ out \in [Outs -> FileT] /\ foreign \subseteq Outs
    /\ \A o \in Outs :
          /\ ~out[o].exists => out[o].lines = <<>>
          /\ o \in foreign => out[o].lines = <<TornLine>>
          /\ out[o].exists /\ o \notin foreign => Faithful(out[o].lines)

\* The boundary that PruneSelect chose: the record after it is one to keep.
Boundary(lines, n, cutoff) ==
    LET H == TailHash(lines)  k == Len(StartHash(lines))
    IN /\ n \in 1..(Len(H) - k)
       /\ k + n < Len(H) => H[k + n + 1].ts >= cutoff

\* What PruneCopy copied are lines of some history, shifted.
Copied(ls) ==
    /\ ls \in Seq(LineT)
    /\ \E H \in Seq(Content) : \E d \in Int :
          /\ HistoryOK(H)
          /\ \A i \in 1..Len(ls) : ls[i].kind = "trace" =>
                d + i \in 1..Len(H) /\ ls[i] = Rec(H, d + i)

PruneInv ==
    /\ prune \in PruneT
    /\ prune.pc # "idle" =>
          /\ prune.out \in Outs
          /\ \E k \in 0..Len(TailHash(prune.snap.lines)) : \E b \in {0, 1} :
                Whole(prune.snap.lines, TailHash(prune.snap.lines), k, b)
    /\ prune.pc \in {"copy", "check", "publish"} =>
          Boundary(prune.snap.lines, prune.from, prune.cutoff)
    /\ prune.pc = "check" =>
          /\ prune.temp.exists /\ Len(prune.temp.lines) > 0
          /\ prune.temp.lines[1] = Checkpoint(prune.snap.lines, prune.from, prune.cutoff)
          /\ Copied(Tail(prune.temp.lines))
    /\ prune.pc = "publish" => prune.temp.exists /\ Faithful(prune.temp.lines)

Logged == LogInv /\ HookInv /\ RecordInv /\ AckInv

FileInv == Logged /\ OutInv /\ PruneInv

-----------------------------------------------------------------------------
(* Reading a file *)

\* The least element of a set of numbers: proofs about the loop go by its
\* least counterexample.
LEMMA LeastNumber ==
    ASSUME NEW T, T \subseteq Nat, T # {}
    PROVE  \E m \in T : \A k \in T : m <= k
<1> DEFINE R == {ss \in Nat \X Nat : ss[1] < ss[2]}
<1>1. IsWellFoundedOn(R, Nat)
  BY NatLessThanWellFounded DEF OpToRel
<1>2. \A x, y \in Nat : x < y => <<x, y>> \in R
  OBVIOUS
<1> HIDE DEF R
<1>3. PICK x \in T : \A y \in T : ~ (<<y, x>> \in R)
  BY <1>1, WFMin
<1>4. \A y \in T : ~(y < x)
  BY <1>2, <1>3
<1>5. \A y \in T : x <= y
  BY <1>4
<1> QED BY <1>5

\* The traces after each line of the scan.
Turns(g, lines, n) ==
    g = [i \in 0..n |-> IF i = 0 THEN <<>>
                        ELSE IF lines[i].kind = "trace" THEN Append(g[i - 1], lines[i])
                        ELSE g[i - 1]]

\* The scan of the verifier goes line by line.
LEMMA LoopRuns ==
    ASSUME NEW lines, NEW n \in Nat
    PROVE  \E g : Turns(g, lines, n)
<1> DEFINE T == {m \in Nat : ~ \E g : Turns(g, lines, m)}
<1> SUFFICES ASSUME T # {} PROVE FALSE
  OBVIOUS
<1>1. PICK m \in T : \A k \in T : m <= k
  BY LeastNumber
<1>2. m \in Nat /\ ~ \E g : Turns(g, lines, m)
  OBVIOUS
<1>3. CASE m = 0
  <2> DEFINE h == [i \in 0..m |-> <<>>]
  <2>1. Turns(h, lines, m)
    BY <1>3 DEF Turns
  <2> QED BY <1>2, <2>1
<1>4. CASE m > 0
  <2>1. m - 1 \in Nat /\ ~(m <= m - 1)
    BY <1>2, <1>4
  <2>2. PICK g : Turns(g, lines, m - 1)
    BY <1>1, <2>1
  <2> DEFINE h == [i \in 0..m |-> IF i = m THEN IF lines[m].kind = "trace"
                                               THEN Append(g[m - 1], lines[m])
                                               ELSE g[m - 1]
                                  ELSE g[i]]
  <2>3. ASSUME NEW i \in 0..m
        PROVE  h[i] = IF i = 0 THEN <<>>
                      ELSE IF lines[i].kind = "trace" THEN Append(h[i - 1], lines[i])
                      ELSE h[i - 1]
    <3>1. CASE i = m
      <4>1. h[m - 1] = g[m - 1]
        BY <1>2, <1>4
      <4> QED BY <4>1, <3>1, <1>4
    <3>2. CASE i # m
      <4>1. /\ i \in 0..(m - 1) /\ h[i] = g[i]
            /\ i # 0 => i - 1 \in 0..m /\ i - 1 # m /\ h[i - 1] = g[i - 1]
        BY <3>2, <1>2
      <4>2. g[i] = IF i = 0 THEN <<>>
                   ELSE IF lines[i].kind = "trace" THEN Append(g[i - 1], lines[i])
                   ELSE g[i - 1]
        BY <2>2, <4>1 DEF Turns
      <4> QED BY <4>1, <4>2
    <3> QED BY <3>1, <3>2
  <2>4. Turns(h, lines, m)
    BY <2>3 DEF Turns
  <2> QED BY <1>2, <2>4
<1> QED BY <1>2, <1>3, <1>4

\* A sequence up to a position is what came before it and the element there.
LEMMA OneMore ==
    ASSUME NEW S, NEW s \in Seq(S), NEW m \in 1..Len(s), NEW n \in m..Len(s)
    PROVE  SubSeq(s, m, n) = Append(SubSeq(s, m, n - 1), s[n])
<1>1. SubSeq(s, m, n) = SubSeq(s, m, n - 1) \o <<s[n]>>
  BY SubSeqRecursiveSecond
<1>2. SubSeq(s, m, n - 1) \in Seq(S)
  <2>1. \A i \in m..(n - 1) : s[i] \in S
    BY ElementOfSeq
  <2> QED BY <2>1, SubSeqProperties
<1>3. s[n] \in S
  BY ElementOfSeq
<1> QED BY <1>1, <1>2, <1>3, AppendIsConcat

\* The traces of lines that are traces but for k at the front and some at the
\* end.
LEMMA Scan ==
    ASSUME NEW lines \in Seq(LineT), NEW k \in Nat, NEW m \in Nat, k <= m, m <= Len(lines),
           \A i \in 1..k : lines[i].kind # "trace",
           \A i \in (k + 1)..m : lines[i].kind = "trace",
           \A i \in (m + 1)..Len(lines) : lines[i].kind # "trace"
    PROVE  TracesOf(lines) = SubSeq(lines, k + 1, m)
<1> DEFINE g == CHOOSE g : Turns(g, lines, Len(lines))
           E(j) == SubSeq(lines, k + 1, IF j < m THEN j ELSE m)
<1>1. Len(lines) \in Nat
  OBVIOUS
<1>2. Turns(g, lines, Len(lines)) /\ TracesOf(lines) = g[Len(lines)]
  <2>1. \E f : Turns(f, lines, Len(lines))
    BY <1>1, LoopRuns
  <2>2. Turns(g, lines, Len(lines))
    BY <2>1
  <2>3. TracesOf(lines) = g[Len(lines)]
    BY Zenon DEF TracesOf, Turns
  <2> QED BY <2>2, <2>3
<1> HIDE DEF g
<1> DEFINE T == {j \in 0..Len(lines) : g[j] # E(j)}
<1> SUFFICES ASSUME T # {} PROVE FALSE
  <2>1. ASSUME T = {} PROVE g[Len(lines)] = E(Len(lines))
    BY <1>1, <2>1
  <2>2. E(Len(lines)) = SubSeq(lines, k + 1, m)
    <3>1. ~(Len(lines) < m) \/ Len(lines) = m
      BY <1>1
    <3> QED BY <3>1
  <2> QED BY <1>2, <2>1, <2>2
<1>3. T \subseteq Nat
  BY <1>1
<1>4. PICK j \in T : \A i \in T : j <= i
  BY <1>3, LeastNumber
<1>5. j \in 0..Len(lines) /\ j \in Nat /\ g[j] # E(j)
  BY <1>3
<1>6. g[j] = IF j = 0 THEN <<>>
             ELSE IF lines[j].kind = "trace" THEN Append(g[j - 1], lines[j])
             ELSE g[j - 1]
  BY <1>2, <1>5 DEF Turns
<1>7. CASE j = 0
  <2> DEFINE x == IF j < m THEN j ELSE m
  <2>1. x \in Int /\ x < k + 1
    BY <1>7
  <2>2. E(j) = SubSeq(lines, k + 1, x)
    OBVIOUS
  <2> HIDE DEF x
  <2>3. E(j) = <<>>
    BY <2>1, <2>2, SubSeqEmpty
  <2> QED BY <1>5, <1>6, <1>7, <2>3
<1>8. CASE j # 0
  <2>1. j - 1 \in 0..Len(lines) /\ ~(j <= j - 1) /\ j \in 1..Len(lines)
    BY <1>1, <1>5, <1>8
  <2>2. g[j - 1] = E(j - 1)
    BY <1>4, <2>1
  <2>3. CASE j <= k
    <3>1. lines[j].kind # "trace"
      BY <2>1, <2>3
    <3>2. g[j] = E(j - 1)
      BY <1>6, <1>8, <2>2, <3>1
    <3> DEFINE x == IF j < m THEN j ELSE m
               y == IF j - 1 < m THEN j - 1 ELSE m
    <3>3. x \in Int /\ x < k + 1 /\ y \in Int /\ y < k + 1
      BY <1>5, <2>3
    <3>4. E(j) = SubSeq(lines, k + 1, x) /\ E(j - 1) = SubSeq(lines, k + 1, y)
      OBVIOUS
    <3> HIDE DEF x, y
    <3>5. E(j) = <<>> /\ E(j - 1) = <<>>
      BY <3>3, <3>4, SubSeqEmpty
    <3> QED BY <1>5, <3>2, <3>5
  <2>4. CASE k < j /\ j <= m
    <3>1. lines[j].kind = "trace"
      BY <1>5, <2>4
    <3>2. g[j] = Append(E(j - 1), lines[j])
      BY <1>6, <1>8, <2>2, <3>1
    <3>3. E(j - 1) = SubSeq(lines, k + 1, j - 1) /\ E(j) = SubSeq(lines, k + 1, j)
      BY <1>5, <2>4
    <3>4. k + 1 \in 1..Len(lines) /\ j \in (k + 1)..Len(lines)
      BY <1>1, <1>5, <2>4
    <3>5. SubSeq(lines, k + 1, j) = Append(SubSeq(lines, k + 1, j - 1), lines[j])
      BY <3>4, OneMore
    <3> QED BY <1>5, <3>2, <3>3, <3>5
  <2>5. CASE m < j
    <3>1. lines[j].kind # "trace"
      BY <2>1, <2>5
    <3>2. g[j] = E(j - 1)
      BY <1>6, <1>8, <2>2, <3>1
    <3>3. E(j) = SubSeq(lines, k + 1, m) /\ E(j - 1) = SubSeq(lines, k + 1, m)
      BY <1>5, <2>5
    <3> QED BY <1>5, <3>2, <3>3
  <2> QED BY <1>5, <2>3, <2>4, <2>5
<1> QED BY <1>5, <1>7, <1>8

\* The line of a record, and the hash it ends in.
LEMMA RecFacts ==
    ASSUME NEW H, HistoryOK(H), NEW i \in 1..Len(H)
    PROVE  /\ Rec(H, i) \in TraceT /\ Rec(H, i).kind = "trace"
           /\ Rec(H, i).content = H[i] /\ Rec(H, i).prev = SubSeq(H, 1, i - 1)
           /\ Rec(H, i).hash = SubSeq(H, 1, i)
           /\ Rec(H, i).hash = TraceHash(Rec(H, i).content, Rec(H, i).prev)
<1>1. H \in Seq(Content) /\ Len(H) \in Nat /\ \A j \in 1..Len(H) : H[j] \in Content
  BY ElementOfSeq DEF HistoryOK
<1>2. 1 \in 1..Len(H) /\ i \in 1..Len(H) /\ i \in Int /\ i - 1 \in Int
  BY <1>1
<1>3. SubSeq(H, 1, i) = Append(SubSeq(H, 1, i - 1), H[i])
  BY <1>1, <1>2, OneMore
<1>4. SubSeq(H, 1, i - 1) \in Seq(Content) /\ SubSeq(H, 1, i) \in Seq(Content)
  <2>1. (\A j \in 1..(i - 1) : H[j] \in Content) /\ (\A j \in 1..i : H[j] \in Content)
    BY <1>1, <1>2
  <2> QED BY <1>2, <2>1, SubSeqProperties
<1> DEFINE p == SubSeq(H, 1, i - 1)
           q == SubSeq(H, 1, i)
           c == H[i]
<1>5. Rec(H, i) = [kind |-> "trace", content |-> c, prev |-> p, hash |-> q]
  BY <1>3 DEF Rec, TraceLine, TraceHash
<1>6. q = TraceHash(c, p)
  BY <1>3 DEF TraceHash
<1>7. p \in Seq(Content) /\ q \in Seq(Content) /\ c \in Content
  BY <1>1, <1>4
<1> HIDE DEF p, q, c
<1>8. /\ Rec(H, i) \in TraceT /\ Rec(H, i).kind = "trace"
      /\ Rec(H, i).content = c /\ Rec(H, i).prev = p /\ Rec(H, i).hash = q
  BY <1>5, <1>7 DEF TraceT
<1> QED BY <1>6, <1>8 DEF p, q, c

\* Kinds tell the lines apart.
LEMMA LineKinds ==
    /\ TornLine.kind = "torn" /\ TornLine \in LineT
    /\ \A l \in TraceT : l.kind = "trace" /\ l \in LineT
    /\ \A c \in CheckpointT : c.kind = "checkpoint" /\ c \in LineT
BY DEF TornLine, TraceT, CheckpointT, LineT

\* Where the lines of a whole file stand.
LEMMA WholeLines ==
    ASSUME NEW lines, NEW H, NEW k, NEW b, Whole(lines, H, k, b)
    PROVE  /\ lines \in Seq(LineT) /\ H \in Seq(Content) /\ Len(H) \in Nat /\ k \in 0..Len(H)
           /\ Len(lines) = Len(H) - k + b /\ b \in {0, 1} /\ Len(lines) \in Nat
           /\ b = 1 => lines[1].kind = "checkpoint" /\ k > 0
           /\ b = 0 => k = 0
           /\ \A i \in (b + 1)..Len(lines) :
                 /\ k + i - b \in 1..Len(H) /\ lines[i] = Rec(H, k + i - b)
                 /\ lines[i].kind = "trace"
<1>1. /\ HistoryOK(H) /\ k \in 0..Len(H) /\ b \in {0, 1}
      /\ lines \in Seq(LineT) /\ Len(lines) = Len(H) - k + b
      /\ \A i \in 1..(Len(H) - k) : lines[b + i] = Rec(H, k + i)
      /\ IF b = 1 THEN k > 0 /\ Cap(lines[1], H, k) ELSE k = 0
  BY DEF Whole
<1>2. H \in Seq(Content) /\ Len(H) \in Nat /\ Len(lines) \in Nat
  BY <1>1 DEF HistoryOK
<1>3. b = 1 => lines[1].kind = "checkpoint" /\ k > 0
  BY <1>1, LineKinds DEF Cap
<1>4. ASSUME NEW i \in (b + 1)..Len(lines)
      PROVE  /\ k + i - b \in 1..Len(H) /\ lines[i] = Rec(H, k + i - b)
             /\ lines[i].kind = "trace"
  <2>1. /\ k \in Int /\ b \in Int /\ i \in Int /\ k + i - b \in 1..Len(H)
        /\ i - b \in 1..(Len(H) - k) /\ b + (i - b) = i /\ k + (i - b) = k + i - b
    BY <1>1, <1>2
  <2>2. lines[b + (i - b)] = Rec(H, k + (i - b))
    BY <1>1, <2>1
  <2>3. lines[i] = Rec(H, k + i - b)
    BY <2>1, <2>2
  <2>4. lines[i].kind = "trace"
    BY <1>1, <2>1, <2>3, RecFacts
  <2> QED BY <2>1, <2>3, <2>4
<1> QED BY <1>1, <1>2, <1>3, <1>4

\* What a reader gets from a whole file.
LEMMA WholeRead ==
    ASSUME NEW lines, NEW H, NEW k, NEW b, Whole(lines, H, k, b)
    PROVE  /\ Is(lines, "torn") = {} /\ (Pruned(lines) <=> b = 1)
           /\ Is(lines, "checkpoint") = IF b = 1 THEN {1} ELSE {}
           /\ StartHash(lines) = SubSeq(H, 1, k) /\ Len(StartHash(lines)) = k
           /\ Len(TracesOf(lines)) = Len(H) - k
           /\ \A i \in 1..(Len(H) - k) : TracesOf(lines)[i] = Rec(H, k + i)
           /\ TailHash(lines) = H
<1>1. /\ lines \in Seq(LineT) /\ H \in Seq(Content) /\ Len(H) \in Nat /\ k \in 0..Len(H)
      /\ Len(lines) = Len(H) - k + b /\ b \in {0, 1} /\ Len(lines) \in Nat
      /\ b = 1 => lines[1].kind = "checkpoint" /\ k > 0
      /\ b = 0 => k = 0
      /\ \A i \in (b + 1)..Len(lines) :
            /\ k + i - b \in 1..Len(H) /\ lines[i] = Rec(H, k + i - b)
            /\ lines[i].kind = "trace"
  BY WholeLines
<1>2. \A i \in 1..Len(lines) : i \in (b + 1)..Len(lines) \/ (i = 1 /\ b = 1)
  BY <1>1
<1>3. Is(lines, "torn") = {}
  BY <1>1, <1>2 DEF Is
<1>4. Is(lines, "checkpoint") = IF b = 1 THEN {1} ELSE {}
  <2>1. b = 1 => 1 \in 1..Len(lines)
    BY <1>1
  <2>2. \A i \in 1..Len(lines) : lines[i].kind = "checkpoint" => i = 1 /\ b = 1
    BY <1>1, <1>2
  <2> QED BY <1>1, <2>1, <2>2 DEF Is
<1>5. Pruned(lines) <=> b = 1
  BY <1>1, <1>4 DEF Pruned
<1>6. StartHash(lines) = SubSeq(H, 1, k)
  <2>1. CASE b = 1
    BY <1>5, <2>1 DEF StartHash, Whole, Cap
  <2>2. CASE b = 0
    <3>1. k = 0 /\ SubSeq(H, 1, 0) = <<>>
      BY <1>1, <2>2, SubSeqEmpty
    <3> QED BY <1>5, <2>2, <3>1 DEF StartHash, NoHash
  <2> QED BY <1>1, <2>1, <2>2
<1>7. Len(SubSeq(H, 1, k)) = k
  <2>1. \A i \in 1..k : H[i] \in Content
    BY <1>1, ElementOfSeq
  <2>2. k \in Int /\ k >= 0
    BY <1>1
  <2>3. Len(SubSeq(H, 1, k)) = IF 1 <= k THEN k - 1 + 1 ELSE 0
    BY <2>1, <2>2, SubSeqProperties
  <2> QED BY <2>2, <2>3
<1> DEFINE n == Len(lines)
           ts == SubSeq(lines, b + 1, n)
<1>8. TracesOf(lines) = ts
  <2>1. /\ b \in Nat /\ n \in Nat /\ b <= n
        /\ \A i \in 1..b : lines[i].kind # "trace"
        /\ \A i \in (n + 1)..n : lines[i].kind # "trace"
    BY <1>1
  <2> HIDE DEF n
  <2>2. \A i \in (b + 1)..n : lines[i].kind = "trace"
    BY <1>1 DEF n
  <2>3. (n + 1)..n = (n + 1)..Len(lines) /\ n <= Len(lines)
    BY <1>1 DEF n
  <2> QED BY <1>1, <2>1, <2>2, <2>3, Scan
<1>9. Len(ts) = Len(H) - k /\ \A i \in 1..(Len(H) - k) : ts[i] = Rec(H, k + i)
  <2>1. \A i \in (b + 1)..n : lines[i] \in LineT
    BY <1>1, ElementOfSeq
  <2>2. b + 1 \in Int /\ n \in Int
    BY <1>1
  <2>3. /\ Len(ts) = IF b + 1 <= n THEN n - (b + 1) + 1 ELSE 0
        /\ \A i \in 1..(n - (b + 1) + 1) : ts[i] = lines[b + 1 + i - 1]
    <3> HIDE DEF n
    <3> QED BY <2>1, <2>2, SubSeqProperties
  <2>4. n = Len(H) - k + b /\ n - (b + 1) + 1 = Len(H) - k
    BY <1>1
  <2> HIDE DEF n, ts
  <2>5. Len(ts) = Len(H) - k
    <3>1. Len(H) - k \in Nat /\ b \in Int
      BY <1>1
    <3>2. b + 1 <= n \/ Len(H) - k = 0
      BY <2>2, <2>4, <3>1
    <3>3. b + 1 <= n => Len(ts) = Len(H) - k
      BY <2>3, <2>4
    <3>4. ~(b + 1 <= n) => Len(ts) = 0
      BY <2>3
    <3> QED BY <3>2, <3>3, <3>4
  <2>6. ASSUME NEW i \in 1..(Len(H) - k) PROVE ts[i] = Rec(H, k + i)
    <3>1. b + 1 + i - 1 = b + i /\ ts[i] = lines[b + 1 + i - 1]
      BY <1>1, <2>3, <2>4
    <3>2. b + i \in (b + 1)..Len(lines) /\ k + (b + i) - b = k + i
      BY <1>1
    <3>3. lines[b + i] = Rec(H, k + (b + i) - b)
      BY <1>1, <3>2
    <3> QED BY <3>1, <3>2, <3>3
  <2> QED BY <2>5, <2>6
<1>10. TailHash(lines) = H
  <2>1. TailHash(lines) = IF ts = <<>> THEN StartHash(lines) ELSE ts[Len(ts)].hash
    BY <1>8 DEF TailHash
  <2>2. SubSeq(H, 1, Len(H)) = H
    BY <1>1, SubSeqFull
  <2> HIDE DEF ts
  <2>3. CASE k = Len(H)
    <3>1. Len(ts) = 0
      BY <1>1, <1>9, <2>3
    <3>2. ts \in Seq(LineT)
      <4>1. \A i \in (b + 1)..n : lines[i] \in LineT
        BY <1>1, ElementOfSeq
      <4>2. b + 1 \in Int /\ n \in Int
        BY <1>1
      <4> HIDE DEF n
      <4> QED BY <4>1, <4>2, SubSeqProperties DEF ts
    <3>3. ts = <<>>
      BY <3>1, <3>2, EmptySeq
    <3> QED BY <1>6, <2>1, <2>2, <2>3, <3>3
  <2>4. CASE k < Len(H)
    <3>1. Len(ts) \in 1..(Len(H) - k) /\ k + Len(ts) = Len(H)
      BY <1>1, <1>9, <2>4
    <3>2. ts # <<>>
      BY <3>1
    <3>3. ts[Len(ts)] = Rec(H, Len(H))
      BY <1>9, <3>1
    <3>4. Len(H) \in 1..Len(H) /\ HistoryOK(H)
      BY <1>1, <2>4 DEF Whole
    <3>5. Rec(H, Len(H)).hash = SubSeq(H, 1, Len(H))
      BY <3>4, RecFacts
    <3> QED BY <2>1, <2>2, <3>2, <3>3, <3>5
  <2> QED BY <1>1, <2>3, <2>4
<1> QED BY <1>3, <1>4, <1>5, <1>6, <1>7, <1>8, <1>9, <1>10

\* The traces of a whole file are lines of it.
LEMMA WholeTraces ==
    ASSUME NEW lines, NEW H, NEW k, NEW b, Whole(lines, H, k, b)
    PROVE  TracesOf(lines) \in Seq(LineT)
<1>1. /\ lines \in Seq(LineT) /\ Len(lines) = Len(H) - k + b /\ b \in {0, 1}
      /\ Len(lines) \in Nat /\ Len(H) \in Nat /\ k \in 0..Len(H)
      /\ b = 1 => lines[1].kind = "checkpoint"
      /\ \A i \in (b + 1)..Len(lines) : lines[i].kind = "trace"
  BY WholeLines
<1> DEFINE n == Len(lines)
<1>2. /\ b \in Nat /\ n \in Nat /\ b <= n /\ n <= Len(lines) /\ b + 1 \in Int /\ n \in Int
      /\ \A i \in 1..b : lines[i].kind # "trace"
      /\ \A i \in (n + 1)..Len(lines) : lines[i].kind # "trace"
  BY <1>1
<1>3. \A i \in (b + 1)..n : lines[i] \in LineT
  BY <1>1, ElementOfSeq
<1>4. \A i \in (b + 1)..n : lines[i].kind = "trace"
  BY <1>1
<1> HIDE DEF n
<1>5. TracesOf(lines) = SubSeq(lines, b + 1, n)
  BY <1>1, <1>2, <1>4, Scan
<1> QED BY <1>2, <1>3, <1>5, SubSeqProperties

\* verifyChainFromReader accepts a whole file, and refuses to extend it if it
\* is pruned.
LEMMA WholeIntact ==
    ASSUME NEW lines, NEW H, NEW k, NEW b, Whole(lines, H, k, b)
    PROVE  Intact(lines, TRUE) /\ (Intact(lines, FALSE) <=> b = 0)
<1> DEFINE ts == TracesOf(lines)
<1>1. /\ Is(lines, "torn") = {} /\ (Pruned(lines) <=> b = 1)
      /\ Is(lines, "checkpoint") = IF b = 1 THEN {1} ELSE {}
      /\ StartHash(lines) = SubSeq(H, 1, k)
      /\ Len(ts) = Len(H) - k
      /\ \A i \in 1..(Len(H) - k) : ts[i] = Rec(H, k + i)
      /\ TailHash(lines) = H
  BY WholeRead
<1>2. /\ HistoryOK(H) /\ Len(H) \in Nat /\ k \in 0..Len(H) /\ b \in {0, 1}
      /\ b = 1 => Cap(lines[1], H, k) /\ k > 0
  BY DEF Whole, HistoryOK
<1>3. ASSUME b = 1
      PROVE  /\ ValidCheckpoint(lines[1]) /\ lines[1].retained = Len(ts)
             /\ lines[1].tail = TailHash(lines)
  BY <1>1, <1>2, <1>3 DEF Cap
<1> HIDE DEF ts
<1>4. ASSUME NEW i \in 1..Len(ts)
      PROVE  /\ ts[i].prev = IF i = 1 THEN StartHash(lines) ELSE ts[i - 1].hash
             /\ ts[i].hash = TraceHash(ts[i].content, ts[i].prev)
             /\ Rank(ts[i].content.ver)
                  >= IF i = 1 THEN StartRank(lines) ELSE Rank(ts[i - 1].content.ver)
  <2>1. i \in Int /\ i \in 1..(Len(H) - k) /\ k + i \in 1..Len(H) /\ k \in Int
    BY <1>1, <1>2
  <2>2. ts[i] = Rec(H, k + i)
    BY <1>1, <2>1
  <2>3. /\ ts[i].content = H[k + i] /\ ts[i].prev = SubSeq(H, 1, k + i - 1)
        /\ ts[i].hash = TraceHash(ts[i].content, ts[i].prev)
    BY <1>2, <2>1, <2>2, RecFacts
  <2>4. \A v : Rank(v) \in 1..2
    BY DEF Rank
  <2>5. CASE i = 1
    <3>1. ts[i].prev = StartHash(lines)
      <4>1. k + i - 1 = k
        BY <2>1, <2>5
      <4> QED BY <1>1, <2>3, <4>1
    <3>2. Rank(ts[i].content.ver) >= StartRank(lines)
      <4>1. CASE b = 0
        <5>1. StartRank(lines) = 0
          BY <1>1, <4>1 DEF StartRank
        <5> QED BY <2>4, <5>1
      <4>2. CASE b = 1
        <5>1. k + i \in 2..Len(H)
          BY <1>2, <2>1, <4>2
        <5>2. ts[i].content.ver = "v2"
          BY <1>2, <2>3, <5>1 DEF HistoryOK
        <5>3. Rank(ts[i].content.ver) = 2
          BY <5>2 DEF Rank
        <5>4. StartRank(lines) \in 1..2
          BY <1>1, <2>4, <4>2 DEF StartRank
        <5> QED BY <5>3, <5>4
      <4> QED BY <1>2, <4>1, <4>2
    <3> QED BY <2>3, <2>5, <3>1, <3>2
  <2>6. CASE i # 1
    <3>1. i - 1 \in 1..(Len(H) - k) /\ k + (i - 1) \in 1..Len(H) /\ k + (i - 1) = k + i - 1
      BY <1>2, <2>1, <2>6
    <3>2. ts[i - 1] = Rec(H, k + (i - 1))
      BY <1>1, <3>1
    <3>3. ts[i - 1].hash = SubSeq(H, 1, k + (i - 1))
      BY <1>2, <3>1, <3>2, RecFacts
    <3>4. ts[i].prev = ts[i - 1].hash
      BY <2>3, <3>1, <3>3
    <3>5. k + i \in 2..Len(H)
      BY <1>2, <2>1, <2>6
    <3>6. ts[i].content.ver = "v2"
      BY <1>2, <2>3, <3>5 DEF HistoryOK
    <3>7. Rank(ts[i].content.ver) = 2
      BY <3>6 DEF Rank
    <3> QED BY <2>3, <2>4, <2>6, <3>4, <3>7
  <2> QED BY <2>5, <2>6
<1>5. Intact(lines, TRUE)
  BY <1>1, <1>2, <1>3, <1>4 DEF Intact, ts
<1>6. ASSUME b = 0 PROVE Intact(lines, FALSE)
  <2>1. ~Pruned(lines)
    BY <1>1, <1>6
  <2> QED BY <1>1, <1>4, <2>1, Zenon DEF Intact, ts
<1>7. b = 1 => ~Intact(lines, FALSE)
  BY <1>1 DEF Intact
<1> QED BY <1>2, <1>5, <1>6, <1>7

-----------------------------------------------------------------------------
(* Changing a file *)

\* The first n elements of a sequence.
LEMMA Cut ==
    ASSUME NEW S, NEW s \in Seq(S), NEW n \in 0..Len(s)
    PROVE  /\ SubSeq(s, 1, n) \in Seq(S) /\ Len(SubSeq(s, 1, n)) = n
           /\ \A i \in 1..n : SubSeq(s, 1, n)[i] = s[i]
<1>1. n \in Int /\ n >= 0 /\ 1 \in Int
  OBVIOUS
<1>2. \A i \in 1..n : s[i] \in S
  BY ElementOfSeq
<1>3. /\ SubSeq(s, 1, n) \in Seq(S)
      /\ Len(SubSeq(s, 1, n)) = IF 1 <= n THEN n - 1 + 1 ELSE 0
      /\ \A i \in 1..(n - 1 + 1) : SubSeq(s, 1, n)[i] = s[1 + i - 1]
  BY <1>1, <1>2, SubSeqProperties
<1>4. Len(SubSeq(s, 1, n)) = n
  BY <1>1, <1>3
<1>5. ASSUME NEW i \in 1..n PROVE SubSeq(s, 1, n)[i] = s[i]
  <2>1. i \in 1..(n - 1 + 1) /\ 1 + i - 1 = i
    BY <1>1
  <2> QED BY <1>3, <2>1
<1> QED BY <1>3, <1>4, <1>5

\* Sequences that agree up to n start with the same n elements.
LEMMA SameCut ==
    ASSUME NEW S, NEW s \in Seq(S), NEW t \in Seq(S), NEW n \in Nat,
           n <= Len(s), n <= Len(t), \A i \in 1..n : s[i] = t[i]
    PROVE  SubSeq(s, 1, n) = SubSeq(t, 1, n)
<1>1. n \in 0..Len(s) /\ n \in 0..Len(t)
  OBVIOUS
<1>2. /\ SubSeq(s, 1, n) \in Seq(S) /\ Len(SubSeq(s, 1, n)) = n
      /\ \A i \in 1..n : SubSeq(s, 1, n)[i] = s[i]
  BY <1>1, Cut
<1>3. /\ SubSeq(t, 1, n) \in Seq(S) /\ Len(SubSeq(t, 1, n)) = n
      /\ \A i \in 1..n : SubSeq(t, 1, n)[i] = t[i]
  BY <1>1, Cut
<1> QED BY <1>2, <1>3, SeqEqual

\* The line of a record depends on the history up to it alone.
LEMMA RecSame ==
    ASSUME NEW G \in Seq(Content), NEW H \in Seq(Content),
           NEW i \in 1..Len(G), i \in 1..Len(H), \A j \in 1..i : G[j] = H[j]
    PROVE  Rec(G, i) = Rec(H, i)
<1>1. i \in Nat /\ i - 1 \in Nat /\ i - 1 <= Len(G) /\ i - 1 <= Len(H) /\ i \in 1..i
  OBVIOUS
<1>2. \A j \in 1..(i - 1) : G[j] = H[j]
  BY <1>1
<1>3. SubSeq(G, 1, i - 1) = SubSeq(H, 1, i - 1)
  BY <1>1, <1>2, SameCut
<1>4. G[i] = H[i]
  BY <1>1
<1> QED BY <1>3, <1>4 DEF Rec

\* No lines are no history.
LEMMA WholeEmpty == Whole(<<>>, <<>>, 0, 0)
<1>1. <<>> \in Seq(Content) /\ <<>> \in Seq(LineT) /\ Len(<<>>) = 0
  BY EmptySeq
<1>2. HistoryOK(<<>>)
  BY <1>1 DEF HistoryOK
<1> QED BY <1>1, <1>2 DEF Whole

\* A record of the current version behind the last hash.
LEMMA WholeExtend ==
    ASSUME NEW lines, NEW H, Whole(lines, H, 0, 0), NEW c \in Content, c.ver = "v2"
    PROVE  Whole(Append(lines, TraceLine(c, H)), Append(H, c), 0, 0)
<1> DEFINE L == Append(lines, TraceLine(c, H))
           G == Append(H, c)
<1>1. /\ HistoryOK(H) /\ H \in Seq(Content) /\ Len(H) \in Nat
      /\ lines \in Seq(LineT) /\ Len(lines) = Len(H)
      /\ \A i \in 1..Len(H) : lines[i] = Rec(H, i)
  BY DEF Whole, HistoryOK
<1>2. /\ G \in Seq(Content) /\ Len(G) = Len(H) + 1
      /\ \A i \in 1..Len(H) : G[i] = H[i]
      /\ G[Len(H) + 1] = c
  BY <1>1, AppendProperties
<1> HIDE DEF G
<1>3. HistoryOK(G)
  <2>1. ASSUME NEW i \in 2..Len(G) PROVE G[i].ver = "v2"
    <3>1. i \in 2..Len(H) \/ i = Len(H) + 1
      BY <1>1, <1>2
    <3>2. \A j \in 2..Len(H) : j \in 1..Len(H) /\ G[j] = H[j] /\ H[j].ver = "v2"
      BY <1>1, <1>2 DEF HistoryOK
    <3> QED BY <1>2, <3>1, <3>2
  <2> QED BY <1>2, <2>1 DEF HistoryOK
<1>4. TraceLine(c, H) = Rec(G, Len(H) + 1)
  <2>1. Len(H) <= Len(G) /\ Len(H) <= Len(H)
    BY <1>1, <1>2
  <2>2. SubSeq(G, 1, Len(H)) = SubSeq(H, 1, Len(H))
    BY <1>1, <1>2, <2>1, SameCut
  <2>3. SubSeq(H, 1, Len(H)) = H
    BY <1>1, SubSeqFull
  <2>4. Rec(G, Len(H) + 1) = TraceLine(G[Len(H) + 1], SubSeq(G, 1, Len(H) + 1 - 1))
    BY DEF Rec
  <2>5. Len(H) + 1 - 1 = Len(H)
    BY <1>1
  <2> QED BY <1>2, <2>2, <2>3, <2>4, <2>5
<1>5. TraceLine(c, H) \in LineT
  <2>1. Len(H) + 1 \in 1..Len(G)
    BY <1>1, <1>2
  <2> QED BY <1>3, <1>4, <2>1, RecFacts, LineKinds
<1>6. /\ L \in Seq(LineT) /\ Len(L) = Len(lines) + 1
      /\ \A i \in 1..Len(lines) : L[i] = lines[i]
      /\ L[Len(lines) + 1] = TraceLine(c, H)
  BY <1>1, <1>5, AppendProperties
<1> HIDE DEF L
<1>7. ASSUME NEW i \in 1..Len(G) PROVE L[i] = Rec(G, i)
  <2>1. CASE i = Len(H) + 1
    BY <1>1, <1>4, <1>6, <2>1
  <2>2. CASE i # Len(H) + 1
    <3>1. i \in 1..Len(H)
      BY <1>1, <1>2, <2>2
    <3>2. \A j \in 1..i : G[j] = H[j]
      BY <1>1, <1>2, <3>1
    <3>3. Rec(G, i) = Rec(H, i)
      BY <1>1, <1>2, <3>1, <3>2, RecSame
    <3> QED BY <1>1, <1>6, <3>1, <3>3
  <2> QED BY <2>1, <2>2
<1>8. Len(G) - 0 = Len(G) /\ Len(L) = Len(G) - 0 + 0 /\ 0 \in 0..Len(G)
  BY <1>1, <1>2, <1>6
<1>9. \A i \in 1..(Len(G) - 0) : L[0 + i] = Rec(G, 0 + i)
  BY <1>7, <1>8
<1>10. Whole(L, G, 0, 0)
  <2>1. 0 \in {0, 1} /\ 0 # 1
    OBVIOUS
  <2> QED BY <1>3, <1>6, <1>8, <1>9, <2>1, Zenon DEF Whole
<1> QED BY <1>10 DEF L, G

\* The first n lines of a whole file that is not pruned.
LEMMA WholeCut ==
    ASSUME NEW lines, NEW H, Whole(lines, H, 0, 0), NEW n \in 0..Len(lines)
    PROVE  Whole(SubSeq(lines, 1, n), SubSeq(H, 1, n), 0, 0)
<1> DEFINE L == SubSeq(lines, 1, n)
           G == SubSeq(H, 1, n)
<1>1. /\ HistoryOK(H) /\ H \in Seq(Content) /\ Len(H) \in Nat
      /\ lines \in Seq(LineT) /\ Len(lines) = Len(H)
      /\ \A i \in 1..Len(H) : lines[i] = Rec(H, i)
  BY DEF Whole, HistoryOK
<1>2. n \in Nat /\ n \in 0..Len(H)
  BY <1>1
<1>3. /\ L \in Seq(LineT) /\ Len(L) = n /\ \A i \in 1..n : L[i] = lines[i]
  BY <1>1, Cut
<1>4. /\ G \in Seq(Content) /\ Len(G) = n /\ \A i \in 1..n : G[i] = H[i]
  BY <1>1, <1>2, Cut
<1> HIDE DEF L, G
<1>5. HistoryOK(G)
  <2>1. ASSUME NEW i \in 2..Len(G) PROVE G[i].ver = "v2"
    <3>1. i \in 1..n /\ i \in 2..Len(H)
      BY <1>1, <1>2, <1>4
    <3> QED BY <1>1, <1>4, <3>1 DEF HistoryOK
  <2> QED BY <1>4, <2>1 DEF HistoryOK
<1>6. ASSUME NEW i \in 1..n PROVE L[i] = Rec(G, i)
  <2>1. i \in 1..Len(G) /\ i \in 1..Len(H)
    BY <1>1, <1>2, <1>4
  <2>2. \A j \in 1..i : G[j] = H[j]
    BY <1>2, <1>4
  <2>3. Rec(G, i) = Rec(H, i)
    BY <1>1, <1>4, <2>1, <2>2, RecSame
  <2> QED BY <1>1, <1>3, <2>1, <2>3
<1>7. Len(G) - 0 = n /\ Len(L) = Len(G) - 0 + 0 /\ 0 \in 0..Len(G)
  BY <1>2, <1>3, <1>4
<1>8. \A i \in 1..(Len(G) - 0) : L[0 + i] = Rec(G, 0 + i)
  BY <1>6, <1>7
<1>9. Whole(L, G, 0, 0)
  BY <1>3, <1>5, <1>7, <1>8 DEF Whole
<1> QED BY <1>9 DEF L, G

\* A torn line behind a whole file.
LEMMA TornIntro ==
    ASSUME NEW lines, NEW H, Whole(lines, H, 0, 0)
    PROVE  /\ TornAfter(Append(lines, TornLine), H)
           /\ Len(Append(lines, TornLine)) = Len(lines) + 1
<1> DEFINE L == Append(lines, TornLine)
<1>1. lines \in Seq(LineT) /\ Len(lines) \in Nat
  BY WholeLines
<1>2. TornLine \in LineT
  BY LineKinds
<1>3. /\ L \in Seq(LineT) /\ Len(L) = Len(lines) + 1
      /\ \A i \in 1..Len(lines) : L[i] = lines[i]
      /\ L[Len(lines) + 1] = TornLine
  BY <1>1, <1>2, AppendProperties
<1> HIDE DEF L
<1>4. Len(L) > 0 /\ Len(L) - 1 = Len(lines) /\ L[Len(L)] = TornLine
  BY <1>1, <1>3
<1>5. SubSeq(L, 1, Len(lines)) = SubSeq(lines, 1, Len(lines))
  BY <1>1, <1>3, <1>4, SameCut
<1>6. SubSeq(L, 1, Len(L) - 1) = lines
  BY <1>1, <1>4, <1>5, SubSeqFull
<1> QED BY <1>3, <1>4, <1>6 DEF TornAfter, L

\* What a reader gets from a file with a torn line.
LEMMA TornRead ==
    ASSUME NEW lines, NEW H, TornAfter(lines, H)
    PROVE  /\ lines \in Seq(LineT) /\ Len(lines) \in Nat /\ Len(lines) = Len(H) + 1
           /\ H \in Seq(Content)
           /\ Is(lines, "torn") # {} /\ ~Pruned(lines)
           /\ TailHash(lines) = H
           /\ ~Intact(lines, TRUE) /\ ~Intact(lines, FALSE)
           /\ \A i \in 1..Len(H) : lines[i] = Rec(H, i)
<1> DEFINE n == Len(lines) - 1
           L == SubSeq(lines, 1, n)
<1>1. lines \in Seq(LineT) /\ Len(lines) > 0 /\ lines[Len(lines)] = TornLine /\ Whole(L, H, 0, 0)
  BY DEF TornAfter
<1>2. n \in Nat /\ n \in 0..Len(lines) /\ Len(lines) = n + 1
  BY <1>1
<1>3. L \in Seq(LineT) /\ Len(L) = n /\ \A i \in 1..n : L[i] = lines[i]
  BY <1>1, <1>2, Cut
<1> HIDE DEF n
<1>4. /\ H \in Seq(Content) /\ Len(H) \in Nat /\ Len(L) = Len(H) - 0 + 0
      /\ \A i \in (0 + 1)..Len(L) : L[i] = Rec(H, 0 + i - 0) /\ L[i].kind = "trace"
  <2> HIDE DEF L
  <2> QED BY <1>1, WholeLines
<1>5. Len(H) = n /\ \A i \in 1..Len(H) : lines[i] = Rec(H, i) /\ lines[i].kind = "trace"
  BY <1>2, <1>3, <1>4
<1>6. Is(lines, "torn") # {}
  <2>1. n + 1 \in 1..Len(lines) /\ lines[n + 1].kind = "torn"
    BY <1>1, <1>2, LineKinds
  <2> QED BY <2>1 DEF Is
<1>7. ~Pruned(lines)
  <2>1. \A i \in 1..Len(lines) : i \in 1..n \/ i = n + 1
    BY <1>2
  <2>2. \A i \in 1..Len(lines) : lines[i].kind # "checkpoint"
    BY <1>1, <1>2, <1>5, <2>1, LineKinds
  <2> QED BY <2>2 DEF Pruned, Is
<1>8. TracesOf(lines) = L
  <2>1. /\ \A i \in 1..0 : lines[i].kind # "trace"
        /\ \A i \in (0 + 1)..n : lines[i].kind = "trace"
        /\ \A i \in (n + 1)..Len(lines) : lines[i].kind # "trace"
    BY <1>1, <1>2, <1>5, LineKinds
  <2>2. 0 <= n /\ n <= Len(lines) /\ 0 \in Nat
    BY <1>2
  <2>3. TracesOf(lines) = SubSeq(lines, 0 + 1, n)
    BY <1>1, <1>2, <2>1, <2>2, Scan
  <2> QED BY <2>3
<1>9. TailHash(lines) = H
  <2>1. TailHash(lines) = IF L = <<>> THEN NoHash ELSE L[Len(L)].hash
    BY <1>7, <1>8 DEF TailHash, StartHash
  <2> HIDE DEF L
  <2>2. CASE n = 0
    <3>1. L = <<>> /\ H = <<>>
      BY <1>3, <1>4, <1>5, <2>2, EmptySeq
    <3> QED BY <2>1, <3>1 DEF NoHash
  <2>3. CASE n > 0
    <3>1. L # <<>> /\ Len(L) \in 1..Len(H) /\ Len(L) = Len(H)
      BY <1>2, <1>3, <1>5, <2>3
    <3>2. L[Len(L)] = Rec(H, Len(H))
      BY <1>3, <1>5, <3>1
    <3>3. Rec(H, Len(H)).hash = SubSeq(H, 1, Len(H))
      BY <1>1, <3>1, RecFacts DEF Whole
    <3> QED BY <1>4, <2>1, <3>1, <3>2, <3>3, SubSeqFull
  <2> QED BY <1>2, <2>2, <2>3
<1>10. ~Intact(lines, TRUE) /\ ~Intact(lines, FALSE)
  BY <1>6 DEF Intact
<1> HIDE DEF L
<1>11. Len(lines) \in Nat /\ Len(lines) = Len(H) + 1
  BY <1>2, <1>5
<1> QED BY <1>1, <1>4, <1>5, <1>6, <1>7, <1>9, <1>10, <1>11, Zenon

-----------------------------------------------------------------------------
(* The hooks *)

\* A file that was never pruned, and one that was.
LEMMA Unpruned ==
    ASSUME NEW lines, NEW H, Whole(lines, H, 0, 0)
    PROVE  /\ lines \in Seq(LineT) /\ Len(lines) \in Nat /\ HistoryOK(H) /\ H \in Seq(Content)
           /\ Len(H) = Len(lines) /\ ~Pruned(lines) /\ TailHash(lines) = H
           /\ Is(lines, "torn") = {} /\ Intact(lines, TRUE) /\ Intact(lines, FALSE)
<1>1. lines \in Seq(LineT) /\ HistoryOK(H) /\ H \in Seq(Content) /\ Len(lines) = Len(H) - 0 + 0
  BY DEF Whole, HistoryOK
<1>2. Len(H) = Len(lines) /\ Len(lines) \in Nat
  BY <1>1
<1> DEFINE z == 0
<1>3. Whole(lines, H, z, z) /\ z = 0 /\ z # 1
  OBVIOUS
<1> HIDE DEF z
<1>4. /\ Pruned(lines) <=> z = 1
      /\ TailHash(lines) = H
      /\ Is(lines, "torn") = {}
  BY <1>3, WholeRead
<1>5. Intact(lines, TRUE) /\ (Intact(lines, FALSE) <=> z = 0)
  BY <1>3, WholeIntact
<1> QED BY <1>1, <1>2, <1>3, <1>4, <1>5

LEMMA Capped ==
    ASSUME NEW lines, NEW H, NEW k, Whole(lines, H, k, 1)
    PROVE  /\ lines \in Seq(LineT) /\ Len(lines) \in Nat /\ HistoryOK(H) /\ H \in Seq(Content)
           /\ Len(H) \in Nat /\ k \in 1..Len(H)
           /\ Len(lines) = Len(H) - k + 1 /\ Pruned(lines) /\ TailHash(lines) = H
           /\ Is(lines, "torn") = {} /\ Intact(lines, TRUE) /\ ~Intact(lines, FALSE)
<1>1. /\ lines \in Seq(LineT) /\ HistoryOK(H) /\ H \in Seq(Content) /\ Len(lines) = Len(H) - k + 1
      /\ k \in 0..Len(H) /\ k > 0
  BY DEF Whole, HistoryOK
<1>2. Len(H) \in Nat /\ Len(lines) \in Nat /\ k \in 1..Len(H)
  BY <1>1
<1> DEFINE z == 1
<1>3. Whole(lines, H, k, z) /\ z = 1 /\ z # 0
  OBVIOUS
<1> HIDE DEF z
<1>4. /\ Pruned(lines) <=> z = 1
      /\ TailHash(lines) = H
      /\ Is(lines, "torn") = {}
  BY <1>3, WholeRead
<1>5. Intact(lines, TRUE)
  BY <1>3, WholeIntact
<1>6. ~Intact(lines, FALSE)
  BY <1>3, <1>4 DEF Intact
<1> QED BY <1>1, <1>2, <1>3, <1>4, <1>5, <1>6

\* What the invariant tells a reader of the log.
LEMMA LogRead ==
    ASSUME LogInv
    PROVE  /\ file.lines \in Seq(LineT) /\ Len(file.lines) \in Nat
           /\ HistoryOK(History) /\ History \in Seq(Content) /\ Len(History) \in Nat
           /\ Intact(file.lines, FALSE) => Whole(file.lines, History, 0, 0)
           /\ Whole(file.lines, History, 0, 0) =>
                 Len(file.lines) = Len(History) /\ ~Pruned(file.lines)
           /\ ~Whole(file.lines, History, 0, 0) =>
                 \/ TornAfter(file.lines, History) /\ synced < Len(file.lines)
                 \/ /\ \E k \in 1..Len(History) : Whole(file.lines, History, k, 1)
                    /\ synced = Len(file.lines)
<1>1. CASE Whole(file.lines, History, 0, 0)
  <2>1. /\ file.lines \in Seq(LineT) /\ Len(file.lines) \in Nat
        /\ HistoryOK(History) /\ History \in Seq(Content)
        /\ Len(History) = Len(file.lines) /\ ~Pruned(file.lines)
    BY <1>1, Unpruned
  <2> QED BY <1>1, <2>1
<1>2. CASE TornAfter(file.lines, History) /\ synced < Len(file.lines)
  <2>1. /\ file.lines \in Seq(LineT) /\ Len(file.lines) \in Nat
        /\ ~Intact(file.lines, FALSE) /\ Len(file.lines) = Len(History) + 1
        /\ History \in Seq(Content)
    BY <1>2, TornRead
  <2>2. Len(History) \in Nat
    BY <2>1
  <2>3. ~Whole(file.lines, History, 0, 0)
    BY <2>1, <2>2 DEF Whole
  <2>4. HistoryOK(History)
    BY <1>2 DEF TornAfter, Whole
  <2> QED BY <1>2, <2>1, <2>2, <2>3, <2>4
<1>3. CASE /\ \E k \in 1..Len(History) : Whole(file.lines, History, k, 1)
           /\ synced = Len(file.lines)
  <2>1. PICK k \in 1..Len(History) : Whole(file.lines, History, k, 1)
    BY <1>3
  <2>2. /\ file.lines \in Seq(LineT) /\ Len(file.lines) \in Nat
        /\ HistoryOK(History) /\ History \in Seq(Content) /\ Len(History) \in Nat
        /\ ~Intact(file.lines, FALSE) /\ Pruned(file.lines)
    BY <2>1, Capped
  <2>3. ~Whole(file.lines, History, 0, 0)
    BY <2>2, Unpruned
  <2> QED BY <1>3, <2>2, <2>3
<1> QED BY <1>1, <1>2, <1>3 DEF LogInv

\* A hook moves on and the log stays as it is.
LEMMA HookMoves ==
    ASSUME LogInv, HookInv, RecordInv, NEW h \in Hooks, UNCHANGED <<file, flags>>,
           hook' \in [Hooks -> HookT], acked' \subseteq Hooks,
           \A g \in Hooks : g # h => hook'[g] = hook[g] /\ (hook[g].pc \in Busy => lock' = g),
           hook'[h].pc \in Busy => lock' = h,
           hook'[h].pc \in {"lock", "verify", "write"} => hook'[h].dec = FromAction(hook'[h].act),
           hook'[h].pc # "sync",
           hook'[h].pc = "write" =>
                /\ Whole(file.lines, History, 0, 0)
                /\ hook'[h].prev = History /\ hook'[h].sep = NeedsSeparator(file),
           (\E i \in 1..Len(History) : History[i].by = h) =>
                hook'[h].pc = "done" /\ hook'[h].act = hook[h].act /\ hook'[h].dec = hook[h].dec
    PROVE  HookInv' /\ RecordInv' /\ History' = History
<1>1. History' = History
  BY DEF History
<1>2. ASSUME NEW g \in Hooks
      PROVE  /\ hook'[g].pc \in Busy => lock' = g
             /\ hook'[g].pc \in {"lock", "verify", "write", "sync"} =>
                   hook'[g].dec = FromAction(hook'[g].act)
             /\ hook'[g].pc = "write" =>
                   /\ Whole(file.lines, History, 0, 0)
                   /\ hook'[g].prev = History /\ hook'[g].sep = NeedsSeparator(file)
             /\ hook'[g].pc = "sync" =>
                   /\ Whole(file.lines, History, 0, 0)
                   /\ Len(History) > 0 /\ History[Len(History)].by = g
  <2>1. CASE g = h
    BY <2>1
  <2>2. CASE g # h
    BY <2>2 DEF HookInv
  <2> QED BY <2>1, <2>2
<1>3. file' = file /\ flags' = flags /\ flags \in FlagSets
  BY DEF HookInv
<1>4. HookInv'
  BY <1>1, <1>2, <1>3 DEF HookInv, NeedsSeparator
<1>5. ASSUME NEW i \in 1..Len(History), NEW g \in Hooks, History[i].by = g
      PROVE  /\ hook'[g].pc \in {"sync", "done"}
             /\ History[i].act = hook'[g].act
             /\ hook'[g].dec = FromAction(hook'[g].act)
             /\ \A j \in 1..Len(History) : History[j].by = g => j = i
  <2>1. /\ hook[g].pc \in {"sync", "done"}
        /\ History[i].act = hook[g].act
        /\ hook[g].dec = FromAction(hook[g].act)
        /\ \A j \in 1..Len(History) : History[j].by = g => j = i
    BY <1>5 DEF RecordInv
  <2>2. CASE g = h
    BY <1>5, <2>1, <2>2
  <2>3. CASE g # h
    BY <2>1, <2>3
  <2> QED BY <2>2, <2>3
<1>6. RecordInv'
  BY <1>1, <1>5 DEF RecordInv
<1> QED BY <1>1, <1>4, <1>6

\* A step that leaves the log and the acknowledgements alone.
LEMMA LogStays ==
    ASSUME LogInv, AckInv, UNCHANGED <<file, synced, acked>>
    PROVE  LogInv' /\ AckInv'
BY DEF LogInv, AckInv, History

\* Nobody has a record before it is asked to write one.
LEMMA NoRecordYet ==
    ASSUME RecordInv, NEW h \in Hooks, hook[h].pc \in {"start", "lock", "verify", "write"}
    PROVE  ~ \E i \in 1..Len(History) : History[i].by = h
BY DEF RecordInv

\* A decision and the action it is recorded as agree.
LEMMA Decided ==
    /\ \A a : FromAction(a) \in Decisions
    /\ \A d \in {"deny", "allow"} : FromAction(ToAction(d)) = d /\ ToAction(d) \in Acts
    /\ \A t : FailDecide(t) \in {"deny", "allow"}
    /\ FailUnattributable \in {"deny", "allow"}
BY DEF FromAction, ToAction, FailDecide, FailUnattributable, Decisions, Acts

\* The state of one hook is replaced.
LEMMA HookSet ==
    ASSUME hook \in [Hooks -> HookT], NEW h \in Hooks, NEW r \in HookT,
           hook' = [hook EXCEPT ![h] = r]
    PROVE  /\ hook' \in [Hooks -> HookT] /\ hook'[h] = r
           /\ \A g \in Hooks : g # h => hook'[g] = hook[g]
OBVIOUS

LEMMA EmitStep ==
    ASSUME Logged, NEW h \in Hooks, NEW t \in Tools, NEW d \in Decisions,
           NEW b \in {"failure", "guard", "engine"}, NEW a \in Acts,
           d = FromAction(a), Emit(h, t, d, b, a)
    PROVE  Logged'
<1>1. LogInv /\ HookInv /\ RecordInv /\ AckInv /\ UNCHANGED <<flags, lock, file, synced, acked>>
  BY DEF Logged, Emit
<1>2. hook \in [Hooks -> HookT] /\ acked \subseteq Hooks /\ hook[h].pc = "start"
  BY <1>1 DEF HookInv, Emit
<1>3. PICK ts \in Times :
         hook' = [hook EXCEPT ![h].pc = "lock", ![h].tool = t, ![h].dec = d,
                              ![h].by = b, ![h].act = a, ![h].ts = ts]
  BY DEF Emit
<1>4. /\ hook' \in [Hooks -> HookT]
      /\ \A g \in Hooks : g # h => hook'[g] = hook[g]
      /\ hook'[h].pc = "lock" /\ hook'[h].dec = d /\ hook'[h].act = a
  <2> DEFINE r == [hook[h] EXCEPT !.pc = "lock", !.tool = t, !.dec = d, !.by = b,
                                  !.act = a, !.ts = ts]
  <2>1. hook[h] \in HookT /\ ts \in Nat
    BY <1>2, HookAssumption
  <2>2. r \in HookT /\ r.pc = "lock" /\ r.dec = d /\ r.act = a
    BY <2>1 DEF HookT
  <2>3. hook' = [hook EXCEPT ![h] = r]
    BY <1>2, <1>3
  <2> HIDE DEF r
  <2> QED BY <1>2, <2>2, <2>3, HookSet
<1>5. \A g \in Hooks : hook[g].pc \in Busy => lock' = g
  BY <1>1 DEF HookInv
<1>6. ~ \E i \in 1..Len(History) : History[i].by = h
  BY <1>1, <1>2, NoRecordYet
<1>7. HookInv' /\ RecordInv'
  <2>1. hook'[h].pc \notin Busy /\ hook'[h].pc # "write" /\ hook'[h].pc # "sync"
    BY <1>4 DEF Busy
  <2>2. acked' \subseteq Hooks /\ UNCHANGED <<file, flags>>
    BY <1>1, <1>2
  <2> QED BY <1>1, <1>4, <1>5, <1>6, <2>1, <2>2, HookMoves
<1>8. LogInv' /\ AckInv'
  BY <1>1, LogStays
<1> QED BY <1>7, <1>8 DEF Logged

LEMMA UnattributableStep ==
    ASSUME Logged, NEW h \in Hooks, Unattributable(h)
    PROVE  Logged'
<1>1. LogInv /\ HookInv /\ RecordInv /\ AckInv /\ UNCHANGED <<flags, lock, file, synced, acked>>
  BY DEF Logged, Unattributable
<1>2. /\ hook \in [Hooks -> HookT] /\ acked \subseteq Hooks /\ hook[h].pc = "start"
      /\ hook' = [hook EXCEPT ![h].pc = "done", ![h].dec = FailUnattributable,
                              ![h].by = "failure"]
  BY <1>1 DEF HookInv, Unattributable
<1>3. FailUnattributable \in Decisions
  BY Decided DEF Decisions
<1>4. /\ hook' \in [Hooks -> HookT]
      /\ \A g \in Hooks : g # h => hook'[g] = hook[g]
      /\ hook'[h].pc = "done"
  <2> DEFINE r == [hook[h] EXCEPT !.pc = "done", !.dec = FailUnattributable, !.by = "failure"]
  <2>1. hook[h] \in HookT
    BY <1>2
  <2>2. r \in HookT /\ r.pc = "done"
    BY <1>3, <2>1 DEF HookT
  <2>3. hook' = [hook EXCEPT ![h] = r]
    BY <1>2
  <2> HIDE DEF r
  <2> QED BY <1>2, <2>2, <2>3, HookSet
<1>5. \A g \in Hooks : hook[g].pc \in Busy => lock' = g
  BY <1>1 DEF HookInv
<1>6. ~ \E i \in 1..Len(History) : History[i].by = h
  BY <1>1, <1>2, NoRecordYet
<1>7. HookInv' /\ RecordInv'
  <2>1. hook'[h].pc \notin Busy /\ hook'[h].pc \notin {"lock", "verify", "write"}
        /\ hook'[h].pc # "sync"
    BY <1>4 DEF Busy
  <2>2. acked' \subseteq Hooks /\ UNCHANGED <<file, flags>>
    BY <1>1, <1>2
  <2> QED BY <1>1, <1>4, <1>5, <1>6, <2>1, <2>2, HookMoves
<1>8. LogInv' /\ AckInv'
  BY <1>1, LogStays
<1> QED BY <1>7, <1>8 DEF Logged

LEMMA DecisionStep ==
    ASSUME Logged, NEW h \in Hooks,
           DenyBeforeEngine(h) \/ FailsToEvaluate(h) \/ Evaluates(h)
    PROVE  Logged'
<1>1. CASE DenyBeforeEngine(h)
  <2>1. PICK t \in Tools : Emit(h, t, "deny", "guard", ToAction("deny"))
    BY <1>1 DEF DenyBeforeEngine
  <2>2. "deny" \in Decisions /\ FromAction(ToAction("deny")) = "deny" /\ ToAction("deny") \in Acts
    BY Decided DEF Decisions
  <2> QED BY <2>1, <2>2, EmitStep
<1>2. CASE FailsToEvaluate(h)
  <2>1. PICK t \in Tools : Emit(h, t, FailDecide(t), "failure", ToAction(FailDecide(t)))
    BY <1>2 DEF FailsToEvaluate
  <2>2. /\ FailDecide(t) \in Decisions
        /\ FromAction(ToAction(FailDecide(t))) = FailDecide(t)
        /\ ToAction(FailDecide(t)) \in Acts
    BY Decided DEF Decisions
  <2> QED BY <2>1, <2>2, EmitStep
<1>3. CASE Evaluates(h)
  <2>1. PICK t \in Tools, a \in Actions : Emit(h, t, FromAction(a), "engine", a)
    BY <1>3 DEF Evaluates
  <2>2. FromAction(a) \in Decisions /\ a \in Acts
    BY Decided DEF Acts
  <2> QED BY <2>1, <2>2, EmitStep
<1> QED BY <1>1, <1>2, <1>3

LEMMA LockStep ==
    ASSUME Logged, NEW h \in Hooks, Lock(h) \/ LockTimeout(h)
    PROVE  Logged'
<1>1. LogInv /\ HookInv /\ RecordInv /\ AckInv /\ UNCHANGED <<flags, file, synced, acked>>
  BY DEF Logged, Lock, LockTimeout
<1>2. /\ hook \in [Hooks -> HookT] /\ acked \subseteq Hooks /\ hook[h].pc = "lock"
      /\ hook[h].dec = FromAction(hook[h].act)
      /\ \/ lock = "free" /\ lock' = h /\ hook' = [hook EXCEPT ![h].pc = "verify"]
         \/ lock' = lock /\ hook' = [hook EXCEPT ![h].pc = "done"]
  BY <1>1 DEF HookInv, Lock, LockTimeout
<1>3. /\ hook' \in [Hooks -> HookT]
      /\ \A g \in Hooks : g # h => hook'[g] = hook[g]
      /\ hook'[h].pc \in {"verify", "done"} /\ (hook'[h].pc = "verify" => lock' = h)
      /\ hook'[h].dec = hook[h].dec /\ hook'[h].act = hook[h].act
  <2> DEFINE r(p) == [hook[h] EXCEPT !.pc = p]
  <2>1. hook[h] \in HookT
    BY <1>2
  <2>2. \A p \in {"verify", "done"} :
           r(p) \in HookT /\ r(p).pc = p /\ r(p).dec = hook[h].dec /\ r(p).act = hook[h].act
    BY <2>1 DEF HookT
  <2>3. PICK p \in {"verify", "done"} :
           hook' = [hook EXCEPT ![h] = r(p)] /\ (p = "verify" => lock' = h)
    BY <1>2
  <2> HIDE DEF r
  <2>4. /\ hook' \in [Hooks -> HookT] /\ hook'[h] = r(p)
        /\ \A g \in Hooks : g # h => hook'[g] = hook[g]
    BY <1>2, <2>2, <2>3, HookSet
  <2> QED BY <2>2, <2>3, <2>4
<1>4. \A g \in Hooks : g # h /\ hook[g].pc \in Busy => lock' = g
  BY <1>1, <1>2, HookAssumption DEF HookInv
<1>5. ~ \E i \in 1..Len(History) : History[i].by = h
  BY <1>1, <1>2, NoRecordYet
<1>6. HookInv' /\ RecordInv'
  <2>1. /\ hook'[h].pc \in Busy => lock' = h
        /\ hook'[h].pc # "write" /\ hook'[h].pc # "sync"
        /\ hook'[h].dec = FromAction(hook'[h].act)
    BY <1>2, <1>3 DEF Busy
  <2>2. acked' \subseteq Hooks /\ UNCHANGED <<file, flags>>
    BY <1>1, <1>2
  <2> QED BY <1>1, <1>3, <1>4, <1>5, <2>1, <2>2, HookMoves
<1>7. LogInv' /\ AckInv'
  BY <1>1, LogStays
<1> QED BY <1>6, <1>7 DEF Logged

\* A hook that is done gives the lock back and keeps what it decided.
LEMMA FinishFacts ==
    ASSUME HookInv, NEW h \in Hooks, NEW ok \in BOOLEAN, Finish(h, ok)
    PROVE  /\ hook' \in [Hooks -> HookT] /\ acked' \subseteq Hooks
           /\ hook'[h].pc = "done" /\ hook'[h].act = hook[h].act /\ hook'[h].dec = hook[h].dec
           /\ \A g \in Hooks : g # h => hook'[g] = hook[g] /\ (hook[g].pc \in Busy => lock' = g)
           /\ acked' = IF ok THEN acked \cup {h} ELSE acked
<1>1. /\ hook \in [Hooks -> HookT] /\ acked \subseteq Hooks
      /\ \A g \in Hooks : hook[g].pc \in Busy => lock = g
  BY DEF HookInv
<1>2. /\ hook' = [hook EXCEPT ![h].pc = "done", ![h].prev = NoHash, ![h].sep = FALSE]
      /\ lock' = IF lock = h THEN "free" ELSE lock
      /\ acked' = IF ok THEN acked \cup {h} ELSE acked
  BY DEF Finish
<1> DEFINE r == [hook[h] EXCEPT !.pc = "done", !.prev = NoHash, !.sep = FALSE]
<1>3. hook[h] \in HookT /\ NoHash \in Seq(Content)
  BY <1>1, EmptySeq DEF NoHash
<1>4. r \in HookT /\ r.pc = "done" /\ r.act = hook[h].act /\ r.dec = hook[h].dec
  BY <1>3 DEF HookT
<1>5. hook' = [hook EXCEPT ![h] = r]
  BY <1>1, <1>2
<1> HIDE DEF r
<1>6. /\ hook' \in [Hooks -> HookT] /\ hook'[h] = r
      /\ \A g \in Hooks : g # h => hook'[g] = hook[g]
  BY <1>1, <1>4, <1>5, HookSet
<1>7. \A g \in Hooks : g # h /\ hook[g].pc \in Busy => lock' = g
  BY <1>1, <1>2
<1>8. acked' \subseteq Hooks
  BY <1>1, <1>2
<1> QED BY <1>2, <1>4, <1>6, <1>7, <1>8

LEMMA FinishStep ==
    ASSUME LogInv, HookInv, RecordInv, NEW h \in Hooks, NEW ok \in BOOLEAN, Finish(h, ok),
           UNCHANGED <<file, flags>>
    PROVE  HookInv' /\ RecordInv' /\ History' = History
<1>1. /\ hook' \in [Hooks -> HookT] /\ acked' \subseteq Hooks
      /\ hook'[h].pc = "done" /\ hook'[h].act = hook[h].act /\ hook'[h].dec = hook[h].dec
      /\ \A g \in Hooks : g # h => hook'[g] = hook[g] /\ (hook[g].pc \in Busy => lock' = g)
  BY FinishFacts
<1>2. /\ hook'[h].pc \notin Busy /\ hook'[h].pc \notin {"lock", "verify", "write"}
      /\ hook'[h].pc # "sync"
  BY <1>1 DEF Busy
<1> QED BY <1>1, <1>2, HookMoves

LEMMA KillStep ==
    ASSUME Logged, NEW h \in Hooks, SyncFails(h) \/ Kill(h)
    PROVE  Logged'
<1>1. LogInv /\ HookInv /\ RecordInv /\ AckInv /\ UNCHANGED <<flags, file, synced>>
      /\ Finish(h, FALSE)
  BY DEF Logged, SyncFails, Kill
<1>2. HookInv' /\ RecordInv'
  BY <1>1, FinishStep
<1>3. acked' = acked
  BY <1>1 DEF Finish
<1>4. LogInv' /\ AckInv'
  BY <1>1, <1>3, LogStays
<1> QED BY <1>2, <1>4 DEF Logged

LEMMA VerifyStep ==
    ASSUME Logged, NEW h \in Hooks, Verify(h)
    PROVE  Logged'
<1>1. LogInv /\ HookInv /\ RecordInv /\ AckInv /\ UNCHANGED <<flags, file, synced>>
  BY DEF Logged, Verify
<1>2. CASE ~VerifyHookAuditChain
  <2>1. Finish(h, FALSE)
    BY <1>2 DEF Verify
  <2>2. HookInv' /\ RecordInv'
    BY <1>1, <2>1, FinishStep
  <2>3. acked' = acked
    BY <2>1 DEF Finish
  <2>4. LogInv' /\ AckInv'
    BY <1>1, <2>3, LogStays
  <2> QED BY <2>2, <2>4 DEF Logged
<1>3. CASE VerifyHookAuditChain
  <2>1. /\ hook \in [Hooks -> HookT] /\ acked \subseteq Hooks /\ hook[h].pc = "verify"
        /\ hook' = [hook EXCEPT ![h].pc = "write", ![h].prev = TailHash(file.lines),
                                ![h].sep = NeedsSeparator(file)]
        /\ UNCHANGED <<lock, acked>>
    BY <1>1, <1>3 DEF HookInv, Verify
  <2>2. Whole(file.lines, History, 0, 0) /\ History \in Seq(Content)
    BY <1>1, <1>3, LogRead DEF VerifyHookAuditChain
  <2> DEFINE r == [hook[h] EXCEPT !.pc = "write", !.prev = History, !.sep = NeedsSeparator(file)]
  <2>3. hook[h] \in HookT /\ NeedsSeparator(file) \in BOOLEAN
    BY <2>1 DEF NeedsSeparator
  <2>4. /\ r \in HookT /\ r.pc = "write" /\ r.prev = History /\ r.sep = NeedsSeparator(file)
        /\ r.act = hook[h].act /\ r.dec = hook[h].dec
    BY <2>2, <2>3 DEF HookT
  <2>5. hook' = [hook EXCEPT ![h] = r]
    BY <2>1 DEF History
  <2> HIDE DEF r
  <2>6. /\ hook' \in [Hooks -> HookT] /\ hook'[h] = r
        /\ \A g \in Hooks : g # h => hook'[g] = hook[g]
    BY <2>1, <2>4, <2>5, HookSet
  <2>7. \A g \in Hooks : hook[g].pc \in Busy => lock' = g
    BY <1>1, <2>1 DEF HookInv
  <2>8. lock' = h /\ hook[h].dec = FromAction(hook[h].act)
    BY <1>1, <2>1 DEF HookInv, Busy
  <2>9. ~ \E i \in 1..Len(History) : History[i].by = h
    BY <1>1, <2>1, NoRecordYet
  <2>10. HookInv' /\ RecordInv'
    <3>1. /\ hook'[h].dec = FromAction(hook'[h].act) /\ hook'[h].pc # "sync"
          /\ hook'[h].prev = History /\ hook'[h].sep = NeedsSeparator(file)
      BY <2>4, <2>6, <2>8
    <3>2. acked' \subseteq Hooks /\ UNCHANGED <<file, flags>>
      BY <1>1, <2>1
    <3> QED BY <1>1, <2>2, <2>6, <2>7, <2>8, <2>9, <3>1, <3>2, HookMoves
  <2>11. LogInv' /\ AckInv'
    BY <1>1, <2>1, LogStays
  <2> QED BY <2>10, <2>11 DEF Logged
<1> QED BY <1>2, <1>3

LEMMA SyncStep ==
    ASSUME Logged, NEW h \in Hooks, Sync(h)
    PROVE  Logged'
<1>1. /\ LogInv /\ HookInv /\ RecordInv /\ AckInv /\ UNCHANGED <<flags, file>>
      /\ Finish(h, TRUE) /\ synced' = Len(file.lines) /\ hook[h].pc = "sync"
  BY DEF Logged, Sync
<1>2. HookInv' /\ RecordInv' /\ History' = History
  BY <1>1, FinishStep
<1>3. /\ Whole(file.lines, History, 0, 0)
      /\ Len(History) > 0 /\ History[Len(History)].by = h
  BY <1>1 DEF HookInv
<1>4. /\ Len(file.lines) \in Nat /\ Len(History) = Len(file.lines) /\ ~Pruned(file.lines)
  BY <1>3, Unpruned
<1>5. LogInv'
  BY <1>1, <1>2, <1>3, <1>4 DEF LogInv
<1>6. ASSUME NEW g \in acked'
      PROVE  \E i \in 1..Len(History) : History[i].by = g /\ i <= Len(file.lines)
  <2>1. g = h \/ g \in acked
    BY <1>1 DEF Finish
  <2>2. CASE g = h
    <3>1. Len(History) \in 1..Len(History) /\ Len(History) <= Len(file.lines)
      BY <1>3, <1>4
    <3> QED BY <1>3, <2>2, <3>1
  <2>3. CASE g \in acked
    <3>1. PICK i \in 1..Len(History) : History[i].by = g
      BY <1>1, <2>3 DEF AckInv
    <3>2. i <= Len(file.lines)
      BY <1>4
    <3> QED BY <3>1, <3>2
  <2> QED BY <2>1, <2>2, <2>3
<1>7. AckInv'
  BY <1>1, <1>2, <1>6 DEF AckInv
<1> QED BY <1>2, <1>5, <1>7 DEF Logged

\* Records that stay in the history stay what they were.
LEMMA RecordsStay ==
    ASSUME RecordInv, Len(History) \in Nat, Len(History)' \in Nat,
           Len(History)' <= Len(History),
           \A i \in 1..Len(History)' : History'[i] = History[i],
           \A g \in Hooks : /\ hook'[g].act = hook[g].act /\ hook'[g].dec = hook[g].dec
                            /\ hook[g].pc \in {"sync", "done"} => hook'[g].pc \in {"sync", "done"}
    PROVE  RecordInv'
<1>1. \A i \in 1..Len(History)' : i \in 1..Len(History)
  OBVIOUS
<1>2. ASSUME NEW i \in 1..Len(History)', NEW g \in Hooks, History'[i].by = g
      PROVE  /\ hook'[g].pc \in {"sync", "done"}
             /\ History'[i].act = hook'[g].act
             /\ hook'[g].dec = FromAction(hook'[g].act)
             /\ \A j \in 1..Len(History)' : History'[j].by = g => j = i
  <2>1. i \in 1..Len(History) /\ History[i].by = g /\ History'[i] = History[i]
    BY <1>1, <1>2
  <2>2. /\ hook[g].pc \in {"sync", "done"}
        /\ History[i].act = hook[g].act
        /\ hook[g].dec = FromAction(hook[g].act)
        /\ \A j \in 1..Len(History) : History[j].by = g => j = i
    BY <2>1 DEF RecordInv
  <2>3. \A j \in 1..Len(History)' : History'[j].by = g => j = i
    BY <1>1, <2>2
  <2> QED BY <2>1, <2>2, <2>3
<1> QED BY <1>2 DEF RecordInv

\* Nobody is at the log.
LEMMA NobodyBusy ==
    ASSUME HookInv, hook' \in [Hooks -> HookT], acked' \subseteq Hooks, flags' = flags,
           \A g \in Hooks : /\ hook'[g].pc \notin Busy
                            /\ hook'[g].pc = "lock" => hook'[g].dec = FromAction(hook'[g].act)
    PROVE  HookInv'
<1>1. flags' \in FlagSets
  BY DEF HookInv
<1>2. \A g \in Hooks : hook'[g].pc \notin {"verify", "write", "sync"}
  BY DEF Busy
<1> QED BY <1>1, <1>2 DEF HookInv

\* What the writer brings: a record of its own behind the history.
LEMMA WriterFacts ==
    ASSUME LogInv, HookInv, RecordInv, NEW h \in Hooks, hook[h].pc = "write"
    PROVE  /\ Whole(file.lines, History, 0, 0)
           /\ ~(file.open /\ ~hook[h].sep)
           /\ \A g \in Hooks : g # h => hook[g].pc \notin Busy
           /\ \E c \in Content : /\ c.by = h /\ c.act = hook[h].act /\ c.ver = "v2"
                                 /\ RecordOf(h) = TraceLine(c, History)
<1>1. /\ hook \in [Hooks -> HookT] /\ Whole(file.lines, History, 0, 0)
      /\ hook[h].prev = History /\ hook[h].sep = NeedsSeparator(file)
      /\ \A g \in Hooks : hook[g].pc \in Busy => lock = g
  BY DEF HookInv
<1>2. ~(file.open /\ ~hook[h].sep)
  BY <1>1 DEF LogInv, NeedsSeparator
<1>3. \A g \in Hooks : g # h => hook[g].pc \notin Busy
  BY <1>1 DEF Busy
<1> DEFINE c == [by |-> h, act |-> hook[h].act, ts |-> hook[h].ts, ver |-> "v2"]
<1>4. hook[h].act \in Acts /\ hook[h].ts \in Nat
  <2>1. hook[h] \in HookT
    BY <1>1
  <2> QED BY <2>1 DEF HookT
<1>5. c \in Content /\ c.by = h /\ c.act = hook[h].act /\ c.ver = "v2"
  BY <1>4 DEF Content, Versions
<1>6. RecordOf(h) = TraceLine(c, History)
  BY <1>1 DEF RecordOf, RecordedAction
<1> HIDE DEF c
<1> QED BY <1>1, <1>2, <1>3, <1>5, <1>6

\* The log after a write that left no record behind.
LEMMA NothingWritten ==
    ASSUME LogInv, HookInv, RecordInv, AckInv, NEW h \in Hooks, hook[h].pc = "write",
           file' \in FileT, file'.open => file'.lines # <<>>,
           file'.lines = file.lines \/ file'.lines = Append(file.lines, TornLine),
           UNCHANGED <<flags, synced>>, Finish(h, FALSE)
    PROVE  Logged'
<1>1. Whole(file.lines, History, 0, 0) /\ \A g \in Hooks : g # h => hook[g].pc \notin Busy
  BY WriterFacts
<1>2. /\ Len(file.lines) \in Nat /\ Len(History) = Len(file.lines) /\ ~Pruned(file.lines)
      /\ TailHash(file.lines) = History
  BY <1>1, Unpruned
<1>3. synced \in 0..Len(file.lines)
  BY DEF LogInv
<1>4. /\ History' = History /\ ~Pruned(file.lines)' /\ synced' \in 0..Len(file.lines)'
      /\ \/ Whole(file.lines, History, 0, 0)'
         \/ TornAfter(file.lines, History)' /\ synced' < Len(file.lines)'
  <2>1. CASE file'.lines = file.lines
    BY <1>1, <1>2, <1>3, <2>1 DEF History
  <2>2. CASE file'.lines = Append(file.lines, TornLine)
    <3>1. /\ TornAfter(file'.lines, History)
          /\ Len(file'.lines) = Len(file.lines) + 1
      BY <1>1, <2>2, TornIntro
    <3>2. TailHash(file'.lines) = History /\ ~Pruned(file'.lines)
      BY <3>1, TornRead
    <3>3. synced' \in 0..Len(file'.lines) /\ synced' < Len(file'.lines)
      BY <1>2, <1>3, <3>1
    <3>4. History' = History
      BY <3>2 DEF History
    <3> QED BY <3>1, <3>2, <3>3, <3>4
  <2> QED BY <2>1, <2>2
<1>5. LogInv'
  BY <1>4 DEF LogInv
<1>6. /\ hook' \in [Hooks -> HookT] /\ acked' = acked /\ acked' \subseteq Hooks
      /\ hook'[h].pc = "done" /\ hook'[h].act = hook[h].act /\ hook'[h].dec = hook[h].dec
      /\ \A g \in Hooks : g # h => hook'[g] = hook[g]
  BY FinishFacts
<1>7. HookInv'
  <2>1. \A g \in Hooks : /\ hook'[g].pc \notin Busy
                         /\ hook'[g].pc = "lock" => hook'[g].dec = FromAction(hook'[g].act)
    BY <1>1, <1>6 DEF HookInv, Busy
  <2> QED BY <1>6, <2>1, NobodyBusy
<1>8. RecordInv'
  <2>1. \A g \in Hooks : /\ hook'[g].act = hook[g].act /\ hook'[g].dec = hook[g].dec
                         /\ hook[g].pc \in {"sync", "done"} => hook'[g].pc \in {"sync", "done"}
    BY <1>6
  <2>2. Len(History) \in Nat /\ Len(History)' \in Nat /\ Len(History)' <= Len(History)
    BY <1>2, <1>4
  <2> QED BY <1>4, <2>1, <2>2, RecordsStay
<1>9. AckInv'
  BY <1>2, <1>4, <1>6 DEF AckInv
<1> QED BY <1>5, <1>7, <1>8, <1>9 DEF Logged

\* The log after a record was written, with or without its newline.
LEMMA RecordWritten ==
    ASSUME LogInv, HookInv, RecordInv, AckInv, NEW h \in Hooks, hook[h].pc = "write",
           file' \in FileT, file'.lines = Append(file.lines, RecordOf(h)),
           UNCHANGED <<flags, synced, acked>>,
           hook' \in [Hooks -> HookT], hook'[h].pc \in {"sync", "done"},
           hook'[h].act = hook[h].act, hook'[h].dec = hook[h].dec,
           hook'[h].pc = "sync" => lock' = h,
           \A g \in Hooks : g # h => hook'[g] = hook[g]
    PROVE  Logged'
<1>1. /\ Whole(file.lines, History, 0, 0)
      /\ \A g \in Hooks : g # h => hook[g].pc \notin Busy
      /\ \E c \in Content : /\ c.by = h /\ c.act = hook[h].act /\ c.ver = "v2"
                            /\ RecordOf(h) = TraceLine(c, History)
  BY WriterFacts
<1>2. PICK c \in Content : /\ c.by = h /\ c.act = hook[h].act /\ c.ver = "v2"
                           /\ RecordOf(h) = TraceLine(c, History)
  BY <1>1
<1>3. /\ Len(file.lines) \in Nat /\ Len(History) = Len(file.lines) /\ ~Pruned(file.lines)
      /\ History \in Seq(Content)
  BY <1>1, Unpruned
<1> DEFINE G == Append(History, c)
           n == Len(History)
<1>4. Whole(file'.lines, G, 0, 0)
  BY <1>1, <1>2, WholeExtend
<1>5. /\ G \in Seq(Content) /\ Len(G) = n + 1 /\ \A i \in 1..n : G[i] = History[i]
      /\ G[n + 1] = c
  BY <1>3, AppendProperties
<1> HIDE DEF G
<1>6. Len(file'.lines) = Len(G) /\ ~Pruned(file'.lines) /\ TailHash(file'.lines) = G
  BY <1>4, Unpruned
<1>7. History' = G
  BY <1>6 DEF History
<1>8. LogInv'
  <2>1. synced' \in 0..Len(file'.lines)
    BY <1>3, <1>5, <1>6 DEF LogInv
  <2>2. file'.lines # <<>>
    <3>1. file.lines \in Seq(LineT)
      BY <1>1, Unpruned
    <3> QED BY <3>1
  <2> QED BY <1>4, <1>7, <2>1, <2>2 DEF LogInv
<1>9. HookInv'
  <2>1. ASSUME NEW g \in Hooks
        PROVE  /\ hook'[g].pc \in Busy => lock' = g
               /\ hook'[g].pc \in {"lock", "verify", "write", "sync"} =>
                     hook'[g].dec = FromAction(hook'[g].act)
               /\ hook'[g].pc # "write"
               /\ hook'[g].pc = "sync" => Len(G) > 0 /\ G[Len(G)].by = g
    <3>1. CASE g = h
      <4>1. hook[h].dec = FromAction(hook[h].act)
        BY DEF HookInv
      <4>2. Len(G) > 0 /\ G[Len(G)].by = h
        BY <1>2, <1>3, <1>5
      <4> QED BY <3>1, <4>1, <4>2 DEF Busy
    <3>2. CASE g # h
      BY <1>1, <3>2 DEF HookInv, Busy
    <3> QED BY <3>1, <3>2
  <2>2. flags' \in FlagSets /\ acked' \subseteq Hooks
    BY DEF HookInv
  <2> QED BY <1>4, <1>7, <2>1, <2>2 DEF HookInv
<1>10. RecordInv'
  <2>1. ~ \E i \in 1..n : History[i].by = h
    BY NoRecordYet
  <2>2. ASSUME NEW i \in 1..Len(G), NEW g \in Hooks, G[i].by = g
        PROVE  /\ hook'[g].pc \in {"sync", "done"}
               /\ G[i].act = hook'[g].act
               /\ hook'[g].dec = FromAction(hook'[g].act)
               /\ \A j \in 1..Len(G) : G[j].by = g => j = i
    <3>1. \A j \in 1..Len(G) : j \in 1..n \/ j = n + 1
      BY <1>3, <1>5
    <3>2. CASE i = n + 1
      <4>1. g = h
        BY <1>2, <1>5, <2>2, <3>2
      <4>2. hook[h].dec = FromAction(hook[h].act)
        BY DEF HookInv
      <4>3. \A j \in 1..Len(G) : G[j].by = h => j = n + 1
        BY <1>5, <2>1, <3>1
      <4> QED BY <1>2, <1>5, <3>2, <4>1, <4>2, <4>3
    <3>3. CASE i \in 1..n
      <4>1. History[i].by = g /\ G[i] = History[i]
        BY <1>5, <2>2, <3>3
      <4>2. g # h
        BY <2>1, <3>3, <4>1
      <4>3. /\ hook[g].pc \in {"sync", "done"}
            /\ History[i].act = hook[g].act
            /\ hook[g].dec = FromAction(hook[g].act)
            /\ \A j \in 1..n : History[j].by = g => j = i
        BY <3>3, <4>1 DEF RecordInv
      <4>4. \A j \in 1..Len(G) : G[j].by = g => j = i
        BY <1>2, <1>5, <3>1, <4>2, <4>3
      <4> QED BY <4>1, <4>2, <4>3, <4>4
    <3> QED BY <3>1, <3>2, <3>3
  <2> QED BY <1>7, <2>2 DEF RecordInv
<1>11. AckInv'
  <2>1. ASSUME NEW g \in acked PROVE \E i \in 1..Len(G) : G[i].by = g /\ i <= synced
    <3>1. PICK i \in 1..n : History[i].by = g /\ i <= synced
      BY <1>3 DEF AckInv
    <3>2. i \in 1..Len(G) /\ G[i] = History[i]
      BY <1>3, <1>5
    <3> QED BY <3>1, <3>2
  <2> QED BY <1>7, <2>1 DEF AckInv
<1> QED BY <1>8, <1>9, <1>10, <1>11 DEF Logged

\* A record that is to be written is a line.
LEMMA NewLine ==
    ASSUME NEW lines, NEW H, Whole(lines, H, 0, 0), NEW c \in Content, c.ver = "v2"
    PROVE  TraceLine(c, H) \in LineT /\ lines \in Seq(LineT)
<1>1. lines \in Seq(LineT) /\ H \in Seq(Content)
  BY Unpruned
<1>2. Append(H, c) \in Seq(Content)
  BY <1>1, AppendProperties
<1> QED BY <1>1, <1>2 DEF TraceLine, TraceHash, LineT, TraceT

LEMMA WriteStep ==
    ASSUME Logged, NEW h \in Hooks, Write(h)
    PROVE  Logged'
<1>1. /\ LogInv /\ HookInv /\ RecordInv /\ AckInv /\ UNCHANGED <<flags, lock, synced, acked>>
      /\ hook[h].pc = "write" /\ file' = Written(h, <<RecordOf(h)>>, FALSE)
      /\ hook' = [hook EXCEPT ![h].pc = "sync"]
  BY DEF Logged, Write
<1>2. hook \in [Hooks -> HookT] /\ lock = h
  BY <1>1 DEF HookInv, Busy
<1>3. Whole(file.lines, History, 0, 0) /\ ~(file.open /\ ~hook[h].sep)
  BY <1>1, WriterFacts
<1>4. PICK c \in Content : c.ver = "v2" /\ RecordOf(h) = TraceLine(c, History)
  BY <1>1, WriterFacts
<1>5. RecordOf(h) \in LineT /\ file.lines \in Seq(LineT)
  BY <1>3, <1>4, NewLine
<1>6. /\ file' = FileOf(file.lines \o <<RecordOf(h)>>, FALSE)
      /\ file.lines \o <<RecordOf(h)>> = Append(file.lines, RecordOf(h))
      /\ Append(file.lines, RecordOf(h)) \in Seq(LineT)
  BY <1>1, <1>3, <1>5, AppendIsConcat, AppendProperties DEF Written
<1>7. file' \in FileT /\ file'.lines = Append(file.lines, RecordOf(h))
  BY <1>6 DEF FileT, FileOf
<1> DEFINE r == [hook[h] EXCEPT !.pc = "sync"]
<1>8. hook[h] \in HookT
  BY <1>2
<1>9. r \in HookT /\ r.pc = "sync" /\ r.act = hook[h].act /\ r.dec = hook[h].dec
  BY <1>8 DEF HookT
<1>10. hook' = [hook EXCEPT ![h] = r]
  BY <1>1, <1>2
<1> HIDE DEF r
<1>11. /\ hook' \in [Hooks -> HookT] /\ hook'[h] = r
       /\ \A g \in Hooks : g # h => hook'[g] = hook[g]
  BY <1>2, <1>9, <1>10, HookSet
<1>12. /\ hook'[h].pc \in {"sync", "done"} /\ hook'[h].act = hook[h].act
       /\ hook'[h].dec = hook[h].dec /\ lock' = h
  BY <1>1, <1>2, <1>9, <1>11
<1> QED BY <1>1, <1>7, <1>11, <1>12, RecordWritten

LEMMA ShortWriteStep ==
    ASSUME Logged, NEW h \in Hooks, ShortWrite(h)
    PROVE  Logged'
<1>1. /\ LogInv /\ HookInv /\ RecordInv /\ AckInv /\ UNCHANGED <<flags, synced>>
      /\ hook[h].pc = "write" /\ Finish(h, FALSE)
      /\ \/ file' = FileOf(file.lines, file.open /\ ~hook[h].sep)
         \/ file' = Written(h, <<TornLine>>, TRUE)
         \/ file' = Written(h, <<RecordOf(h)>>, TRUE)
  BY DEF Logged, ShortWrite
<1>2. Whole(file.lines, History, 0, 0) /\ ~(file.open /\ ~hook[h].sep)
  BY <1>1, WriterFacts
<1>3. PICK c \in Content : c.ver = "v2" /\ RecordOf(h) = TraceLine(c, History)
  BY <1>1, WriterFacts
<1>4. RecordOf(h) \in LineT /\ TornLine \in LineT /\ file.lines \in Seq(LineT)
  BY <1>2, <1>3, NewLine, LineKinds
<1>5. \A l \in LineT : /\ file.lines \o <<l>> = Append(file.lines, l)
                       /\ Append(file.lines, l) \in Seq(LineT)
                       /\ Append(file.lines, l) # <<>>
  BY <1>4, AppendIsConcat, AppendProperties
<1>6. CASE file' = FileOf(file.lines, file.open /\ ~hook[h].sep)
  <2>1. file' = FileOf(file.lines, FALSE)
    BY <1>2, <1>6
  <2>2. file' \in FileT /\ file'.lines = file.lines /\ ~file'.open
    BY <1>4, <2>1 DEF FileT, FileOf
  <2> QED BY <1>1, <2>2, NothingWritten
<1>7. CASE file' = Written(h, <<TornLine>>, TRUE)
  <2>1. file' = FileOf(Append(file.lines, TornLine), TRUE)
    BY <1>2, <1>4, <1>5, <1>7 DEF Written
  <2>2. file' \in FileT /\ file'.lines = Append(file.lines, TornLine) /\ file'.lines # <<>>
    BY <1>4, <1>5, <2>1 DEF FileT, FileOf
  <2> QED BY <1>1, <2>2, NothingWritten
<1>8. CASE file' = Written(h, <<RecordOf(h)>>, TRUE)
  <2>1. file' = FileOf(Append(file.lines, RecordOf(h)), TRUE)
    BY <1>2, <1>4, <1>5, <1>8 DEF Written
  <2>2. file' \in FileT /\ file'.lines = Append(file.lines, RecordOf(h))
    BY <1>4, <1>5, <2>1 DEF FileT, FileOf
  <2>3. /\ hook' \in [Hooks -> HookT] /\ acked' = acked
        /\ hook'[h].pc = "done" /\ hook'[h].act = hook[h].act /\ hook'[h].dec = hook[h].dec
        /\ \A g \in Hooks : g # h => hook'[g] = hook[g]
    BY <1>1, FinishFacts
  <2> QED BY <1>1, <2>2, <2>3, RecordWritten
<1> QED BY <1>1, <1>6, <1>7, <1>8

LEMMA PowerLossStep ==
    ASSUME Logged, PowerLoss
    PROVE  Logged'
<1>1. /\ LogInv /\ HookInv /\ RecordInv /\ AckInv /\ UNCHANGED <<flags, synced, acked>>
      /\ Len(file.lines) > synced
      /\ \/ file' = [file EXCEPT !.lines = SubSeq(file.lines, 1, synced), !.open = FALSE]
         \/ file' = [file EXCEPT !.lines = Append(SubSeq(file.lines, 1, synced), TornLine),
                                 !.open = TRUE]
      /\ hook' = [h \in Hooks |-> IF hook[h].pc = "start" THEN hook[h]
                                  ELSE [hook[h] EXCEPT !.pc = "done", !.prev = NoHash,
                                                       !.sep = FALSE]]
  BY DEF Logged, PowerLoss
<1>2. /\ file \in FileT /\ synced \in 0..Len(file.lines) /\ synced \in Nat
      /\ file.lines \in Seq(LineT) /\ Len(file.lines) \in Nat /\ History \in Seq(Content)
  <2>1. file.lines \in Seq(LineT) /\ Len(file.lines) \in Nat /\ History \in Seq(Content)
    BY <1>1, LogRead
  <2>2. file \in FileT /\ synced \in 0..Len(file.lines)
    BY <1>1 DEF LogInv
  <2> QED BY <2>1, <2>2
<1>0. synced < Len(file.lines) /\ synced <= Len(file.lines) - 1 /\ synced <= Len(file.lines)
  <2>1. Len(file.lines) > synced
    BY DEF PowerLoss
  <2> QED BY <1>2, <2>1
<1> DEFINE G == SubSeq(History, 1, synced)
           L == SubSeq(file.lines, 1, synced)
<1>3. Whole(L, G, 0, 0) /\ synced \in 0..Len(History) /\ ~Pruned(file.lines)
  <2>1. CASE Whole(file.lines, History, 0, 0)
    <3>1. Len(History) = Len(file.lines) /\ ~Pruned(file.lines)
      BY <2>1, Unpruned
    <3> QED BY <1>2, <2>1, <3>1, WholeCut
  <2>2. CASE TornAfter(file.lines, History)
    <3> DEFINE M == SubSeq(file.lines, 1, Len(file.lines) - 1)
    <3>1. Whole(M, History, 0, 0)
      BY <2>2 DEF TornAfter
    <3>2. Len(file.lines) = Len(History) + 1 /\ ~Pruned(file.lines)
      BY <2>2, TornRead
    <3>3. /\ Len(file.lines) - 1 \in 0..Len(file.lines) /\ synced <= Len(file.lines) - 1
          /\ synced <= Len(file.lines)
      BY <1>0, <1>2
    <3>4. /\ M \in Seq(LineT) /\ Len(M) = Len(file.lines) - 1
          /\ \A i \in 1..(Len(file.lines) - 1) : M[i] = file.lines[i]
      BY <1>2, <3>3, Cut
    <3> HIDE DEF M
    <3>5. synced \in 0..Len(M) /\ synced \in 0..Len(History) /\ synced <= Len(M)
      BY <1>2, <3>2, <3>3, <3>4
    <3>6. \A i \in 1..synced : M[i] = file.lines[i]
      BY <1>2, <3>3, <3>4
    <3>7. SubSeq(M, 1, synced) = L
      BY <1>2, <3>3, <3>4, <3>5, <3>6, SameCut
    <3>8. Whole(SubSeq(M, 1, synced), G, 0, 0)
      BY <3>1, <3>5, WholeCut
    <3> QED BY <3>2, <3>5, <3>7, <3>8
  <2>3. ~(synced = Len(file.lines))
    BY <1>0, <1>2
  <2> QED BY <1>1, <2>1, <2>2, <2>3 DEF LogInv
<1>4. G \in Seq(Content) /\ Len(G) = synced /\ \A i \in 1..synced : G[i] = History[i]
  BY <1>2, <1>3, Cut
<1>5. L \in Seq(LineT) /\ Len(L) = synced /\ TailHash(L) = G /\ ~Pruned(L)
  <2>1. L \in Seq(LineT) /\ Len(L) = synced
    BY <1>2, Cut
  <2> HIDE DEF L, G
  <2>2. TailHash(L) = G /\ ~Pruned(L)
    BY <1>3, Unpruned
  <2> QED BY <2>1, <2>2
<1>6. /\ TornAfter(Append(L, TornLine), G) /\ Len(Append(L, TornLine)) = synced + 1
      /\ Append(L, TornLine) \in Seq(LineT)
  <2> HIDE DEF L, G
  <2>1. TornAfter(Append(L, TornLine), G) /\ Len(Append(L, TornLine)) = Len(L) + 1
    BY <1>3, TornIntro
  <2> QED BY <1>5, <2>1 DEF TornAfter
<1>7. TailHash(Append(L, TornLine)) = G /\ ~Pruned(Append(L, TornLine))
  <2> HIDE DEF L, G
  <2> QED BY <1>6, TornRead
<1>8. /\ file' \in FileT
      /\ \/ file'.lines = L /\ ~file'.open
         \/ file'.lines = Append(L, TornLine) /\ file'.lines # <<>>
  <2>1. CASE file' = [file EXCEPT !.lines = L, !.open = FALSE]
    BY <1>2, <1>5, <2>1 DEF FileT
  <2>2. CASE file' = [file EXCEPT !.lines = Append(L, TornLine), !.open = TRUE]
    <3> HIDE DEF L
    <3>1. Append(L, TornLine) # <<>>
      BY <1>5, LineKinds, AppendProperties
    <3> QED BY <1>2, <1>6, <2>2, <3>1 DEF FileT
  <2> QED BY <1>1, <2>1, <2>2
<1> HIDE DEF L, G
<1>9. History' = G /\ ~Pruned(file.lines)'
  BY <1>5, <1>7, <1>8 DEF History
<1>10. LogInv'
  <2>1. CASE file'.lines = L /\ ~file'.open
    <3>1. Whole(file'.lines, History', 0, 0)
      BY <1>3, <1>9, <2>1
    <3>2. synced' \in 0..Len(file'.lines)
      <4>1. synced' = synced
        BY <1>1
      <4> QED BY <1>2, <1>5, <2>1, <4>1
    <3> QED BY <1>8, <2>1, <3>1, <3>2 DEF LogInv
  <2>2. CASE file'.lines = Append(L, TornLine) /\ file'.lines # <<>>
    <3>1. synced' \in 0..Len(file'.lines) /\ synced' < Len(file'.lines)
      <4>1. synced' = synced
        BY <1>1
      <4> QED BY <1>2, <1>6, <2>2, <4>1
    <3> QED BY <1>6, <1>8, <1>9, <2>2, <3>1 DEF LogInv
  <2> QED BY <1>8, <2>1, <2>2
<1>11. /\ hook \in [Hooks -> HookT] /\ hook' \in [Hooks -> HookT]
       /\ \A g \in Hooks : /\ hook'[g].pc \in {"start", "done"}
                           /\ hook[g].pc = "done" => hook'[g].pc = "done"
                           /\ hook[g].pc = "sync" => hook'[g].pc = "done"
                           /\ hook'[g].act = hook[g].act /\ hook'[g].dec = hook[g].dec
  <2> DEFINE r(g) == IF hook[g].pc = "start" THEN hook[g]
                     ELSE [hook[g] EXCEPT !.pc = "done", !.prev = NoHash, !.sep = FALSE]
  <2>1. hook \in [Hooks -> HookT] /\ NoHash \in Seq(Content)
    BY <1>1, EmptySeq DEF HookInv, NoHash
  <2>2. ASSUME NEW g \in Hooks
        PROVE  /\ r(g) \in HookT /\ r(g).pc \in {"start", "done"}
               /\ hook[g].pc = "done" => r(g).pc = "done"
               /\ hook[g].pc = "sync" => r(g).pc = "done"
               /\ r(g).act = hook[g].act /\ r(g).dec = hook[g].dec
    <3>1. hook[g] \in HookT
      BY <2>1
    <3>2. CASE hook[g].pc = "start"
      BY <3>1, <3>2
    <3>3. CASE hook[g].pc # "start"
      BY <2>1, <3>1, <3>3 DEF HookT
    <3> QED BY <3>2, <3>3
  <2>3. hook' = [g \in Hooks |-> r(g)]
    BY <1>1
  <2> HIDE DEF r
  <2> QED BY <2>1, <2>2, <2>3
<1>12. HookInv'
  <2>1. acked' \subseteq Hooks
    BY <1>1 DEF HookInv
  <2>2. \A g \in Hooks : hook'[g].pc \notin Busy /\ hook'[g].pc # "lock"
    BY <1>11 DEF Busy
  <2> QED BY <1>1, <1>11, <2>1, <2>2, NobodyBusy
<1>13. RecordInv'
  <2>1. /\ Len(History) \in Nat /\ Len(History)' \in Nat /\ Len(History)' <= Len(History)
        /\ \A i \in 1..Len(History)' : History'[i] = History[i]
    BY <1>2, <1>3, <1>4, <1>9
  <2> QED BY <1>1, <1>11, <2>1, RecordsStay
<1>14. AckInv'
  <2>1. ASSUME NEW g \in acked PROVE \E i \in 1..Len(G) : G[i].by = g /\ i <= synced
    <3>1. PICK i \in 1..Len(History) : History[i].by = g /\ i <= synced
      BY <1>1, <1>3 DEF AckInv
    <3>2. i \in 1..synced
      BY <1>2, <3>1
    <3> QED BY <1>4, <3>1, <3>2
  <2> QED BY <1>1, <1>9, <2>1 DEF AckInv
<1> QED BY <1>10, <1>12, <1>13, <1>14 DEF Logged

LEMMA RepairStep ==
    ASSUME Logged, Repair
    PROVE  Logged'
<1> DEFINE n == Len(file.lines)
           L == SubSeq(file.lines, 1, n - 1)
<1>1. /\ LogInv /\ HookInv /\ RecordInv /\ AckInv /\ UNCHANGED <<flags, hook, lock, acked>>
      /\ lock = "free" /\ n > 0 /\ file.lines[n] = TornLine
      /\ file' = [file EXCEPT !.lines = L, !.open = FALSE]
      /\ synced' = IF synced > n - 1 THEN n - 1 ELSE synced
  BY DEF Logged, Repair
<1>2. file \in FileT /\ file.lines \in Seq(LineT) /\ n \in Nat /\ synced \in 0..n
  BY <1>1, LogRead DEF LogInv
<1>3. Is(file.lines, "torn") # {}
  <2>1. n \in 1..n /\ file.lines[n].kind = "torn"
    BY <1>1, <1>2, LineKinds
  <2> QED BY <2>1 DEF Is
<1>4. TornAfter(file.lines, History) /\ synced < n
  BY <1>1, <1>3, Unpruned, Capped DEF LogInv
<1>5. Whole(L, History, 0, 0)
  BY <1>4 DEF TornAfter
<1>6. L \in Seq(LineT) /\ Len(L) = Len(History) /\ Len(L) \in Nat /\ TailHash(L) = History
  BY <1>5, Unpruned
<1> HIDE DEF L
<1>7. Len(L) = n - 1 /\ ~Pruned(file.lines)
  <2>1. n = Len(History) + 1 /\ ~Pruned(file.lines)
    BY <1>4, TornRead
  <2> QED BY <1>6, <2>1
<1>8. file' \in FileT /\ file'.lines = L /\ ~file'.open
  BY <1>1, <1>2, <1>6 DEF FileT
<1>9. History' = History
  BY <1>6, <1>8 DEF History
<1>10. synced' = synced /\ synced' \in 0..Len(L)
  BY <1>1, <1>2, <1>4, <1>7
<1>11. LogInv'
  BY <1>5, <1>8, <1>9, <1>10 DEF LogInv
<1>12. HookInv'
  <2>1. \A g \in Hooks : hook[g].pc \notin Busy
    BY <1>1, HookAssumption DEF HookInv
  <2>2. \A g \in Hooks : hook[g].pc = "lock" => hook[g].dec = FromAction(hook[g].act)
    BY <1>1 DEF HookInv
  <2>3. hook' \in [Hooks -> HookT] /\ acked' \subseteq Hooks
    BY <1>1 DEF HookInv
  <2> QED BY <1>1, <2>1, <2>2, <2>3, NobodyBusy
<1>13. RecordInv'
  BY <1>1, <1>9 DEF RecordInv
<1>14. AckInv'
  BY <1>1, <1>7, <1>9, <1>10 DEF AckInv
<1> QED BY <1>11, <1>12, <1>13, <1>14 DEF Logged

-----------------------------------------------------------------------------
(* Prune *)

\* EligibleCount stops at a record the cutoff keeps.
LEMMA Eligible ==
    ASSUME NEW lines, NEW H, NEW k, NEW b, Whole(lines, H, k, b), NEW cutoff \in Nat
    PROVE  /\ EligibleCount(lines, cutoff) \in 0..(Len(H) - k)
           /\ k + EligibleCount(lines, cutoff) < Len(H) =>
                 H[k + EligibleCount(lines, cutoff) + 1].ts >= cutoff
<1> DEFINE ts == TracesOf(lines)
           r == Len(H) - k
           upto == {n \in 0..Len(ts) : \A i \in 1..n : ts[i].content.ts < cutoff}
           n == EligibleCount(lines, cutoff)
<1>1. Len(ts) = r /\ \A i \in 1..r : ts[i] = Rec(H, k + i)
  BY WholeRead
<1>2. HistoryOK(H) /\ H \in Seq(Content) /\ Len(H) \in Nat /\ k \in 0..Len(H) /\ r \in Nat
  BY DEF Whole, HistoryOK
<1>3. n = CHOOSE x \in upto : \A m \in upto : m <= x
  BY DEF EligibleCount
<1> HIDE DEF ts, n
<1>4. \A i \in 1..r : ts[i].content.ts = H[k + i].ts /\ H[k + i].ts \in Nat
  <2> SUFFICES ASSUME NEW i \in 1..r
               PROVE  ts[i].content.ts = H[k + i].ts /\ H[k + i].ts \in Nat
    OBVIOUS
  <2>1. k + i \in 1..Len(H)
    BY <1>2
  <2>2. ts[i].content = H[k + i]
    BY <1>1, <1>2, <2>1, RecFacts
  <2>3. H[k + i] \in Content
    BY <1>2, <2>1, ElementOfSeq
  <2> QED BY <2>2, <2>3 DEF Content
<1>5. \E x \in upto : \A m \in upto : m <= x
  <2> DEFINE T == {r - m : m \in upto}
  <2>1. 0 \in upto /\ \A m \in upto : m \in Int /\ m <= r /\ r - m \in Nat
    BY <1>1, <1>2
  <2> HIDE DEF upto
  <2>2. T \subseteq Nat /\ T # {}
    BY <2>1
  <2>3. PICK y \in T : \A z \in T : y <= z
    BY <2>2, LeastNumber
  <2>4. PICK x \in upto : y = r - x
    OBVIOUS
  <2>5. \A m \in upto : r - x <= r - m
    BY <2>3, <2>4
  <2>6. \A m \in upto : m <= x
    <3> HIDE DEF r
    <3> QED BY <1>2, <2>1, <2>5
  <2> QED BY <2>6
<1>6. n \in upto /\ \A m \in upto : m <= n
  <2> HIDE DEF upto
  <2> QED BY <1>3, <1>5
<1>7. n \in 0..r /\ \A i \in 1..n : ts[i].content.ts < cutoff
  BY <1>1, <1>6
<1>8. ASSUME k + n < Len(H) PROVE H[k + n + 1].ts >= cutoff
  <2> SUFFICES ASSUME ~(H[k + n + 1].ts >= cutoff) PROVE FALSE
    OBVIOUS
  <2>1. n \in Nat /\ n + 1 \in 1..r /\ k + (n + 1) = k + n + 1
    BY <1>2, <1>7, <1>8
  <2>2. ts[n + 1].content.ts < cutoff
    BY <1>4, <2>1
  <2>3. \A i \in 1..(n + 1) : i \in 1..n \/ i = n + 1
    BY <2>1
  <2>4. \A i \in 1..(n + 1) : ts[i].content.ts < cutoff
    BY <1>7, <2>2, <2>3
  <2>5. n + 1 \in upto
    BY <1>1, <2>1, <2>4
  <2>6. n + 1 <= n
    BY <1>6, <2>5
  <2> QED BY <2>1, <2>6
<1> QED BY <1>7, <1>8 DEF n

\* The checkpoint for a further n records.
LEMMA CheckpointFacts ==
    ASSUME NEW lines, NEW H, NEW k, NEW b, Whole(lines, H, k, b),
           NEW n \in 1..(Len(H) - k), NEW cutoff \in Nat
    PROVE  LET c == Checkpoint(lines, n, cutoff)
           IN /\ c \in CheckpointT /\ c.removed = k + n /\ c.last = SubSeq(H, 1, k + n)
              /\ c.ver = H[k + n].ver /\ c.cutoff = cutoff
              /\ c.retained = Len(H) - (k + n) /\ c.tail = H
<1> DEFINE ts == TracesOf(lines)
           c == Checkpoint(lines, n, cutoff)
<1>1. /\ Len(ts) = Len(H) - k /\ \A i \in 1..(Len(H) - k) : ts[i] = Rec(H, k + i)
      /\ TailHash(lines) = H /\ (Pruned(lines) <=> b = 1)
  BY WholeRead
<1>2. /\ HistoryOK(H) /\ H \in Seq(Content) /\ Len(H) \in Nat /\ k \in 0..Len(H) /\ b \in {0, 1}
      /\ b = 1 => lines[1].removed = k
      /\ b = 0 => k = 0
  BY DEF Whole, HistoryOK, Cap
<1>3. PriorRemoved(lines) = k
  <2>1. CASE b = 1
    BY <1>1, <1>2, <2>1 DEF PriorRemoved
  <2>2. CASE b = 0
    BY <1>1, <1>2, <2>2 DEF PriorRemoved
  <2> QED BY <1>2, <2>1, <2>2
<1>4. k + n \in 1..Len(H) /\ k + n \in Nat
  BY <1>2
<1>5. ts[n].hash = SubSeq(H, 1, k + n) /\ ts[n].content = H[k + n]
  BY <1>1, <1>2, <1>4, RecFacts
<1>6. H[k + n] \in Content
  BY <1>2, <1>4, ElementOfSeq
<1>7. H[k + n].ts \in Nat /\ H[k + n].ver \in Versions
  BY <1>6 DEF Content
<1>8. SubSeq(H, 1, k + n) \in Seq(Content)
  <2>1. k + n \in 0..Len(H)
    BY <1>2, <1>4
  <2> QED BY <1>2, <2>1, Cut
<1>9. Len(ts) - n = Len(H) - (k + n) /\ Len(H) - (k + n) \in Nat
  BY <1>1, <1>2, <1>4
<1>10. c = [kind |-> "checkpoint", removed |-> k + n, last |-> SubSeq(H, 1, k + n),
            lastTs |-> H[k + n].ts, ver |-> H[k + n].ver, cutoff |-> cutoff,
            retained |-> Len(H) - (k + n), tail |-> H]
  BY <1>1, <1>3, <1>5, <1>9 DEF Checkpoint, CheckpointLine
<1> HIDE DEF c
<1>11. c \in CheckpointT
  BY <1>2, <1>4, <1>7, <1>8, <1>9, <1>10 DEF CheckpointT
<1>12. /\ c.removed = k + n /\ c.last = SubSeq(H, 1, k + n)
       /\ c.ver = H[k + n].ver /\ c.cutoff = cutoff
       /\ c.retained = Len(H) - (k + n) /\ c.tail = H
  BY <1>10
<1> QED BY <1>11, <1>12 DEF c

\* Lines of a history, and a part of them.
LEMMA CopiedWhole ==
    ASSUME NEW lines, NEW H, NEW k, NEW b, Whole(lines, H, k, b)
    PROVE  Copied(lines)
<1>1. /\ lines \in Seq(LineT) /\ H \in Seq(Content) /\ Len(H) \in Nat /\ k \in 0..Len(H)
      /\ b \in {0, 1} /\ Len(lines) \in Nat
      /\ b = 1 => lines[1].kind = "checkpoint"
      /\ \A i \in (b + 1)..Len(lines) :
            k + i - b \in 1..Len(H) /\ lines[i] = Rec(H, k + i - b)
  BY WholeLines
<1>2. HistoryOK(H)
  BY DEF Whole
<1> DEFINE d == k - b
<1>3. d \in Int
  BY <1>1
<1>4. ASSUME NEW i \in 1..Len(lines), lines[i].kind = "trace"
      PROVE  d + i \in 1..Len(H) /\ lines[i] = Rec(H, d + i)
  <2>1. i \in (b + 1)..Len(lines)
    BY <1>1, <1>4
  <2>2. k + i - b = d + i
    BY <1>1
  <2> QED BY <1>1, <2>1, <2>2
<1> HIDE DEF d
<1> QED BY <1>1, <1>2, <1>3, <1>4 DEF Copied

LEMMA CopiedTorn ==
    ASSUME NEW lines, NEW H, TornAfter(lines, H)
    PROVE  Copied(lines)
<1>1. /\ lines \in Seq(LineT) /\ Len(lines) = Len(H) + 1 /\ H \in Seq(Content)
      /\ \A i \in 1..Len(H) : lines[i] = Rec(H, i)
  BY TornRead
<1>2. HistoryOK(H) /\ lines[Len(lines)] = TornLine
  BY DEF TornAfter, Whole
<1>3. ASSUME NEW i \in 1..Len(lines), lines[i].kind = "trace"
      PROVE  0 + i \in 1..Len(H) /\ lines[i] = Rec(H, 0 + i)
  <2>1. i # Len(lines)
    BY <1>2, <1>3, LineKinds
  <2>2. i \in 1..Len(H) /\ 0 + i = i
    BY <1>1, <2>1
  <2> QED BY <1>1, <2>2
<1>4. 0 \in Int
  OBVIOUS
<1> QED BY <1>1, <1>2, <1>3, <1>4 DEF Copied

LEMMA CopiedOther ==
    ASSUME NEW lines, lines \in {<<>>, <<TornLine>>}
    PROVE  Copied(lines)
<1>1. lines \in Seq(LineT) /\ \A i \in 1..Len(lines) : lines[i].kind # "trace"
  <2>1. CASE lines = <<>>
    BY <2>1
  <2>2. CASE lines = <<TornLine>>
    BY <2>2, LineKinds
  <2> QED BY <2>1, <2>2
<1>2. HistoryOK(<<>>)
  BY WholeEmpty DEF Whole
<1>3. <<>> \in Seq(Content) /\ 0 \in Int
  OBVIOUS
<1> QED BY <1>1, <1>2, <1>3 DEF Copied

LEMMA CopiedPart ==
    ASSUME NEW lines, Copied(lines), NEW p \in Nat, NEW q \in 0..Len(lines)
    PROVE  Copied(SubSeq(lines, p + 1, q))
<1> DEFINE L == SubSeq(lines, p + 1, q)
<1>1. lines \in Seq(LineT) /\ Len(lines) \in Nat
  BY DEF Copied
<1>2. PICK H \in Seq(Content), d \in Int :
         /\ HistoryOK(H)
         /\ \A i \in 1..Len(lines) : lines[i].kind = "trace" =>
               d + i \in 1..Len(H) /\ lines[i] = Rec(H, d + i)
  BY DEF Copied
<1>3. p + 1 \in Int /\ q \in Int
  BY <1>1
<1>4. \A i \in (p + 1)..q : i \in 1..Len(lines) /\ lines[i] \in LineT
  BY <1>1, ElementOfSeq
<1>5. /\ L \in Seq(LineT) /\ Len(L) = IF p + 1 <= q THEN q - (p + 1) + 1 ELSE 0
      /\ \A i \in 1..(q - (p + 1) + 1) : L[i] = lines[p + 1 + i - 1]
  BY <1>3, <1>4, SubSeqProperties
<1> HIDE DEF L
<1>6. ASSUME NEW i \in 1..Len(L), L[i].kind = "trace"
      PROVE  (d + p) + i \in 1..Len(H) /\ L[i] = Rec(H, (d + p) + i)
  <2>1. i \in 1..(q - (p + 1) + 1) /\ p + 1 + i - 1 = p + i /\ p + i \in (p + 1)..q
    <3>1. CASE p + 1 <= q
      BY <1>3, <1>5, <3>1
    <3>2. CASE ~(p + 1 <= q)
      BY <1>5, <3>2
    <3> QED BY <3>1, <3>2
  <2>2. L[i] = lines[p + i]
    BY <1>5, <2>1
  <2>3. p + i \in 1..Len(lines) /\ d + (p + i) = (d + p) + i
    BY <1>4, <2>1
  <2>4. d + (p + i) \in 1..Len(H) /\ lines[p + i] = Rec(H, d + (p + i))
    BY <1>2, <1>6, <2>2, <2>3
  <2> QED BY <2>2, <2>3, <2>4
<1>7. d + p \in Int
  OBVIOUS
<1> QED BY <1>2, <1>5, <1>6, <1>7 DEF Copied, L

\* A copy that verifies is faithful: its count and its last hash leave nothing
\* but the records behind the boundary, whatever the input became meanwhile.
LEMMA CheckedCopy ==
    ASSUME NEW old, NEW H, NEW k, NEW b, Whole(old, H, k, b),
           NEW n \in 1..(Len(H) - k), NEW cutoff \in Nat,
           k + n < Len(H) => H[k + n + 1].ts >= cutoff,
           NEW lines \in Seq(LineT), Len(lines) > 0,
           lines[1] = Checkpoint(old, n, cutoff), Copied(Tail(lines)), Intact(lines, TRUE)
    PROVE  Faithful(lines)
<1> DEFINE c == lines[1]
           m == k + n
           N == Len(lines)
           ts == TracesOf(lines)
<1>1. /\ c \in CheckpointT /\ c.removed = m /\ c.last = SubSeq(H, 1, m)
      /\ c.ver = H[m].ver /\ c.cutoff = cutoff
      /\ c.retained = Len(H) - m /\ c.tail = H
  BY CheckpointFacts
<1>2. /\ HistoryOK(H) /\ H \in Seq(Content) /\ Len(H) \in Nat /\ m \in 1..Len(H)
      /\ m \in 0..Len(H) /\ m > 0 /\ N \in Nat /\ 1 \in 1..N
  BY DEF Whole, HistoryOK
<1> HIDE DEF m
<1>3. Pruned(lines) /\ c.kind = "checkpoint"
  BY <1>1, <1>2, LineKinds DEF Pruned, Is
<1>4. /\ Is(lines, "torn") = {} /\ Is(lines, "checkpoint") = {1}
      /\ ValidCheckpoint(c) /\ c.retained = Len(ts) /\ c.tail = TailHash(lines)
  BY <1>3 DEF Intact
<1>5. ASSUME NEW i \in 2..N PROVE lines[i].kind = "trace"
  <2>1. i \in 1..N /\ i # 1
    BY <1>2
  <2>2. lines[i] \in LineT /\ lines[i].kind # "torn" /\ lines[i].kind # "checkpoint"
    BY <1>4, <2>1, ElementOfSeq DEF Is
  <2> QED BY <2>2, LineKinds DEF LineT
<1>6. lines # <<>>
  <2>1. Len(<<>>) = 0
    OBVIOUS
  <2> QED BY <2>1
<1>7. ts = Tail(lines)
  <2>1. /\ \A i \in 1..1 : lines[i].kind # "trace"
        /\ \A i \in (1 + 1)..N : lines[i].kind = "trace"
        /\ \A i \in (N + 1)..Len(lines) : lines[i].kind # "trace"
    BY <1>2, <1>3, <1>5
  <2>2. 1 \in Nat /\ 1 <= N /\ N <= Len(lines)
    BY <1>2
  <2>3. ts = SubSeq(lines, 1 + 1, N)
    <3> HIDE DEF ts
    <3>1. TracesOf(lines) = SubSeq(lines, 1 + 1, N)
      BY <1>2, <2>1, <2>2, Scan
    <3> QED BY <3>1 DEF ts
  <2>4. Tail(lines) = SubSeq(lines, 2, N)
    BY <1>6, TailIsSubSeq
  <2> QED BY <2>3, <2>4
<1>8. Len(ts) = N - 1 /\ \A i \in 1..(N - 1) : ts[i] = lines[i + 1]
  BY <1>6, <1>7, HeadTailProperties
<1>9. N - 1 = Len(H) - m
  BY <1>1, <1>4, <1>8
<1>10. TailHash(lines) = IF ts = <<>> THEN StartHash(lines) ELSE ts[Len(ts)].hash
  BY DEF TailHash
<1> HIDE DEF ts
<1>11. ASSUME NEW i \in 1..(Len(H) - m) PROVE lines[1 + i] = Rec(H, m + i)
  <2>1. PICK G \in Seq(Content), d \in Int :
           /\ HistoryOK(G)
           /\ \A j \in 1..Len(ts) : ts[j].kind = "trace" =>
                 d + j \in 1..Len(G) /\ ts[j] = Rec(G, d + j)
    BY <1>7 DEF Copied
  <2>2. \A j \in 1..(N - 1) : d + j \in 1..Len(G) /\ ts[j] = Rec(G, d + j)
    <3> SUFFICES ASSUME NEW j \in 1..(N - 1)
                 PROVE  d + j \in 1..Len(G) /\ ts[j] = Rec(G, d + j)
      OBVIOUS
    <3>1. j + 1 \in 2..N
      BY <1>2
    <3>2. ts[j].kind = "trace" /\ j \in 1..Len(ts)
      BY <1>5, <1>8, <3>1
    <3> QED BY <2>1, <3>2
  <2>3. N - 1 \in 1..(N - 1) /\ i \in 1..(N - 1) /\ N - 1 = Len(ts)
    BY <1>2, <1>8, <1>9
  <2> DEFINE e == d + (N - 1)
  <2>4. e \in 1..Len(G) /\ ts[Len(ts)] = Rec(G, e)
    BY <2>2, <2>3
  <2>5. ts # <<>>
    <3>1. Len(<<>>) = 0
      OBVIOUS
    <3> QED BY <1>2, <2>3, <3>1
  <2>6. H = SubSeq(G, 1, e)
    <3> HIDE DEF e
    <3>1. ts[Len(ts)].hash = SubSeq(G, 1, e)
      BY <2>1, <2>4, RecFacts
    <3> QED BY <1>1, <1>4, <1>10, <2>5, <3>1
  <2>7. Len(H) = e /\ \A j \in 1..e : H[j] = G[j]
    <3>1. e \in 0..Len(G)
      BY <2>1, <2>4
    <3> HIDE DEF e
    <3> QED BY <2>1, <2>6, <3>1, Cut
  <2>8. d = m /\ m + i \in 1..Len(H) /\ d + i = m + i /\ m + i \in 1..Len(G)
    <3>1. d = m
      BY <1>2, <1>9, <2>7
    <3>2. m + i \in 1..Len(H)
      BY <1>2
    <3> QED BY <2>2, <2>3, <3>1, <3>2
  <2>9. \A j \in 1..(m + i) : H[j] = G[j]
    BY <1>2, <2>7, <2>8
  <2>10. Rec(H, m + i) = Rec(G, m + i)
    BY <1>2, <2>1, <2>8, <2>9, RecSame
  <2>11. ts[i] = Rec(G, d + i)
    BY <2>2, <2>3
  <2>12. ts[i] = lines[i + 1] /\ i + 1 = 1 + i
    BY <1>8, <2>3
  <2> QED BY <2>8, <2>10, <2>11, <2>12
<1>12. Cap(c, H, m)
  BY <1>1, <1>4 DEF Cap
<1>13. Len(lines) = Len(H) - m + 1
  BY <1>2, <1>9
<1>14. Whole(lines, H, m, 1)
  <2>1. 1 \in {0, 1} /\ 1 = 1
    OBVIOUS
  <2> QED BY <1>2, <1>11, <1>12, <1>13, <2>1, Zenon DEF Whole
<1>15. m < Len(H) => H[m + 1].ts >= lines[1].cutoff
  BY <1>1 DEF m
<1>16. TailHash(lines) = H
  BY <1>1, <1>4
<1> QED BY <1>2, <1>14, <1>15, <1>16 DEF Faithful

\* Steps of prune leave the log alone, and steps of the hooks the outputs.
LEMMA LoggedStays ==
    ASSUME Logged, UNCHANGED hookVars
    PROVE  Logged'
BY DEF Logged, LogInv, HookInv, RecordInv, AckInv, History, NeedsSeparator, hookVars

LEMMA OutStays ==
    ASSUME OutInv, UNCHANGED <<out, foreign>>
    PROVE  OutInv'
BY DEF OutInv

LEMMA PruneStays ==
    ASSUME PruneInv, UNCHANGED prune
    PROVE  PruneInv'
BY DEF PruneInv

\* The command is over.
LEMMA PruneEnds ==
    ASSUME prune' = NoPrune
    PROVE  PruneInv'
<1>1. NoFile \in FileT
  BY DEF NoFile, FileT
<1>2. NoPrune \in PruneT /\ NoPrune.pc = "idle"
  BY <1>1 DEF NoPrune, PruneT
<1> HIDE DEF NoPrune
<1> QED BY <1>2 DEF PruneInv

\* What a reader of the input finds.
LEMMA InputRead ==
    ASSUME LogInv, OutInv, NEW name \in Outs \cup {"log"}
    PROVE  /\ Input(name) \in FileT /\ Copied(Input(name).lines)
           /\ Input(name).exists /\ Intact(Input(name).lines, TRUE) =>
                 \E k \in 0..Len(TailHash(Input(name).lines)) : \E b \in {0, 1} :
                    Whole(Input(name).lines, TailHash(Input(name).lines), k, b)
<1>1. CASE name = "log"
  <2>1. Input(name) = file /\ file \in FileT /\ TailHash(Input(name).lines) = History
    BY <1>1 DEF Input, LogInv, History
  <2>2. CASE Whole(file.lines, History, 0, 0)
    <3>1. Copied(file.lines)
      BY <2>2, CopiedWhole
    <3>2. 0 \in 0..Len(History) /\ 0 \in {0, 1}
      BY <2>2, Unpruned
    <3> QED BY <2>1, <2>2, <3>1, <3>2
  <2>3. CASE TornAfter(file.lines, History)
    <3>1. Copied(file.lines) /\ ~Intact(file.lines, TRUE)
      BY <2>3, CopiedTorn, TornRead
    <3> QED BY <2>1, <3>1
  <2>4. CASE \E k \in 1..Len(History) : Whole(file.lines, History, k, 1)
    <3>1. PICK k \in 1..Len(History) : Whole(file.lines, History, k, 1)
      BY <2>4
    <3>2. Copied(file.lines)
      BY <3>1, CopiedWhole
    <3>3. k \in 0..Len(History) /\ 1 \in {0, 1}
      BY <3>1, Capped
    <3> QED BY <2>1, <3>1, <3>2, <3>3
  <2> QED BY <2>2, <2>3, <2>4 DEF LogInv
<1>2. CASE name # "log"
  <2> DEFINE f == Input(name)
  <2>1. f = out[name] /\ name \in Outs
    BY <1>2 DEF Input
  <2>2. /\ f \in FileT
        /\ ~f.exists => f.lines = <<>>
        /\ name \in foreign => f.lines = <<TornLine>>
        /\ f.exists /\ name \notin foreign => Faithful(f.lines)
    BY <2>1 DEF OutInv
  <2> HIDE DEF f
  <2>3. CASE ~f.exists
    BY <2>2, <2>3, CopiedOther DEF f
  <2>4. CASE name \in foreign
    <3>1. Is(f.lines, "torn") # {}
      <4>1. 1 \in 1..Len(<<TornLine>>) /\ <<TornLine>>[1] = TornLine
        OBVIOUS
      <4>2. 1 \in 1..Len(f.lines) /\ f.lines[1].kind = "torn"
        BY <2>2, <2>4, <4>1, LineKinds
      <4> QED BY <4>2 DEF Is
    <3>2. ~Intact(f.lines, TRUE)
      BY <3>1 DEF Intact
    <3> QED BY <2>2, <2>4, <3>2, CopiedOther DEF f
  <2>5. CASE f.exists /\ name \notin foreign
    <3>1. PICK k \in 1..Len(TailHash(f.lines)) : Whole(f.lines, TailHash(f.lines), k, 1)
      BY <2>2, <2>5 DEF Faithful
    <3>2. Copied(f.lines)
      BY <3>1, CopiedWhole
    <3>3. k \in 0..Len(TailHash(f.lines)) /\ 1 \in {0, 1}
      BY <3>1, Capped
    <3> QED BY <2>2, <3>1, <3>2, <3>3 DEF f
  <2> QED BY <2>3, <2>4, <2>5
<1> QED BY <1>1, <1>2

LEMMA PruneOpenStep ==
    ASSUME FileInv, NEW in \in Outs \cup {"log"}, NEW o \in Outs, NEW c \in Cutoffs,
           PruneOpen(in, o, c)
    PROVE  FileInv'
<1>1. Logged' /\ OutInv'
  BY LoggedStays, OutStays DEF FileInv, PruneOpen
<1>2. CASE ~Intact(Input(in).lines, TRUE)
  <2>1. PruneInv'
    BY <1>2, PruneEnds DEF PruneOpen
  <2> QED BY <1>1, <2>1 DEF FileInv
<1>3. CASE Intact(Input(in).lines, TRUE)
  <2> DEFINE f == Input(in)
             r == [NoPrune EXCEPT !.pc = "select", !.in = in, !.out = o,
                                  !.cutoff = c, !.snap = f]
  <2>1. f.exists /\ prune' = r
    BY <1>3 DEF PruneOpen
  <2>2. /\ f \in FileT
        /\ \E k \in 0..Len(TailHash(f.lines)) : \E b \in {0, 1} :
              Whole(f.lines, TailHash(f.lines), k, b)
    BY <1>3, <2>1, InputRead DEF FileInv, Logged
  <2> HIDE DEF f
  <2>3. NoFile \in FileT /\ c \in Nat
    BY PruneAssumption DEF NoFile, FileT
  <2>4. r \in PruneT /\ r.pc = "select" /\ r.out = o /\ r.snap = f
    BY <2>2, <2>3 DEF NoPrune, PruneT
  <2> HIDE DEF r
  <2>5. PruneInv'
    BY <2>1, <2>2, <2>4 DEF PruneInv
  <2> QED BY <1>1, <2>5 DEF FileInv
<1> QED BY <1>2, <1>3

LEMMA PruneSelectStep ==
    ASSUME FileInv, PruneSelect
    PROVE  FileInv'
<1>1. Logged' /\ OutInv'
  BY LoggedStays, OutStays DEF FileInv, PruneSelect
<1>2. CASE Ends
  <2>1. PruneInv'
    BY <1>2, PruneEnds DEF Ends
  <2> QED BY <1>1, <2>1 DEF FileInv
<1>3. CASE ~Ends
  <2> DEFINE lines == prune.snap.lines
             H == TailHash(lines)
             n == EligibleCount(lines, prune.cutoff)
             r == [prune EXCEPT !.pc = "copy", !.from = n]
  <2>1. n > 0 /\ prune' = r /\ prune.pc = "select"
    BY <1>3 DEF PruneSelect
  <2>2. /\ prune \in PruneT /\ prune.out \in Outs
        /\ \E k \in 0..Len(H) : \E b \in {0, 1} : Whole(lines, H, k, b)
    BY <2>1 DEF FileInv, PruneInv
  <2>3. PICK k \in 0..Len(H), b \in {0, 1} : Whole(lines, H, k, b)
    BY <2>2
  <2>4. prune.cutoff \in Nat
    BY <2>2 DEF PruneT
  <2>5. n \in 0..(Len(H) - k) /\ (k + n < Len(H) => H[k + n + 1].ts >= prune.cutoff)
    BY <2>3, <2>4, Eligible
  <2>6. TailHash(lines) = H /\ Len(StartHash(lines)) = k
    BY <2>3, WholeRead
  <2>7. n \in 1..(Len(H) - k) /\ n \in Nat
    BY <2>1, <2>5
  <2>8. Boundary(lines, n, prune.cutoff)
    BY <2>5, <2>6, <2>7 DEF Boundary
  <2> HIDE DEF n, H
  <2>9. /\ r \in PruneT /\ r.pc = "copy" /\ r.out = prune.out /\ r.snap = prune.snap
        /\ r.from = n /\ r.cutoff = prune.cutoff
    BY <2>2, <2>7 DEF PruneT
  <2> HIDE DEF r
  <2>10. PruneInv'
    BY <2>1, <2>2, <2>8, <2>9 DEF PruneInv, H
  <2> QED BY <1>1, <2>10 DEF FileInv
<1> QED BY <1>2, <1>3

LEMMA PruneCopyStep ==
    ASSUME FileInv, PruneCopy
    PROVE  FileInv'
<1>1. Logged' /\ OutInv'
  BY LoggedStays, OutStays DEF FileInv, PruneCopy
<1> DEFINE lines == prune.snap.lines
           H == TailHash(lines)
           in == Input(prune.in)
           size == Len(lines)
           cp == Checkpoint(lines, prune.from, prune.cutoff)
           behind == prune.from + IF Pruned(lines) THEN 1 ELSE 0
           rest == IF Len(in.lines) < size
                   THEN FileOf(SubSeq(in.lines, behind + 1, Len(in.lines)), in.open)
                   ELSE FileOf(SubSeq(in.lines, behind + 1, size), prune.snap.open)
           temp == FileOf(<<cp>> \o rest.lines, rest.open)
           r == [prune EXCEPT !.pc = "check", !.temp = temp]
<1>2. prune' = r /\ prune.pc = "copy"
  BY DEF PruneCopy
<1>3. /\ prune \in PruneT /\ prune.out \in Outs
      /\ \E k \in 0..Len(H) : \E b \in {0, 1} : Whole(lines, H, k, b)
      /\ Boundary(lines, prune.from, prune.cutoff)
  BY <1>2 DEF FileInv, PruneInv
<1>4. /\ prune.in \in Outs \cup {"log"} /\ prune.from \in Nat /\ prune.cutoff \in Nat
      /\ prune.snap \in FileT
  BY <1>3 DEF PruneT
<1>5. in \in FileT /\ Copied(in.lines)
  BY <1>4, InputRead DEF FileInv, Logged
<1>6. /\ in.lines \in Seq(LineT) /\ in.open \in BOOLEAN /\ prune.snap.open \in BOOLEAN
      /\ lines \in Seq(LineT)
  BY <1>4, <1>5 DEF FileT
<1>7. Len(in.lines) \in Nat /\ size \in Nat /\ behind \in Nat
  BY <1>4, <1>6
<1> HIDE DEF in, size, behind
<1>8. \E q \in 0..Len(in.lines) : \E op \in BOOLEAN :
         rest = FileOf(SubSeq(in.lines, behind + 1, q), op)
  <2>1. CASE Len(in.lines) < size
    <3>1. Len(in.lines) \in 0..Len(in.lines)
      BY <1>7
    <3> QED BY <1>6, <2>1, <3>1
  <2>2. CASE ~(Len(in.lines) < size)
    <3>1. size \in 0..Len(in.lines)
      BY <1>7, <2>2
    <3> QED BY <1>6, <2>2, <3>1
  <2> QED BY <2>1, <2>2
<1>9. PICK q \in 0..Len(in.lines), op \in BOOLEAN :
         rest = FileOf(SubSeq(in.lines, behind + 1, q), op)
  BY <1>8
<1> DEFINE L == SubSeq(in.lines, behind + 1, q)
<1>10. Copied(L)
  BY <1>5, <1>7, CopiedPart
<1> HIDE DEF L, rest
<1>11. rest.lines = L /\ rest.open = op /\ L \in Seq(LineT)
  BY <1>9, <1>10 DEF FileOf, Copied, L
<1>12. PICK k \in 0..Len(H), b \in {0, 1} : Whole(lines, H, k, b)
  BY <1>3
<1>13. Len(StartHash(lines)) = k
  BY <1>12, WholeRead
<1>14. prune.from \in 1..(Len(H) - k)
  BY <1>3, <1>13 DEF Boundary
<1>15. cp \in CheckpointT /\ cp \in LineT
  BY <1>4, <1>12, <1>14, CheckpointFacts, LineKinds
<1> HIDE DEF cp, H
<1> DEFINE T == <<cp>> \o L
<1>16. T \in Seq(LineT) /\ Len(T) = 1 + Len(L) /\ T[1] = cp /\ Tail(T) = L
  <2>1. <<cp>> \in Seq(LineT) /\ Len(<<cp>>) = 1 /\ <<cp>>[1] = cp
    BY <1>15
  <2>2. /\ T \in Seq(LineT) /\ Len(T) = 1 + Len(L)
        /\ \A i \in 1..(1 + Len(L)) : T[i] = IF i <= 1 THEN <<cp>>[i] ELSE L[i - 1]
    BY <1>11, <2>1, ConcatProperties
  <2>3. Len(L) \in Nat
    BY <1>11
  <2> HIDE DEF T
  <2>4. T[1] = cp /\ \A i \in 1..Len(L) : T[i + 1] = L[i]
    <3>1. 1 \in 1..(1 + Len(L))
      BY <2>3
    <3>2. T[1] = cp
      BY <2>1, <2>2, <3>1
    <3>3. ASSUME NEW i \in 1..Len(L) PROVE T[i + 1] = L[i]
      <4>1. i + 1 \in 1..(1 + Len(L)) /\ ~(i + 1 <= 1) /\ i + 1 - 1 = i
        BY <2>3
      <4> QED BY <2>2, <4>1
    <3> QED BY <3>2, <3>3
  <2>5. T # <<>>
    <3>1. Len(<<>>) = 0 /\ Len(T) # 0
      BY <2>2, <2>3
    <3> QED BY <3>1
  <2>6. /\ Tail(T) \in Seq(LineT) /\ Len(Tail(T)) = Len(T) - 1
        /\ \A i \in 1..Len(Tail(T)) : Tail(T)[i] = T[i + 1]
    BY <2>2, <2>5, HeadTailProperties
  <2>7. Len(Tail(T)) = Len(L) /\ \A i \in 1..Len(Tail(T)) : Tail(T)[i] = L[i]
    BY <2>2, <2>3, <2>4, <2>6
  <2>8. Tail(T) = L
    BY <1>11, <2>6, <2>7, SeqEqual
  <2> QED BY <2>2, <2>4, <2>8
<1> HIDE DEF T
<1>17. temp \in FileT /\ temp.exists /\ temp.lines = T
  <2>1. temp = FileOf(T, op)
    BY <1>11 DEF T
  <2> QED BY <1>16, <2>1 DEF FileT, FileOf
<1> HIDE DEF temp
<1>18. /\ r \in PruneT /\ r.pc = "check" /\ r.out = prune.out /\ r.snap = prune.snap
       /\ r.from = prune.from /\ r.cutoff = prune.cutoff /\ r.temp = temp
  BY <1>3, <1>17 DEF PruneT
<1> HIDE DEF r
<1>19. temp.exists /\ Len(temp.lines) > 0 /\ temp.lines[1] = cp /\ Copied(Tail(temp.lines))
  <2>1. Len(L) \in Nat
    BY <1>11
  <2>2. Len(T) > 0
    BY <1>16, <2>1
  <2>3. T[1] = cp /\ Copied(Tail(T))
    BY <1>10, <1>16
  <2> QED BY <1>17, <2>2, <2>3
<1>20. PruneInv'
  BY <1>2, <1>3, <1>18, <1>19 DEF PruneInv, cp, H
<1> QED BY <1>1, <1>20 DEF FileInv

LEMMA PruneCheckStep ==
    ASSUME FileInv, PruneCheck
    PROVE  FileInv'
<1>1. Logged' /\ OutInv'
  BY LoggedStays, OutStays DEF FileInv, PruneCheck
<1>2. CASE ~(Intact(prune.temp.lines, TRUE) /\ InputStable)
  <2>1. PruneInv'
    BY <1>2, PruneEnds DEF PruneCheck
  <2> QED BY <1>1, <2>1 DEF FileInv
<1>3. CASE Intact(prune.temp.lines, TRUE) /\ InputStable
  <2> DEFINE lines == prune.snap.lines
             H == TailHash(lines)
             new == prune.temp.lines
             n == prune.from
             r == [prune EXCEPT !.pc = "publish"]
  <2>1. prune' = r /\ prune.pc = "check"
    BY <1>3 DEF PruneCheck
  <2>2. /\ prune \in PruneT /\ prune.out \in Outs
        /\ \E k \in 0..Len(H) : \E b \in {0, 1} : Whole(lines, H, k, b)
        /\ Boundary(lines, n, prune.cutoff)
        /\ Len(new) > 0 /\ new[1] = Checkpoint(lines, n, prune.cutoff)
        /\ Copied(Tail(new))
    BY <2>1 DEF FileInv, PruneInv
  <2>3. PICK k \in 0..Len(H), b \in {0, 1} : Whole(lines, H, k, b)
    BY <2>2
  <2>4. Len(StartHash(lines)) = k
    BY <2>3, WholeRead
  <2>5. n \in 1..(Len(H) - k) /\ (k + n < Len(H) => H[k + n + 1].ts >= prune.cutoff)
    BY <2>2, <2>4 DEF Boundary
  <2>6. prune.cutoff \in Nat /\ prune.temp \in FileT
    BY <2>2 DEF PruneT
  <2>7. new \in Seq(LineT)
    BY <2>6 DEF FileT
  <2>8. Faithful(new)
    <3> HIDE DEF H
    <3> QED BY <1>3, <2>2, <2>3, <2>5, <2>6, <2>7, CheckedCopy
  <2>9. /\ r \in PruneT /\ r.pc = "publish" /\ r.out = prune.out /\ r.snap = prune.snap
        /\ r.from = prune.from /\ r.cutoff = prune.cutoff /\ r.temp = prune.temp
    BY <2>2 DEF PruneT
  <2> HIDE DEF r
  <2>10. prune.temp.exists
    BY <2>1 DEF FileInv, PruneInv
  <2>11. PruneInv'
    BY <2>1, <2>2, <2>8, <2>9, <2>10 DEF PruneInv
  <2> QED BY <1>1, <2>11 DEF FileInv
<1> QED BY <1>2, <1>3

LEMMA PrunePublishStep ==
    ASSUME FileInv, PrunePublish
    PROVE  FileInv'
<1>1. /\ prune.pc = "publish" /\ UNCHANGED <<hookVars, foreign>> /\ prune' = NoPrune
      /\ out' = IF out[prune.out].exists THEN out ELSE [out EXCEPT ![prune.out] = prune.temp]
  BY DEF PrunePublish, Ends
<1>2. Logged' /\ PruneInv'
  BY <1>1, LoggedStays, PruneEnds DEF FileInv
<1>3. CASE out[prune.out].exists
  BY <1>1, <1>2, <1>3, OutStays DEF FileInv
<1>4. CASE ~out[prune.out].exists
  <2>1. /\ prune.out \in Outs /\ prune.temp \in FileT /\ prune.temp.exists
        /\ Faithful(prune.temp.lines)
    BY <1>1 DEF FileInv, PruneInv, PruneT
  <2>2. /\ out \in [Outs -> FileT] /\ out' = [out EXCEPT ![prune.out] = prune.temp]
        /\ out[prune.out].lines = <<>> /\ foreign' = foreign /\ foreign \subseteq Outs
    BY <1>1, <1>4, <2>1 DEF FileInv, OutInv
  <2>3. prune.out \notin foreign
    <3>1. <<>> # <<TornLine>>
      <4>1. Len(<<>>) = 0 /\ Len(<<TornLine>>) = 1
        OBVIOUS
      <4> QED BY <4>1
    <3> QED BY <2>1, <2>2, <3>1 DEF FileInv, OutInv
  <2>4. /\ out' \in [Outs -> FileT] /\ out'[prune.out] = prune.temp
        /\ \A o \in Outs : o # prune.out => out'[o] = out[o]
    BY <2>1, <2>2
  <2>5. ASSUME NEW o \in Outs
        PROVE  /\ ~out'[o].exists => out'[o].lines = <<>>
               /\ o \in foreign => out'[o].lines = <<TornLine>>
               /\ out'[o].exists /\ o \notin foreign => Faithful(out'[o].lines)
    <3>1. CASE o = prune.out
      BY <2>1, <2>3, <2>4, <3>1
    <3>2. CASE o # prune.out
      BY <2>4, <3>2 DEF FileInv, OutInv
    <3> QED BY <3>1, <3>2
  <2>6. OutInv'
    BY <2>2, <2>4, <2>5 DEF OutInv
  <2> QED BY <1>2, <2>6 DEF FileInv
<1> QED BY <1>3, <1>4

LEMMA OtherCreatesStep ==
    ASSUME FileInv, OtherCreates
    PROVE  FileInv'
<1> DEFINE f == FileOf(<<TornLine>>, TRUE)
<1>1. /\ prune.pc # "idle" /\ UNCHANGED <<hookVars, prune>> /\ ~out[prune.out].exists
      /\ out' = [out EXCEPT ![prune.out] = f] /\ foreign' = foreign \cup {prune.out}
  BY DEF OtherCreates
<1>2. Logged' /\ PruneInv'
  BY <1>1, LoggedStays, PruneStays DEF FileInv
<1>3. prune.out \in Outs
  BY <1>1 DEF FileInv, PruneInv
<1>4. f \in FileT /\ f.exists /\ f.lines = <<TornLine>>
  <2>1. <<TornLine>> \in Seq(LineT)
    BY LineKinds
  <2> QED BY <2>1 DEF FileOf, FileT
<1> HIDE DEF f
<1>5. /\ out' \in [Outs -> FileT] /\ out'[prune.out] = f /\ foreign' \subseteq Outs
      /\ \A o \in Outs : o # prune.out => out'[o] = out[o]
  BY <1>1, <1>3, <1>4 DEF FileInv, OutInv
<1>6. ASSUME NEW o \in Outs
      PROVE  /\ ~out'[o].exists => out'[o].lines = <<>>
             /\ o \in foreign' => out'[o].lines = <<TornLine>>
             /\ out'[o].exists /\ o \notin foreign' => Faithful(out'[o].lines)
  <2>1. CASE o = prune.out
    BY <1>1, <1>4, <1>5, <2>1
  <2>2. CASE o # prune.out
    BY <1>1, <1>5, <2>2 DEF FileInv, OutInv
  <2> QED BY <2>1, <2>2
<1>7. OutInv'
  BY <1>5, <1>6 DEF OutInv
<1> QED BY <1>2, <1>7 DEF FileInv

LEMMA AdoptStep ==
    ASSUME FileInv, NEW o \in Outs, Adopt(o)
    PROVE  FileInv'
<1>1. /\ lock = "free" /\ out[o].exists /\ o \notin foreign
      /\ TailHash(out[o].lines) = TailHash(file.lines)
      /\ file' = out[o] /\ synced' = Len(out[o].lines)
      /\ UNCHANGED <<flags, hook, acked>> /\ UNCHANGED <<out, prune, foreign>>
  BY DEF Adopt, pruneVars
<1>2. OutInv' /\ PruneInv' /\ HookInv /\ RecordInv /\ AckInv /\ LogInv
  BY <1>1, OutStays, PruneStays DEF FileInv, Logged
<1>3. out[o] \in FileT /\ Faithful(out[o].lines)
  BY <1>1 DEF FileInv, OutInv
<1>4. PICK k : k \in 1..Len(History) /\ Whole(out[o].lines, History, k, 1)
  BY <1>1, <1>3 DEF Faithful, History
<1>5. /\ Len(out[o].lines) \in Nat /\ Pruned(out[o].lines) /\ Len(History) \in Nat
      /\ Len(out[o].lines) = Len(History) - k + 1
  BY <1>4, Capped
<1>6. History' = History
  BY <1>1 DEF History
<1>7. LogInv'
  <2>1. synced' \in 0..Len(file'.lines) /\ synced' = Len(file'.lines)
    BY <1>1, <1>5
  <2>2. file'.lines # <<>>
    <3>1. Len(<<>>) = 0
      OBVIOUS
    <3>2. Len(out[o].lines) # 0
      BY <1>4, <1>5
    <3> QED BY <1>1, <3>1, <3>2
  <2>3. file' \in FileT /\ Whole(file'.lines, History', k, 1) /\ k \in 1..Len(History')
    BY <1>1, <1>3, <1>4, <1>6
  <2> QED BY <2>1, <2>2, <2>3 DEF LogInv
<1>8. HookInv'
  <2>1. \A g \in Hooks : hook[g].pc \notin Busy
    BY <1>1, <1>2, HookAssumption DEF HookInv
  <2>2. \A g \in Hooks : hook[g].pc = "lock" => hook[g].dec = FromAction(hook[g].act)
    BY <1>2 DEF HookInv
  <2>3. hook' \in [Hooks -> HookT] /\ acked' \subseteq Hooks
    BY <1>1, <1>2 DEF HookInv
  <2> QED BY <1>1, <1>2, <2>1, <2>2, <2>3, NobodyBusy
<1>9. RecordInv'
  BY <1>1, <1>2, <1>6 DEF RecordInv
<1>10. AckInv'
  <2>1. Pruned(file.lines)'
    BY <1>1, <1>5
  <2> QED BY <1>1, <1>2, <1>6, <2>1 DEF AckInv
<1> QED BY <1>2, <1>7, <1>8, <1>9, <1>10 DEF FileInv, Logged

-----------------------------------------------------------------------------
(* The theorems *)

LEMMA InitEstablishes == Init => FileInv
<1> SUFFICES ASSUME Init PROVE FileInv
  OBVIOUS
<1>1. /\ flags \in FlagSets /\ hook = [h \in Hooks |-> NewHook] /\ lock = "free" /\ acked = {}
      /\ out = [o \in Outs |-> NoFile] /\ prune = NoPrune /\ foreign = {}
      /\ file \in {NoFile} \cup {FileOf(<<OldRecord(t)>>, FALSE) : t \in Times}
      /\ synced = Len(file.lines)
  BY DEF Init, HookInit, PruneInit
<1>2. \E H : Whole(file.lines, H, 0, 0) /\ \A i \in 1..Len(H) : H[i].by = "old"
  <2>1. CASE file = NoFile
    BY <2>1, WholeEmpty DEF NoFile
  <2>2. CASE file \in {FileOf(<<OldRecord(t)>>, FALSE) : t \in Times}
    <3>1. PICK t \in Times : file = FileOf(<<OldRecord(t)>>, FALSE)
      BY <2>2
    <3> DEFINE c == [by |-> "old", act |-> "allowed", ts |-> t, ver |-> "v1"]
               H == <<c>>
               L == <<OldRecord(t)>>
    <3>2. c \in Content /\ c.by = "old"
      <4>1. t \in Nat
        BY HookAssumption
      <4> QED BY <4>1 DEF Content, Acts, Versions
    <3>3. OldRecord(t) = TraceLine(c, <<>>)
      BY DEF OldRecord, NoHash
    <3> HIDE DEF c
    <3>4. H \in Seq(Content) /\ Len(H) = 1 /\ H[1] = c
      BY <3>2
    <3>5. HistoryOK(H)
      BY <3>4 DEF HistoryOK
    <3>6. Rec(H, 1) = TraceLine(c, <<>>)
      <4>1. SubSeq(H, 1, 0) = <<>>
        BY SubSeqEmpty
      <4>2. Rec(H, 1) = TraceLine(H[1], SubSeq(H, 1, 1 - 1)) /\ 1 - 1 = 0
        BY DEF Rec
      <4> QED BY <3>4, <4>1, <4>2
    <3>7. OldRecord(t) \in LineT
      BY <3>3, <3>4, <3>5, <3>6, RecFacts, LineKinds
    <3>8. L \in Seq(LineT) /\ Len(L) = 1 /\ L[1] = Rec(H, 1)
      BY <3>3, <3>6, <3>7
    <3> HIDE DEF L, H
    <3>9. Whole(L, H, 0, 0)
      <4>1. /\ 0 \in 0..Len(H) /\ 0 \in {0, 1} /\ 0 # 1 /\ Len(L) = Len(H) - 0 + 0
            /\ \A i \in 1..(Len(H) - 0) : i = 1 /\ 0 + i = 1
        BY <3>4, <3>8
      <4>2. \A i \in 1..(Len(H) - 0) : L[0 + i] = Rec(H, 0 + i)
        BY <3>8, <4>1
      <4> QED BY <3>5, <3>8, <4>1, <4>2, Zenon DEF Whole
    <3>10. file.lines = L
      BY <3>1 DEF FileOf, L
    <3>11. \A i \in 1..Len(H) : H[i].by = "old"
      BY <3>2, <3>4
    <3> QED BY <3>9, <3>10, <3>11
  <2> QED BY <1>1, <2>1, <2>2
<1>3. PICK H : Whole(file.lines, H, 0, 0) /\ \A i \in 1..Len(H) : H[i].by = "old"
  BY <1>2
<1>4. /\ file.lines \in Seq(LineT) /\ Len(file.lines) \in Nat /\ TailHash(file.lines) = H
      /\ Len(H) = Len(file.lines)
  BY <1>3, Unpruned
<1>5. History = H
  BY <1>4 DEF History
<1>6. file \in FileT /\ ~file.open
  <2>1. CASE file = NoFile
    BY <2>1 DEF NoFile, FileT
  <2>2. CASE file \in {FileOf(<<OldRecord(t)>>, FALSE) : t \in Times}
    <3>1. PICK t \in Times : file = FileOf(<<OldRecord(t)>>, FALSE)
      BY <2>2
    <3> DEFINE L == <<OldRecord(t)>>
    <3> HIDE DEF L
    <3>2. file = [exists |-> TRUE, lines |-> L, open |-> FALSE]
      BY <3>1 DEF FileOf, L
    <3>3. L \in Seq(LineT)
      BY <1>4, <3>2
    <3> QED BY <3>2, <3>3 DEF FileT
  <2> QED BY <1>1, <2>1, <2>2
<1>7. LogInv
  BY <1>1, <1>3, <1>4, <1>5, <1>6 DEF LogInv
<1>8. HookInv
  <2>1. NewHook \in HookT /\ NewHook.pc = "start"
    BY EmptySeq DEF NewHook, HookT, Acts, NoHash
  <2> HIDE DEF NewHook
  <2>2. hook \in [Hooks -> HookT] /\ \A g \in Hooks : hook[g].pc = "start"
    BY <1>1, <2>1
  <2> QED BY <1>1, <2>2 DEF HookInv, Busy
<1>9. RecordInv /\ AckInv
  BY <1>1, <1>3, <1>5, HookAssumption DEF RecordInv, AckInv
<1>10. OutInv
  <2>1. NoFile \in FileT /\ ~NoFile.exists /\ NoFile.lines = <<>>
    BY DEF NoFile, FileT
  <2> HIDE DEF NoFile
  <2> QED BY <1>1, <2>1 DEF OutInv
<1>11. PruneInv
  <2>1. NoFile \in FileT
    BY DEF NoFile, FileT
  <2>2. NoPrune \in PruneT /\ NoPrune.pc = "idle"
    BY <2>1 DEF NoPrune, PruneT
  <2> HIDE DEF NoPrune
  <2> QED BY <1>1, <2>2 DEF PruneInv
<1> QED BY <1>7, <1>8, <1>9, <1>10, <1>11 DEF FileInv, Logged

LEMMA HookNextPreserves ==
    ASSUME FileInv, HookNext, UNCHANGED pruneVars
    PROVE  FileInv'
<1>1. Logged /\ OutInv' /\ PruneInv'
  BY OutStays, PruneStays DEF FileInv, pruneVars
<1>2. CASE \E h \in Hooks : HookStep(h)
  <2>1. PICK h \in Hooks : HookStep(h)
    BY <1>2
  <2>2. CASE Unattributable(h)
    BY <1>1, <2>2, UnattributableStep DEF FileInv
  <2>3. CASE DenyBeforeEngine(h) \/ FailsToEvaluate(h) \/ Evaluates(h)
    BY <1>1, <2>3, DecisionStep DEF FileInv
  <2>4. CASE Lock(h) \/ LockTimeout(h)
    BY <1>1, <2>4, LockStep DEF FileInv
  <2>5. CASE Verify(h)
    BY <1>1, <2>5, VerifyStep DEF FileInv
  <2>6. CASE Write(h)
    BY <1>1, <2>6, WriteStep DEF FileInv
  <2>7. CASE ShortWrite(h)
    BY <1>1, <2>7, ShortWriteStep DEF FileInv
  <2>8. CASE Sync(h)
    BY <1>1, <2>8, SyncStep DEF FileInv
  <2>9. CASE SyncFails(h) \/ Kill(h)
    BY <1>1, <2>9, KillStep DEF FileInv
  <2> QED BY <2>1, <2>2, <2>3, <2>4, <2>5, <2>6, <2>7, <2>8, <2>9 DEF HookStep
<1>3. CASE PowerLoss
  BY <1>1, <1>3, PowerLossStep DEF FileInv
<1>4. CASE Repair
  BY <1>1, <1>4, RepairStep DEF FileInv
<1> QED BY <1>2, <1>3, <1>4 DEF HookNext

LEMMA PruneNextPreserves ==
    ASSUME FileInv, PruneNext
    PROVE  FileInv'
<1>1. CASE \E in \in Outs \cup {"log"}, o \in Outs, c \in Cutoffs : in # o /\ PruneOpen(in, o, c)
  BY <1>1, PruneOpenStep
<1>2. CASE PruneSelect
  BY <1>2, PruneSelectStep
<1>3. CASE PruneCopy
  BY <1>3, PruneCopyStep
<1>4. CASE PruneCheck
  BY <1>4, PruneCheckStep
<1>5. CASE PrunePublish
  BY <1>5, PrunePublishStep
<1>6. CASE PruneKilled
  <2>1. Logged' /\ OutInv' /\ PruneInv'
    BY <1>6, LoggedStays, OutStays, PruneEnds DEF FileInv, PruneKilled, Ends
  <2> QED BY <2>1 DEF FileInv
<1>7. CASE OtherCreates
  BY <1>7, OtherCreatesStep
<1>8. CASE \E o \in Outs : Adopt(o)
  BY <1>8, AdoptStep
<1> QED BY <1>1, <1>2, <1>3, <1>4, <1>5, <1>6, <1>7, <1>8 DEF PruneNext

LEMMA NextPreserves == FileInv /\ [Next]_vars => FileInv'
<1> SUFFICES ASSUME FileInv, [Next]_vars PROVE FileInv'
  OBVIOUS
<1>1. CASE HookNext /\ UNCHANGED pruneVars
  BY <1>1, HookNextPreserves
<1>2. CASE PruneNext
  BY <1>2, PruneNextPreserves
<1>3. CASE UNCHANGED vars
  BY <1>3, LoggedStays, OutStays, PruneStays DEF FileInv, vars, pruneVars
<1> QED BY <1>1, <1>2, <1>3 DEF Next

\* The inductive invariant of the log, its writers and prune (cmd/tg/hook_audit.go,
\* cmd/tg/prune.go) holds for any number of hooks, faults, outputs and prunes.
THEOREM FileInvariant == Spec => []FileInv
<1>1. Init => FileInv
  BY InitEstablishes
<1>2. FileInv /\ [Next]_vars => FileInv'
  BY NextPreserves
<1> QED BY <1>1, <1>2, PTL DEF Spec

\* appendHookAudit never writes behind a line that does not parse, and never
\* extends a pruned chain: damage stays in the last line.
THEOREM DamageIsConfined == Spec => []DamageConfined
<1>1. FileInv => DamageConfined
  <2> SUFFICES ASSUME FileInv PROVE DamageConfined
    OBVIOUS
  <2>1. CASE Whole(file.lines, History, 0, 0)
    <3>1. Intact(file.lines, TRUE)
      BY <2>1, Unpruned
    <3> QED BY <3>1 DEF DamageConfined
  <2>2. CASE TornAfter(file.lines, History)
    <3>1. /\ Len(file.lines) > 0 /\ file.lines[Len(file.lines)] = TornLine
          /\ Whole(SubSeq(file.lines, 1, Len(file.lines) - 1), History, 0, 0)
      BY <2>2 DEF TornAfter
    <3>2. Intact(SubSeq(file.lines, 1, Len(file.lines) - 1), TRUE)
      BY <3>1, Unpruned
    <3> QED BY <3>1, <3>2 DEF DamageConfined
  <2>3. CASE \E k \in 1..Len(History) : Whole(file.lines, History, k, 1)
    <3>1. Intact(file.lines, TRUE)
      BY <2>3, Capped
    <3> QED BY <3>1 DEF DamageConfined
  <2> QED BY <2>1, <2>2, <2>3 DEF FileInv, Logged, LogInv
<1> QED BY <1>1, FileInvariant, PTL

\* An append that returned without error is in the history of the log for
\* good, through kills, power loss, repairs and pruning.
THEOREM AckedStaysForGood == Spec => []AckedStays
<1>1. FileInv => AckedStays
  BY DEF FileInv, Logged, AckInv, AckedStays
<1> QED BY <1>1, FileInvariant, PTL

\* A hook has at most one record, and the record tells what the agent was told.
THEOREM RecordsMatchDecisions == Spec => []RecordMatchesDecision
<1>1. FileInv => RecordMatchesDecision
  <2> SUFFICES ASSUME FileInv, NEW h \in Hooks
               PROVE  LET mine == {i \in 1..Len(History) : History[i].by = h} IN
                      /\ Cardinality(mine) <= 1
                      /\ \A i \in mine :
                           /\ FromAction(History[i].act) = hook[h].dec
                           /\ hook[h].by = "engine" => History[i].act = hook[h].act
    BY DEF RecordMatchesDecision
  <2> DEFINE mine == {i \in 1..Len(History) : History[i].by = h}
  <2>1. \A i \in mine : /\ History[i].act = hook[h].act
                        /\ hook[h].dec = FromAction(hook[h].act)
                        /\ \A j \in mine : j = i
    BY DEF FileInv, Logged, RecordInv
  <2>2. Cardinality(mine) <= 1
    <3> HIDE DEF mine
    <3>1. CASE mine = {}
      BY <3>1, FS_EmptySet
    <3>2. CASE mine # {}
      <4>1. PICK i : i \in mine
        BY <3>2
      <4>2. mine = {i}
        BY <2>1, <4>1
      <4>3. Cardinality({i}) = 1
        BY FS_Singleton
      <4> QED BY <4>2, <4>3
    <3> QED BY <3>1, <3>2
  <2> QED BY <2>1, <2>2
<1> QED BY <1>1, FileInvariant, PTL

\* runPrune publishes nothing but a file that verifies and accounts for every
\* record since the first, whatever happened to its input meanwhile.
THEOREM OutputsAreFaithful == Spec => []PrunedFaithful
<1>1. FileInv => PrunedFaithful
  <2> SUFFICES ASSUME FileInv, NEW o \in Outs, out[o].exists, o \notin foreign
               PROVE  LET cp == out[o].lines[1]
                          ts == TracesOf(out[o].lines)
                      IN /\ Intact(out[o].lines, TRUE) /\ Pruned(out[o].lines)
                         /\ Len(cp.tail) = cp.removed + cp.retained
                         /\ cp.last = SubSeq(cp.tail, 1, cp.removed)
                         /\ ts # <<>> => ts[1].content.ts >= cp.cutoff
    BY DEF PrunedFaithful
  <2> DEFINE lines == out[o].lines
             H == TailHash(lines)
             cp == lines[1]
             ts == TracesOf(lines)
  <2>1. Faithful(lines)
    BY DEF FileInv, OutInv
  <2>2. PICK k \in 1..Len(H) : Whole(lines, H, k, 1) /\ (k < Len(H) => H[k + 1].ts >= cp.cutoff)
    BY <2>1 DEF Faithful
  <2>3. /\ Intact(lines, TRUE) /\ Pruned(lines) /\ Len(H) \in Nat /\ k \in 1..Len(H)
        /\ HistoryOK(H)
    BY <2>2, Capped
  <2>4. Cap(cp, H, k)
    BY <2>2 DEF Whole
  <2>5. /\ cp.removed = k /\ cp.last = SubSeq(H, 1, k) /\ cp.retained = Len(H) - k /\ cp.tail = H
    BY <2>4 DEF Cap
  <2>6. Len(ts) = Len(H) - k /\ \A i \in 1..(Len(H) - k) : ts[i] = Rec(H, k + i)
    <3> DEFINE z == 1
    <3>1. Whole(lines, H, k, z)
      BY <2>2
    <3> HIDE DEF z, lines, H
    <3> QED BY <3>1, WholeRead
  <2> HIDE DEF H, ts, cp
  <2>7. Len(cp.tail) = cp.removed + cp.retained
    BY <2>3, <2>5
  <2>8. ASSUME ts # <<>> PROVE ts[1].content.ts >= cp.cutoff
    <3>1. Len(ts) # 0
      <4>1. TracesOf(lines) \in Seq(LineT)
        BY <2>2, WholeTraces DEF H
      <4> QED BY <2>8, <4>1, EmptySeq DEF ts
    <3>2. k < Len(H) /\ 1 \in 1..(Len(H) - k) /\ k + 1 \in 1..Len(H)
      BY <2>3, <2>6, <3>1
    <3>3. ts[1].content = H[k + 1]
      BY <2>3, <2>6, <3>2, RecFacts
    <3> QED BY <2>2, <3>2, <3>3
  <2> QED BY <2>3, <2>5, <2>7, <2>8 DEF cp, ts
<1> QED BY <1>1, FileInvariant, PTL

\* RENAME_NOREPLACE: no step of prune writes an output path that exists.
THEOREM NoOutputIsReplaced == Spec => OutputsNeverReplaced
<1>1. FileInv /\ [Next]_vars => [\A o \in Outs : out[o].exists => out'[o] = out[o]]_vars
  <2> SUFFICES ASSUME FileInv, [Next]_vars, NEW o \in Outs, out[o].exists
               PROVE  out'[o] = out[o]
    OBVIOUS
  <2>1. out \in [Outs -> FileT]
    BY DEF FileInv, OutInv
  <2>2. CASE UNCHANGED out
    BY <2>2
  <2>3. CASE PrunePublish \/ OtherCreates
    BY <2>1, <2>3 DEF PrunePublish, OtherCreates
  <2>4. UNCHANGED out \/ PrunePublish \/ OtherCreates
    BY DEF Next, PruneNext, vars, pruneVars, PruneOpen, PruneSelect, PruneCopy, PruneCheck,
           PruneKilled, Adopt
  <2> QED BY <2>2, <2>3, <2>4
<1> QED BY <1>1, FileInvariant, PTL DEF Spec, OutputsNeverReplaced

=============================================================================

-------------------------- MODULE AuditChainProofs --------------------------
(***************************************************************************)
(* Proofs about AuditChain for every number of traces, rotation size, sync *)
(* mode and number of crashes.  The inductive invariant describes streams  *)
(* position by position (a body is followed by a newline, each body names  *)
(* the body before it) instead of by the verifier's definition, which      *)
(* scans every prefix.  The second half proves what callers and readers    *)
(* are promised, and that the writer implements the abstract log.          *)
(***************************************************************************)
EXTENDS AuditChain, SequenceTheorems, TLAPS

\* h is the hash of the last body among the first n tokens of s.
IsTail(s, n, h) ==
    \/ h = <<>> /\ \A i \in 1..n : s[i].kind # "rec"
    \/ \E j \in 1..n : /\ s[j].kind = "rec" /\ h = Hash(s[j])
                       /\ \A i \in (j + 1)..n : s[i].kind # "rec"

\* A body is followed by a newline, only the last token may be torn, every body
\* names the body before it, and every prefix has a tail hash.
Clean(s) ==
    /\ s \in Seq(Token)
    /\ \A i \in 1..(Len(s) - 1) : /\ s[i].kind # "lf" => s[i+1].kind = "lf"
                                  /\ s[i].kind # "torn"
    /\ \A i \in 1..Len(s) : s[i].kind = "rec" => IsTail(s, i - 1, s[i].prev)
    /\ \A n \in 0..Len(s) : \E h \in Seq(Nat) : IsTail(s, n, h)

Whole(s) == Clean(s) /\ (Len(s) > 0 => s[Len(s)].kind # "torn")

\* The writer's view of its tail is the tail of s.
AtTail(s, h, sep) ==
    Whole(s) /\ IsTail(s, Len(s), h) /\ (EndsOpen(s) => sep)

\* Every content the disk may hold is a clean stream that starts with the
\* synced prefix.
DiskInv ==
    /\ stream \in images
    /\ \A img \in images :
          /\ Clean(img)
          /\ synced <= Len(img)
          /\ \A i \in 1..synced : img[i] = stream[i]

\* While a record is being written, the stream up to op.pre is the chain the
\* rollback returns to.
OpInv ==
    /\ op.pc # "idle" => status = "serving" /\ ~poisoned /\ op.id \in TraceId
    /\ (status = "serving" /\ ~poisoned /\ BeforeWrite)
          => AtTail(stream, lastHash, needsSeparator)
    /\ ~BeforeWrite =>
          /\ synced <= op.pre /\ op.pre <= Len(stream)
          /\ AtTail(SubSeq(stream, 1, op.pre), op.prevHash, op.prevSep)
    /\ op.pc = "rollbackSync" => op.pre = Len(stream)
    /\ op.pc = "sync" => /\ AtTail(stream, lastHash, needsSeparator)
                         /\ lastHash = Append(op.prevHash, op.id)

ChainInv == TypeOK /\ DiskInv /\ OpInv

-----------------------------------------------------------------------------
(* Facts about streams *)

\* Tokens and hashes have their types.
LEMMA TokenTypes ==
    /\ LF \in Token /\ Torn \in Token
    /\ \A h \in Seq(Nat), id \in Nat : Rec(h, id) \in Token
    /\ \A r \in Token : /\ Hash(r) \in Seq(Nat)
                        /\ r.kind \in {"rec", "lf", "torn"}
BY DEF LF, Torn, Rec, Token, Hash

\* The parts of cleanness that speak of neighbouring tokens only.
LEMMA CleanFacts ==
    ASSUME NEW s, Clean(s)
    PROVE  /\ s \in Seq(Token) /\ Len(s) \in Nat
           /\ \A i \in 1..(Len(s) - 1) : /\ s[i].kind # "lf" => s[i+1].kind = "lf"
                                         /\ s[i].kind # "torn"
<1>1. s \in Seq(Token)
  BY DEF Clean
<1>2. \A i \in 1..(Len(s) - 1) : /\ s[i].kind # "lf" => s[i+1].kind = "lf"
                                 /\ s[i].kind # "torn"
  BY DEF Clean
<1> QED BY <1>1, <1>2

\* The tail of a prefix depends on the prefix only.
LEMMA TailSame ==
    ASSUME NEW s, NEW t, NEW n \in Nat, NEW h, IsTail(s, n, h),
           \A i \in 1..n : t[i] = s[i]
    PROVE  IsTail(t, n, h)
<1>1. CASE h = <<>> /\ \A i \in 1..n : s[i].kind # "rec"
  BY <1>1 DEF IsTail
<1>2. CASE \E j \in 1..n : /\ s[j].kind = "rec" /\ h = Hash(s[j])
                           /\ \A i \in (j + 1)..n : s[i].kind # "rec"
  <2>1. PICK j \in 1..n : /\ s[j].kind = "rec" /\ h = Hash(s[j])
                          /\ \A i \in (j + 1)..n : s[i].kind # "rec"
    BY <1>2
  <2>2. t[j] = s[j] /\ \A i \in (j + 1)..n : i \in 1..n /\ t[i] = s[i]
    OBVIOUS
  <2> QED BY <2>1, <2>2 DEF IsTail
<1> QED BY <1>1, <1>2 DEF IsTail

\* A token that is no body does not move the tail.
LEMMA TailSkip ==
    ASSUME NEW s, NEW n \in Nat, NEW h, IsTail(s, n, h), s[n + 1].kind # "rec"
    PROVE  IsTail(s, n + 1, h)
<1>1. \A j \in Nat : \A i \in j..(n + 1) : i \in j..n \/ i = n + 1
  OBVIOUS
<1>2. CASE h = <<>> /\ \A i \in 1..n : s[i].kind # "rec"
  BY <1>1, <1>2 DEF IsTail
<1>3. CASE \E j \in 1..n : /\ s[j].kind = "rec" /\ h = Hash(s[j])
                           /\ \A i \in (j + 1)..n : s[i].kind # "rec"
  <2>1. PICK j \in 1..n : /\ s[j].kind = "rec" /\ h = Hash(s[j])
                          /\ \A i \in (j + 1)..n : s[i].kind # "rec"
    BY <1>3
  <2>2. j \in 1..(n + 1) /\ \A i \in (j + 1)..(n + 1) : s[i].kind # "rec"
    BY <1>1, <2>1
  <2> QED BY <2>1, <2>2 DEF IsTail
<1> QED BY <1>2, <1>3 DEF IsTail

\* A body is the new tail.
LEMMA TailMove ==
    ASSUME NEW s, NEW n \in Nat, n > 0, s[n].kind = "rec"
    PROVE  IsTail(s, n, Hash(s[n]))
<1>1. n \in 1..n /\ \A i \in (n + 1)..n : FALSE
  OBVIOUS
<1> QED BY <1>1 DEF IsTail

\* TailHash finds the tail.
LEMMA TailUnique ==
    ASSUME NEW s \in Seq(Token), NEW h, IsTail(s, Len(s), h)
    PROVE  TailHash(s) = h
<1>1. Len(s) \in Nat /\ DOMAIN s = 1..Len(s)
  OBVIOUS
<1>2. CASE h = <<>> /\ \A i \in 1..Len(s) : s[i].kind # "rec"
  <2>1. RecIdx(s) = {}
    BY <1>1, <1>2 DEF RecIdx
  <2> QED BY <2>1, <1>2 DEF TailHash
<1>3. ASSUME NEW j \in 1..Len(s), s[j].kind = "rec", h = Hash(s[j]),
             \A i \in (j + 1)..Len(s) : s[i].kind # "rec"
      PROVE  TailHash(s) = h
  <2>1. j \in RecIdx(s) /\ \A i \in RecIdx(s) : i \in Nat /\ i <= j
    BY <1>1, <1>3 DEF RecIdx
  <2>2. \A i \in RecIdx(s) : (\A l \in RecIdx(s) : l <= i) => i = j
    BY <2>1
  <2>3. LastRec(s) = j
    BY <2>1, <2>2 DEF LastRec
  <2> QED BY <2>1, <2>3, <1>3 DEF TailHash
<1> QED BY <1>2, <1>3 DEF IsTail

\* Every clean stream has the tail that TailHash finds.
LEMMA CleanTail ==
    ASSUME NEW s, Clean(s)
    PROVE  IsTail(s, Len(s), TailHash(s)) /\ TailHash(s) \in Seq(Nat)
<1>1. s \in Seq(Token) /\ Len(s) \in 0..Len(s)
  BY DEF Clean
<1>2. PICK h \in Seq(Nat) : IsTail(s, Len(s), h)
  BY <1>1 DEF Clean
<1> QED BY <1>1, <1>2, TailUnique

\* A prefix of a clean stream is clean, and a proper prefix is not torn.
LEMMA CleanPrefix ==
    ASSUME NEW s, Clean(s), NEW k \in 0..Len(s)
    PROVE  /\ Clean(SubSeq(s, 1, k))
           /\ Len(SubSeq(s, 1, k)) = k
           /\ \A i \in 1..k : SubSeq(s, 1, k)[i] = s[i]
           /\ k < Len(s) => Whole(SubSeq(s, 1, k))
<1> DEFINE p == SubSeq(s, 1, k)
<1>1. s \in Seq(Token)
  BY DEF Clean
<1>2. p \in Seq(Token) /\ Len(p) = k /\ \A i \in 1..k : p[i] = s[i]
  BY <1>1
<1> HIDE DEF p
<1>3. Clean(p)
  <2>1. ASSUME NEW i \in 1..(Len(p) - 1)
        PROVE  (p[i].kind # "lf" => p[i+1].kind = "lf") /\ p[i].kind # "torn"
    <3>1. i \in 1..(Len(s) - 1) /\ p[i] = s[i] /\ p[i+1] = s[i+1]
      BY <1>1, <1>2
    <3> QED BY <3>1 DEF Clean
  <2>2. ASSUME NEW i \in 1..Len(p), p[i].kind = "rec"
        PROVE  IsTail(p, i - 1, p[i].prev)
    <3>1. /\ i \in 1..Len(s) /\ p[i] = s[i] /\ i - 1 \in Nat
          /\ \A j \in 1..(i - 1) : p[j] = s[j]
      BY <1>1, <1>2
    <3>2. IsTail(s, i - 1, p[i].prev)
      BY <3>1, <2>2 DEF Clean
    <3> QED BY <3>1, <3>2, TailSame
  <2>3. ASSUME NEW n \in 0..Len(p)
        PROVE  \E h \in Seq(Nat) : IsTail(p, n, h)
    <3>1. n \in 0..Len(s) /\ n \in Nat /\ \A j \in 1..n : p[j] = s[j]
      BY <1>1, <1>2
    <3>2. PICK h \in Seq(Nat) : IsTail(s, n, h)
      BY <3>1 DEF Clean
    <3> QED BY <3>1, <3>2, TailSame
  <2> QED
    BY <1>2, <2>1, <2>2, <2>3 DEF Clean
<1>4. k < Len(s) => Whole(p)
  <2>1. ASSUME k < Len(s), Len(p) > 0 PROVE p[Len(p)].kind # "torn"
    <3>1. k \in 1..(Len(s) - 1) /\ p[Len(p)] = s[k]
      BY <2>1, <1>1, <1>2
    <3> QED BY <3>1, CleanFacts
  <2> QED BY <2>1, <1>3 DEF Whole
<1> QED
  BY <1>2, <1>3, <1>4 DEF p

\* The verifier accepts every whole stream.
LEMMA WholeIntact ==
    ASSUME NEW s, Whole(s)
    PROVE  Intact(s)
<1>1. s \in Seq(Token) /\ Len(s) \in Nat /\ Clean(s)
  BY DEF Whole, Clean
<1>2. ~Unparseable(s)
  BY <1>1 DEF Whole, Clean, Unparseable
<1>3. ASSUME NEW i \in RecIdx(s)
      PROVE  s[i].prev = TailHash(SubSeq(s, 1, i - 1))
  <2>1. i \in 1..Len(s) /\ s[i].kind = "rec" /\ i - 1 \in 0..Len(s) /\ i - 1 \in Nat
    BY <1>1, <1>3 DEF RecIdx
  <2> DEFINE p == SubSeq(s, 1, i - 1)
  <2>2. /\ Clean(p) /\ Len(p) = i - 1
        /\ \A j \in 1..(i - 1) : p[j] = s[j]
    BY <1>1, <2>1, CleanPrefix
  <2> HIDE DEF p
  <2>3. IsTail(s, i - 1, s[i].prev)
    BY <1>1, <2>1 DEF Clean
  <2>4. IsTail(p, Len(p), s[i].prev)
    BY <2>1, <2>2, <2>3, TailSame
  <2>5. TailHash(p) = s[i].prev
    BY <2>2, <2>4, TailUnique DEF Clean
  <2> QED BY <2>5 DEF p
<1> QED
  BY <1>2, <1>3 DEF Intact

\* A whole stream with no newline at its end ends in its last record.
LEMMA OpenTail ==
    ASSUME NEW s, Whole(s), EndsOpen(s)
    PROVE  RecIdx(s) # {} /\ LastRec(s) = Len(s)
<1>1. s \in Seq(Token) /\ Len(s) \in Nat /\ Len(s) > 0 /\ s[Len(s)] \in Token
  BY DEF Whole, Clean, EndsOpen
<1>2. s[Len(s)].kind = "rec"
  BY <1>1, TokenTypes DEF Whole, EndsOpen
<1>3. Len(s) \in RecIdx(s) /\ \A i \in RecIdx(s) : i \in Nat /\ i <= Len(s)
  BY <1>1, <1>2 DEF RecIdx
<1> QED BY <1>3 DEF LastRec

\* What the verifier accepts among clean streams is whole.
LEMMA IntactWhole ==
    ASSUME NEW s, Clean(s), Intact(s)
    PROVE  Whole(s)
BY DEF Intact, Unparseable, Whole, Clean

\* Cutting a clean stream in the middle of a record leaves a clean stream.
LEMMA TornPrefix ==
    ASSUME NEW s, Clean(s), NEW k \in 0..(Len(s) - 1), s[k + 1].kind = "rec"
    PROVE  Clean(Append(SubSeq(s, 1, k), Torn))
<1> DEFINE p == SubSeq(s, 1, k)
           t == Append(p, Torn)
<1>1. s \in Seq(Token) /\ Len(s) \in Nat /\ k \in Nat /\ k < Len(s)
  BY DEF Clean
<1>2. Whole(p) /\ Clean(p) /\ Len(p) = k /\ \A i \in 1..k : p[i] = s[i]
  BY <1>1, CleanPrefix DEF Whole
<1>3. k > 0 => p[k].kind = "lf"
  BY <1>1, <1>2 DEF Clean
<1> HIDE DEF p
<1>4. p \in Seq(Token)
  BY <1>2 DEF Clean
<1>5. /\ t \in Seq(Token) /\ Len(t) = k + 1 /\ t[k + 1] = Torn
      /\ \A i \in 1..k : t[i] = p[i]
  <2>1. Torn \in Token
    BY TokenTypes
  <2> QED BY <2>1, <1>1, <1>2, <1>4
<1>6. Torn.kind = "torn"
  BY DEF Torn
<1> HIDE DEF t
<1>7. Clean(t)
  <2>1. ASSUME NEW i \in 1..(Len(t) - 1)
        PROVE  (t[i].kind # "lf" => t[i+1].kind = "lf") /\ t[i].kind # "torn"
    <3>1. CASE i < k
      <4>1. i \in 1..(Len(p) - 1) /\ t[i] = p[i] /\ t[i+1] = p[i+1]
        BY <3>1, <1>1, <1>2, <1>5
      <4> QED BY <4>1, <1>2 DEF Clean
    <3>2. CASE i = k
      BY <3>2, <1>1, <1>2, <1>3, <1>5, <1>6
    <3> QED BY <3>1, <3>2, <1>1, <1>5
  <2>2. ASSUME NEW i \in 1..Len(t), t[i].kind = "rec"
        PROVE  IsTail(t, i - 1, t[i].prev)
    <3>1. /\ i \in 1..Len(p) /\ t[i] = p[i] /\ i - 1 \in Nat
          /\ \A j \in 1..(i - 1) : t[j] = p[j]
      BY <1>1, <1>2, <1>5, <1>6, <2>2
    <3>2. IsTail(p, i - 1, t[i].prev)
      BY <3>1, <1>2, <2>2 DEF Clean
    <3> QED BY <3>1, <3>2, TailSame
  <2>3. ASSUME NEW n \in 0..k
        PROVE  \E h \in Seq(Nat) : IsTail(t, n, h)
    <3>1. n \in 0..Len(p) /\ n \in Nat /\ \A j \in 1..n : t[j] = p[j]
      BY <1>1, <1>2, <1>5
    <3>2. PICK h \in Seq(Nat) : IsTail(p, n, h)
      BY <3>1, <1>2 DEF Clean
    <3> QED BY <3>1, <3>2, TailSame
  <2>4. \E h \in Seq(Nat) : IsTail(t, k + 1, h)
    <3>1. PICK h \in Seq(Nat) : IsTail(t, k, h)
      <4>1. k \in 0..k
        BY <1>1
      <4> QED BY <4>1, <2>3
    <3>2. t[k + 1].kind # "rec"
      BY <1>5, <1>6
    <3> QED BY <3>1, <3>2, <1>1, TailSkip
  <2>5. ASSUME NEW n \in 0..Len(t)
        PROVE  \E h \in Seq(Nat) : IsTail(t, n, h)
    <3>1. n \in 0..k \/ n = k + 1
      BY <1>1, <1>5
    <3> QED BY <3>1, <2>3, <2>4
  <2> QED
    BY <1>5, <2>1, <2>2, <2>5 DEF Clean
<1> QED
  BY <1>7 DEF t, p

\* Appending a whole record at the tail extends the chain by it.
LEMMA RecordExtends ==
    ASSUME NEW s, NEW h \in Seq(Nat), NEW sep \in BOOLEAN, NEW id \in Nat, AtTail(s, h, sep)
    PROVE  /\ RecordOf(h, sep, id) \in Seq(Token)
           /\ Whole(s \o RecordOf(h, sep, id))
           /\ IsTail(s \o RecordOf(h, sep, id), Len(s \o RecordOf(h, sep, id)),
                     Append(h, id))
           /\ ~EndsOpen(s \o RecordOf(h, sep, id))
           /\ Len(s \o RecordOf(h, sep, id)) = Len(s) + Len(RecordOf(h, sep, id))
           /\ \A i \in 1..Len(s) : (s \o RecordOf(h, sep, id))[i] = s[i]
<1> DEFINE r == RecordOf(h, sep, id)
           t == s \o r
<1>1. /\ s \in Seq(Token) /\ Len(s) \in Nat /\ Clean(s) /\ Whole(s)
      /\ IsTail(s, Len(s), h) /\ (EndsOpen(s) => sep)
  BY DEF AtTail, Whole, Clean
<1>2. /\ Rec(h, id) \in Token /\ LF \in Token
      /\ Rec(h, id).kind = "rec" /\ Rec(h, id).prev = h /\ LF.kind = "lf"
      /\ Hash(Rec(h, id)) = Append(h, id)
  BY <1>1, TokenTypes DEF Rec, LF, Hash
<1>3. /\ r \in Seq(Token) /\ Len(r) \in Nat
      /\ sep  => Len(r) = 3 /\ r[1] = LF /\ r[2] = Rec(h, id) /\ r[3] = LF
      /\ ~sep => Len(r) = 2 /\ r[1] = Rec(h, id) /\ r[2] = LF
  <2>1. CASE sep
    BY <2>1, <1>2 DEF RecordOf
  <2>2. CASE ~sep
    BY <2>2, <1>2 DEF RecordOf
  <2> QED BY <2>1, <2>2
<1> HIDE DEF r
<1>4. /\ t \in Seq(Token) /\ Len(t) = Len(s) + Len(r)
      /\ \A i \in 1..Len(s) : t[i] = s[i]
      /\ \A i \in 1..Len(r) : t[Len(s) + i] = r[i]
  BY <1>1, <1>3
<1> HIDE DEF t
<1> DEFINE m == IF sep THEN Len(s) + 2 ELSE Len(s) + 1
<1>5. /\ m \in Nat /\ m >= 1 /\ Len(t) = m + 1
      /\ t[m] = Rec(h, id) /\ t[m + 1] = LF
      /\ sep => m = Len(s) + 2 /\ t[m - 1] = LF
      /\ ~sep => m = Len(s) + 1
  <2>1. CASE sep
    <3>1. Len(r) = 3 /\ r[1] = LF /\ r[2] = Rec(h, id) /\ r[3] = LF
      BY <2>1, <1>3
    <3>2. 1 \in 1..Len(r) /\ 2 \in 1..Len(r) /\ 3 \in 1..Len(r)
      BY <3>1
    <3>3. t[Len(s) + 1] = LF /\ t[Len(s) + 2] = Rec(h, id) /\ t[Len(s) + 3] = LF
      BY <3>1, <3>2, <1>4
    <3>4. m = Len(s) + 2
      BY <2>1
    <3>5. /\ m \in Nat /\ m >= 1 /\ Len(t) = m + 1 /\ m - 1 = Len(s) + 1
          /\ m + 1 = Len(s) + 3
      BY <3>1, <3>4, <1>1, <1>4
    <3> QED BY <2>1, <3>3, <3>4, <3>5
  <2>2. CASE ~sep
    <3>1. Len(r) = 2 /\ r[1] = Rec(h, id) /\ r[2] = LF
      BY <2>2, <1>3
    <3>2. 1 \in 1..Len(r) /\ 2 \in 1..Len(r)
      BY <3>1
    <3>3. t[Len(s) + 1] = Rec(h, id) /\ t[Len(s) + 2] = LF
      BY <3>1, <3>2, <1>4
    <3>4. m = Len(s) + 1
      BY <2>2
    <3>5. m \in Nat /\ m >= 1 /\ Len(t) = m + 1 /\ m + 1 = Len(s) + 2
      BY <3>1, <3>4, <1>1, <1>4
    <3> QED BY <2>2, <3>3, <3>4, <3>5
  <2> QED BY <2>1, <2>2
<1> HIDE DEF m
<1>6. Len(s) > 0 /\ ~sep => s[Len(s)].kind = "lf"
  BY <1>1 DEF EndsOpen
<1>7. IsTail(t, m - 1, h) /\ (sep => IsTail(t, Len(s), h))
  <2>1. IsTail(t, Len(s), h)
    BY <1>1, <1>4, TailSame
  <2>2. CASE sep
    <3>1. t[Len(s) + 1].kind # "rec" /\ m - 1 = Len(s) + 1
      BY <2>2, <1>1, <1>2, <1>5
    <3> QED BY <2>1, <3>1, <1>1, TailSkip
  <2>3. CASE ~sep
    <3>1. m - 1 = Len(s)
      BY <2>3, <1>1, <1>5
    <3> QED BY <2>1, <2>3, <3>1
  <2> QED BY <2>1, <2>2, <2>3
<1>8. IsTail(t, m, Append(h, id)) /\ IsTail(t, m + 1, Append(h, id)) /\ Append(h, id) \in Seq(Nat)
  <2>1. IsTail(t, m, Append(h, id))
    <3>1. m \in Nat /\ m > 0 /\ t[m].kind = "rec" /\ Hash(t[m]) = Append(h, id)
      BY <1>2, <1>5
    <3>2. IsTail(t, m, Hash(t[m]))
      BY <3>1, TailMove
    <3> QED BY <3>1, <3>2
  <2>2. t[m + 1].kind # "rec"
    BY <1>2, <1>5
  <2>3. Append(h, id) \in Seq(Nat)
    BY <1>1
  <2> QED BY <2>1, <2>2, <2>3, <1>5, TailSkip
<1>9. Clean(t)
  <2>1. ASSUME NEW i \in 1..(Len(t) - 1)
        PROVE  (t[i].kind # "lf" => t[i+1].kind = "lf") /\ t[i].kind # "torn"
    <3>1. CASE i < Len(s)
      <4>1. i \in 1..(Len(s) - 1) /\ t[i] = s[i] /\ t[i+1] = s[i+1]
        BY <3>1, <1>1, <1>4
      <4> QED BY <4>1, <1>1, CleanFacts
    <3>2. CASE i = Len(s) /\ sep
      BY <3>2, <1>1, <1>2, <1>4, <1>5 DEF Whole
    <3>3. CASE i = Len(s) /\ ~sep
      BY <3>3, <1>1, <1>2, <1>4, <1>5, <1>6
    <3>4. CASE i > Len(s)
      <4>1. i = m \/ (sep /\ i = m - 1 /\ i + 1 = m)
        BY <3>4, <1>1, <1>5
      <4>2. CASE i = m
        BY <4>2, <1>2, <1>5
      <4>3. CASE sep /\ i = m - 1 /\ i + 1 = m
        BY <4>3, <1>2, <1>5
      <4> QED BY <4>1, <4>2, <4>3
    <3> QED BY <3>1, <3>2, <3>3, <3>4, <1>1
  <2>2. ASSUME NEW i \in 1..Len(t), t[i].kind = "rec"
        PROVE  IsTail(t, i - 1, t[i].prev)
    <3>1. CASE i <= Len(s)
      <4>1. /\ i \in 1..Len(s) /\ t[i] = s[i] /\ i - 1 \in Nat
            /\ \A j \in 1..(i - 1) : t[j] = s[j]
        BY <3>1, <1>1, <1>4
      <4>2. IsTail(s, i - 1, t[i].prev)
        BY <4>1, <1>1, <2>2 DEF Clean
      <4> QED BY <4>1, <4>2, TailSame
    <3>2. CASE i > Len(s)
      <4>1. i = m
        BY <3>2, <2>2, <1>1, <1>2, <1>5
      <4> QED BY <4>1, <1>2, <1>5, <1>7
    <3> QED BY <3>1, <3>2, <1>1
  <2>3. ASSUME NEW n \in 0..Len(t)
        PROVE  \E g \in Seq(Nat) : IsTail(t, n, g)
    <3>1. CASE n <= Len(s)
      <4>1. n \in 0..Len(s) /\ n \in Nat /\ \A j \in 1..n : t[j] = s[j]
        BY <3>1, <1>1, <1>4
      <4>2. PICK g \in Seq(Nat) : IsTail(s, n, g)
        BY <4>1, <1>1 DEF Clean
      <4> QED BY <4>1, <4>2, TailSame
    <3>2. CASE n > Len(s)
      <4>1. n = m \/ n = m + 1 \/ n = m - 1
        BY <3>2, <1>1, <1>5
      <4> QED BY <4>1, <1>1, <1>7, <1>8
    <3> QED BY <3>1, <3>2, <1>1
  <2> QED
    BY <1>4, <2>1, <2>2, <2>3 DEF Clean
<1>10. Whole(t) /\ IsTail(t, Len(t), Append(h, id)) /\ ~EndsOpen(t)
  <2>1. Len(t) > 0 /\ t[Len(t)].kind = "lf" /\ Len(t) = m + 1
    BY <1>2, <1>5
  <2> QED BY <2>1, <1>8, <1>9 DEF Whole, EndsOpen
<1> QED
  BY <1>3, <1>4, <1>10 DEF t, r

\* A write that stops anywhere inside the record leaves a clean stream that
\* still begins with the chain it was appended to.
LEMMA PartialWriteClean ==
    ASSUME AtTail(stream, lastHash, needsSeparator), needsSeparator \in BOOLEAN,
           lastHash \in Seq(Nat), op.id \in Nat, NEW w \in PartialWrites
    PROVE  /\ Clean(stream \o w)
           /\ Len(stream) <= Len(stream \o w)
           /\ \A i \in 1..Len(stream) : (stream \o w)[i] = stream[i]
<1> DEFINE R == RecordTokens
           t == stream \o R
           n0 == Len(stream)
<1>2. /\ R \in Seq(Token) /\ Whole(t)
      /\ Len(t) = n0 + Len(R) /\ \A i \in 1..n0 : t[i] = stream[i]
  BY RecordExtends, ZenonT(30) DEF RecordTokens
<1>3. /\ stream \in Seq(Token) /\ n0 \in Nat /\ Len(R) \in Nat
      /\ Clean(t) /\ t \in Seq(Token)
  <2>1. Clean(stream) /\ Clean(t)
    BY <1>2 DEF AtTail, Whole
  <2> HIDE DEF t, R
  <2> QED BY <1>2, <2>1, CleanFacts
<1>4. \A i \in 1..Len(R) : t[n0 + i] = R[i]
  BY <1>2, <1>3, ConcatProperties
<1>5. PICK n \in 0..Len(R) :
         \/ w = SubSeq(R, 1, n)
         \/ /\ w = Append(SubSeq(R, 1, n), Torn)
            /\ n < Len(R) /\ R[n + 1].kind = "rec"
  <2>1. CASE w \in {SubSeq(RecordTokens, 1, n) : n \in 0..Len(RecordTokens)}
    BY <2>1
  <2>2. CASE w \in {Append(SubSeq(RecordTokens, 1, n), Torn) :
                      n \in {m \in 0..(Len(RecordTokens) - 1) :
                                RecordTokens[m + 1].kind = "rec"}}
    <3>1. PICK n \in 0..(Len(R) - 1) :
             w = Append(SubSeq(R, 1, n), Torn) /\ R[n + 1].kind = "rec"
      BY <2>2
    <3>2. n \in 0..Len(R) /\ n < Len(R)
      BY <1>3
    <3> QED BY <3>1, <3>2
  <2> QED
    BY <2>1, <2>2 DEF PartialWrites
<1> DEFINE u == SubSeq(R, 1, n)
           x == stream \o u
<1> HIDE DEF R, t
<1>6. /\ u \in Seq(Token) /\ Len(u) = n /\ \A i \in 1..n : u[i] = R[i]
  BY <1>2, <1>3
<1> HIDE DEF u
<1>7. /\ x \in Seq(Token) /\ Len(x) = n0 + n
      /\ \A i \in 1..n0 : x[i] = stream[i]
      /\ \A i \in 1..n : x[n0 + i] = u[i]
  <2>1. stream \in Seq(Token) /\ u \in Seq(Token)
    BY <1>3, <1>6
  <2>2. stream \o u \in Seq(Token) /\ Len(stream \o u) = Len(stream) + Len(u)
    BY <2>1, ConcatProperties
  <2>3. x \in Seq(Token) /\ Len(x) = n0 + n
    BY <2>2, <1>6
  <2>4. \A i \in 1..n0 : x[i] = stream[i]
    BY <1>3, <1>6
  <2>5. ASSUME NEW i \in 1..n PROVE x[n0 + i] = u[i]
    <3>1. /\ n0 + i \in 1..(Len(stream) + Len(u)) /\ ~(n0 + i <= Len(stream))
          /\ (n0 + i) - Len(stream) = i
      BY <1>3, <1>6
    <3> QED BY <3>1, <1>3, <1>6, ConcatProperties
  <2> QED BY <2>3, <2>4, <2>5
<1> HIDE DEF x, n0
<1>8. x = SubSeq(t, 1, n0 + n)
  <2> DEFINE y == SubSeq(t, 1, n0 + n)
  <2>1. n0 + n \in 0..Len(t)
    BY <1>2, <1>3
  <2>2. y \in Seq(Token) /\ Len(y) = n0 + n /\ \A i \in 1..(n0 + n) : y[i] = t[i]
    BY <2>1, <1>3
  <2>3. \A i \in 1..(n0 + n) : x[i] = t[i]
    <3> TAKE i \in 1..(n0 + n)
    <3>1. CASE i <= n0
      BY <3>1, <1>2, <1>3, <1>7
    <3>2. CASE i > n0
      <4>1. i - n0 \in 1..n /\ i - n0 \in 1..Len(R) /\ n0 + (i - n0) = i
        BY <3>2, <1>3
      <4> QED BY <4>1, <1>4, <1>6, <1>7
    <3> QED BY <3>1, <3>2, <1>3
  <2> HIDE DEF y
  <2>4. x = y
    BY <1>7, <2>2, <2>3, SeqEqual
  <2> QED BY <2>4 DEF y
<1>9. Clean(x)
  BY <1>2, <1>3, <1>8, CleanPrefix
<1>10. CASE w = u
  BY <1>3, <1>7, <1>9, <1>10 DEF x, n0
<1>11. CASE w = Append(u, Torn) /\ n < Len(R) /\ R[n + 1].kind = "rec"
  <2>1. Torn \in Token
    BY TokenTypes
  <2>2. stream \o w = Append(x, Torn)
    <3>1. w = u \o <<Torn>> /\ <<Torn>> \in Seq(Token)
      BY <2>1, <1>6, <1>11, AppendIsConcat
    <3>2. Append(x, Torn) = x \o <<Torn>>
      BY <2>1, <1>7, AppendIsConcat
    <3>3. (stream \o u) \o <<Torn>> = stream \o (u \o <<Torn>>)
      <4>1. stream \in Seq(Token) /\ u \in Seq(Token) /\ <<Torn>> \in Seq(Token)
        BY <3>1, <1>3, <1>6
      <4> QED BY <4>1, ConcatAssociative
    <3> QED BY <3>1, <3>2, <3>3 DEF x
  <2>3. n0 + n \in 0..(Len(t) - 1) /\ n + 1 \in 1..Len(R) /\ n0 + (n + 1) = (n0 + n) + 1
    BY <1>2, <1>3, <1>11
  <2>4. t[(n0 + n) + 1].kind = "rec"
    BY <2>3, <1>4, <1>11
  <2>5. Clean(Append(x, Torn))
    BY <2>3, <2>4, <1>3, <1>8, TornPrefix
  <2>6. Len(Append(x, Torn)) = n0 + n + 1 /\ \A i \in 1..n0 : Append(x, Torn)[i] = stream[i]
    BY <2>1, <1>3, <1>7
  <2> QED BY <2>2, <2>5, <2>6, <1>3 DEF n0
<1> QED
  BY <1>5, <1>10, <1>11 DEF u, R

\* What a power loss leaves of a clean content is clean and keeps the synced
\* prefix.
LEMMA SurvivorClean ==
    ASSUME NEW img, Clean(img), synced \in Nat, synced <= Len(img),
           NEW x \in Survivors(img)
    PROVE  Clean(x) /\ synced <= Len(x) /\ \A i \in 1..synced : x[i] = img[i]
<1>1. img \in Seq(Token) /\ Len(img) \in Nat
  BY DEF Clean
<1>2. PICK k \in synced..Len(img) :
         \/ x = SubSeq(img, 1, k)
         \/ /\ x = Append(SubSeq(img, 1, k), Torn)
            /\ k < Len(img) /\ img[k + 1].kind = "rec"
  <2>1. CASE x \in {SubSeq(img, 1, k) : k \in synced..Len(img)}
    BY <2>1
  <2>2. CASE x \in {Append(SubSeq(img, 1, k), Torn) :
                      k \in {m \in synced..(Len(img) - 1) : img[m + 1].kind = "rec"}}
    <3>1. PICK k \in synced..(Len(img) - 1) :
             x = Append(SubSeq(img, 1, k), Torn) /\ img[k + 1].kind = "rec"
      BY <2>2
    <3>2. k \in synced..Len(img) /\ k < Len(img)
      BY <1>1
    <3> QED BY <3>1, <3>2
  <2> QED
    BY <2>1, <2>2 DEF Survivors
<1>3. /\ k \in 0..Len(img) /\ Clean(SubSeq(img, 1, k)) /\ Len(SubSeq(img, 1, k)) = k
      /\ SubSeq(img, 1, k) \in Seq(Token)
      /\ \A i \in 1..k : SubSeq(img, 1, k)[i] = img[i]
  <2>1. k \in 0..Len(img)
    BY <1>1
  <2> QED BY <2>1, CleanPrefix, CleanFacts
<1>4. CASE x = SubSeq(img, 1, k)
  BY <1>3, <1>4
<1>5. CASE x = Append(SubSeq(img, 1, k), Torn) /\ k < Len(img) /\ img[k + 1].kind = "rec"
  <2>1. Clean(x)
    BY <1>1, <1>3, <1>5, TornPrefix
  <2>2. Torn \in Token
    BY TokenTypes
  <2> DEFINE q == SubSeq(img, 1, k)
  <2>3. q \in Seq(Token) /\ Len(q) = k /\ x = Append(q, Torn) /\ \A i \in 1..k : q[i] = img[i]
    BY <1>3, <1>5
  <2> HIDE DEF q
  <2>4. Len(x) = k + 1 /\ \A i \in 1..k : x[i] = q[i]
    BY <2>2, <2>3
  <2> QED BY <2>1, <2>3, <2>4, <1>1, <1>3
<1> QED
  BY <1>2, <1>4, <1>5

-----------------------------------------------------------------------------
(* How the disk invariant moves *)

\* The stream itself is clean and holds the synced prefix.
LEMMA StreamFacts ==
    ASSUME TypeOK, DiskInv
    PROVE  /\ Clean(stream) /\ stream \in Seq(Token) /\ Len(stream) \in Nat
           /\ synced \in Nat /\ synced <= Len(stream)
BY DEF TypeOK, TypeDisk, DiskInv, Clean

\* Steps that leave the files alone.
LEMMA DiskSame ==
    ASSUME DiskInv, UNCHANGED diskVars
    PROVE  DiskInv'
BY DEF DiskInv, diskVars

\* A successful fsync of a clean stream.
LEMMA DiskSynced ==
    ASSUME Clean(stream'), SyncedNow
    PROVE  DiskInv'
<1>1. stream' \in Seq(Token) /\ Len(stream') \in Nat
  BY DEF Clean
<1> QED BY <1>1 DEF DiskInv, SyncedNow

\* A write or a truncation that keeps the synced prefix.
LEMMA DiskTouched ==
    ASSUME TypeOK, DiskInv, Clean(stream'), synced <= Len(stream'),
           \A i \in 1..synced : stream'[i] = stream[i],
           images' = images \cup {stream'}, synced' = synced
    PROVE  DiskInv'
BY DEF DiskInv

-----------------------------------------------------------------------------
(* The inductive step, by groups of actions *)

\* openAuditLog, accepted or refused.
LEMMA StepOpen ==
    ASSUME ChainInv, Open \/ OpenRefused
    PROVE  ChainInv'
<1>1. TypeOK /\ DiskInv /\ OpInv /\ Clean(stream)
  BY StreamFacts DEF ChainInv
<1>2. DiskInv'
  BY <1>1, DiskSame DEF Open, OpenRefused
<1>3. op.pc = "idle" /\ op' = op /\ stream' = stream
  BY <1>1 DEF Open, OpenRefused, OpInv, diskVars
<1>4. TypeDisk' /\ TypeCall'
  BY <1>1 DEF Open, OpenRefused, TypeOK, TypeDisk, TypeCall, diskVars, dirVars
<1>5. CASE Open
  <2>1. Whole(stream) /\ TailHash(stream) \in Seq(Nat)
    BY <1>1, <1>5, IntactWhole, CleanTail DEF Open
  <2>2. TypeProc'
    <3>1. needsSeparator' \in BOOLEAN /\ poisoned' \in BOOLEAN
      BY <1>5 DEF Open, TailFileOpen
    <3> QED BY <3>1, <1>5, <2>1 DEF Open, TypeProc
  <2>3. AtTail(stream, lastHash', needsSeparator')
    <3>1. IsTail(stream, Len(stream), lastHash')
      BY <1>1, <1>5, CleanTail DEF Open
    <3>2. EndsOpen(stream) => TailFileOpen
      BY <1>1, <2>1, OpenTail DEF TailFileOpen
    <3>3. needsSeparator' = TailFileOpen
      BY <1>5 DEF Open
    <3> QED BY <3>1, <3>2, <3>3, <2>1 DEF AtTail
  <2>4. OpInv'
    BY <1>3, <2>3 DEF OpInv, BeforeWrite
  <2> QED BY <1>2, <1>4, <2>2, <2>4 DEF ChainInv, TypeOK
<1>6. CASE OpenRefused
  <2>1. TypeProc'
    <3>1. needsSeparator' \in BOOLEAN /\ poisoned' \in BOOLEAN
      BY <1>1, <1>6 DEF OpenRefused, TypeOK, TypeProc
    <3>2. /\ status' \in {"down", "serving", "refused"}
          /\ lastHash' \in Seq(Nat) /\ appendSeq' \in Nat
      BY <1>1, <1>6 DEF OpenRefused, TypeOK, TypeProc
    <3> QED BY <3>1, <3>2 DEF TypeProc
  <2>2. OpInv'
    BY <1>3, <1>6 DEF OpenRefused, OpInv, BeforeWrite
  <2> QED BY <1>2, <1>4, <2>1, <2>2 DEF ChainInv, TypeOK
<1> QED BY <1>5, <1>6

\* The start of an append, or its refusal before anything is written.
LEMMA StepBegin ==
    ASSUME ChainInv, AppendRejected \/ \E force \in BOOLEAN : AppendBegin(force)
    PROVE  ChainInv'
<1>1. TypeOK /\ DiskInv /\ OpInv
  BY DEF ChainInv
<1>2. /\ DiskInv' /\ TypeDisk' /\ TypeProc'
      /\ UNCHANGED <<stream, status, lastHash, needsSeparator, poisoned>>
      /\ op.pc = "idle" /\ status = "serving" /\ nextId \in TraceId
  <2>1. UNCHANGED <<diskVars, dirVars, status, procVars>>
    BY DEF AppendRejected, AppendBegin
  <2>2. DiskInv'
    BY <1>1, <2>1, DiskSame
  <2>3. TypeDisk' /\ TypeProc'
    BY <1>1, <2>1 DEF TypeOK, TypeDisk, TypeProc, diskVars, dirVars, procVars
  <2> QED BY <2>1, <2>2, <2>3 DEF diskVars, procVars, AppendRejected, AppendBegin
<1>3. CASE AppendRejected
  <2>1. TypeCall'
    BY <1>1, <1>3 DEF AppendRejected, TypeOK, TypeCall, Results
  <2>2. OpInv'
    BY <1>1, <1>2, <1>3 DEF AppendRejected, OpInv, BeforeWrite
  <2> QED BY <1>2, <2>1, <2>2 DEF ChainInv, TypeOK
<1>4. ASSUME NEW force \in BOOLEAN, AppendBegin(force)
      PROVE  ChainInv'
  <2>1. nextId \in Nat
    BY <1>1 DEF TypeOK, TypeCall
  <2>2. op'.pc \in {"rotateSync", "write"} /\ op'.id = nextId /\ op' \in Op
    <3> DEFINE q == IF RotationDue THEN "rotateSync" ELSE "write"
    <3>1. q \in {"rotateSync", "write"}
      OBVIOUS
    <3>2. op' = [Idle EXCEPT !.pc = q, !.id = nextId, !.force = force]
      BY <1>4 DEF AppendBegin
    <3> HIDE DEF q
    <3>3. op' = [pc |-> q, id |-> nextId, force |-> force, pre |-> 0,
                 prevHash |-> <<>>, prevSeq |-> 0, prevSep |-> FALSE,
                 complete |-> FALSE]
      BY <3>2 DEF Idle
    <3>4. <<>> \in Seq(Nat) /\ FALSE \in BOOLEAN /\ q \in Pc /\ 0 \in Nat
      BY <3>1 DEF Pc
    <3>5. op' \in Op
      BY <3>3, <3>4, <2>1, <1>4, Zenon DEF Op
    <3> QED BY <3>1, <3>3, <3>5
  <2>3. TypeCall'
    <3>1. result' \in [TraceId -> Results]
      BY <1>1, <1>4 DEF AppendBegin, TypeOK, TypeCall, Results
    <3>2. nextId' \in Nat \ {0}
      <4>1. nextId' = nextId + 1
        BY <1>4 DEF AppendBegin
      <4> QED BY <4>1, <2>1
    <3>3. acks' = acks /\ crashes' = crashes
      BY <1>4 DEF AppendBegin
    <3> QED BY <3>1, <3>2, <3>3, <1>1, <2>2 DEF TypeOK, TypeCall
  <2>4. ~poisoned /\ ~poisoned'
    BY <1>2, <1>4 DEF AppendBegin
  <2>5. OpInv'
    BY <1>1, <1>2, <2>2, <2>4 DEF OpInv, BeforeWrite
  <2> QED BY <1>2, <2>3, <2>5 DEF ChainInv, TypeOK
<1> QED BY <1>3, <1>4

\* Write at the tail.
LEMMA StepWrite ==
    ASSUME ChainInv, Write
    PROVE  ChainInv'
<1>1. /\ TypeOK /\ DiskInv /\ OpInv /\ Clean(stream) /\ stream \in Seq(Token)
      /\ Len(stream) \in Nat /\ synced \in Nat /\ synced <= Len(stream)
  BY StreamFacts DEF ChainInv
<1>2. /\ op.pc = "write" /\ status = "serving" /\ ~poisoned /\ op.id \in TraceId
      /\ AtTail(stream, lastHash, needsSeparator)
  BY <1>1 DEF Write, OpInv, BeforeWrite
<1>3. op.id \in Nat /\ needsSeparator \in BOOLEAN /\ lastHash \in Seq(Nat) /\ appendSeq \in Nat
  BY <1>1, <1>2, AuditAssumption DEF TypeOK, TypeProc, TraceId
<1>4. /\ Whole(stream') /\ IsTail(stream', Len(stream'), Append(lastHash, op.id))
      /\ ~EndsOpen(stream')
      /\ RecordTokens \in Seq(Token)
      /\ Len(stream') = Len(stream) + Len(RecordTokens)
      /\ \A i \in 1..Len(stream) : stream'[i] = stream[i]
  BY <1>2, <1>3, RecordExtends DEF Write, RecordTokens
<1>5. /\ stream' \in Seq(Token) /\ Clean(stream') /\ Len(stream) <= Len(stream')
      /\ Len(stream') \in Nat
  <2>1. Clean(stream')
    BY <1>4 DEF Whole
  <2>2. stream' \in Seq(Token) /\ Len(stream') \in Nat
    BY <2>1, CleanFacts
  <2>3. Len(RecordTokens) \in Nat
    BY <1>4
  <2> QED BY <2>1, <2>2, <2>3, <1>1, <1>4
<1>6. DiskInv'
  BY <1>1, <1>4, <1>5, DiskTouched DEF Write
<1>7. SubSeq(stream', 1, Len(stream)) = stream
  <2> DEFINE y == SubSeq(stream', 1, Len(stream))
  <2>1. Len(stream) \in 0..Len(stream')
    BY <1>1, <1>5
  <2>2. y \in Seq(Token) /\ Len(y) = Len(stream) /\ \A i \in 1..Len(stream) : y[i] = stream'[i]
    BY <2>1, <1>5
  <2> HIDE DEF y
  <2>3. y = stream
    BY <2>2, <1>1, <1>4, SeqEqual
  <2> QED BY <2>3 DEF y
<1>8. /\ lastHash' = Append(lastHash, op.id) /\ needsSeparator' = FALSE
      /\ status' = status /\ poisoned' = poisoned /\ lastHash' \in Seq(Nat)
      /\ synced' = synced
  BY <1>3 DEF Write
<1>9. AtTail(stream', lastHash', needsSeparator')
  BY <1>4, <1>8 DEF AtTail
<1>10. TypeDisk' /\ TypeProc'
  <2>1. TypeDisk'
    BY <1>1, <1>5 DEF Write, TypeOK, TypeDisk, dirVars
  <2>2. TypeProc'
    <3>1. needsSeparator' \in BOOLEAN /\ poisoned' \in BOOLEAN
      BY <1>1, <1>8 DEF TypeOK, TypeProc
    <3>2. /\ status' \in {"down", "serving", "refused"}
          /\ lastHash' \in Seq(Nat) /\ appendSeq' \in Nat
      BY <1>1, <1>3, <1>8 DEF Write, TypeOK, TypeProc
    <3> QED BY <3>1, <3>2 DEF TypeProc
  <2> QED BY <2>1, <2>2
<1>11. CASE ShouldSync(appendSeq + 1)
  <2>1. /\ op' = [op EXCEPT !.pc = "sync", !.pre = Len(stream),
                            !.prevHash = lastHash, !.prevSeq = appendSeq,
                            !.prevSep = needsSeparator, !.complete = TRUE]
        /\ UNCHANGED <<result, acks>>
    BY <1>11 DEF Write
  <2>2. /\ op' \in Op /\ op'.pc = "sync" /\ op'.pre = Len(stream)
        /\ op'.prevHash = lastHash /\ op'.prevSep = needsSeparator /\ op'.id = op.id
    BY <2>1, <1>1, <1>3 DEF TypeOK, TypeCall, Op, Pc
  <2>3. TypeCall'
    BY <2>1, <2>2, <1>1 DEF Write, TypeOK, TypeCall
  <2>4. OpInv'
    BY <2>2, <1>1, <1>2, <1>5, <1>7, <1>8, <1>9 DEF OpInv, BeforeWrite
  <2> QED BY <2>3, <2>4, <1>6, <1>10 DEF ChainInv, TypeOK
<1>12. CASE ~ShouldSync(appendSeq + 1)
  <2>1. /\ op' = Idle /\ result' = [result EXCEPT ![op.id] = "ok"]
        /\ acks' = acks \cup {[hash |-> lastHash', durable |-> FALSE]}
        /\ nextId' = nextId /\ crashes' = crashes
    BY <1>12 DEF Write, Finish
  <2>2. TypeCall'
    <3>1. op' \in Op
      BY <2>1 DEF Op, Idle, Pc
    <3>2. result' \in [TraceId -> Results]
      BY <2>1, <1>1 DEF TypeOK, TypeCall, Results
    <3>3. acks' \in SUBSET [hash : Seq(Nat), durable : BOOLEAN]
      <4>1. [hash |-> lastHash', durable |-> FALSE] \in [hash : Seq(Nat), durable : BOOLEAN]
        BY <1>8, Zenon
      <4> QED BY <4>1, <2>1, <1>1 DEF TypeOK, TypeCall
    <3> QED BY <2>1, <3>1, <3>2, <3>3, <1>1 DEF TypeOK, TypeCall
  <2>3. OpInv'
    BY <2>1, <1>9 DEF OpInv, BeforeWrite, Idle
  <2> QED BY <2>2, <2>3, <1>6, <1>10 DEF ChainInv, TypeOK
<1> QED BY <1>11, <1>12

\* A write that fails part-way.
LEMMA StepWriteFails ==
    ASSUME ChainInv, WriteFails
    PROVE  ChainInv'
<1>1. /\ TypeOK /\ DiskInv /\ OpInv /\ Clean(stream) /\ stream \in Seq(Token)
      /\ Len(stream) \in Nat /\ synced \in Nat /\ synced <= Len(stream)
  BY StreamFacts DEF ChainInv
<1>2. /\ op.pc = "write" /\ status = "serving" /\ ~poisoned /\ op.id \in TraceId
      /\ AtTail(stream, lastHash, needsSeparator)
  BY <1>1 DEF WriteFails, OpInv, BeforeWrite
<1>3. op.id \in Nat /\ needsSeparator \in BOOLEAN /\ lastHash \in Seq(Nat) /\ appendSeq \in Nat
  BY <1>1, <1>2, AuditAssumption DEF TypeOK, TypeProc, TraceId
<1>4. PICK w \in PartialWrites :
         /\ stream' = stream \o w
         /\ op' = [op EXCEPT !.pc = "truncate", !.pre = Len(stream),
                             !.prevHash = lastHash, !.prevSeq = appendSeq,
                             !.prevSep = needsSeparator,
                             !.complete = (w = RecordTokens)]
  BY DEF WriteFails
<1>5. /\ Clean(stream') /\ Len(stream) <= Len(stream')
      /\ \A i \in 1..Len(stream) : stream'[i] = stream[i]
  BY <1>2, <1>3, <1>4, PartialWriteClean
<1>6. stream' \in Seq(Token) /\ Len(stream') \in Nat
  BY <1>5 DEF Clean
<1>7. /\ images' = images \cup {stream'} /\ synced' = synced
      /\ UNCHANGED <<dirVars, status, procVars, result, acks, nextId, crashes>>
  BY DEF WriteFails
<1>8. DiskInv'
  BY <1>1, <1>5, <1>7, DiskTouched
<1>9. SubSeq(stream', 1, Len(stream)) = stream
  <2> DEFINE y == SubSeq(stream', 1, Len(stream))
  <2>1. Len(stream) \in 0..Len(stream')
    BY <1>1, <1>5, <1>6
  <2>2. y \in Seq(Token) /\ Len(y) = Len(stream) /\ \A i \in 1..Len(stream) : y[i] = stream'[i]
    BY <2>1, <1>6
  <2> HIDE DEF y
  <2>3. y = stream
    BY <2>2, <1>1, <1>5, SeqEqual
  <2> QED BY <2>3 DEF y
<1>10. /\ op' \in Op /\ op'.pc = "truncate" /\ op'.pre = Len(stream)
       /\ op'.prevHash = lastHash /\ op'.prevSep = needsSeparator /\ op'.id = op.id
  <2>1. (w = RecordTokens) \in BOOLEAN
    BY Zenon
  <2>2. op \in Op
    BY <1>1 DEF TypeOK, TypeCall
  <2> DEFINE c == (w = RecordTokens)
  <2> HIDE DEF c
  <2>3. op' = [op EXCEPT !.pc = "truncate", !.pre = Len(stream),
                         !.prevHash = lastHash, !.prevSeq = appendSeq,
                         !.prevSep = needsSeparator, !.complete = c]
    BY <1>4 DEF c
  <2>4. c \in BOOLEAN
    BY <2>1 DEF c
  <2> QED BY <2>2, <2>3, <2>4, <1>1, <1>3 DEF Op, Pc
<1>11. TypeDisk' /\ TypeProc' /\ TypeCall'
  <2>1. TypeDisk'
    BY <1>1, <1>6, <1>7 DEF TypeOK, TypeDisk, dirVars
  <2>2. TypeProc'
    BY <1>1, <1>7 DEF TypeOK, TypeProc, procVars
  <2>3. TypeCall'
    BY <1>1, <1>7, <1>10 DEF TypeOK, TypeCall
  <2> QED BY <2>1, <2>2, <2>3
<1>12. OpInv'
  BY <1>1, <1>2, <1>6, <1>7, <1>5, <1>9, <1>10 DEF OpInv, BeforeWrite, procVars
<1> QED BY <1>8, <1>11, <1>12 DEF ChainInv, TypeOK

\* The type of a finished call.
LEMMA FinishType ==
    ASSUME TypeCall, NEW r \in Results, Finish(r)
    PROVE  op' \in Op /\ result' \in [TraceId -> Results] /\ op' = Idle /\ op'.pc = "idle"
<1>1. op' = Idle
  BY DEF Finish
<1>2. Idle \in Op /\ Idle.pc = "idle"
  BY DEF Idle, Op, Pc
<1>3. result' \in [TraceId -> Results]
  BY DEF Finish, TypeCall
<1> QED BY <1>1, <1>2, <1>3

\* The durability barrier, both outcomes.
LEMMA StepSync ==
    ASSUME ChainInv, Sync \/ SyncFails
    PROVE  ChainInv'
<1>1. /\ TypeOK /\ DiskInv /\ OpInv /\ Clean(stream) /\ stream \in Seq(Token)
      /\ Len(stream) \in Nat
  BY StreamFacts DEF ChainInv
<1>2. /\ op.pc = "sync" /\ status = "serving" /\ ~poisoned /\ op.id \in TraceId
      /\ AtTail(stream, lastHash, needsSeparator)
      /\ stream' = stream /\ status' = status
      /\ UNCHANGED <<lastHash, needsSeparator, appendSeq, poisoned>>
  BY <1>1 DEF Sync, SyncFails, OpInv, BeforeWrite, procVars, diskVars
<1>3. TypeProc'
  BY <1>1, <1>2 DEF TypeOK, TypeProc
<1>4. CASE Sync
  <2>1. DiskInv'
    BY <1>1, <1>2, <1>4, DiskSynced DEF Sync
  <2>2. op' \in Op /\ result' \in [TraceId -> Results] /\ op' = Idle /\ op'.pc = "idle"
    BY <1>1, <1>4, FinishType DEF Sync, TypeOK, Results
  <2>3. acks' \in SUBSET [hash : Seq(Nat), durable : BOOLEAN]
    <3>1. op.prevHash \in Seq(Nat) /\ op.id \in Nat
      BY <1>1 DEF TypeOK, TypeCall, Op
    <3>2. Append(op.prevHash, op.id) \in Seq(Nat)
      BY <3>1
    <3>3. [hash |-> Append(op.prevHash, op.id), durable |-> TRUE]
             \in [hash : Seq(Nat), durable : BOOLEAN]
      BY <3>2, Zenon
    <3> QED BY <3>3, <1>1, <1>4 DEF Sync, Ack, TypeOK, TypeCall
  <2>4. TypeCall'
    BY <2>2, <2>3, <1>1, <1>4 DEF Sync, TypeOK, TypeCall
  <2>5. TypeDisk'
    BY <1>1, <1>4 DEF Sync, SyncedNow, TypeOK, TypeDisk
  <2>6. OpInv'
    BY <1>2, <2>2 DEF OpInv, BeforeWrite
  <2> QED BY <2>1, <2>4, <2>5, <2>6, <1>3 DEF ChainInv, TypeOK
<1>5. CASE SyncFails
  <2>1. DiskInv'
    BY <1>1, <1>5, DiskSame DEF SyncFails
  <2>2. /\ op' \in Op /\ op'.pc = "truncate" /\ op'.pre = op.pre /\ op'.id = op.id
        /\ op'.prevHash = op.prevHash /\ op'.prevSep = op.prevSep
    BY <1>1, <1>5 DEF SyncFails, TypeOK, TypeCall, Op, Pc
  <2>3. TypeCall'
    BY <2>2, <1>1, <1>5 DEF SyncFails, TypeOK, TypeCall
  <2>4. TypeDisk'
    BY <1>1, <1>5 DEF SyncFails, TypeOK, TypeDisk, diskVars, dirVars
  <2>5. synced' = synced
    BY <1>5 DEF SyncFails, diskVars
  <2>6. OpInv'
    BY <1>1, <1>2, <2>2, <2>5 DEF OpInv, BeforeWrite
  <2> QED BY <2>1, <2>3, <2>4, <2>6, <1>3 DEF ChainInv, TypeOK
<1> QED BY <1>4, <1>5

\* rollbackAuditWriteLocked, all outcomes.
LEMMA StepRollback ==
    ASSUME ChainInv, RollbackTruncate \/ RollbackSync \/ RollbackFails
    PROVE  ChainInv'
<1>1. /\ TypeOK /\ DiskInv /\ OpInv /\ Clean(stream) /\ stream \in Seq(Token)
      /\ Len(stream) \in Nat /\ synced \in Nat /\ synced <= Len(stream)
  BY StreamFacts DEF ChainInv
<1>2. op.pc \in {"truncate", "rollbackSync"}
  BY DEF RollbackTruncate, RollbackSync, RollbackFails
<1>3. /\ op \in Op /\ op.pre \in Nat /\ op.prevHash \in Seq(Nat)
      /\ op.prevSeq \in Nat /\ op.prevSep \in BOOLEAN
  BY <1>1 DEF TypeOK, TypeCall, Op
<1>4. /\ status = "serving" /\ ~poisoned /\ op.id \in TraceId
      /\ synced <= op.pre /\ op.pre <= Len(stream)
      /\ AtTail(SubSeq(stream, 1, op.pre), op.prevHash, op.prevSep)
  BY <1>1, <1>2 DEF OpInv, BeforeWrite
<1> DEFINE y == SubSeq(stream, 1, op.pre)
<1>5. /\ Clean(y) /\ y \in Seq(Token) /\ Len(y) = op.pre
      /\ \A i \in 1..op.pre : y[i] = stream[i]
  <2>1. op.pre \in 0..Len(stream)
    BY <1>1, <1>3, <1>4
  <2> QED BY <2>1, <1>1, CleanPrefix DEF Clean
<1>6. SubSeq(y, 1, op.pre) = y
  <2> HIDE DEF y
  <2> QED BY <1>5, SubSeqFull
<1>7. CASE RollbackTruncate
  <2>1. /\ stream' = y /\ images' = images \cup {stream'} /\ synced' = synced
        /\ op' = [op EXCEPT !.pc = "rollbackSync"]
        /\ UNCHANGED <<dirVars, status, procVars, result, acks, nextId, crashes>>
    BY <1>7 DEF RollbackTruncate
  <2>2. /\ op' \in Op /\ op'.pc = "rollbackSync" /\ op'.pre = op.pre /\ op'.id = op.id
        /\ op'.prevHash = op.prevHash /\ op'.prevSep = op.prevSep
    BY <2>1, <1>3 DEF Op, Pc
  <2> HIDE DEF y
  <2>3. DiskInv'
    <3>1. synced <= Len(stream') /\ \A i \in 1..synced : stream'[i] = stream[i]
      BY <2>1, <1>1, <1>3, <1>4, <1>5
    <3> QED BY <3>1, <2>1, <1>1, <1>5, DiskTouched
  <2>4. TypeDisk'
    BY <2>1, <1>1, <1>5 DEF TypeOK, TypeDisk, dirVars
  <2>5. TypeProc'
    BY <2>1, <1>1 DEF TypeOK, TypeProc, procVars
  <2>6. TypeCall'
    BY <2>1, <2>2, <1>1 DEF TypeOK, TypeCall
  <2>7. AtTail(SubSeq(stream', 1, op'.pre), op'.prevHash, op'.prevSep)
    BY <2>1, <2>2, <1>4, <1>6 DEF y
  <2>8. OpInv'
    BY <2>1, <2>2, <2>7, <1>3, <1>4, <1>5 DEF OpInv, BeforeWrite, procVars
  <2> QED BY <2>3, <2>4, <2>5, <2>6, <2>8 DEF ChainInv, TypeOK
<1>8. CASE RollbackSync
  <2>1. op.pre = Len(stream) /\ y = stream
    <3>1. op.pre = Len(stream)
      BY <1>1, <1>8 DEF RollbackSync, OpInv
    <3> QED BY <3>1, <1>1, SubSeqFull
  <2>2. /\ stream' = stream /\ cuts' = cuts /\ SyncedNow /\ lastHash' = op.prevHash
        /\ appendSeq' = op.prevSeq /\ needsSeparator' = op.prevSep /\ Finish("failed")
        /\ UNCHANGED <<status, poisoned, acks, nextId, crashes>>
    BY <1>8 DEF RollbackSync
  <2>3. DiskInv'
    BY <2>2, <1>1, DiskSynced
  <2>4. op' \in Op /\ result' \in [TraceId -> Results] /\ op'.pc = "idle"
    BY <2>2, <1>1, FinishType DEF TypeOK, Results
  <2>5. TypeDisk'
    BY <2>2, <1>1 DEF SyncedNow, TypeOK, TypeDisk
  <2>6. TypeProc'
    BY <2>2, <1>1, <1>3 DEF TypeOK, TypeProc
  <2>7. TypeCall'
    BY <2>2, <2>4, <1>1 DEF TypeOK, TypeCall
  <2>8. AtTail(stream', lastHash', needsSeparator')
    BY <2>1, <2>2, <1>4
  <2>9. OpInv'
    BY <2>4, <2>8 DEF OpInv, BeforeWrite
  <2> QED BY <2>3, <2>5, <2>6, <2>7, <2>9 DEF ChainInv, TypeOK
<1>9. CASE RollbackFails
  <2>1. /\ stream' = stream /\ cuts' = cuts /\ poisoned' = TRUE
        /\ UNCHANGED <<status, lastHash, needsSeparator, appendSeq, acks, nextId, crashes>>
        /\ (SyncedNow \/ UNCHANGED <<diskVars, dirVars>>)
        /\ Finish(IF op.complete THEN "committed" ELSE "indeterminate")
    BY <1>9 DEF RollbackFails, diskVars, dirVars
  <2>2. DiskInv'
    BY <2>1, <1>1, DiskSynced, DiskSame
  <2>3. op' \in Op /\ result' \in [TraceId -> Results] /\ op'.pc = "idle"
    BY <2>1, <1>1, FinishType DEF TypeOK, Results
  <2>4. TypeDisk'
    <3>1. CASE SyncedNow
      BY <3>1, <2>1, <1>1 DEF SyncedNow, TypeOK, TypeDisk
    <3>2. CASE UNCHANGED <<diskVars, dirVars>>
      BY <3>2, <1>1 DEF TypeOK, TypeDisk, diskVars, dirVars
    <3> QED BY <3>1, <3>2, <2>1
  <2>5. TypeProc'
    <3>1. poisoned' \in BOOLEAN /\ needsSeparator' \in BOOLEAN
      BY <2>1, <1>1 DEF TypeOK, TypeProc
    <3> QED BY <3>1, <2>1, <1>1 DEF TypeOK, TypeProc
  <2>6. TypeCall'
    BY <2>1, <2>3, <1>1 DEF TypeOK, TypeCall
  <2>7. OpInv'
    BY <2>1, <2>3 DEF OpInv, BeforeWrite
  <2> QED BY <2>2, <2>4, <2>5, <2>6, <2>7 DEF ChainInv, TypeOK
<1> QED BY <1>7, <1>8, <1>9

\* The rotation steps: none of them moves the stream.
LEMMA StepRotate ==
    ASSUME ChainInv, \/ RotateSync \/ RotateSyncFails \/ RotateRename \/ RotateOpen
                     \/ RotateBarrier \/ RotateFails \/ RotateStat
    PROVE  ChainInv'
<1>1. /\ TypeOK /\ DiskInv /\ OpInv /\ Clean(stream) /\ stream \in Seq(Token)
      /\ Len(stream) \in Nat
  BY StreamFacts DEF ChainInv
<1>2. /\ op.pc \in {"rotateSync", "rename", "openActive", "barrier", "statNew"}
      /\ stream' = stream
      /\ UNCHANGED <<status, lastHash, needsSeparator, appendSeq, acks, nextId, crashes>>
  BY DEF RotateSync, RotateSyncFails, RotateRename, RotateOpen, RotateBarrier,
         RotateFails, RotateStat, diskVars, procVars
<1>3. /\ status = "serving" /\ ~poisoned /\ op.id \in TraceId
      /\ AtTail(stream, lastHash, needsSeparator)
  BY <1>1, <1>2 DEF OpInv, BeforeWrite
<1>4. DiskInv'
  BY <1>1, <1>2, DiskSame, DiskSynced
     DEF RotateSync, RotateSyncFails, RotateRename, RotateOpen, RotateBarrier,
         RotateFails, RotateStat
<1>5. TypeDisk'
  <2>1. CASE RotateSync
    BY <2>1, <1>1 DEF RotateSync, SyncedNow, TypeOK, TypeDisk
  <2>2. CASE RotateRename
    <3>1. cuts' = Append(cuts, Len(stream)) /\ UNCHANGED <<stream, images, synced, cutsSynced>>
      BY <2>2 DEF RotateRename, diskVars
    <3>2. cuts' \in Seq(Nat)
      BY <3>1, <1>1 DEF TypeOK, TypeDisk
    <3> QED BY <3>1, <3>2, <1>1 DEF TypeOK, TypeDisk
  <2>3. CASE RotateSyncFails \/ RotateOpen \/ RotateBarrier \/ RotateFails \/ RotateStat
    BY <2>3, <1>1 DEF RotateSyncFails, RotateOpen, RotateBarrier, RotateFails,
                      RotateStat, TypeOK, TypeDisk, diskVars, dirVars
  <2> QED BY <2>1, <2>2, <2>3
<1>6. /\ op' \in Op /\ result' \in [TraceId -> Results] /\ poisoned' \in BOOLEAN
      /\ \/ op'.pc = "idle"
         \/ /\ op'.pc \in {"rename", "openActive", "barrier", "statNew", "write"}
            /\ op'.id = op.id /\ poisoned' = poisoned
  <2>1. CASE RotateSyncFails \/ RotateFails \/ (RotateStat /\ Finish("failed"))
    <3>1. Finish("failed") \/ Finish("poisoned")
      BY <2>1 DEF RotateSyncFails, RotateFails
    <3>2. poisoned' \in BOOLEAN
      BY <2>1, <1>1 DEF RotateSyncFails, RotateFails, RotateStat, procVars, TypeOK, TypeProc
    <3> QED BY <3>1, <3>2, <1>1, FinishType DEF TypeOK, Results
  <2>2. CASE RotateSync \/ RotateRename \/ RotateOpen \/ RotateBarrier
             \/ (RotateStat /\ ~Finish("failed"))
    <3>1. PICK q \in {"rename", "openActive", "barrier", "statNew", "write"} :
             op' = [op EXCEPT !.pc = q]
      BY <2>2 DEF RotateSync, RotateRename, RotateOpen, RotateBarrier, RotateStat
    <3>2. result' = result /\ poisoned' = poisoned
      BY <2>2 DEF RotateSync, RotateRename, RotateOpen, RotateBarrier, RotateStat, procVars
    <3>3. op' \in Op /\ op'.pc = q /\ op'.id = op.id
      BY <3>1, <1>1 DEF TypeOK, TypeCall, Op, Pc
    <3> QED BY <3>2, <3>3, <1>1 DEF TypeOK, TypeCall, TypeProc
  <2> QED BY <2>1, <2>2
<1>7. TypeProc' /\ TypeCall'
  BY <1>1, <1>2, <1>6 DEF TypeOK, TypeProc, TypeCall
<1>8. OpInv'
  BY <1>2, <1>3, <1>6 DEF OpInv, BeforeWrite
<1> QED BY <1>4, <1>5, <1>7, <1>8 DEF ChainInv, TypeOK

\* Kills, power losses and the operator's repair.
LEMMA StepCrash ==
    ASSUME ChainInv, Kill \/ PowerLoss \/ OperatorRepair
    PROVE  ChainInv'
<1>1. /\ TypeOK /\ DiskInv /\ OpInv /\ Clean(stream) /\ stream \in Seq(Token)
      /\ Len(stream) \in Nat /\ synced \in Nat /\ synced <= Len(stream)
  BY StreamFacts DEF ChainInv
<1>2. ASSUME Die
      PROVE  /\ TypeProc' /\ status' = "down" /\ op'.pc = "idle" /\ op' \in Op
             /\ result' \in [TraceId -> Results]
             /\ nextId' \in Nat \ {0} /\ crashes' \in Nat /\ OpInv'
  <2>1. TypeProc' /\ status' = "down"
    BY <1>1, <1>2 DEF Die, TypeOK, TypeProc, procVars
  <2>2. op' = Idle /\ op' \in Op /\ op'.pc = "idle"
    BY <1>2 DEF Die, Idle, Op, Pc
  <2>3. result' \in [TraceId -> Results]
    BY <1>1, <1>2 DEF Die, TypeOK, TypeCall, Results
  <2>4. nextId' \in Nat \ {0} /\ crashes' \in Nat
    BY <1>1, <1>2 DEF Die, TypeOK, TypeCall
  <2>5. OpInv'
    BY <2>1, <2>2 DEF OpInv, BeforeWrite
  <2> QED BY <2>1, <2>2, <2>3, <2>4, <2>5
<1>3. CASE Kill
  <2>1. DiskInv' /\ TypeDisk'
    BY <1>1, <1>3, DiskSame DEF Kill, TypeOK, TypeDisk, diskVars, dirVars
  <2>2. acks' = acks /\ Die
    BY <1>3 DEF Kill
  <2>3. TypeCall'
    BY <2>2, <1>1, <1>2 DEF TypeOK, TypeCall
  <2> QED BY <2>1, <2>2, <2>3, <1>2 DEF ChainInv, TypeOK
<1>4. CASE PowerLoss
  <2>1. PICK img \in images : stream' \in Survivors(img)
    BY <1>4 DEF PowerLoss
  <2>2. Clean(stream') /\ stream' \in Seq(Token) /\ Len(stream') \in Nat
    <3>1. Clean(img) /\ synced <= Len(img)
      BY <1>1 DEF DiskInv
    <3>2. Clean(stream')
      BY <3>1, <2>1, <1>1, SurvivorClean
    <3> QED BY <3>2, CleanFacts
  <2>3. /\ images' = {stream'} /\ synced' = Len(stream') /\ cuts' \in {cuts, cutsSynced}
        /\ cutsSynced' = cuts' /\ acks' = {a \in acks : a.durable} /\ Die
    BY <1>4 DEF PowerLoss
  <2>4. DiskInv'
    BY <2>2, <2>3 DEF DiskInv
  <2>5. TypeDisk'
    BY <2>2, <2>3, <1>1 DEF TypeOK, TypeDisk
  <2>6. TypeCall'
    <3>1. acks' \in SUBSET [hash : Seq(Nat), durable : BOOLEAN]
      BY <2>3, <1>1 DEF TypeOK, TypeCall
    <3> QED BY <3>1, <2>3, <1>2 DEF TypeCall
  <2> QED BY <2>3, <2>4, <2>5, <2>6, <1>2 DEF ChainInv, TypeOK
<1>5. CASE OperatorRepair
  <2>1. /\ stream' = SubSeq(stream, 1, Len(stream) - 1) /\ Len(stream) > 0
        /\ status = "refused" /\ SyncedNow /\ cuts' = cuts
        /\ UNCHANGED <<status, procVars, op, result, acks, nextId, crashes>>
    BY <1>5 DEF OperatorRepair
  <2>2. Clean(stream') /\ stream' \in Seq(Token) /\ Len(stream') \in Nat
    <3>1. Len(stream) - 1 \in 0..Len(stream)
      BY <2>1, <1>1
    <3>2. Clean(SubSeq(stream, 1, Len(stream) - 1))
      BY <3>1, <1>1, CleanPrefix
    <3>3. Clean(stream')
      BY <3>2, <2>1
    <3> QED BY <3>3 DEF Clean
  <2>3. DiskInv'
    BY <2>1, <2>2, DiskSynced
  <2>4. TypeDisk'
    BY <2>1, <2>2, <1>1 DEF SyncedNow, TypeOK, TypeDisk
  <2>5. TypeProc'
    BY <2>1, <1>1 DEF TypeOK, TypeProc, procVars
  <2>6. TypeCall'
    BY <2>1, <1>1 DEF TypeOK, TypeCall
  <2>7. status' = "refused" /\ op' = op /\ op.pc = "idle"
    BY <2>1, <1>1 DEF OpInv
  <2>8. OpInv'
    BY <2>7 DEF OpInv, BeforeWrite
  <2> QED BY <2>3, <2>4, <2>5, <2>6, <2>8 DEF ChainInv, TypeOK
<1> QED BY <1>3, <1>4, <1>5

\* The inductive invariant holds at the start.
LEMMA ChainInvInit == Init => ChainInv
<1> SUFFICES ASSUME Init PROVE ChainInv
  OBVIOUS
<1>1. <<>> \in Seq(Token) /\ Len(<<>>) = 0 /\ <<>> \in Seq(Nat)
  OBVIOUS
<1>2. Clean(<<>>)
  <2> DEFINE e == <<>>
  <2>1. IsTail(e, 0, <<>>)
    BY DEF IsTail
  <2>2. e \in Seq(Token) /\ Len(e) = 0
    BY <1>1
  <2> HIDE DEF e
  <2>3. \A n \in 0..Len(e) : \E h \in Seq(Nat) : IsTail(e, n, h)
    <3>1. \A n \in 0..Len(e) : n = 0
      BY <2>2
    <3> QED BY <3>1, <2>1, <1>1
  <2>4. \A i \in 1..Len(e) : FALSE
    BY <2>2
  <2>5. \A i \in 1..(Len(e) - 1) : FALSE
    BY <2>2
  <2>6. Clean(e)
    BY <2>2, <2>3, <2>4, <2>5 DEF Clean
  <2> QED BY <2>6 DEF e
<1>3. DiskInv
  BY <1>1, <1>2 DEF Init, DiskInv
<1>4. op = Idle /\ op \in Op /\ op.pc = "idle" /\ status = "down"
  BY DEF Init, Idle, Op, Pc
<1>5. OpInv
  BY <1>4 DEF OpInv, BeforeWrite
<1>6. TypeDisk
  BY <1>1 DEF Init, TypeDisk
<1>7. TypeProc
  <2>1. needsSeparator \in BOOLEAN /\ poisoned \in BOOLEAN
    BY DEF Init
  <2> QED BY <2>1, <1>1 DEF Init, TypeProc
<1>8. TypeCall
  <2>1. result \in [TraceId -> Results]
    BY DEF Init, Results
  <2> QED BY <2>1, <1>4 DEF Init, TypeCall
<1> QED BY <1>3, <1>5, <1>6, <1>7, <1>8 DEF ChainInv, TypeOK

\* Every step, and every stutter, keeps the invariant.
LEMMA ChainInvStep == ChainInv /\ [Next]_vars => ChainInv'
<1> SUFFICES ASSUME ChainInv, [Next]_vars PROVE ChainInv'
  OBVIOUS
<1>1. CASE UNCHANGED vars
  BY <1>1 DEF ChainInv, TypeOK, TypeDisk, TypeProc, TypeCall, DiskInv, OpInv,
              BeforeWrite, vars
<1>2. CASE Next
  BY <1>2, StepOpen, StepBegin, StepWrite, StepWriteFails, StepSync, StepRollback,
     StepRotate, StepCrash DEF Next
<1> QED BY <1>1, <1>2

\* The inductive invariant holds throughout: the writer never loses track of
\* the chain, whatever part of an append, a rollback or a rotation fails.
THEOREM ChainInvariant == Spec => []ChainInv
BY ChainInvInit, ChainInvStep, PTL DEF Spec

-----------------------------------------------------------------------------
(* The theorems *)

\* Every variable of the writer keeps its type, for every configuration.
THEOREM TypeCorrect == Spec => []TypeOK
<1>1. ChainInv => TypeOK
  BY DEF ChainInv
<1> QED BY <1>1, ChainInvariant, PTL

\* appendTraceWithDurability always writes at the verified tail: whatever
\* writes, syncs, rotations, kills and power losses came before, the rotation
\* set verifies and lastHash and the separator flag describe its last record.
THEOREM WriterAlwaysAtTail == Spec => []WriterAtTail
<1>1. ChainInv => WriterAtTail
  <2> SUFFICES ASSUME ChainInv, status = "serving", ~poisoned, BeforeWrite
               PROVE  /\ Intact(stream) /\ lastHash = TailHash(stream)
                      /\ EndsOpen(stream) => needsSeparator
    BY DEF WriterAtTail
  <2>1. AtTail(stream, lastHash, needsSeparator) /\ stream \in Seq(Token)
    BY DEF ChainInv, OpInv, TypeOK, TypeDisk
  <2>2. TailHash(stream) = lastHash
    BY <2>1, TailUnique DEF AtTail
  <2> QED BY <2>1, <2>2, WholeIntact DEF AtTail
<1> QED BY <1>1, ChainInvariant, PTL

\* Whatever content stable storage may hold when the machine stops, it is one
\* unforked chain with at worst a torn last line.
THEOREM CrashNeverForksChain == Spec => []EveryImageRecoverable
<1>1. ChainInv => EveryImageRecoverable
  <2> SUFFICES ASSUME ChainInv, NEW img \in images
               PROVE  Recoverable(img)
    BY DEF EveryImageRecoverable
  <2>1. Clean(img) /\ img \in Seq(Token) /\ Len(img) \in Nat
    BY DEF ChainInv, DiskInv, Clean
  <2>2. CASE Whole(img)
    BY <2>2, WholeIntact DEF Recoverable
  <2>3. CASE ~Whole(img)
    <3>1. Len(img) > 0 /\ img[Len(img)].kind = "torn"
      BY <2>1, <2>3 DEF Whole
    <3>2. Len(img) - 1 \in 0..Len(img) /\ Len(img) - 1 < Len(img)
      BY <2>1, <3>1
    <3>3. Whole(SubSeq(img, 1, Len(img) - 1))
      BY <2>1, <3>2, CleanPrefix
    <3> QED BY <3>1, <3>3, WholeIntact DEF Recoverable
  <2> QED BY <2>2, <2>3
<1> QED BY <1>1, ChainInvariant, PTL

-----------------------------------------------------------------------------
(* What AuditChain promises its callers and its readers: acknowledged      *)
(* records stay, refused records never appear, and the writer implements   *)
(* the abstract log of AuditLog.  PromiseInv is the inductive invariant;   *)
(* what it adds to ChainInv is said body by body, at the position the body *)
(* has in the stream.                                                      *)

\* A body with hash h is among the first n tokens of s.
Holds(s, n, h) == \E i \in 1..n : s[i].kind = "rec" /\ Hash(s[i]) = h

\* No body of s carries the trace t.
Absent(s, t) == \A i \in 1..Len(s) : s[i].kind = "rec" => s[i].id # t

\* The part of the stream that the append in progress will not take back.
Kept == IF BeforeWrite THEN Len(stream) ELSE op.pre

\* Acknowledged records are in the kept part, durable ones in the synced part.
AckInv ==
    \A a \in acks : /\ Holds(stream, Kept, a.hash)
                    /\ a.durable => Holds(stream, synced, a.hash)

\* A trace is on no disk content before its own write, and not below the
\* rollback boundary during it; what was refused is on none.
FailInv ==
    /\ \A t \in Nat : t >= nextId => \A img \in images : Absent(img, t)
    /\ op.pc # "idle" => op.id < nextId /\ result[op.id] = "running"
    /\ op.pc # "idle" /\ BeforeWrite => \A img \in images : Absent(img, op.id)
    /\ ~BeforeWrite => \A i \in 1..op.pre : stream[i].kind = "rec" => stream[i].id # op.id
    /\ \A t \in TraceId : result[t] \in {"failed", "poisoned"} =>
          \A img \in images : Absent(img, t)

\* The hash a commits to no more than the hash b does.
Before(a, b) == Len(a) <= Len(b) /\ \A k \in 1..Len(a) : a[k] = b[k]

\* Each body commits to all the bodies before it.
Linked(s) ==
    \A i, j \in 1..Len(s) :
        i <= j /\ s[i].kind = "rec" /\ s[j].kind = "rec" => Before(Hash(s[i]), Hash(s[j]))

\* Every trace a body commits to was offered.
Known(s, n) ==
    \A i \in 1..Len(s) : s[i].kind = "rec" => Hash(s[i]) \in Seq(1..(n - 1))

\* Every content of the disk is one history of offered traces, and a write
\* under rollback added at most its own record.
LogInv ==
    /\ \A img \in images : Linked(img) /\ Known(img, nextId)
    /\ op.pc = "truncate" => \/ IsTail(stream, Len(stream), op.prevHash)
                             \/ IsTail(stream, Len(stream), Append(op.prevHash, op.id))

PromiseInv == ChainInv /\ AckInv /\ FailInv /\ LogInv

-----------------------------------------------------------------------------
(* How a step changes what the disk may hold *)

\* Every body of x is at the same place in y.
Within(x, y) ==
    \A i \in 1..Len(x) : x[i].kind = "rec" => i \in 1..Len(y) /\ y[i] = x[i]

\* Every body of x is in the stream, or is the record being written.
Grown(x) ==
    \A i \in 1..Len(x) : x[i].kind = "rec" =>
        \/ i \in 1..Len(stream) /\ x[i] = stream[i]
        \/ i > Len(stream) /\ x[i] = Rec(lastHash, op.id)

\* The seven ways a step can treat the files.
LEMMA DiskSteps ==
    ASSUME [Next]_vars
    PROVE  \/ UNCHANGED diskVars
           \/ stream' = stream /\ images' = {stream} /\ synced' = Len(stream)
           \/ Write \/ WriteFails \/ RollbackTruncate \/ PowerLoss \/ OperatorRepair
<1>1. CASE UNCHANGED vars
  BY <1>1 DEF vars, diskVars
<1>2. CASE Open \/ OpenRefused \/ (\E force \in BOOLEAN : AppendBegin(force)) \/ AppendRejected
  BY <1>2 DEF Open, OpenRefused, AppendBegin, AppendRejected, diskVars
<1>3. CASE Sync \/ SyncFails \/ RollbackSync \/ RollbackFails
  BY <1>3 DEF Sync, SyncFails, RollbackSync, RollbackFails, SyncedNow, diskVars
<1>4. CASE RotateSync \/ RotateSyncFails \/ RotateRename \/ RotateOpen
  BY <1>4 DEF RotateSync, RotateSyncFails, RotateRename, RotateOpen, SyncedNow, diskVars
<1>5. CASE RotateBarrier \/ RotateFails \/ RotateStat \/ Kill
  BY <1>5 DEF RotateBarrier, RotateFails, RotateStat, Kill, diskVars
<1> QED BY <1>1, <1>2, <1>3, <1>4, <1>5 DEF Next

\* A prefix holds the bodies it was cut from.
LEMMA WithinPrefix ==
    ASSUME NEW s \in Seq(Token), NEW k \in 0..Len(s)
    PROVE  Within(SubSeq(s, 1, k), s) /\ Within(Append(SubSeq(s, 1, k), Torn), s)
<1> DEFINE p == SubSeq(s, 1, k)
           t == Append(p, Torn)
<1>1. /\ p \in Seq(Token) /\ Len(p) = k /\ Len(s) \in Nat /\ k <= Len(s)
      /\ \A i \in 1..k : p[i] = s[i]
  OBVIOUS
<1>2. Torn \in Token /\ Torn.kind = "torn"
  BY TokenTypes DEF Torn
<1> HIDE DEF p
<1>3. Len(t) = k + 1 /\ t[k + 1] = Torn /\ \A i \in 1..k : t[i] = p[i]
  BY <1>1, <1>2
<1> HIDE DEF t
<1>4. \A i \in 1..k : i \in 1..Len(s)
  BY <1>1
<1>5. Within(p, s)
  BY <1>1, <1>4 DEF Within
<1>6. \A i \in 1..Len(t) : i \in 1..k \/ i = k + 1
  BY <1>1, <1>3
<1>7. Within(t, s)
  BY <1>1, <1>2, <1>3, <1>4, <1>6 DEF Within
<1> QED BY <1>5, <1>7 DEF p, t

\* The record's only body is the record itself.
LEMMA RecordBodies ==
    ASSUME NEW h \in Seq(Nat), NEW sep \in BOOLEAN, NEW id \in Nat
    PROVE  /\ RecordOf(h, sep, id) \in Seq(Token)
           /\ \A i \in 1..Len(RecordOf(h, sep, id)) :
                 RecordOf(h, sep, id)[i].kind = "rec" => RecordOf(h, sep, id)[i] = Rec(h, id)
<1>1. Rec(h, id) \in Token /\ LF \in Token /\ LF.kind = "lf"
  BY TokenTypes DEF LF
<1> DEFINE r == RecordOf(h, sep, id)
<1>2. CASE sep
  <2>1. /\ r \in Seq(Token) /\ Len(r) = 3
        /\ r[1] = LF /\ r[2] = Rec(h, id) /\ r[3] = LF
    BY <1>1, <1>2 DEF RecordOf
  <2> HIDE DEF r
  <2>2. \A i \in 1..Len(r) : i = 1 \/ i = 2 \/ i = 3
    BY <2>1
  <2>3. \A i \in 1..Len(r) : r[i].kind = "rec" => r[i] = Rec(h, id)
    BY <1>1, <2>1, <2>2
  <2> QED BY <2>1, <2>3 DEF r
<1>3. CASE ~sep
  <2>1. r = <<Rec(h, id), LF>>
    BY <1>1, <1>3 DEF RecordOf
  <2> QED BY <1>1, <2>1
<1> QED BY <1>2, <1>3

\* A write, whole or partial, adds no body but its own.
LEMMA WriteGrows ==
    ASSUME ChainInv, op.pc = "write", NEW w,
           w = RecordTokens \/ w \in PartialWrites
    PROVE  w \in Seq(Token) /\ Grown(stream \o w)
<1>1. /\ stream \in Seq(Token) /\ Len(stream) \in Nat
      /\ lastHash \in Seq(Nat) /\ needsSeparator \in BOOLEAN /\ op.id \in Nat
  BY AuditAssumption DEF ChainInv, TypeOK, TypeDisk, TypeProc, OpInv, TraceId
<1> DEFINE R == RecordTokens
<1>2. /\ R \in Seq(Token) /\ Len(R) \in Nat
      /\ \A i \in 1..Len(R) : R[i].kind = "rec" => R[i] = Rec(lastHash, op.id)
  BY <1>1, RecordBodies DEF RecordTokens
<1> HIDE DEF R
<1>3. w \in Seq(Token) /\ Within(w, R)
  <2>1. CASE w = R
    BY <1>2, <2>1 DEF Within
  <2>2. CASE w \in {SubSeq(R, 1, n) : n \in 0..Len(R)}
    <3>1. PICK n \in 0..Len(R) : w = SubSeq(R, 1, n)
      BY <2>2
    <3> QED BY <1>2, <3>1, WithinPrefix
  <2>3. CASE w \in {Append(SubSeq(R, 1, n), Torn) :
                      n \in {m \in 0..(Len(R) - 1) : R[m + 1].kind = "rec"}}
    <3>1. PICK n \in 0..(Len(R) - 1) : w = Append(SubSeq(R, 1, n), Torn)
      BY <2>3
    <3>2. n \in 0..Len(R) /\ Torn \in Token
      BY <1>2, TokenTypes
    <3>3. SubSeq(R, 1, n) \in Seq(Token)
      BY <1>2, <3>2
    <3>4. w \in Seq(Token)
      BY <3>1, <3>2, <3>3, AppendProperties
    <3> QED BY <3>1, <3>2, <3>4, <1>2, WithinPrefix
  <2> QED BY <2>1, <2>2, <2>3 DEF PartialWrites, R
<1>4. \A i \in 1..Len(w) : w[i].kind = "rec" => w[i] = Rec(lastHash, op.id)
  BY <1>2, <1>3 DEF Within
<1> DEFINE x == stream \o w
           n0 == Len(stream)
<1>5. Len(x) = n0 + Len(w) /\ Len(w) \in Nat
  BY <1>1, <1>3
<1>6. ASSUME NEW i \in 1..Len(x), x[i].kind = "rec"
      PROVE  \/ i \in 1..Len(stream) /\ x[i] = stream[i]
             \/ i > Len(stream) /\ x[i] = Rec(lastHash, op.id)
  <2>1. CASE i <= n0
    BY <2>1, <1>1, <1>3, <1>5
  <2>2. CASE i > n0
    <3>1. x[i] = w[i - n0] /\ i - n0 \in 1..Len(w)
      BY <2>2, <1>1, <1>3, <1>5
    <3> QED BY <2>2, <3>1, <1>4, <1>6
  <2> QED BY <2>1, <2>2, <1>1
<1> QED BY <1>3, <1>6 DEF Grown

\* Whatever the disk may hold after a step, its bodies were on the disk before,
\* or are the record that append is writing.
LEMMA DiskBodies ==
    ASSUME ChainInv, [Next]_vars, NEW x \in images'
    PROVE  (\E y \in images : Within(x, y)) \/ (op.pc = "write" /\ Grown(x))
<1>1. TypeOK /\ DiskInv /\ OpInv /\ stream \in Seq(Token) /\ Len(stream) \in Nat
  BY StreamFacts DEF ChainInv
<1>2. stream \in images
  BY <1>1 DEF DiskInv
<1>3. \A y : Within(y, y)
  BY DEF Within
<1>4. CASE UNCHANGED diskVars
  BY <1>3, <1>4 DEF diskVars
<1>5. CASE stream' = stream /\ images' = {stream}
  BY <1>2, <1>3, <1>5
<1>6. CASE Write
  BY <1>3, <1>6, WriteGrows DEF Write
<1>7. CASE WriteFails
  <2>1. PICK w \in PartialWrites : stream' = stream \o w
    BY <1>7 DEF WriteFails
  <2>2. op.pc = "write" /\ images' = images \cup {stream'}
    BY <1>7 DEF WriteFails
  <2>3. Grown(stream')
    BY <2>1, <2>2, WriteGrows
  <2> QED BY <1>3, <2>2, <2>3
<1>8. CASE RollbackTruncate
  <2>1. op.pre \in 0..Len(stream)
    BY <1>1, <1>8 DEF RollbackTruncate, OpInv, BeforeWrite, TypeOK, TypeCall, Op
  <2>2. Within(stream', stream)
    BY <1>1, <1>8, <2>1, WithinPrefix DEF RollbackTruncate
  <2> QED BY <1>2, <1>3, <1>8, <2>2 DEF RollbackTruncate
<1>9. CASE PowerLoss
  <2>1. PICK img \in images : stream' \in Survivors(img)
    BY <1>9 DEF PowerLoss
  <2>2. x = stream'
    BY <1>9 DEF PowerLoss
  <2>3. img \in Seq(Token) /\ synced \in Nat /\ Len(img) \in Nat
    BY <1>1 DEF TypeOK, TypeDisk
  <2>4. PICK k \in 0..Len(img) : x = SubSeq(img, 1, k) \/ x = Append(SubSeq(img, 1, k), Torn)
    <3>1. CASE x \in {SubSeq(img, 1, k) : k \in synced..Len(img)}
      BY <3>1, <2>3
    <3>2. CASE x \in {Append(SubSeq(img, 1, k), Torn) :
                        k \in {m \in synced..(Len(img) - 1) : img[m + 1].kind = "rec"}}
      <4>1. PICK k \in synced..(Len(img) - 1) : x = Append(SubSeq(img, 1, k), Torn)
        BY <3>2
      <4>2. k \in 0..Len(img)
        BY <2>3
      <4> QED BY <4>1, <4>2
    <3> QED BY <2>1, <2>2, <3>1, <3>2 DEF Survivors
  <2> QED BY <2>3, <2>4, WithinPrefix
<1>10. CASE OperatorRepair
  <2>1. Len(stream) - 1 \in 0..Len(stream) /\ stream' = SubSeq(stream, 1, Len(stream) - 1)
    BY <1>1, <1>10 DEF OperatorRepair
  <2>2. x = stream'
    BY <1>10 DEF OperatorRepair, SyncedNow
  <2> QED BY <1>1, <1>2, <2>1, <2>2, WithinPrefix
<1> QED BY <1>4, <1>5, <1>6, <1>7, <1>8, <1>9, <1>10, DiskSteps

-----------------------------------------------------------------------------
(* Refused records never appear *)

\* A trace that is on no disk content gets there only by its own write.
LEMMA StaysAbsent ==
    ASSUME ChainInv, [Next]_vars, NEW t, \A img \in images : Absent(img, t),
           op.pc = "write" => t # op.id
    PROVE  \A img \in images' : Absent(img, t)
<1>1. stream \in images
  BY DEF ChainInv, DiskInv
<1>2. Rec(lastHash, op.id).id = op.id
  BY DEF Rec
<1> SUFFICES ASSUME NEW x \in images', NEW i \in 1..Len(x), x[i].kind = "rec"
             PROVE  x[i].id # t
  BY DEF Absent
<1>3. CASE \E y \in images : Within(x, y)
  BY <1>3 DEF Within, Absent
<1>4. CASE op.pc = "write" /\ Grown(x)
  BY <1>1, <1>2, <1>4 DEF Grown, Absent
<1> QED BY <1>3, <1>4, DiskBodies

\* The caller gets its answer: an error that claims nothing was written comes
\* before the write or after a synced rollback.
CallEnds ==
    /\ op.pc # "idle" /\ op' = Idle /\ nextId' = nextId
    /\ \/ \E r \in {"ok", "indeterminate", "committed", "lost"} :
             result' = [result EXCEPT ![op.id] = r]
       \/ /\ BeforeWrite /\ op.pc # "write"
          /\ \E r \in {"failed", "poisoned"} : result' = [result EXCEPT ![op.id] = r]
       \/ /\ op.pc = "rollbackSync" /\ images' = {stream}
          /\ result' = [result EXCEPT ![op.id] = "failed"]

\* The append moves on through the rotation.
CallGoesOn ==
    /\ op.pc \notin {"idle", "write"} /\ BeforeWrite
    /\ UNCHANGED <<stream, result, nextId>>
    /\ \E p \in {"rename", "openActive", "barrier", "statNew", "write"} :
          op' = [op EXCEPT !.pc = p]

\* How a step treats the append in progress and its caller: nothing happens to
\* it, it begins, it is refused at once, it writes, rolls back, goes on or ends.
LEMMA CallSteps ==
    ASSUME ChainInv, [Next]_vars
    PROVE  \/ UNCHANGED vars
           \/ op.pc = "idle" /\ (op' = op \/ op' = Idle) /\ UNCHANGED <<result, nextId>>
           \/ \E force \in BOOLEAN : AppendBegin(force)
           \/ AppendRejected
           \/ Write /\ UNCHANGED result
           \/ WriteFails \/ SyncFails \/ RollbackTruncate
           \/ CallGoesOn \/ CallEnds
<1>1. CASE UNCHANGED vars
  BY <1>1
<1>2. CASE Open \/ OpenRefused \/ OperatorRepair
  BY <1>2 DEF Open, OpenRefused, OperatorRepair, ChainInv, OpInv
<1>3. CASE (\E force \in BOOLEAN : AppendBegin(force)) \/ AppendRejected
  BY <1>3
<1>4. CASE Write
  BY <1>4 DEF Write, Finish, CallEnds
<1>5. CASE WriteFails \/ SyncFails \/ RollbackTruncate
  BY <1>5
<1>6. CASE Sync
  BY <1>6 DEF Sync, Finish, CallEnds
<1>7. CASE RollbackSync
  <2>1. op.pc = "rollbackSync" /\ images' = {stream} /\ op' = Idle /\ nextId' = nextId
        /\ result' = [result EXCEPT ![op.id] = "failed"]
    BY <1>7 DEF RollbackSync, SyncedNow, Finish
  <2> QED BY <2>1 DEF CallEnds
<1>8. CASE RollbackFails
  <2>1. /\ op.pc # "idle" /\ op' = Idle /\ nextId' = nextId
        /\ result' = [result EXCEPT ![op.id] = IF op.complete THEN "committed" ELSE "indeterminate"]
    BY <1>8 DEF RollbackFails, Finish
  <2> QED BY <2>1 DEF CallEnds
<1>9. CASE RotateSyncFails \/ RotateFails
  <2>1. op.pc \in {"rotateSync", "rename", "openActive", "barrier"} /\ op' = Idle /\ nextId' = nextId
        /\ \E r \in {"failed", "poisoned"} : result' = [result EXCEPT ![op.id] = r]
    BY <1>9 DEF RotateSyncFails, RotateFails, Finish
  <2> QED BY <2>1 DEF CallEnds, BeforeWrite
<1>10. CASE RotateStat
  BY <1>10 DEF RotateStat, Finish, CallEnds, CallGoesOn, BeforeWrite, diskVars
<1>11. CASE RotateSync \/ RotateRename \/ RotateOpen \/ RotateBarrier
  BY <1>11 DEF RotateSync, RotateRename, RotateOpen, RotateBarrier, CallGoesOn,
               BeforeWrite, diskVars
<1>12. CASE Kill \/ PowerLoss
  <2>1. Die
    BY <1>12 DEF Kill, PowerLoss
  <2> QED BY <2>1 DEF Die, CallEnds
<1> QED
  BY <1>1, <1>2, <1>3, <1>4, <1>5, <1>6, <1>7, <1>8, <1>9, <1>10, <1>11, <1>12 DEF Next

\* Every step keeps FailInv.
LEMMA FailStep ==
    ASSUME ChainInv, FailInv, [Next]_vars
    PROVE  FailInv'
<1>1. /\ TypeOK /\ DiskInv /\ OpInv /\ stream \in Seq(Token) /\ Len(stream) \in Nat
      /\ nextId \in Nat /\ op \in Op /\ result \in [TraceId -> Results]
  BY StreamFacts DEF ChainInv, TypeOK, TypeCall
<1>2. stream \in images /\ (op.pc # "idle" => op.id \in TraceId /\ op.id \in Nat)
  BY <1>1, AuditAssumption DEF DiskInv, OpInv, TraceId
<1>3. nextId' \in Nat /\ nextId' >= nextId
  <2>1. nextId' = nextId \/ nextId' = nextId + 1
    BY CallSteps DEF AppendBegin, AppendRejected, Write, WriteFails, SyncFails, RollbackTruncate,
                     CallGoesOn, CallEnds, vars
  <2> QED BY <2>1, <1>1
<1>4. \A t \in Nat : t >= nextId' => \A img \in images' : Absent(img, t)
  <2> SUFFICES ASSUME NEW t \in Nat, t >= nextId' PROVE \A img \in images' : Absent(img, t)
    OBVIOUS
  <2>1. t >= nextId
    BY <1>1, <1>3
  <2>2. \A img \in images : Absent(img, t)
    BY <2>1 DEF FailInv
  <2>3. op.pc = "write" => t # op.id
    BY <1>1, <1>2, <2>1 DEF FailInv
  <2> QED BY <2>2, <2>3, StaysAbsent
\* A caller whose answer does not change, and who is not writing.
<1>5. ASSUME NEW t \in TraceId, result[t] \in {"failed", "poisoned"}
      PROVE  \A img \in images' : Absent(img, t)
  <2>1. op.pc = "write" => t # op.id
    BY <1>5 DEF FailInv
  <2> QED BY <1>5, <2>1, StaysAbsent DEF FailInv
\* An append on its way to its write.
<1>6. ASSUME op.pc # "idle", BeforeWrite, op.pc # "write"
      PROVE  \A img \in images' : Absent(img, op.id)
  BY <1>6, StaysAbsent DEF FailInv
<1>7. CASE UNCHANGED vars
  BY <1>7 DEF FailInv, BeforeWrite, vars
<1>8. CASE op.pc = "idle" /\ (op' = op \/ op' = Idle) /\ UNCHANGED <<result, nextId>>
  <2>1. op'.pc = "idle"
    BY <1>8 DEF Idle
  <2> QED BY <2>1, <1>4, <1>5, <1>8 DEF FailInv, BeforeWrite
<1>9. CASE \E force \in BOOLEAN : AppendBegin(force)
  <2>1. PICK force \in BOOLEAN : AppendBegin(force)
    BY <1>9
  <2>2. /\ op'.id = nextId /\ op'.pc \in {"rotateSync", "write"} /\ nextId \in TraceId
        /\ result' = [result EXCEPT ![nextId] = "running"] /\ nextId' = nextId + 1
        /\ images' = images
    BY <2>1 DEF AppendBegin, Idle, diskVars
  <2>3. op'.id < nextId' /\ result'[op'.id] = "running"
    BY <2>2, <1>1
  <2>4. \A img \in images' : Absent(img, op'.id)
    BY <2>2, <1>1 DEF FailInv
  <2>5. ASSUME NEW t \in TraceId, result'[t] \in {"failed", "poisoned"}
        PROVE  \A img \in images' : Absent(img, t)
    BY <2>2, <2>5, <1>1, <1>5
  <2> QED BY <2>2, <2>3, <2>4, <2>5, <1>4 DEF FailInv, BeforeWrite
<1>10. CASE AppendRejected
  <2>1. /\ op' = op /\ op.pc = "idle" /\ nextId \in TraceId /\ images' = images
        /\ \A t \in TraceId : t # nextId => result'[t] = result[t]
    BY <1>10, <1>1 DEF AppendRejected, diskVars
  <2>2. \A img \in images' : Absent(img, nextId)
    BY <2>1, <1>1 DEF FailInv
  <2>3. ASSUME NEW t \in TraceId, result'[t] \in {"failed", "poisoned"}
        PROVE  \A img \in images' : Absent(img, t)
    BY <2>1, <2>2, <2>3, <1>5
  <2> QED BY <2>1, <2>3, <1>4 DEF FailInv, BeforeWrite
<1>11. CASE (Write /\ UNCHANGED result) \/ WriteFails
  <2>1. /\ op.pc = "write" /\ op'.id = op.id /\ op'.pre = Len(stream)
        /\ op'.pc \in {"sync", "truncate"} /\ result' = result /\ nextId' = nextId
    <3>1. CASE Write /\ UNCHANGED result
      <4>1. result[op.id] = "running" /\ op.pc = "write"
        BY <3>1 DEF Write, FailInv
      <4>2. ~Finish("ok")
        BY <3>1, <4>1, <1>1, <1>2 DEF Finish
      <4> QED BY <3>1, <4>2, <1>1 DEF Write, Op
    <3>2. CASE WriteFails
      BY <3>2, <1>1 DEF WriteFails, Op
    <3> QED BY <1>11, <3>1, <3>2
  <2>2. PICK w : stream' = stream \o w /\ w \in Seq(Token)
    BY <1>11, <2>1, WriteGrows DEF Write, WriteFails
  <2>3. \A i \in 1..Len(stream) : stream'[i] = stream[i]
    BY <2>2, <1>1
  <2>4. \A i \in 1..op'.pre : stream'[i].kind = "rec" => stream'[i].id # op'.id
    BY <2>1, <2>3, <1>2 DEF FailInv, Absent, BeforeWrite
  <2> QED BY <2>1, <2>4, <1>4, <1>5 DEF FailInv, BeforeWrite
<1>12. CASE SyncFails \/ RollbackTruncate
  <2>1. /\ ~BeforeWrite /\ op'.id = op.id /\ op'.pre = op.pre
        /\ op'.pc \in {"truncate", "rollbackSync"} /\ result' = result /\ nextId' = nextId
        /\ op.pc # "idle"
    BY <1>12, <1>1 DEF SyncFails, RollbackTruncate, BeforeWrite, Op
  <2>2. \A i \in 1..op.pre : stream'[i] = stream[i]
    <3>1. op.pre \in 0..Len(stream)
      BY <2>1, <1>1 DEF OpInv, Op
    <3>2. stream' = stream \/ stream' = SubSeq(stream, 1, op.pre)
      BY <1>12 DEF SyncFails, RollbackTruncate, diskVars
    <3> QED BY <3>1, <3>2, <1>1
  <2> QED BY <2>1, <2>2, <1>4, <1>5 DEF FailInv, BeforeWrite
<1>13. CASE CallGoesOn
  <2>1. /\ op.pc # "idle" /\ BeforeWrite /\ op'.id = op.id /\ op'.pc \notin {"idle", "sync", "truncate", "rollbackSync"}
        /\ result' = result /\ nextId' = nextId
    BY <1>13, <1>1 DEF CallGoesOn, Op
  <2>2. \A img \in images' : Absent(img, op'.id)
    BY <2>1, <1>6, <1>13 DEF CallGoesOn
  <2> QED BY <2>1, <2>2, <1>4, <1>5 DEF FailInv, BeforeWrite
<1>14. CASE CallEnds
  <2>1. /\ op'.pc = "idle" /\ op.pc # "idle"
        /\ \A t \in TraceId : t # op.id => result'[t] = result[t]
    BY <1>14, <1>1 DEF CallEnds, Idle
  <2>2. ASSUME result'[op.id] \in {"failed", "poisoned"}
        PROVE  \A img \in images' : Absent(img, op.id)
    <3>1. CASE \E r \in {"ok", "indeterminate", "committed", "lost"} :
                 result' = [result EXCEPT ![op.id] = r]
      BY <3>1, <2>1, <2>2, <1>1, <1>2
    <3>2. CASE BeforeWrite /\ op.pc # "write"
      BY <3>2, <2>1, <1>6
    <3>3. CASE op.pc = "rollbackSync" /\ images' = {stream}
      BY <3>3, <1>1 DEF FailInv, OpInv, BeforeWrite, Absent
    <3> QED BY <1>14, <3>1, <3>2, <3>3 DEF CallEnds
  <2>3. ASSUME NEW t \in TraceId, result'[t] \in {"failed", "poisoned"}
        PROVE  \A img \in images' : Absent(img, t)
    BY <2>1, <2>2, <2>3, <1>5
  <2> QED BY <2>1, <2>3, <1>4 DEF FailInv, BeforeWrite
<1> QED
  BY <1>7, <1>8, <1>9, <1>10, <1>11, <1>12, <1>13, <1>14, CallSteps

-----------------------------------------------------------------------------
(* Acknowledged records stay *)

\* A step that leaves the stream alone and moves no append past its write.
LEMMA KeptGrows ==
    ASSUME ChainInv, [Next]_vars, stream' = stream, ~Write, ~WriteFails, ~RollbackTruncate
    PROVE  Kept \in Nat /\ Kept' \in Nat /\ Kept <= Kept' /\ Kept' <= Len(stream)
<1>1. TypeOK /\ DiskInv /\ OpInv /\ Len(stream) \in Nat /\ op \in Op
  BY StreamFacts DEF ChainInv, TypeOK, TypeCall
<1>2. Kept \in Nat /\ Kept <= Len(stream)
  BY <1>1 DEF Kept, OpInv, Op
<1>3. BeforeWrite' \/ (~BeforeWrite /\ ~BeforeWrite' /\ op'.pre = op.pre)
  <2>1. CASE UNCHANGED vars
    BY <2>1 DEF vars, BeforeWrite
  <2>2. CASE op.pc = "idle" /\ (op' = op \/ op' = Idle)
    BY <2>2 DEF BeforeWrite, Idle
  <2>3. CASE (\E force \in BOOLEAN : AppendBegin(force)) \/ AppendRejected
    BY <2>3 DEF AppendBegin, AppendRejected, BeforeWrite, Idle
  <2>4. CASE SyncFails
    BY <2>4, <1>1 DEF SyncFails, BeforeWrite, Op
  <2>5. CASE CallGoesOn
    BY <2>5, <1>1 DEF CallGoesOn, BeforeWrite, Op
  <2>6. CASE CallEnds
    BY <2>6 DEF CallEnds, BeforeWrite, Idle
  <2> QED BY <2>1, <2>2, <2>3, <2>4, <2>5, <2>6, CallSteps
<1> QED BY <1>1, <1>2, <1>3 DEF Kept

\* A step moves or removes no synced body, and only a power loss removes a body
\* of the kept part.
LEMMA BodiesKept ==
    ASSUME ChainInv, [Next]_vars
    PROVE  /\ \A i \in 1..synced : stream[i].kind = "rec" =>
                 i \in 1..synced' /\ stream'[i] = stream[i]
           /\ ~PowerLoss => \A i \in 1..Kept : stream[i].kind = "rec" =>
                 i \in 1..Kept' /\ stream'[i] = stream[i]
<1>1. /\ TypeOK /\ DiskInv /\ OpInv /\ stream \in Seq(Token) /\ Len(stream) \in Nat
      /\ synced \in Nat /\ synced <= Len(stream) /\ op \in Op
  BY StreamFacts DEF ChainInv, TypeOK, TypeCall
<1>2. CASE Write \/ WriteFails
  <2>1. op.pc = "write" /\ Kept = Len(stream) /\ synced' = synced
    BY <1>2 DEF Write, WriteFails, Kept, BeforeWrite
  <2>2. PICK w \in Seq(Token) : stream' = stream \o w
    <3>1. PICK w : stream' = stream \o w /\ (w = RecordTokens \/ w \in PartialWrites)
      BY <1>2 DEF Write, WriteFails
    <3> QED BY <3>1, <2>1, WriteGrows
  <2>3. /\ \A i \in 1..Len(stream) : stream'[i] = stream[i]
        /\ Len(stream') \in Nat /\ Len(stream) <= Len(stream')
    BY <2>2, <1>1
  <2>4. Kept' = Len(stream') \/ Kept' = Len(stream)
    <3>1. op' = Idle \/ op'.pre = Len(stream)
      BY <1>2, <1>1 DEF Write, WriteFails, Finish, Op
    <3> QED BY <3>1 DEF Kept, Idle, BeforeWrite
  <2> QED BY <2>1, <2>3, <2>4, <1>1
<1>3. CASE RollbackTruncate
  <2>1. /\ op.pre \in 0..Len(stream) /\ synced <= op.pre /\ stream' = SubSeq(stream, 1, op.pre)
        /\ Kept = op.pre /\ synced' = synced
    BY <1>1, <1>3 DEF RollbackTruncate, OpInv, BeforeWrite, Op, Kept
  <2>2. Kept' = op.pre
    BY <1>1, <1>3 DEF RollbackTruncate, Kept, BeforeWrite, Op
  <2>3. \A i \in 1..op.pre : stream'[i] = stream[i]
    BY <2>1, <1>1
  <2> QED BY <2>1, <2>2, <2>3, <1>1
<1>4. CASE PowerLoss
  <2>1. PICK img \in images : stream' \in Survivors(img)
    BY <1>4 DEF PowerLoss
  <2>2. Clean(img) /\ synced <= Len(img) /\ \A i \in 1..synced : img[i] = stream[i]
    BY <1>1 DEF DiskInv
  <2>3. Clean(stream') /\ synced <= Len(stream') /\ \A i \in 1..synced : stream'[i] = img[i]
    BY <2>1, <2>2, <1>1, SurvivorClean
  <2>4. synced' = Len(stream') /\ Len(stream') \in Nat
    BY <1>4, <2>3, CleanFacts DEF PowerLoss
  <2> QED BY <2>2, <2>3, <2>4, <1>1, <1>4
<1>5. CASE OperatorRepair
  <2>1. /\ Len(stream) > 0 /\ stream[Len(stream)].kind = "torn"
        /\ stream' = SubSeq(stream, 1, Len(stream) - 1) /\ synced' = Len(stream')
        /\ op' = op /\ op.pc = "idle"
    BY <1>1, <1>5 DEF OperatorRepair, SyncedNow, OpInv
  <2>2. Len(stream') = Len(stream) - 1 /\ \A i \in 1..(Len(stream) - 1) : stream'[i] = stream[i]
    <3> DEFINE m == Len(stream) - 1
    <3>1. m \in 0..Len(stream) /\ stream' = SubSeq(stream, 1, m)
      BY <2>1, <1>1
    <3> HIDE DEF m
    <3>2. Len(stream') = m /\ \A i \in 1..m : stream'[i] = stream[i]
      BY <3>1, <1>1
    <3> QED BY <3>2 DEF m
  <2>3. Kept = Len(stream) /\ Kept' = Len(stream')
    BY <2>1 DEF Kept, BeforeWrite
  <2>4. \A i \in 1..Len(stream) : stream[i].kind = "rec" => i \in 1..(Len(stream) - 1)
    BY <2>1, <1>1
  <2> QED BY <2>1, <2>2, <2>3, <2>4, <1>1
<1>6. CASE /\ ~Write /\ ~WriteFails /\ ~RollbackTruncate
           /\ stream' = stream /\ (synced' = synced \/ synced' = Len(stream))
  <2>1. Kept \in Nat /\ Kept' \in Nat /\ Kept <= Kept'
    BY <1>6, KeptGrows
  <2> QED BY <1>1, <1>6, <2>1
<1> QED BY <1>2, <1>3, <1>4, <1>5, <1>6, DiskSteps DEF diskVars

\* Every step keeps AckInv.
LEMMA AckStep ==
    ASSUME ChainInv, AckInv, [Next]_vars
    PROVE  AckInv'
<1>1. /\ TypeOK /\ DiskInv /\ OpInv /\ stream \in Seq(Token) /\ Len(stream) \in Nat
      /\ op \in Op /\ synced \in Nat /\ synced <= Len(stream)
  BY StreamFacts DEF ChainInv, TypeOK, TypeCall
<1>2. ASSUME NEW a \in acks, a.durable \/ ~PowerLoss
      PROVE  Holds(stream', Kept', a.hash)
  <2>1. CASE ~PowerLoss
    BY <2>1, BodiesKept DEF AckInv, Holds
  <2>2. CASE PowerLoss
    <3>1. Kept' = Len(stream') /\ synced' = Len(stream')
      BY <2>2 DEF PowerLoss, Die, Kept, BeforeWrite, Idle
    <3> QED BY <1>2, <2>2, <3>1, BodiesKept DEF AckInv, Holds
  <2> QED BY <2>1, <2>2
<1>3. ASSUME NEW a \in acks, a.durable
      PROVE  Holds(stream', synced', a.hash)
  BY <1>3, BodiesKept DEF AckInv, Holds
<1>4. ASSUME NEW s, NEW n \in Nat, NEW h \in Seq(Nat), NEW id \in Nat, IsTail(s, n, Append(h, id))
      PROVE  Holds(s, n, Append(h, id))
  <2>1. Append(h, id) # <<>>
    BY <1>4
  <2> QED BY <1>4, <2>1 DEF IsTail, Holds
<1>5. CASE Write
  <2>1. /\ op.pc = "write" /\ AtTail(stream, lastHash, needsSeparator) /\ op.id \in Nat
        /\ lastHash \in Seq(Nat) /\ needsSeparator \in BOOLEAN
    BY <1>1, <1>5, AuditAssumption DEF Write, OpInv, BeforeWrite, TypeOK, TypeProc, TraceId
  <2>2. IsTail(stream', Len(stream'), Append(lastHash, op.id)) /\ Clean(stream')
    BY <1>5, <2>1, RecordExtends DEF Write, RecordTokens, Whole
  <2>3. Len(stream') \in Nat
    BY <2>2, CleanFacts
  <2>4. Holds(stream', Len(stream'), Append(lastHash, op.id))
    BY <2>1, <2>2, <2>3, <1>4
  <2>5. ~PowerLoss
    BY <1>1, <1>5 DEF Write, PowerLoss, Die, OpInv
  <2>6. CASE acks' = acks
    BY <2>5, <2>6, <1>2, <1>3 DEF AckInv
  <2>7. CASE op' = Idle /\ acks' = acks \cup {[hash |-> Append(lastHash, op.id), durable |-> FALSE]}
    <3>1. Kept' = Len(stream')
      BY <2>7 DEF Kept, BeforeWrite, Idle
    <3>2. ASSUME NEW a \in acks'
          PROVE  Holds(stream', Kept', a.hash) /\ (a.durable => Holds(stream', synced', a.hash))
      <4>1. a \in acks \/ (a.hash = Append(lastHash, op.id) /\ a.durable = FALSE)
        BY <2>7
      <4> QED BY <4>1, <3>1, <2>4, <2>5, <1>2, <1>3
    <3> QED BY <3>2 DEF AckInv
  <2> QED BY <1>5, <2>6, <2>7 DEF Write, Finish
<1>6. CASE Sync
  <2>1. /\ op.pc = "sync" /\ op' = Idle /\ stream' = stream /\ synced' = Len(stream)
        /\ acks' = acks \cup {[hash |-> Append(op.prevHash, op.id), durable |-> TRUE]}
    BY <1>6 DEF Sync, Finish, SyncedNow, Ack
  <2>2. /\ op.id \in Nat /\ op.prevHash \in Seq(Nat)
        /\ IsTail(stream, Len(stream), Append(op.prevHash, op.id))
    BY <2>1, <1>1 DEF OpInv, AtTail, Op
  <2>3. Holds(stream, Len(stream), Append(op.prevHash, op.id))
    BY <2>2, <1>1, <1>4
  <2>4. Kept' = Len(stream)
    BY <2>1 DEF Kept, BeforeWrite, Idle
  <2>5. ~PowerLoss
    BY <1>1, <1>6 DEF Sync, PowerLoss, Die, OpInv
  <2>6. ASSUME NEW a \in acks'
        PROVE  Holds(stream', Kept', a.hash) /\ (a.durable => Holds(stream', synced', a.hash))
    <3>1. a \in acks \/ a.hash = Append(op.prevHash, op.id)
      BY <2>1
    <3> QED BY <3>1, <2>1, <2>3, <2>4, <2>5, <1>2, <1>3
  <2> QED BY <2>6 DEF AckInv
<1>7. CASE PowerLoss
  BY <1>2, <1>3, <1>7 DEF PowerLoss, AckInv
<1>8. CASE ~Write /\ ~Sync /\ ~PowerLoss
  <2>1. acks' = acks
    BY <1>8 DEF Next, vars, Open, OpenRefused, AppendBegin, AppendRejected, WriteFails, SyncFails,
         RollbackTruncate, RollbackSync, RollbackFails, RotateSync, RotateSyncFails, RotateRename,
         RotateOpen, RotateBarrier, RotateFails, RotateStat, Kill, OperatorRepair
  <2> QED BY <2>1, <1>2, <1>3, <1>8 DEF AckInv
<1> QED BY <1>5, <1>6, <1>7, <1>8

-----------------------------------------------------------------------------
(* One history of offered traces *)

\* A hash commits to what it extends.
LEMMA BeforeFacts ==
    /\ \A a \in Seq(Nat) : Before(a, a) /\ Before(<<>>, a)
    /\ \A a, b \in Seq(Nat), id \in Nat : Before(a, b) => Before(a, Append(b, id))
    /\ \A a, b \in Seq(Nat) : Before(a, b) => SubSeq(b, 1, Len(a)) = a
<1>1. \A a \in Seq(Nat) : Before(a, a) /\ Before(<<>>, a)
  BY DEF Before
<1>2. ASSUME NEW a \in Seq(Nat), NEW b \in Seq(Nat), NEW id \in Nat, Before(a, b)
      PROVE  Before(a, Append(b, id))
  <2>1. /\ Len(Append(b, id)) = Len(b) + 1 /\ Len(a) \in Nat /\ Len(b) \in Nat
        /\ \A k \in 1..Len(b) : Append(b, id)[k] = b[k]
    OBVIOUS
  <2>2. \A k \in 1..Len(a) : k \in 1..Len(b)
    BY <1>2, <2>1 DEF Before
  <2> QED BY <1>2, <2>1, <2>2 DEF Before
<1>3. ASSUME NEW a \in Seq(Nat), NEW b \in Seq(Nat), Before(a, b)
      PROVE  SubSeq(b, 1, Len(a)) = a
  <2> DEFINE c == SubSeq(b, 1, Len(a))
  <2>1. Len(a) \in 0..Len(b)
    BY <1>3 DEF Before
  <2>2. c \in Seq(Nat) /\ Len(c) = Len(a) /\ \A k \in 1..Len(a) : c[k] = b[k]
    BY <2>1
  <2> HIDE DEF c
  <2>3. \A k \in 1..Len(a) : c[k] = a[k]
    BY <1>3, <2>2 DEF Before
  <2>4. c = a
    BY <2>2, <2>3, SeqEqual
  <2> QED BY <2>4 DEF c
<1> QED BY <1>1, <1>2, <1>3

\* The tail of a prefix is determined by the prefix.
LEMMA TailOnce ==
    ASSUME NEW s, NEW n \in Nat, NEW g, NEW h, IsTail(s, n, g), IsTail(s, n, h)
    PROVE  g = h
<1>1. CASE \A i \in 1..n : s[i].kind # "rec"
  BY <1>1 DEF IsTail
<1>2. CASE \E i \in 1..n : s[i].kind = "rec"
  <2>1. PICK i \in 1..n : /\ s[i].kind = "rec" /\ g = Hash(s[i])
                          /\ \A k \in (i + 1)..n : s[k].kind # "rec"
    BY <1>2 DEF IsTail
  <2>2. PICK j \in 1..n : /\ s[j].kind = "rec" /\ h = Hash(s[j])
                          /\ \A k \in (j + 1)..n : s[k].kind # "rec"
    BY <1>2 DEF IsTail
  <2>3. ~(i < j) /\ ~(j < i)
    BY <2>1, <2>2
  <2> QED BY <2>1, <2>2, <2>3
<1> QED BY <1>1, <1>2

\* The tail of a longer prefix commits to every body of it and to the tail of
\* every shorter one.
LEMMA TailBefore ==
    ASSUME NEW s, Clean(s), Linked(s), NEW n \in 0..Len(s), NEW h, IsTail(s, n, h)
    PROVE  /\ h \in Seq(Nat)
           /\ \A i \in 1..n : s[i].kind = "rec" => Before(Hash(s[i]), h)
           /\ \A m \in 0..n : \A g : IsTail(s, m, g) => Before(g, h)
<1>1. s \in Seq(Token) /\ Len(s) \in Nat /\ \A i \in 1..Len(s) : Hash(s[i]) \in Seq(Nat)
  <2>1. s \in Seq(Token) /\ Len(s) \in Nat
    BY CleanFacts
  <2>2. \A i \in 1..Len(s) : s[i] \in Token
    BY <2>1
  <2> QED BY <2>1, <2>2, TokenTypes
<1>2. h \in Seq(Nat)
  <2>1. \A j \in 1..n : j \in 1..Len(s)
    BY <1>1
  <2>2. <<>> \in Seq(Nat)
    OBVIOUS
  <2> QED BY <1>1, <2>1, <2>2 DEF IsTail
<1>3. ASSUME NEW i \in 1..n, s[i].kind = "rec"
      PROVE  Before(Hash(s[i]), h)
  <2>1. PICK j \in 1..n : /\ s[j].kind = "rec" /\ h = Hash(s[j])
                          /\ \A k \in (j + 1)..n : s[k].kind # "rec"
    BY <1>3 DEF IsTail
  <2>2. i <= j /\ i \in 1..Len(s) /\ j \in 1..Len(s)
    BY <2>1, <1>1, <1>3
  <2> QED BY <2>1, <2>2, <1>3 DEF Linked
<1>4. ASSUME NEW m \in 0..n, NEW g, IsTail(s, m, g)
      PROVE  Before(g, h)
  <2>1. CASE g = <<>>
    BY <2>1, <1>2, BeforeFacts
  <2>2. CASE \E j \in 1..m : s[j].kind = "rec" /\ g = Hash(s[j])
    <3>1. PICK j \in 1..m : s[j].kind = "rec" /\ g = Hash(s[j])
      BY <2>2
    <3>2. j \in 1..n
      BY <1>1
    <3> QED BY <3>1, <3>2, <1>3
  <2> QED BY <2>1, <2>2, <1>4 DEF IsTail
<1> QED BY <1>2, <1>3, <1>4

\* A known tail is a sequence of offered traces.
LEMMA TailKnown ==
    ASSUME NEW s, Clean(s), NEW m \in Nat, Known(s, m), NEW n \in 0..Len(s), NEW h, IsTail(s, n, h)
    PROVE  h \in Seq(1..(m - 1))
<1>1. Len(s) \in Nat
  BY CleanFacts
<1>2. CASE h = <<>>
  BY <1>2
<1>3. CASE \E j \in 1..n : s[j].kind = "rec" /\ h = Hash(s[j])
  <2>1. PICK j \in 1..n : s[j].kind = "rec" /\ h = Hash(s[j])
    BY <1>3
  <2>2. j \in 1..Len(s)
    BY <1>1
  <2> QED BY <2>1, <2>2 DEF Known
<1> QED BY <1>2, <1>3 DEF IsTail

\* After a write that failed part-way the tail is the old one or the record's.
LEMMA GrownTail ==
    ASSUME ChainInv, op.pc = "write", NEW x, Clean(x), Grown(x), Len(stream) <= Len(x),
           \A i \in 1..Len(stream) : x[i] = stream[i]
    PROVE  IsTail(x, Len(x), lastHash) \/ IsTail(x, Len(x), Append(lastHash, op.id))
<1>1. /\ IsTail(stream, Len(stream), lastHash) /\ Len(stream) \in Nat
      /\ x \in Seq(Token) /\ Len(x) \in Nat
  BY StreamFacts, CleanFacts DEF ChainInv, OpInv, BeforeWrite, AtTail
<1>2. Hash(Rec(lastHash, op.id)) = Append(lastHash, op.id)
  BY DEF Hash, Rec
<1>3. IsTail(x, Len(x), TailHash(x))
  BY CleanTail
<1>4. CASE \E j \in 1..Len(x) : j > Len(stream) /\ x[j].kind = "rec" /\ TailHash(x) = Hash(x[j])
  <2>1. PICK j \in 1..Len(x) : j > Len(stream) /\ x[j].kind = "rec" /\ TailHash(x) = Hash(x[j])
    BY <1>4
  <2>2. x[j] = Rec(lastHash, op.id)
    BY <2>1, <1>1 DEF Grown
  <2> QED BY <2>1, <2>2, <1>2, <1>3
<1>5. CASE \A j \in 1..Len(x) : j > Len(stream) => x[j].kind # "rec"
  <2>1. CASE lastHash = <<>> /\ \A i \in 1..Len(stream) : stream[i].kind # "rec"
    <3>1. \A i \in 1..Len(x) : x[i].kind # "rec"
      BY <2>1, <1>1, <1>5
    <3> QED BY <2>1, <3>1 DEF IsTail
  <2>2. CASE \E j \in 1..Len(stream) : /\ stream[j].kind = "rec" /\ lastHash = Hash(stream[j])
                                      /\ \A i \in (j + 1)..Len(stream) : stream[i].kind # "rec"
    <3>1. PICK j \in 1..Len(stream) : /\ stream[j].kind = "rec" /\ lastHash = Hash(stream[j])
                                      /\ \A i \in (j + 1)..Len(stream) : stream[i].kind # "rec"
      BY <2>2
    <3>2. j \in 1..Len(x) /\ x[j] = stream[j]
      BY <1>1
    <3>3. \A i \in (j + 1)..Len(x) : x[i].kind # "rec"
      BY <3>1, <1>1, <1>5
    <3> QED BY <3>1, <3>2, <3>3 DEF IsTail
  <2> QED BY <2>1, <2>2, <1>1 DEF IsTail
<1>6. CASE \E j \in 1..Len(x) : j > Len(stream) /\ x[j].kind = "rec"
  <2>1. PICK j \in 1..Len(x) : j > Len(stream) /\ x[j].kind = "rec"
    BY <1>6
  <2>2. PICK k \in 1..Len(x) : /\ x[k].kind = "rec" /\ TailHash(x) = Hash(x[k])
                               /\ \A i \in (k + 1)..Len(x) : x[i].kind # "rec"
    BY <2>1, <1>3 DEF IsTail
  <2>3. k > Len(stream)
    BY <2>1, <2>2, <1>1
  <2> QED BY <2>2, <2>3, <1>4
<1> QED BY <1>5, <1>6

\* Every step keeps LogInv.
LEMMA LogStep ==
    ASSUME ChainInv, FailInv, LogInv, [Next]_vars
    PROVE  LogInv'
<1>1. /\ TypeOK /\ DiskInv /\ OpInv /\ Clean(stream) /\ Len(stream) \in Nat
      /\ nextId \in Nat /\ op \in Op /\ stream \in images
      /\ Linked(stream) /\ Known(stream, nextId)
  BY StreamFacts DEF ChainInv, TypeOK, TypeCall, DiskInv, LogInv
<1>2. nextId' = nextId \/ nextId' = nextId + 1
  BY CallSteps DEF AppendBegin, AppendRejected, Write, WriteFails, SyncFails, RollbackTruncate,
                   CallGoesOn, CallEnds, vars
<1>3. Seq(1..(nextId - 1)) \subseteq Seq(1..(nextId' - 1))
  <2>1. 1..(nextId - 1) \subseteq 1..(nextId' - 1)
    BY <1>1, <1>2
  <2> QED BY <2>1, SeqMonotonic
<1>4. ASSUME NEW x \in images' PROVE Linked(x) /\ Known(x, nextId')
  <2>1. CASE \E y \in images : Within(x, y)
    BY <2>1, <1>3 DEF Within, Linked, Known, LogInv
  <2>2. CASE op.pc = "write" /\ Grown(x)
    <3> DEFINE r == Rec(lastHash, op.id)
    <3>1. /\ IsTail(stream, Len(stream), lastHash) /\ Len(stream) \in 0..Len(stream)
          /\ op.id \in TraceId /\ op.id < nextId
      BY <1>1, <2>2 DEF OpInv, BeforeWrite, AtTail, FailInv
    <3>2. /\ Hash(r) = Append(lastHash, op.id) /\ lastHash \in Seq(Nat)
          /\ lastHash \in Seq(1..(nextId - 1)) /\ op.id \in 1..(nextId - 1) /\ op.id \in Nat
      <4>1. lastHash \in Seq(Nat) /\ lastHash \in Seq(1..(nextId - 1))
        BY <1>1, <3>1, TailBefore, TailKnown
      <4>2. Hash(r) = Append(lastHash, op.id)
        BY DEF Hash, Rec
      <4>3. op.id \in 1..(nextId - 1) /\ op.id \in Nat
        BY <1>1, <3>1, AuditAssumption DEF TraceId
      <4> QED BY <4>1, <4>2, <4>3
    <3>3. Hash(r) \in Seq(1..(nextId - 1)) /\ Hash(r) \in Seq(Nat)
      BY <3>2
    <3>4. ASSUME NEW i \in 1..Len(stream), stream[i].kind = "rec"
          PROVE  Before(Hash(stream[i]), Hash(r)) /\ Hash(stream[i]) \in Seq(1..(nextId - 1))
      <4>1. Before(Hash(stream[i]), lastHash)
        BY <1>1, <3>1, <3>4, TailBefore
      <4>2. Hash(stream[i]) \in Seq(Nat)
        <5>1. stream[i] \in Token
          BY <1>1 DEF Clean
        <5> QED BY <5>1, TokenTypes
      <4>3. Hash(stream[i]) \in Seq(1..(nextId - 1))
        BY <1>1, <3>4 DEF Known
      <4> QED BY <3>2, <4>1, <4>2, <4>3, BeforeFacts
    <3> HIDE DEF r
    <3>5. ASSUME NEW i \in 1..Len(x), x[i].kind = "rec"
          PROVE  \/ i \in 1..Len(stream) /\ x[i] = stream[i]
                 \/ i > Len(stream) /\ x[i] = r
      BY <2>2, <3>5 DEF Grown, r
    <3>6. Known(x, nextId')
      BY <1>3, <3>3, <3>4, <3>5 DEF Known
    <3>7. ASSUME NEW i \in 1..Len(x), NEW j \in 1..Len(x), i <= j,
                 x[i].kind = "rec", x[j].kind = "rec"
          PROVE  Before(Hash(x[i]), Hash(x[j]))
      <4>1. CASE j \in 1..Len(stream) /\ x[j] = stream[j]
        <5>1. i \in 1..Len(stream) /\ x[i] = stream[i]
          BY <1>1, <3>5, <3>7, <4>1
        <5> QED BY <1>1, <3>7, <4>1, <5>1 DEF Linked
      <4>2. CASE x[j] = r
        BY <3>3, <3>4, <3>5, <3>7, <4>2, BeforeFacts
      <4> QED BY <3>5, <3>7, <4>1, <4>2
    <3> QED BY <3>6, <3>7 DEF Linked
  <2> QED BY <2>1, <2>2, DiskBodies
<1>5. ASSUME op'.pc = "truncate"
      PROVE  \/ IsTail(stream', Len(stream'), op'.prevHash)
             \/ IsTail(stream', Len(stream'), Append(op'.prevHash, op'.id))
  <2>1. CASE WriteFails
    <3>1. PICK w \in PartialWrites : stream' = stream \o w
      BY <2>1 DEF WriteFails
    <3>2. /\ op.pc = "write" /\ op'.prevHash = lastHash /\ op'.id = op.id
          /\ AtTail(stream, lastHash, needsSeparator) /\ needsSeparator \in BOOLEAN
          /\ lastHash \in Seq(Nat) /\ op.id \in Nat
      <4>1. op.pc = "write" /\ op'.prevHash = lastHash /\ op'.id = op.id
        BY <2>1, <1>1 DEF WriteFails, Op
      <4> QED BY <4>1, <1>1, AuditAssumption
              DEF OpInv, BeforeWrite, TypeOK, TypeProc, TraceId
    <3>3. /\ Clean(stream') /\ Len(stream) <= Len(stream') /\ Grown(stream')
          /\ \A i \in 1..Len(stream) : stream'[i] = stream[i]
      BY <3>1, <3>2, PartialWriteClean, WriteGrows
    <3> QED BY <3>2, <3>3, GrownTail
  <2>2. CASE SyncFails
    <3>1. op.pc = "sync" /\ op'.prevHash = op.prevHash /\ op'.id = op.id /\ stream' = stream
      BY <2>2, <1>1 DEF SyncFails, Op, diskVars
    <3> QED BY <3>1, <1>1 DEF OpInv, AtTail
  <2>3. CASE UNCHANGED vars
    BY <1>5, <2>3 DEF vars, LogInv
  <2>4. CASE Write
    <3>1. op' = Idle \/ op'.pc = "sync"
      BY <2>4, <1>1 DEF Write, Finish, Op
    <3> QED BY <3>1, <1>5 DEF Idle
  <2>5. CASE op.pc = "idle" /\ (op' = op \/ op' = Idle)
    BY <1>5, <2>5 DEF Idle
  <2>6. CASE (\E force \in BOOLEAN : AppendBegin(force)) \/ AppendRejected
    BY <1>5, <2>6 DEF AppendBegin, AppendRejected, Idle
  <2>7. CASE RollbackTruncate \/ CallGoesOn
    BY <1>5, <2>7, <1>1 DEF RollbackTruncate, CallGoesOn, Op
  <2>8. CASE CallEnds
    BY <1>5, <2>8 DEF CallEnds, Idle
  <2> QED BY <2>1, <2>2, <2>3, <2>4, <2>5, <2>6, <2>7, <2>8, CallSteps
<1> QED BY <1>4, <1>5 DEF LogInv

-----------------------------------------------------------------------------
(* The inductive invariant and what it shows *)

\* The invariant holds at the start.
LEMMA PromiseInit == Init => PromiseInv
<1> SUFFICES ASSUME Init PROVE PromiseInv
  OBVIOUS
<1>1. /\ images = {<<>>} /\ acks = {} /\ op.pc = "idle" /\ BeforeWrite
      /\ result = [t \in TraceId |-> "none"] /\ Len(<<>>) = 0
  BY DEF Init, Idle, BeforeWrite
<1>2. \A img \in images : /\ Linked(img) /\ Known(img, nextId)
                          /\ \A t : Absent(img, t)
  BY <1>1 DEF Linked, Known, Absent
<1>3. AckInv /\ FailInv /\ LogInv
  BY <1>1, <1>2 DEF AckInv, FailInv, LogInv
<1> QED BY <1>3, ChainInvInit DEF PromiseInv

\* Every step, and every stutter, keeps it.
LEMMA PromiseStep == PromiseInv /\ [Next]_vars => PromiseInv'
BY ChainInvStep, AckStep, FailStep, LogStep DEF PromiseInv

\* The promises of the writer hold throughout: acknowledged records are in the
\* part of the stream no rollback takes back, unwritten and refused ones are on
\* no disk content, and every content is one history.
THEOREM PromiseInvariant == Spec => []PromiseInv
BY PromiseInit, PromiseStep, PTL DEF Spec

\* The records among the first n tokens, in the model's words.
LEMMA HoldsRecord ==
    ASSUME NEW s \in Seq(Token), NEW n \in Nat, n <= Len(s), NEW h, Holds(s, n, h)
    PROVE  HasRecord(s, n, h)
<1>1. PICK i \in 1..n : s[i].kind = "rec" /\ Hash(s[i]) = h
  BY DEF Holds
<1>2. i \in RecIdx(s) /\ i <= n
  BY <1>1 DEF RecIdx
<1> QED BY <1>1, <1>2 DEF HasRecord

\* An append acknowledged after its Sync is in the synced part of the chain for
\* ever: no rollback, rotation, kill, power loss or repair removes it.
THEOREM DurableAcksSurvive == Spec => []DurableAckSurvives
<1>1. PromiseInv => DurableAckSurvives
  BY HoldsRecord, StreamFacts DEF PromiseInv, ChainInv, AckInv, DurableAckSurvives
<1> QED BY <1>1, PromiseInvariant, PTL

\* An append acknowledged without Sync is in the chain until a power loss: the
\* rollback of a later append never cuts into it.
THEOREM AcksStayVisible == Spec => []AckStaysVisible
<1>1. PromiseInv => AckStaysVisible
  <2> SUFFICES ASSUME PromiseInv, NEW a \in acks
               PROVE  HasRecord(stream, Len(stream), a.hash)
    BY DEF AckStaysVisible
  <2>1. stream \in Seq(Token) /\ Len(stream) \in Nat /\ Kept \in Nat /\ Kept <= Len(stream)
    BY StreamFacts DEF PromiseInv, ChainInv, OpInv, TypeOK, TypeCall, Op, Kept
  <2>2. \A i \in 1..Kept : i \in 1..Len(stream)
    BY <2>1
  <2>3. Holds(stream, Len(stream), a.hash)
    BY <2>2 DEF PromiseInv, AckInv, Holds
  <2> QED BY <2>1, <2>3, HoldsRecord
<1> QED BY <1>1, PromiseInvariant, PTL

\* When the caller of appendTrace was told that the append failed or was
\* refused, its record is in no content a crash can leave behind.
THEOREM FailedAppendsLeaveNoRecord == Spec => []FailedLeavesNoRecord
<1>1. PromiseInv => FailedLeavesNoRecord
  <2> SUFFICES ASSUME PromiseInv, NEW t \in TraceId, result[t] \in {"failed", "poisoned"},
                      NEW img \in images
               PROVE  t \notin TracesIn(img)
    BY DEF FailedLeavesNoRecord
  <2>1. Absent(img, t) /\ DOMAIN img = 1..Len(img)
    BY DEF PromiseInv, FailInv, ChainInv, TypeOK, TypeDisk
  <2> QED BY <2>1 DEF Absent, TracesIn, RecIdx
<1> QED BY <1>1, PromiseInvariant, PTL

-----------------------------------------------------------------------------
(* The writer implements the abstract log *)

\* The log and its firm prefix, as tails.
LEMMA LogFacts ==
    ASSUME NEW s, Clean(s), Linked(s), NEW k \in 0..Len(s), NEW m \in Nat, Known(s, m)
    PROVE  /\ IsTail(s, Len(s), TailHash(s)) /\ IsTail(s, k, TailHash(SubSeq(s, 1, k)))
           /\ TailHash(s) \in Seq(Nat) /\ TailHash(SubSeq(s, 1, k)) \in Seq(Nat)
           /\ TailHash(s) \in Seq(1..(m - 1))
           /\ Before(TailHash(SubSeq(s, 1, k)), TailHash(s))
<1>1. s \in Seq(Token) /\ Len(s) \in Nat /\ k \in Nat /\ Len(s) \in 0..Len(s)
  BY CleanFacts
<1>2. IsTail(s, Len(s), TailHash(s)) /\ TailHash(s) \in Seq(Nat)
  BY CleanTail
<1> DEFINE p == SubSeq(s, 1, k)
<1>3. Clean(p) /\ Len(p) = k /\ \A i \in 1..k : p[i] = s[i]
  BY CleanPrefix
<1> HIDE DEF p
<1>4. IsTail(p, k, TailHash(p)) /\ TailHash(p) \in Seq(Nat)
  BY <1>3, CleanTail
<1>5. IsTail(s, k, TailHash(p))
  BY <1>1, <1>3, <1>4, TailSame
<1>6. Before(TailHash(p), TailHash(s))
  BY <1>1, <1>2, <1>5, TailBefore
<1>7. TailHash(s) \in Seq(1..(m - 1))
  BY <1>1, <1>2, TailKnown
<1> QED BY <1>2, <1>4, <1>5, <1>6, <1>7 DEF p

\* The tail of a prefix both streams share.
LEMMA SharedTail ==
    ASSUME NEW s, Clean(s), NEW t, Clean(t), NEW k \in Nat, k <= Len(s), k <= Len(t),
           \A i \in 1..k : t[i] = s[i]
    PROVE  TailHash(SubSeq(t, 1, k)) = TailHash(SubSeq(s, 1, k))
<1>1. k \in 0..Len(s) /\ k \in 0..Len(t)
  BY CleanFacts
<1> DEFINE p == SubSeq(s, 1, k)
           q == SubSeq(t, 1, k)
<1>2. /\ Clean(p) /\ Len(p) = k /\ \A i \in 1..k : p[i] = s[i]
      /\ Clean(q) /\ Len(q) = k /\ \A i \in 1..k : q[i] = t[i]
  BY <1>1, CleanPrefix
<1> HIDE DEF p, q
<1>3. p \in Seq(Token) /\ q \in Seq(Token)
  BY <1>2, CleanFacts
<1>4. p = q
  BY <1>2, <1>3, SeqEqual
<1> QED BY <1>4 DEF p, q

\* Only AppendBegin and AppendRejected draw a trace id.
LEMMA OfferSteps ==
    ASSUME [Next]_vars
    PROVE  nextId' = nextId \/ (nextId' = nextId + 1 /\ UNCHANGED diskVars)
<1>1. CASE UNCHANGED vars
  BY <1>1 DEF vars
<1>2. CASE (\E force \in BOOLEAN : AppendBegin(force)) \/ AppendRejected
  BY <1>2 DEF AppendBegin, AppendRejected
<1>3. CASE Open \/ OpenRefused \/ Write \/ WriteFails \/ Sync \/ SyncFails \/ RollbackTruncate
  BY <1>3 DEF Open, OpenRefused, Write, WriteFails, Sync, SyncFails, RollbackTruncate
<1>4. CASE RollbackSync \/ RollbackFails \/ RotateSync \/ RotateSyncFails \/ RotateRename
  BY <1>4 DEF RollbackSync, RollbackFails, RotateSync, RotateSyncFails, RotateRename
<1>5. CASE RotateOpen \/ RotateBarrier \/ RotateFails \/ RotateStat
  BY <1>5 DEF RotateOpen, RotateBarrier, RotateFails, RotateStat
<1>6. CASE Kill \/ PowerLoss \/ OperatorRepair
  BY <1>6 DEF Kill, PowerLoss, Die, OperatorRepair
<1> QED BY <1>1, <1>2, <1>3, <1>4, <1>5, <1>6 DEF Next

\* The offered traces only grow.
LEMMA OfferedGrow ==
    ASSUME [Next]_vars, nextId \in Nat
    PROVE  /\ (1..(nextId' - 1)) \in SUBSET Nat
           /\ (1..(nextId - 1)) \subseteq (1..(nextId' - 1))
<1>1. nextId' = nextId \/ nextId' = nextId + 1
  BY OfferSteps
<1>2. nextId' \in Nat /\ nextId <= nextId'
  BY <1>1
<1>3. \A i \in 1..(nextId' - 1) : i \in Nat
  BY <1>2
<1>4. ASSUME NEW m \in Nat, NEW n \in Nat, m <= n
      PROVE  \A i \in 1..(m - 1) : i \in 1..(n - 1)
  BY <1>4
<1> QED BY <1>2, <1>3, <1>4

\* Every step of the writer is a step of the abstract log, or none.
LEMMA LogRefines ==
    ASSUME PromiseInv, PromiseInv', [Next]_vars
    PROVE  [Log!Next]_(Log!logVars)
<1> DEFINE L == TailHash(stream)
           F == TailHash(SubSeq(stream, 1, synced))
<1>1. /\ ChainInv /\ FailInv /\ LogInv /\ TypeOK /\ DiskInv /\ OpInv
      /\ Clean(stream) /\ stream \in Seq(Token) /\ Len(stream) \in Nat
      /\ synced \in Nat /\ synced <= Len(stream) /\ synced \in 0..Len(stream)
      /\ nextId \in Nat /\ op \in Op
      /\ Linked(stream) /\ Known(stream, nextId)
  <2>1. ChainInv /\ FailInv /\ LogInv /\ TypeOK /\ DiskInv /\ OpInv
    BY DEF PromiseInv, ChainInv
  <2>2. stream \in images /\ nextId \in Nat /\ op \in Op
    BY <2>1 DEF DiskInv, TypeOK, TypeCall
  <2> QED BY <2>1, <2>2, StreamFacts DEF LogInv
<1>2. /\ Clean(stream') /\ stream' \in Seq(Token) /\ Len(stream') \in Nat
      /\ synced' \in Nat /\ synced' <= Len(stream') /\ synced' \in 0..Len(stream')
      /\ nextId' \in Nat /\ Linked(stream') /\ Known(stream', nextId')
  <2>1. ChainInv' /\ LogInv' /\ TypeOK' /\ DiskInv'
    BY DEF PromiseInv, ChainInv
  <2>2. stream' \in images' /\ nextId' \in Nat
    BY <2>1 DEF DiskInv, TypeOK, TypeCall
  <2>3. Clean(stream') /\ synced' <= Len(stream') /\ synced' \in Nat
    BY <2>1, <2>2 DEF DiskInv, TypeOK, TypeDisk
  <2>4. Linked(stream') /\ Known(stream', nextId')
    BY <2>1, <2>2 DEF LogInv
  <2> QED BY <2>2, <2>3, <2>4, CleanFacts
<1>3. /\ IsTail(stream, Len(stream), L) /\ IsTail(stream, synced, F)
      /\ L \in Seq(Nat) /\ F \in Seq(Nat) /\ L \in Seq(1..(nextId - 1)) /\ Before(F, L)
  BY <1>1, LogFacts
<1>4. /\ IsTail(stream', Len(stream'), L') /\ IsTail(stream', synced', F')
      /\ L' \in Seq(Nat) /\ F' \in Seq(Nat) /\ L' \in Seq(1..(nextId' - 1)) /\ Before(F', L')
  BY <1>2, LogFacts
<1>5. synced' = Len(stream') => F' = L'
  <2> SUFFICES ASSUME synced' = Len(stream') PROVE F' = L'
    OBVIOUS
  <2>1. IsTail(stream', Len(stream'), F')
    BY <1>4
  <2> QED BY <2>1, <1>2, <1>4, TailOnce
\* A step that keeps the synced prefix keeps its tail.
<1>6. ASSUME synced' = synced, synced <= Len(stream'), \A i \in 1..synced : stream'[i] = stream[i]
      PROVE  F' = F
  BY <1>1, <1>2, <1>6, SharedTail
<1>7. nextId' = nextId => 1..(nextId' - 1) = 1..(nextId - 1)
  OBVIOUS
<1>8. CASE UNCHANGED diskVars
  <2>1. L' = L /\ F' = F
    <3>1. stream' = stream /\ synced' = synced
      BY <1>8 DEF diskVars
    <3> QED BY <3>1
  <2>2. (1..(nextId' - 1)) \in SUBSET Nat /\ (1..(nextId - 1)) \subseteq (1..(nextId' - 1))
    BY <1>1, OfferedGrow
  <2>3. Log!Offer
    BY <2>1, <2>2 DEF Log!Offer
  <2> QED BY <2>3 DEF Log!Next
<1>9. CASE stream' = stream /\ images' = {stream} /\ synced' = Len(stream) /\ ~UNCHANGED diskVars
  <2>1. L' = L /\ F' = L /\ nextId' = nextId
    BY <1>5, <1>9, OfferSteps
  <2>2. Len(F') \in Len(F)..Len(L)
    BY <2>1, <1>3 DEF Before
  <2>3. Log!Harden
    BY <2>1, <2>2 DEF Log!Harden
  <2> QED BY <2>3 DEF Log!Next
<1>10. CASE Write \/ WriteFails
  <2>1. /\ op.pc = "write" /\ synced' = synced /\ nextId' = nextId /\ op.id \in TraceId
        /\ AtTail(stream, lastHash, needsSeparator) /\ op.id < nextId
    <3>1. op.pc = "write" /\ synced' = synced /\ nextId' = nextId
      BY <1>10 DEF Write, WriteFails
    <3> QED BY <3>1, <1>1 DEF OpInv, BeforeWrite, FailInv
  <2>2. PICK w : stream' = stream \o w /\ (w = RecordTokens \/ w \in PartialWrites)
    BY <1>10 DEF Write, WriteFails
  <2>3. w \in Seq(Token) /\ Grown(stream')
    BY <2>1, <2>2, <1>1, WriteGrows
  <2>4. Len(stream) <= Len(stream') /\ \A i \in 1..Len(stream) : stream'[i] = stream[i]
    BY <2>2, <2>3, <1>1
  <2>5. L = lastHash
    BY <2>1, <1>1, TailUnique DEF AtTail
  <2>6. L' = L \/ L' = Append(L, op.id)
    <3>1. IsTail(stream', Len(stream'), L) \/ IsTail(stream', Len(stream'), Append(L, op.id))
      BY <2>1, <2>3, <2>4, <2>5, <1>1, <1>2, GrownTail
    <3> QED BY <3>1, <1>2, TailUnique
  <2>7. F' = F
    <3>1. synced <= Len(stream') /\ \A i \in 1..synced : stream'[i] = stream[i]
      BY <2>4, <1>1, <1>2
    <3> QED BY <2>1, <3>1, <1>6
  <2>8. op.id \in 1..(nextId - 1)
    BY <2>1, <1>1, AuditAssumption DEF TraceId
  <2>9. CASE L' = L
    BY <2>1, <2>7, <2>9 DEF Log!logVars
  <2>10. CASE L' = Append(L, op.id)
    <3>1. Log!Extend
      BY <2>1, <2>7, <2>8, <2>10 DEF Log!Extend
    <3> QED BY <3>1 DEF Log!Next
  <2> QED BY <2>6, <2>9, <2>10
<1>11. CASE RollbackTruncate
  <2>1. /\ op.pc = "truncate" /\ synced' = synced /\ nextId' = nextId
        /\ stream' = SubSeq(stream, 1, op.pre)
        /\ synced <= op.pre /\ op.pre \in 0..Len(stream) /\ op.pre \in Nat
        /\ AtTail(SubSeq(stream, 1, op.pre), op.prevHash, op.prevSep)
        /\ op.prevHash \in Seq(Nat) /\ op.id \in Nat
    BY <1>1, <1>11 DEF RollbackTruncate, OpInv, BeforeWrite, Op
  <2>2. Len(stream') = op.pre /\ \A i \in 1..op.pre : stream'[i] = stream[i]
    BY <2>1, <1>1
  <2>3. F' = F
    <3>1. synced <= Len(stream') /\ \A i \in 1..synced : stream'[i] = stream[i]
      BY <2>1, <2>2, <1>1
    <3> QED BY <2>1, <3>1, <1>6
  <2>4. L' = op.prevHash /\ IsTail(stream', op.pre, op.prevHash)
    BY <2>1, <2>2, <1>2, TailUnique DEF AtTail
  <2>5. IsTail(stream, op.pre, op.prevHash)
    BY <2>1, <2>2, <2>4, TailSame
  <2>6. Before(F, op.prevHash)
    <3>1. synced \in 0..op.pre
      BY <2>1, <1>1
    <3> QED BY <2>1, <2>5, <3>1, <1>1, <1>3, TailBefore
  <2>7. L = op.prevHash \/ L = Append(op.prevHash, op.id)
    BY <2>1, <1>1, TailUnique DEF LogInv
  <2>8. CASE L = op.prevHash
    BY <2>1, <2>3, <2>4, <2>8 DEF Log!logVars
  <2>9. CASE L = Append(op.prevHash, op.id)
    <3> DEFINE h == op.prevHash
    <3>1. /\ Len(L) = Len(h) + 1 /\ Len(h) \in Nat /\ Len(F) \in Nat /\ Len(F) <= Len(h)
          /\ SubSeq(L, 1, Len(h)) = h
      <4>1. Before(h, L)
        BY <2>1, <2>9, BeforeFacts
      <4>2. SubSeq(L, 1, Len(h)) = h
        BY <4>1, <2>1, <1>3, BeforeFacts
      <4> QED BY <4>2, <2>1, <2>6, <2>9, <1>3 DEF Before
    <3>2. Len(L) > Len(F) /\ Len(L) - 1 = Len(h)
      BY <3>1
    <3>3. L' = SubSeq(L, 1, Len(L) - 1)
      BY <3>1, <3>2, <2>4
    <3>4. Log!Withdraw
      BY <2>1, <2>3, <3>2, <3>3 DEF Log!Withdraw, Log!Prefix
    <3> QED BY <3>4 DEF Log!Next
  <2> QED BY <2>7, <2>8, <2>9
<1>12. CASE PowerLoss
  <2>1. PICK img \in images : stream' \in Survivors(img)
    BY <1>12 DEF PowerLoss
  <2>2. Clean(img) /\ synced <= Len(img) /\ \A i \in 1..synced : img[i] = stream[i]
    BY <1>1 DEF DiskInv
  <2>3. synced <= Len(stream') /\ \A i \in 1..synced : stream'[i] = img[i]
    BY <2>1, <2>2, <1>1, SurvivorClean
  <2>4. IsTail(stream', synced, F)
    BY <2>2, <2>3, <1>1, <1>3, TailSame
  <2>5. Before(F, L')
    <3>1. Len(stream') \in 0..Len(stream') /\ synced \in 0..Len(stream')
      BY <1>1, <1>2, <2>3
    <3> QED BY <3>1, <2>4, <1>2, <1>4, TailBefore
  <2>6. F' = L' /\ nextId' = nextId
    BY <1>5, <1>12 DEF PowerLoss, Die
  <2>7. SubSeq(L', 1, Len(F)) = F /\ SubSeq(L, 1, Len(F)) = F
    BY <2>5, <1>3, <1>4, BeforeFacts
  <2>8. Len(F') \in Nat /\ Len(F') >= Len(F)
    BY <2>5, <2>6, <1>3, <1>4 DEF Before
  <2>9. Log!Lose
    BY <2>6, <2>7, <2>8, <1>4 DEF Log!Lose, Log!Prefix
  <2> QED BY <2>9 DEF Log!Next
<1>13. CASE OperatorRepair
  <2>1. /\ Len(stream) > 0 /\ stream[Len(stream)].kind = "torn"
        /\ stream' = SubSeq(stream, 1, Len(stream) - 1) /\ synced' = Len(stream')
        /\ nextId' = nextId
    BY <1>13 DEF OperatorRepair, SyncedNow
  <2> DEFINE m == Len(stream) - 1
  <2>2. m \in 0..Len(stream) /\ m \in Nat /\ Len(stream) = m + 1
    BY <2>1, <1>1
  <2>3. stream' = SubSeq(stream, 1, m) /\ stream[m + 1].kind # "rec"
    BY <2>1, <2>2
  <2> HIDE DEF m
  <2>4. Len(stream') = m /\ \A i \in 1..m : stream'[i] = stream[i]
    BY <2>2, <2>3, <1>1
  <2>5. IsTail(stream, m, L')
    BY <2>2, <2>4, <1>4, TailSame
  <2>6. IsTail(stream, Len(stream), L')
    BY <2>2, <2>3, <2>5, TailSkip
  <2>7. L' = L
    BY <2>6, <1>1, TailUnique
  <2>8. F' = L
    BY <2>1, <2>7, <1>5
  <2>9. Len(F') \in Len(F)..Len(L)
    BY <2>8, <1>3 DEF Before
  <2>10. Log!Harden
    BY <2>1, <2>7, <2>9 DEF Log!Harden
  <2> QED BY <2>10 DEF Log!Next
<1> QED BY <1>8, <1>9, <1>10, <1>11, <1>12, <1>13, DiskSteps

\* The audit writer implements the append-only log with a firm prefix of
\* AuditLog, whatever fails: nothing firm is ever lost, and outside a power loss
\* only the newest record is ever withdrawn.
THEOREM WriterImplementsAuditLog == Spec => ImplementsAuditLog
<1>1. Init => Log!Init
  <2> SUFFICES ASSUME Init PROVE Log!Init
    OBVIOUS
  <2>1. stream = <<>> /\ synced = 0 /\ nextId = 1 /\ 1..0 = {}
    BY DEF Init
  <2>2. \A s : s = <<>> => TailHash(s) = <<>>
    BY DEF TailHash, RecIdx
  <2>3. SubSeq(stream, 1, synced) = <<>>
    <3> DEFINE e == SubSeq(stream, 1, synced)
    <3>1. stream \in Seq(Nat) /\ Len(stream) = 0 /\ 0 \in 0..Len(stream)
      BY <2>1
    <3>2. e \in Seq(Nat) /\ Len(e) = 0
      BY <2>1, <3>1
    <3> QED BY <3>2, EmptySeq
  <2>4. Len(<<>>) = 0 /\ 1..(nextId - 1) = {}
    BY <2>1
  <2>5. TailHash(stream) = <<>> /\ Len(TailHash(SubSeq(stream, 1, synced))) = 0
    BY <2>1, <2>2, <2>3, <2>4
  <2> QED BY <2>4, <2>5 DEF Log!Init
<1>2. PromiseInv /\ PromiseInv' /\ [Next]_vars => [Log!Next]_(Log!logVars)
  BY LogRefines
<1> QED BY <1>1, <1>2, PromiseInvariant, PTL DEF Spec, ImplementsAuditLog, Log!Spec
=============================================================================

----------------------- MODULE TranscriptIngestProofs ------------------------
(***************************************************************************)
(* What is proved of the Claude Code ingester for any transcripts, any     *)
(* lines and any number of processes: that a size may stand for a content. *)
(***************************************************************************)
EXTENDS TranscriptIngest, FiniteSetTheorems, WellFoundedInduction, TLAPS

-----------------------------------------------------------------------------
(***************************************************************************)
(* Numbers and sequences.                                                  *)
(***************************************************************************)
LEMMA NatOrder == IsWellFoundedOn({ss \in Nat \X Nat : ss[1] < ss[2]}, Nat)
BY NatLessThanWellFounded DEF OpToRel

LEMMA LeastExists ==
    ASSUME NEW S \in SUBSET Nat, S # {}
    PROVE  Min(S) \in S /\ \A j \in S : Min(S) <= j
<1> DEFINE less == {ss \in Nat \X Nat : ss[1] < ss[2]}
<1>1. PICK i \in S : \A j \in S : ~(<<j, i>> \in less)
  <2> HIDE DEF less
  <2>1. IsWellFoundedOn(less, Nat)
    BY NatOrder DEF less
  <2> QED BY <2>1, WFMin
<1>2. \A j \in S : i <= j
  <2> TAKE j \in S
  <2>1. i \in Nat /\ j \in Nat /\ <<j, i>> \in Nat \X Nat
    OBVIOUS
  <2>2. ~(j < i)
    BY <1>1, <2>1
  <2> QED BY <2>1, <2>2
<1> QED BY <1>2 DEF Min

LEMMA GreatestExists ==
    ASSUME NEW n \in Nat, NEW S \in SUBSET (1 .. n), S # {}
    PROVE  Max(S) \in S
<1> DEFINE D == {n - j : j \in S}
<1>1. D \in SUBSET Nat /\ D # {}
  <2>1. \A j \in S : n - j \in Nat
    OBVIOUS
  <2> QED BY <2>1
<1>2. Min(D) \in D /\ \A d \in D : Min(D) <= d
  BY <1>1, LeastExists
<1>3. PICK i \in S : Min(D) = n - i
  BY <1>2
<1>4. \A j \in S : i >= j
  <2> TAKE j \in S
  <2>1. n - i <= n - j
    BY <1>2, <1>3
  <2> QED BY <2>1
<1> QED BY <1>4 DEF Max

\* A sequence that another one starts with.
Begins(s, t) == Len(s) <= Len(t) /\ \A i \in 1 .. Len(s) : t[i] = s[i]

LEMMA BeginsIsPrefix ==
    ASSUME NEW S, NEW s \in Seq(S), NEW t \in Seq(S), Begins(s, t)
    PROVE  IsPrefix(s, t)
<1>1. SubSeq(s, 1, Len(s)) = SubSeq(t, 1, Len(s))
  BY DEF Begins
<1> QED BY <1>1 DEF IsPrefix, Begins

LEMMA FrontFacts ==
    ASSUME NEW S, NEW s \in Seq(S), s # <<>>
    PROVE  /\ Front(s) \in Seq(S)
           /\ Len(Front(s)) = Len(s) - 1
           /\ Begins(Front(s), s)
BY DEF Front, Begins

LEMMA AppendBegins ==
    ASSUME NEW S, NEW s \in Seq(S), NEW x \in S
    PROVE  /\ Append(s, x) \in Seq(S)
           /\ Len(Append(s, x)) = Len(s) + 1
           /\ Begins(s, Append(s, x))
           /\ Front(Append(s, x)) = s
<1>1. Append(s, x) \in Seq(S) /\ Len(Append(s, x)) = Len(s) + 1 /\ Begins(s, Append(s, x))
  BY DEF Begins
<1>2. Front(Append(s, x)) = s
  BY DEF Front
<1> QED BY <1>1, <1>2

\* What a transcript says of the title of a session.
Titled(f, content, s) ==
    {i \in DOMAIN content : content[i].kind \in TitleKinds /\ SessionIn(f, content[i]) = s}

LEMMA TitleIsOne ==
    ASSUME NEW f, NEW s, NEW content \in Seq(Lines)
    PROVE  /\ TitleOf(f, content, s) # NoTitle <=> Titled(f, content, s) # {}
           /\ TitleOf(f, content, s) # NoTitle =>
                 \E i \in Titled(f, content, s) : TitleOf(f, content, s) = content[i].key
<1> DEFINE custom == Named(f, content, s, "custom-title")
           ai     == Named(f, content, s, "ai-title")
           at     == IF custom # {} THEN custom ELSE ai
<1>1. TitleOf(f, content, s) = LastKey(content, at)
  BY DEF TitleOf
<1>2. Titled(f, content, s) = custom \cup ai
  BY DEF Titled, Named, TitleKinds
<1>3. at \in SUBSET (1 .. Len(content)) /\ Len(content) \in Nat
  BY DEF Named
<1>4. at \subseteq Titled(f, content, s) /\ (at = {} <=> Titled(f, content, s) = {})
  BY <1>2
<1> HIDE DEF at
<1>5. CASE at = {}
  BY <1>1, <1>4, <1>5 DEF LastKey
<1>6. CASE at # {}
  <2>1. PICK i \in at : i = Max(at)
    BY <1>3, <1>6, GreatestExists
  <2>2. LastKey(content, at) = content[i].key
    BY <1>6, <2>1 DEF LastKey
  <2>3. content[i] \in Lines
    BY <1>3, <2>1
  <2>4. content[i].key # NoTitle
    BY <2>3, IngestAssumption
  <2> QED BY <1>1, <1>4, <2>1, <2>2, <2>4
<1> QED BY <1>5, <1>6

\* A session that a transcript names is named by every longer one.
LEMMA TitleNamed ==
    ASSUME NEW f, NEW s, NEW c \in Seq(Lines), NEW d \in Seq(Lines), Begins(c, d),
           TitleOf(f, c, s) # NoTitle
    PROVE  TitleOf(f, d, s) # NoTitle
<1>1. PICK i : i \in Titled(f, c, s)
  BY TitleIsOne
<1>2. i \in Titled(f, d, s)
  BY <1>1 DEF Titled, Begins
<1> QED BY <1>2, TitleIsOne

\* Appending lines takes no evidence back.
LEMMA VerdictStays ==
    ASSUME NEW S, NEW s \in Seq(S), NEW t \in Seq(S), Begins(s, t), NEW k,
           Verdict(s, k) = Referenced
    PROVE  Verdict(t, k) = Referenced
<1>1. ASSUME NEW j \in QuotesAfter(s, k) PROVE j \in QuotesAfter(t, k)
  <2>1. /\ j \in 1 .. Len(s) /\ s[j].kind = "quote" /\ s[j].key = k
        /\ \E i \in 1 .. j - 1 : s[i].kind = "result" /\ s[i].key = k
    BY DEF QuotesAfter
  <2>2. PICK i \in 1 .. j - 1 : s[i].kind = "result" /\ s[i].key = k
    BY <2>1
  <2>3. i \in 1 .. Len(s) /\ t[i] = s[i] /\ t[j] = s[j] /\ j \in 1 .. Len(t)
    BY <2>1, <2>2 DEF Begins
  <2> QED BY <2>1, <2>2, <2>3 DEF QuotesAfter
<1>2. IsFiniteSet(QuotesAfter(t, k))
  <2>1. QuotesAfter(t, k) \subseteq 1 .. Len(t)
    BY DEF QuotesAfter
  <2>2. 1 \in Int /\ Len(t) \in Int
    OBVIOUS
  <2>3. IsFiniteSet(1 .. Len(t))
    BY <2>2, FS_Interval
  <2> QED BY <2>1, <2>3, FS_Subset
<1>3. /\ Cardinality(QuotesAfter(s, k)) <= Cardinality(QuotesAfter(t, k))
      /\ Cardinality(QuotesAfter(s, k)) \in Nat /\ Cardinality(QuotesAfter(t, k)) \in Nat
  BY <1>1, <1>2, FS_Subset, FS_CardinalityType
<1>4. Cardinality(QuotesAfter(s, k)) >= 2
  BY DEF Verdict, Unknown, Referenced, Unreferenced
<1> QED BY <1>3, <1>4 DEF Verdict

-----------------------------------------------------------------------------
(***************************************************************************)
(* The disk.  Every write makes a file longer and its size larger, so that *)
(* equal sizes of a file, at two moments, mean an equal content.           *)
(***************************************************************************)
DiskOK ==
    /\ disk \in [Files -> [lines : Seq(Lines), torn : BOOLEAN]]
    /\ \A f \in Files : disk[f].torn => Exists(f)

FileOK(f) ==
    /\ disk[f].lines \in Seq(Lines)
    /\ Parsed(f) \in Seq(Lines) /\ Begins(Parsed(f), disk[f].lines)
    /\ Stat(f) \in Nat /\ (Exists(f) <=> Stat(f) > 0)

FilesOK == \A f \in Files : FileOK(f)

LEMMA FileFacts == DiskOK => FilesOK
<1> SUFFICES ASSUME DiskOK, NEW f \in Files PROVE FileOK(f)
  BY DEF FilesOK
<1>1. disk[f].lines \in Seq(Lines) /\ disk[f].torn \in BOOLEAN
      /\ (disk[f].torn => disk[f].lines # <<>>)
  BY DEF DiskOK, Exists
<1>2. Parsed(f) \in Seq(Lines) /\ Begins(Parsed(f), disk[f].lines)
  BY <1>1, FrontFacts DEF Parsed, Begins
<1>3. Stat(f) \in Nat /\ (Exists(f) <=> Stat(f) > 0)
  <2> DEFINE n == Len(disk[f].lines)
  <2>1. n \in Nat /\ (Exists(f) <=> n > 0) /\ (disk[f].torn => n > 0)
    BY <1>1 DEF Exists
  <2>2. (~disk[f].torn /\ Stat(f) = 2 * n - 0) \/ (disk[f].torn /\ Stat(f) = 2 * n - 1)
    BY DEF Stat
  <2> HIDE DEF n
  <2> QED BY <2>1, <2>2
<1> QED BY <1>1, <1>2, <1>3 DEF FileOK

LEMMA FileFactsNext == DiskOK' => FilesOK'
BY FileFacts, PTL

\* What a step may do to a file.
Grows(f) ==
    /\ Stat(f)' > Stat(f)
    /\ Begins(Parsed(f), Parsed(f)') /\ Begins(disk[f].lines, disk'[f].lines)

LEMMA DiskStep ==
    ASSUME DiskOK, [Next]_vars
    PROVE  /\ DiskOK'
           /\ \A f \in Files : disk'[f] = disk[f] \/ Grows(f)
<1>d. disk \in [Files -> [lines : Seq(Lines), torn : BOOLEAN]]
      /\ \A f \in Files : disk[f].torn => Exists(f)
  BY DEF DiskOK
<1>1. ASSUME NEW f \in Files, WriteLine(f)
      PROVE  DiskOK' /\ \A h \in Files : disk'[h] = disk[h] \/ Grows(h)
  <2>1. PICK l \in Lines, torn \in BOOLEAN :
            /\ ~disk[f].torn
            /\ disk' = [disk EXCEPT ![f] = [lines |-> Append(disk[f].lines, l), torn |-> torn]]
    BY <1>1 DEF WriteLine
  <2> DEFINE old == disk[f].lines
             new == Append(old, l)
  <2>2. old \in Seq(Lines)
    BY <1>d
  <2>3. new \in Seq(Lines) /\ Len(new) = Len(old) + 1 /\ Begins(old, new) /\ Front(new) = old
    BY <2>2, AppendBegins
  <2> HIDE DEF old, new
  <2>4. disk'[f].lines = new /\ disk'[f].torn = torn
    BY <1>d, <2>1 DEF new, old
  <2>5. DiskOK'
    <3>1. disk' \in [Files -> [lines : Seq(Lines), torn : BOOLEAN]]
      BY <1>d, <2>1, <2>3 DEF new, old
    <3>2. new # <<>>
      BY <2>2, <2>3
    <3> QED BY <1>d, <2>1, <2>4, <3>1, <3>2 DEF DiskOK, Exists
  <2>6. Stat(f)' > Stat(f)
    <3>1. Stat(f) = 2 * Len(old)
      BY <2>1, <2>2 DEF Stat, old
    <3>2. Stat(f)' = 2 * Len(new) - IF torn THEN 1 ELSE 0
      BY <2>4 DEF Stat
    <3>3. Len(old) \in Nat
      BY <2>2
    <3> QED BY <2>3, <3>1, <3>2, <3>3
  <2>7. Begins(Parsed(f), Parsed(f)')
    <3>1. Parsed(f) = old
      BY <2>1 DEF Parsed, old
    <3>2. Parsed(f)' \in {old, new}
      BY <2>3, <2>4 DEF Parsed
    <3> QED BY <2>2, <2>3, <3>1, <3>2 DEF Begins
  <2>8. \A h \in Files \ {f} : disk'[h] = disk[h]
    BY <1>d, <2>1
  <2> QED BY <2>3, <2>4, <2>5, <2>6, <2>7, <2>8 DEF Grows, old
<1>2. ASSUME NEW f \in Files, FinishLine(f)
      PROVE  DiskOK' /\ \A h \in Files : disk'[h] = disk[h] \/ Grows(h)
  <2>1. disk[f].torn /\ disk' = [disk EXCEPT ![f].torn = FALSE]
    BY <1>2 DEF FinishLine
  <2>2. disk'[f].lines = disk[f].lines /\ ~disk'[f].torn /\ disk[f].lines \in Seq(Lines)
        /\ disk[f].lines # <<>>
    BY <1>d, <2>1 DEF Exists
  <2>3. DiskOK'
    BY <1>d, <2>1, <2>2 DEF DiskOK, Exists
  <2>4. Stat(f)' > Stat(f)
    BY <2>1, <2>2 DEF Stat
  <2>5. Begins(Parsed(f), Parsed(f)')
    BY <2>1, <2>2, FrontFacts DEF Parsed
  <2>6. \A h \in Files \ {f} : disk'[h] = disk[h]
    BY <1>d, <2>1
  <2>7. Begins(disk[f].lines, disk'[f].lines)
    BY <2>2 DEF Begins
  <2> QED BY <2>3, <2>4, <2>5, <2>6, <2>7 DEF Grows
<1>3. ASSUME NEW f \in Files, NEW g \in Files, Fork(f, g)
      PROVE  DiskOK' /\ \A h \in Files : disk'[h] = disk[h] \/ Grows(h)
  <2>1. /\ ~Exists(g) /\ Parsed(f) # <<>>
        /\ disk' = [disk EXCEPT ![g].lines = Parsed(f)]
    BY <1>3 DEF Fork
  <2>2. Parsed(f) \in Seq(Lines)
    BY FileFacts DEF FilesOK, FileOK
  <2>3. disk[g].lines = <<>> /\ ~disk[g].torn /\ disk'[g].lines = Parsed(f) /\ ~disk'[g].torn
    BY <1>d, <2>1 DEF Exists
  <2>4. DiskOK'
    BY <1>d, <2>1, <2>2, <2>3 DEF DiskOK, Exists
  <2>5. Stat(g)' > Stat(g) /\ Begins(Parsed(g), Parsed(g)') /\ Begins(disk[g].lines, disk'[g].lines)
    BY <2>1, <2>2, <2>3 DEF Stat, Parsed, Begins
  <2>6. \A h \in Files \ {g} : disk'[h] = disk[h]
    BY <1>d, <2>1
  <2> QED BY <2>4, <2>5, <2>6 DEF Grows
<1>4. CASE disk' = disk
  BY <1>d, <1>4 DEF DiskOK, Exists
<1>5. ASSUME ~\E f \in Files : WriteLine(f) \/ FinishLine(f), ~\E f, g \in Files : Fork(f, g)
      PROVE  disk' = disk
  BY <1>5 DEF Next, vars, Glob, Step, Abort, StatFile, SkipFile, OpenFile, ReadFile, Commit,
              RecordFile, EndRun
<1> QED BY <1>1, <1>2, <1>3, <1>4, <1>5

-----------------------------------------------------------------------------
(***************************************************************************)
(* The runs.                                                               *)
(***************************************************************************)
Busy == {"check", "read", "commit", "record"}

LocalsOK ==
    /\ recorded \in [Files -> Nat]
    /\ pc \in [Ingesters -> Stages]
    /\ todo \in [Ingesters -> SUBSET Files]
    /\ size \in [Ingesters -> Nat]
    /\ parsed \in [Ingesters -> Seq(Lines)]

\* What a run knows of the file it works on.  Stat, open and read are apart: it
\* may have read more than the size says, but if the file still has that size,
\* what was read is the file.
RunOK(p) ==
    /\ pc[p] \in Busy => todo[p] # {} /\ size[p] <= Stat(Current(p))
    /\ pc[p] \notin {"commit", "record"} => parsed[p] = <<>>
    /\ pc[p] \in {"commit", "record"} =>
          /\ Begins(parsed[p], Parsed(Current(p)))
          /\ size[p] = Stat(Current(p)) => parsed[p] = Parsed(Current(p))

RunInv ==
    /\ DiskOK /\ LocalsOK
    /\ \A f \in Files : recorded[f] <= Stat(f)
    /\ \A p \in Ingesters : RunOK(p)

LEMMA CurrentListed ==
    ASSUME LocalsOK, NEW p \in Ingesters, todo[p] # {}
    PROVE  Current(p) \in todo[p] /\ Current(p) \in Files
<1> DEFINE places == {i \in DOMAIN Order : Order[i] \in todo[p]}
<1>1. todo[p] \subseteq Files
  BY DEF LocalsOK
<1>2. places \in SUBSET Nat /\ places # {}
  BY <1>1, IngestAssumption DEF Files, ToSet
<1>3. Min(places) \in places
  <2> HIDE DEF places
  <2> QED BY <1>2, LeastExists
<1> QED BY <1>1, <1>3 DEF Current

\* The harness writes, the locals of the runs stand still.
LEMMA RunUnderWrites ==
    ASSUME RunInv, DiskOK', UNCHANGED <<recorded, pc, todo, size, parsed>>,
           \A f \in Files : disk'[f] = disk[f] \/ Grows(f)
    PROVE  RunInv'
<1>1. LocalsOK /\ LocalsOK'
  BY DEF RunInv, LocalsOK
<1>2. \A f \in Files : /\ Stat(f) \in Nat /\ Stat(f)' \in Nat /\ Stat(f)' >= Stat(f)
                       /\ Stat(f)' = Stat(f) => Parsed(f)' = Parsed(f)
                       /\ Begins(Parsed(f), Parsed(f)')
  <2> TAKE f \in Files
  <2>1. Stat(f) \in Nat /\ Stat(f)' \in Nat /\ Parsed(f) \in Seq(Lines)
    <3>1. Stat(f) \in Nat /\ Parsed(f) \in Seq(Lines)
      BY FileFacts DEF RunInv, FilesOK, FileOK
    <3>2. Stat(f)' \in Nat
      BY FileFactsNext DEF FilesOK, FileOK
    <3> QED BY <3>1, <3>2
  <2>2. CASE disk'[f] = disk[f]
    BY <2>1, <2>2 DEF Stat, Parsed, Begins
  <2>3. CASE Grows(f)
    BY <2>1, <2>3 DEF Grows
  <2> QED BY <2>2, <2>3
<1>3. \A f \in Files : recorded'[f] <= Stat(f)'
  BY <1>1, <1>2 DEF RunInv, LocalsOK
<1>4. ASSUME NEW p \in Ingesters PROVE RunOK(p)'
  <2>1. RunOK(p) /\ Current(p)' = Current(p) /\ size[p] \in Nat /\ parsed[p] \in Seq(Lines)
    BY <1>1 DEF RunInv, Current, LocalsOK
  <2>2. CASE pc[p] \notin Busy
    BY <2>1, <2>2 DEF RunOK, Busy
  <2>3. CASE pc[p] \in Busy
    <3>1. PICK f \in Files : f = Current(p)
      BY <1>1, <2>1, <2>3, CurrentListed DEF RunOK
    <3>2. size[p] <= Stat(f) /\ Stat(f) <= Stat(f)' /\ Stat(f) \in Nat /\ Stat(f)' \in Nat
      BY <1>2, <2>1, <2>3, <3>1 DEF RunOK
    <3>3. Parsed(f) \in Seq(Lines) /\ Parsed(f)' \in Seq(Lines)
      BY FileFacts, FileFactsNext DEF RunInv, FilesOK, FileOK
    <3>4. Stat(f)' = Stat(Current(p))' /\ Parsed(f)' = Parsed(Current(p))'
      BY <2>1, <3>1
    <3>5. pc[p] \in {"commit", "record"} =>
              /\ Begins(parsed[p], Parsed(f)')
              /\ size[p] = Stat(f)' => parsed[p] = Parsed(f)'
      <4> SUFFICES ASSUME pc[p] \in {"commit", "record"}
                   PROVE  /\ Begins(parsed[p], Parsed(f)')
                          /\ size[p] = Stat(f)' => parsed[p] = Parsed(f)'
        OBVIOUS
      <4>1. Begins(parsed[p], Parsed(f)) /\ (size[p] = Stat(f) => parsed[p] = Parsed(f))
        BY <2>1, <3>1 DEF RunOK
      <4>2. Begins(Parsed(f), Parsed(f)') /\ (Stat(f)' = Stat(f) => Parsed(f)' = Parsed(f))
        BY <1>2
      <4>3. Begins(parsed[p], Parsed(f)')
        BY <2>1, <3>3, <4>1, <4>2 DEF Begins
      <4> QED BY <2>1, <3>2, <4>1, <4>2, <4>3
    <3> QED BY <2>1, <2>3, <3>1, <3>2, <3>4, <3>5 DEF RunOK
  <2> QED BY <2>2, <2>3
<1> QED BY <1>1, <1>3, <1>4 DEF RunInv

\* A run moves, the disk and the other runs stand still.
LEMMA RunFrame ==
    ASSUME RunInv, disk' = disk, LocalsOK', \A f \in Files : recorded'[f] <= Stat(f),
           NEW p \in Ingesters, RunOK(p)',
           \A q \in Ingesters \ {p} : /\ pc'[q] = pc[q] /\ todo'[q] = todo[q]
                                      /\ size'[q] = size[q] /\ parsed'[q] = parsed[q]
    PROVE  RunInv'
<1>1. DiskOK' /\ \A f \in Files : recorded'[f] <= Stat(f)'
  BY DEF RunInv, DiskOK, Exists, Stat
<1>2. ASSUME NEW q \in Ingesters \ {p} PROVE RunOK(q)'
  <2>1. RunOK(q) /\ UNCHANGED <<pc[q], todo[q], size[q], parsed[q]>>
    BY <1>2 DEF RunInv
  <2>2. Current(q)' = Current(q)
    BY <2>1 DEF Current
  <2>3. Stat(Current(q))' = Stat(Current(q)) /\ Parsed(Current(q))' = Parsed(Current(q))
    BY <2>2 DEF Stat, Parsed
  <2> QED BY <2>1, <2>3 DEF RunOK
<1> QED BY <1>1, <1>2 DEF RunInv

LEMMA RunStep == RunInv /\ [Next]_vars => RunInv'
<1> SUFFICES ASSUME RunInv, [Next]_vars PROVE RunInv'
  OBVIOUS
<1>t. LocalsOK /\ DiskOK /\ \A f \in Files : recorded[f] <= Stat(f)
  BY DEF RunInv
<1>d. DiskOK' /\ \A f \in Files : disk'[f] = disk[f] \/ Grows(f)
  BY <1>t, DiskStep
<1>1. CASE UNCHANGED <<recorded, pc, todo, size, parsed>>
  BY <1>1, <1>d, RunUnderWrites
<1>2. ASSUME NEW p \in Ingesters, Glob(p) \/ Step(p) \/ Abort(p) PROVE RunInv'
  <2>r. RunOK(p) /\ disk' = disk
    BY <1>2 DEF RunInv, Glob, Step, Abort, StatFile, SkipFile, OpenFile, ReadFile, Commit,
                RecordFile, EndRun
  <2>f. FilesOK
    BY <1>t, FileFacts
  <2>o. \A q \in Ingesters \ {p} : /\ pc'[q] = pc[q] /\ todo'[q] = todo[q]
                                   /\ size'[q] = size[q] /\ parsed'[q] = parsed[q]
    BY <1>t, <1>2 DEF LocalsOK, Glob, Step, Abort, StatFile, SkipFile, OpenFile, ReadFile, Commit,
                      RecordFile, EndRun, NextFile, Goto, locals
  <2> SUFFICES LocalsOK' /\ (\A f \in Files : recorded'[f] <= Stat(f)) /\ RunOK(p)'
    BY <2>r, <2>o, RunFrame
  <2> USE DEF LocalsOK, Stages, Busy
  <2>1. CASE Glob(p) \/ EndRun(p) \/ Abort(p)
    <3>1. LocalsOK' /\ recorded' = recorded
      <4>1. CASE Glob(p)
        BY <1>t, <4>1 DEF Glob, Goto
      <4>2. CASE EndRun(p)
        BY <1>t, <4>2 DEF EndRun, Goto
      <4>3. CASE Abort(p)
        <5>1. 0 \in Nat /\ <<>> \in Seq(Lines) /\ {} \in SUBSET Files
          OBVIOUS
        <5> QED BY <1>t, <4>3, <5>1 DEF Abort
      <4> QED BY <2>1, <4>1, <4>2, <4>3
    <3>2. pc'[p] \in {"idle", "stat"} /\ parsed'[p] = <<>>
      BY <1>t, <2>1, <2>r DEF Glob, EndRun, Abort, Goto, RunOK
    <3> QED BY <1>t, <3>1, <3>2 DEF RunOK
  <2>2. CASE StatFile(p)
    <3>1. PICK f \in Files : f = Current(p)
      BY <1>t, <2>2, CurrentListed DEF StatFile
    <3>2. Stat(f) \in Nat
      BY <2>f DEF FilesOK, FileOK
    <3>3. LocalsOK' /\ recorded' = recorded
      BY <1>t, <2>2, <3>1, <3>2 DEF StatFile, Goto
    <3>4. /\ pc[p] = "stat" /\ pc'[p] = "check" /\ size'[p] = Stat(f) /\ parsed'[p] = parsed[p]
          /\ todo'[p] = todo[p] /\ todo[p] # {}
      BY <1>t, <2>2, <3>1 DEF StatFile, Goto
    <3>5. Stat(f)' = Stat(f) /\ Current(p)' = f
      BY <2>r, <3>1, <3>4 DEF Stat, Current
    <3> QED BY <1>t, <2>r, <3>2, <3>3, <3>4, <3>5 DEF RunOK
  <2>3. CASE SkipFile(p)
    <3>1. LocalsOK' /\ recorded' = recorded /\ pc'[p] = "stat" /\ parsed'[p] = <<>>
      BY <1>t, <2>3 DEF SkipFile, NextFile, Goto
    <3> QED BY <1>t, <3>1 DEF RunOK
  <2>4. CASE OpenFile(p) \/ Commit(p)
    <3>1. LocalsOK' /\ UNCHANGED <<recorded, todo, size, parsed>>
      BY <1>t, <2>4 DEF OpenFile, Commit, Goto, locals
    <3>2. \/ pc[p] = "check" /\ pc'[p] = "read"
          \/ pc[p] = "commit" /\ pc'[p] = "record"
      BY <1>t, <2>4 DEF OpenFile, Commit, Goto
    <3>3. Current(p)' = Current(p)
      BY <3>1 DEF Current
    <3>4. Stat(Current(p))' = Stat(Current(p)) /\ Parsed(Current(p))' = Parsed(Current(p))
      BY <2>r, <3>3 DEF Stat, Parsed
    <3> QED BY <1>t, <2>r, <3>1, <3>2, <3>4 DEF RunOK
  <2>5. CASE ReadFile(p)
    <3>1. PICK f \in Files : f = Current(p)
      BY <1>t, <2>5, <2>r, CurrentListed DEF ReadFile, Goto, RunOK
    <3>2. Parsed(f) \in Seq(Lines)
      BY <2>f DEF FilesOK, FileOK
    <3>3. LocalsOK' /\ UNCHANGED <<recorded, todo, size>>
      BY <1>t, <2>5, <3>1, <3>2 DEF ReadFile, Goto
    <3>4. pc[p] = "read" /\ pc'[p] = "commit" /\ parsed'[p] = Parsed(f)
      BY <1>t, <2>5, <3>1 DEF ReadFile, Goto
    <3>5. Current(p)' = f
      BY <3>1, <3>3 DEF Current
    <3>6. Stat(Current(p))' = Stat(f) /\ Parsed(Current(p))' = Parsed(f)
      BY <2>r, <3>5 DEF Stat, Parsed
    <3>7. Begins(Parsed(f), Parsed(f))
      BY <3>2 DEF Begins
    <3> QED BY <1>t, <2>r, <3>1, <3>3, <3>4, <3>6, <3>7 DEF RunOK
  <2>6. CASE RecordFile(p)
    <3>1. PICK f \in Files : f = Current(p) /\ size[p] <= Stat(f)
      BY <1>t, <2>6, <2>r, CurrentListed DEF RecordFile, Goto, RunOK
    <3>2. LocalsOK' /\ pc'[p] = "stat" /\ parsed'[p] = <<>>
          /\ recorded' = [recorded EXCEPT ![f] = size[p]]
      BY <1>t, <2>6, <3>1 DEF RecordFile, NextFile, Goto
    <3> QED BY <1>t, <3>1, <3>2 DEF RunOK
  <2> QED BY <1>2, <2>1, <2>2, <2>3, <2>4, <2>5, <2>6 DEF Step
<1>3. ASSUME NEW f \in Files, NEW g \in Files, WriteLine(f) \/ FinishLine(f) \/ Fork(f, g)
      PROVE  UNCHANGED <<recorded, pc, todo, size, parsed>>
  BY <1>3 DEF WriteLine, FinishLine, Fork, locals
<1> QED BY <1>1, <1>2, <1>3 DEF Next, vars, locals

LEMMA RunInit == Init => RunInv
<1> SUFFICES ASSUME Init PROVE RunInv
  OBVIOUS
<1>1. DiskOK /\ LocalsOK
  BY DEF Init, DiskOK, Exists, LocalsOK, Stages
<1>2. FilesOK
  BY <1>1, FileFacts
<1> QED BY <1>1, <1>2 DEF Init, RunInv, RunOK, Busy, FilesOK, FileOK

-----------------------------------------------------------------------------
(***************************************************************************)
(* Steps, seen from the tables.                                            *)
(***************************************************************************)
LEMMA DbSteps ==
    ASSUME [Next]_vars
    PROVE  UNCHANGED db \/ \E p \in Ingesters : Commit(p)
BY DEF Next, vars, WriteLine, FinishLine, Fork, Glob, Step, Abort, StatFile, SkipFile, OpenFile,
       ReadFile, RecordFile, EndRun

LEMMA RecordedSteps ==
    ASSUME [Next]_vars
    PROVE  recorded' = recorded \/ \E p \in Ingesters : RecordFile(p)
BY DEF Next, vars, WriteLine, FinishLine, Fork, Glob, Step, Abort, StatFile, SkipFile, OpenFile,
       ReadFile, Commit, EndRun

\* Who is about to record came there by its commit.
LEMMA RecordSteps ==
    ASSUME LocalsOK, [Next]_vars, NEW p \in Ingesters, pc'[p] = "record"
    PROVE  \/ Commit(p)
           \/ pc[p] = "record" /\ todo'[p] = todo[p] /\ size'[p] = size[p]
<1>1. CASE pc' = pc /\ todo' = todo /\ size' = size
  BY <1>1
<1>2. ASSUME NEW q \in Ingesters, Glob(q) \/ Step(q) \/ Abort(q), q # p
      PROVE  pc[p] = "record" /\ todo'[p] = todo[p] /\ size'[p] = size[p]
  BY <1>2 DEF LocalsOK, Glob, Step, Abort, StatFile, SkipFile, OpenFile, ReadFile, Commit,
              RecordFile, EndRun, NextFile, Goto, locals
<1>3. CASE Glob(p) \/ Step(p) \/ Abort(p)
  BY <1>3 DEF LocalsOK, Glob, Step, Abort, StatFile, SkipFile, OpenFile, ReadFile, RecordFile,
              EndRun, Goto
<1>4. ASSUME ~\E q \in Ingesters : Glob(q) \/ Step(q) \/ Abort(q)
      PROVE  pc' = pc /\ todo' = todo /\ size' = size
  BY <1>4 DEF Next, vars, WriteLine, FinishLine, Fork, locals
<1> QED BY <1>1, <1>2, <1>3, <1>4

\* A file that still has the size it had, or that was not written, is the same.
LEMMA SameSize ==
    ASSUME RunInv, [Next]_vars, NEW f \in Files, NEW n \in Nat, n <= Stat(f), n = Stat(f)'
    PROVE  /\ n = Stat(f)
           /\ Parsed(f)' = Parsed(f) /\ Exists(f)' = Exists(f)
<1>1. disk'[f] = disk[f] \/ Stat(f)' > Stat(f)
  BY DiskStep DEF RunInv, Grows
<1>2. Stat(f) \in Nat
  BY FileFacts DEF RunInv, FilesOK, FileOK
<1>3. disk'[f] = disk[f]
  BY <1>1, <1>2
<1> QED BY <1>3 DEF Stat, Parsed, Exists

-----------------------------------------------------------------------------
(***************************************************************************)
(* What rows say stands in a file.                                         *)
(***************************************************************************)
RowsOK ==
    /\ titles = [f \in Files |-> titles[f]]
    /\ \A f \in Files : titles[f] # NoTitle => Stands(TitleKinds, titles[f], f)
    /\ \A k \in DOMAIN blocks : blocks[k] \in {Unknown, Referenced, Unreferenced}
    /\ \A k \in DOMAIN requests : requests[k] \in Files /\ Stands({"call"}, k, requests[k])

\* Lines stay where they are written.
LEMMA StandsStays ==
    ASSUME RunInv, [Next]_vars, NEW kinds, NEW key, NEW s, Stands(kinds, key, s)
    PROVE  Stands(kinds, key, s)'
<1>1. PICK f \in Files : \E l \in ToSet(disk[f].lines) :
          l.kind \in kinds /\ l.key = key /\ SessionIn(f, l) = s
  BY DEF Stands
<1>2. PICK i \in DOMAIN disk[f].lines :
          LET l == disk[f].lines[i] IN l.kind \in kinds /\ l.key = key /\ SessionIn(f, l) = s
  BY <1>1 DEF ToSet
<1>3. disk'[f] = disk[f] \/ Begins(disk[f].lines, disk'[f].lines)
  BY DiskStep DEF RunInv, Grows
<1>4. disk[f].lines \in Seq(Lines) /\ disk'[f].lines \in Seq(Lines)
  BY DiskStep DEF RunInv, DiskOK
<1>5. i \in DOMAIN disk'[f].lines /\ disk'[f].lines[i] = disk[f].lines[i]
  BY <1>3, <1>4 DEF Begins
<1> QED BY <1>2, <1>5 DEF Stands, ToSet

\* What a run has parsed stands in the file.
LEMMA ParsedStands ==
    ASSUME RunInv, NEW p \in Ingesters, pc[p] \in {"commit", "record"}
    PROVE  \E f \in Files :
              /\ f = Current(p) /\ parsed[p] \in Seq(Lines)
              /\ \A i \in DOMAIN parsed[p] : parsed[p][i] \in ToSet(disk[f].lines)
<1>t. LocalsOK /\ FilesOK
  BY FileFacts DEF RunInv
<1>1. PICK f \in Files : f = Current(p) /\ Begins(parsed[p], Parsed(f))
  BY <1>t, CurrentListed DEF RunInv, RunOK, Busy
<1>2. /\ parsed[p] \in Seq(Lines) /\ Parsed(f) \in Seq(Lines) /\ disk[f].lines \in Seq(Lines)
      /\ Begins(Parsed(f), disk[f].lines)
  BY <1>t DEF LocalsOK, FilesOK, FileOK
<1>3. ASSUME NEW i \in DOMAIN parsed[p]
      PROVE  i \in DOMAIN disk[f].lines /\ parsed[p][i] = disk[f].lines[i]
  <2>1. i \in 1 .. Len(parsed[p])
    BY <1>2
  <2>2. i \in 1 .. Len(Parsed(f)) /\ Parsed(f)[i] = parsed[p][i]
    BY <1>1, <1>2, <2>1 DEF Begins
  <2>3. i \in 1 .. Len(disk[f].lines) /\ disk[f].lines[i] = Parsed(f)[i]
    BY <1>2, <2>2 DEF Begins
  <2> QED BY <1>2, <2>2, <2>3
<1> QED BY <1>1, <1>2, <1>3 DEF ToSet

LEMMA RowsStep == RunInv /\ RowsOK /\ [Next]_vars => RowsOK'
<1> SUFFICES ASSUME RunInv, RowsOK, [Next]_vars PROVE RowsOK'
  OBVIOUS
<1>1. CASE UNCHANGED db
  <2>1. UNCHANGED <<requests, blocks, titles>>
    BY <1>1 DEF db
  <2>2. ASSUME NEW f \in Files, titles[f] # NoTitle PROVE Stands(TitleKinds, titles[f], f)'
    <3>1. PICK t : t = titles[f]
      OBVIOUS
    <3>2. Stands(TitleKinds, t, f)
      BY <2>2, <3>1 DEF RowsOK
    <3>3. Stands(TitleKinds, t, f)'
      BY <3>2, StandsStays
    <3> QED BY <2>1, <3>1, <3>3 DEF Stands, TitleKinds
  <2>3. ASSUME NEW k \in DOMAIN requests PROVE Stands({"call"}, k, requests[k])'
    <3>1. PICK r : r = requests[k]
      OBVIOUS
    <3>2. Stands({"call"}, k, r)
      BY <3>1 DEF RowsOK
    <3>3. Stands({"call"}, k, r)'
      BY <3>2, StandsStays
    <3> QED BY <2>1, <3>1, <3>3 DEF Stands
  <2> QED BY <2>1, <2>2, <2>3 DEF RowsOK
<1>2. ASSUME NEW p \in Ingesters, Commit(p) PROVE RowsOK'
  <2>1. PICK f \in Files : /\ f = Current(p) /\ parsed[p] \in Seq(Lines)
                           /\ \A i \in DOMAIN parsed[p] : parsed[p][i] \in ToSet(disk[f].lines)
    BY <1>2, ParsedStands DEF Commit, Goto
  <2>2. disk' = disk /\ Store(f, parsed[p])
    BY <1>2, <2>1 DEF Commit
  <2> DEFINE content == parsed[p]
  <2>3. titles' = [s \in Files |-> titles'[s]]
    BY <2>2 DEF Store
  <2>4. ASSUME NEW s \in Files, titles'[s] # NoTitle PROVE Stands(TitleKinds, titles'[s], s)
    <3>1. CASE TitleOf(f, content, s) = NoTitle
      BY <2>2, <2>4, <3>1 DEF Store, NewTitle, RowsOK
    <3>2. CASE TitleOf(f, content, s) # NoTitle
      <4>1. titles'[s] = TitleOf(f, content, s)
        BY <2>2, <3>2 DEF Store, NewTitle
      <4>2. PICK i \in Titled(f, content, s) : titles'[s] = content[i].key
        BY <2>1, <3>2, <4>1, TitleIsOne
      <4> QED BY <2>1, <4>2 DEF Stands, Titled
    <3> QED BY <3>1, <3>2
  <2>5. \A k \in DOMAIN blocks' : blocks'[k] \in {Unknown, Referenced, Unreferenced}
    BY <2>2 DEF Store, RowsOK, Merge, Verdict
  <2>6. ASSUME NEW k \in DOMAIN requests'
        PROVE  requests'[k] \in Files /\ Stands({"call"}, k, requests'[k])
    <3>1. CASE k \in DOMAIN requests
      BY <2>2, <3>1 DEF Store, RowsOK
    <3>2. CASE k \notin DOMAIN requests
      <4> DEFINE calls == {i \in DOMAIN content : content[i].kind = "call" /\ content[i].key = k}
      <4>1. k \in KeysOf(content, "call") /\ requests'[k] = SessionOfCall(f, content, k)
        BY <2>2, <3>2 DEF Store
      <4>2. calls \in SUBSET Nat /\ calls # {}
        BY <2>1, <4>1 DEF KeysOf, ToSet
      <4>3. PICK i \in calls : i = Min(calls)
        <5> HIDE DEF calls
        <5> QED BY <4>2, LeastExists
      <4>4. requests'[k] = SessionIn(f, content[i])
        BY <4>1, <4>3 DEF SessionOfCall
      <4>5. content[i] \in Lines /\ content[i] \in ToSet(disk[f].lines)
        <5>1. i \in DOMAIN content
          BY <4>3
        <5> QED BY <2>1, <5>1
      <4>6. SessionIn(f, content[i]) \in Files
        BY <4>5, IngestAssumption DEF SessionIn
      <4> QED BY <4>3, <4>4, <4>5, <4>6 DEF Stands
    <3> QED BY <3>1, <3>2
  <2> QED BY <2>2, <2>3, <2>4, <2>5, <2>6 DEF RowsOK, Stands, TitleKinds
<1> QED BY <1>1, <1>2, DbSteps

\* No run ever remembers, records or stores what its file does not hold.
THEOREM TypeCorrect == Spec => []TypeOK
<1>1. Init => RunInv /\ RowsOK
  BY RunInit DEF Init, RowsOK
<1>2. RunInv /\ RowsOK => TypeOK
  <2> SUFFICES ASSUME RunInv, RowsOK PROVE TypeOK
    OBVIOUS
  <2>t. LocalsOK /\ FilesOK
    BY FileFacts DEF RunInv
  <2>1. ASSUME NEW p \in Ingesters, pc[p] \in Stages \ {"idle", "stat"}
        PROVE  size[p] <= Stat(Current(p)) /\ IsPrefix(parsed[p], Parsed(Current(p)))
    <3>1. pc[p] \in Busy
      BY <2>1 DEF Stages, Busy
    <3>2. PICK f \in Files : f = Current(p) /\ size[p] <= Stat(f)
      BY <2>t, <3>1, CurrentListed DEF RunInv, RunOK
    <3>3. parsed[p] \in Seq(Lines) /\ Parsed(f) \in Seq(Lines)
      BY <2>t DEF LocalsOK, FilesOK, FileOK
    <3>4. Begins(parsed[p], Parsed(f))
      <4>1. CASE pc[p] \in {"commit", "record"}
        BY <3>2, <4>1 DEF RunInv, RunOK
      <4>2. CASE pc[p] \notin {"commit", "record"}
        BY <3>3, <4>2 DEF RunInv, RunOK, Begins
      <4> QED BY <4>1, <4>2
    <3> QED BY <3>2, <3>3, <3>4, BeginsIsPrefix
  <2> QED BY <2>t, <2>1 DEF TypeOK, LocalsOK, RunInv, RowsOK
<1> QED BY <1>1, <1>2, RunStep, RowsStep, PTL DEF Spec

-----------------------------------------------------------------------------
(***************************************************************************)
(* What is skipped.                                                        *)
(***************************************************************************)
Kept(f) ==
    /\ KeysOf(Parsed(f), "call") \subseteq DOMAIN requests
    /\ \A k \in KeysOf(Parsed(f), "result") :
          /\ k \in DOMAIN blocks
          /\ Verdict(Parsed(f), k) = Referenced => blocks[k] = Referenced

\* A size may be recorded because of what the commit before it stored.
SkipInv ==
    /\ RunInv /\ SkipSound
    /\ \A p \in Ingesters, f \in Files :
          pc[p] = "record" /\ f = Current(p) /\ size[p] = Stat(f) => Kept(f)

\* Rows stay, and a referenced verdict sticks.
LEMMA KeptStays ==
    ASSUME RunInv, [Next]_vars, NEW f \in Files, Kept(f), Parsed(f)' = Parsed(f)
    PROVE  Kept(f)'
<1>1. CASE UNCHANGED db
  BY <1>1 DEF Kept, db
<1>2. ASSUME NEW p \in Ingesters, Commit(p) PROVE Kept(f)'
  <2>1. DOMAIN requests \subseteq DOMAIN requests'
    BY <1>2 DEF Commit, Store
  <2>2. \A k \in DOMAIN blocks : /\ k \in DOMAIN blocks'
                                 /\ blocks[k] = Referenced => blocks'[k] = Referenced
    BY <1>2 DEF Commit, Store, Merge
  <2> QED BY <2>1, <2>2 DEF Kept
<1> QED BY <1>1, <1>2, DbSteps

LEMMA CommitKeeps ==
    ASSUME RunInv, NEW p \in Ingesters, Commit(p), NEW f \in Files, parsed[p] = Parsed(f)
    PROVE  Kept(f)'
<1>1. Parsed(f)' = parsed[p]
  BY DEF Commit, Parsed
<1> DEFINE content == parsed[p]
<1>2. KeysOf(content, "call") \subseteq DOMAIN requests'
  BY DEF Commit, Store
<1>3. \A k \in KeysOf(content, "result") :
          /\ k \in DOMAIN blocks'
          /\ Verdict(content, k) = Referenced => blocks'[k] = Referenced
  BY DEF Commit, Store, Merge
<1> QED BY <1>1, <1>2, <1>3 DEF Kept

LEMMA SkipStep == SkipInv /\ [Next]_vars => SkipInv'
<1> SUFFICES ASSUME SkipInv, [Next]_vars PROVE SkipInv'
  OBVIOUS
<1>t. RunInv /\ RunInv' /\ LocalsOK /\ FilesOK
  BY RunStep, FileFacts DEF SkipInv, RunInv
<1>1. ASSUME NEW f \in Files, WouldSkip(f)' PROVE Kept(f)'
  <2>1. recorded'[f] = Stat(f)' /\ Exists(f)'
    BY <1>1 DEF WouldSkip
  <2>2. CASE recorded'[f] = recorded[f]
    <3>1. recorded[f] \in Nat /\ recorded[f] <= Stat(f)
      BY <1>t DEF RunInv, LocalsOK
    <3>2. recorded[f] = Stat(f) /\ Parsed(f)' = Parsed(f) /\ Exists(f)
      BY <1>t, <2>1, <2>2, <3>1, SameSize
    <3>3. Kept(f)
      BY <3>2 DEF SkipInv, SkipSound, WouldSkip, Kept
    <3> QED BY <1>t, <3>2, <3>3, KeptStays
  <2>3. ASSUME NEW p \in Ingesters, RecordFile(p), recorded'[f] # recorded[f] PROVE Kept(f)'
    <3>1. f = Current(p) /\ recorded'[f] = size[p] /\ pc[p] = "record"
          /\ UNCHANGED <<disk, requests, blocks>>
      BY <1>t, <2>3 DEF RecordFile, Goto, LocalsOK, db
    <3>2. Parsed(f)' = Parsed(f) /\ Stat(f)' = Stat(f)
      BY <3>1 DEF Parsed, Stat
    <3>3. Kept(f)
      BY <2>1, <3>1, <3>2 DEF SkipInv
    <3> QED BY <3>1, <3>2, <3>3 DEF Kept
  <2> QED BY <2>2, <2>3, RecordedSteps
<1>2. ASSUME NEW p \in Ingesters, NEW f \in Files,
             pc'[p] = "record", f = Current(p)', size'[p] = Stat(f)'
      PROVE  Kept(f)'
  <2>1. CASE Commit(p)
    <3>1. pc[p] = "commit" /\ UNCHANGED <<disk, todo, size>>
      BY <2>1 DEF Commit, Goto, locals
    <3>2. f = Current(p) /\ size[p] = Stat(f)
      BY <1>2, <3>1 DEF Current, Stat
    <3>3. parsed[p] = Parsed(f)
      BY <1>t, <3>1, <3>2 DEF RunInv, RunOK
    <3> QED BY <1>t, <2>1, <3>3, CommitKeeps
  <2>2. CASE pc[p] = "record" /\ todo'[p] = todo[p] /\ size'[p] = size[p]
    <3>1. f = Current(p) /\ size[p] = Stat(f)' /\ size[p] \in Nat
      BY <1>t, <1>2, <2>2 DEF Current, LocalsOK
    <3>2. size[p] <= Stat(f)
      BY <1>t, <2>2, <3>1 DEF RunInv, RunOK, Busy
    <3>3. size[p] = Stat(f) /\ Parsed(f)' = Parsed(f)
      BY <1>t, <3>1, <3>2, SameSize
    <3> QED BY <1>t, <2>2, <3>1, <3>3, KeptStays DEF SkipInv
  <2> QED BY <1>t, <1>2, <2>1, <2>2, RecordSteps
<1>3. SkipSound'
  BY <1>1 DEF SkipSound, Kept
<1> QED BY <1>t, <1>2, <1>3 DEF SkipInv

\* A file that a run would skip has nothing to give: for any number of processes
\* that ingest, any lines appended between stat, read and record, and any runs
\* that died on the way.
THEOREM SkipSoundHolds == Spec => []SkipSound
<1>1. Init => SkipInv
  BY RunInit DEF Init, SkipInv, SkipSound, WouldSkip, Exists
<1>2. SkipInv => SkipSound
  BY DEF SkipInv
<1> QED BY <1>1, <1>2, SkipStep, PTL DEF Spec

-----------------------------------------------------------------------------
(***************************************************************************)
(* What is called referenced.                                              *)
(***************************************************************************)
EarnedInv == RunInv /\ ReferencedEarned

LEMMA EarnedStep == EarnedInv /\ [Next]_vars => EarnedInv'
<1> SUFFICES ASSUME EarnedInv, [Next]_vars PROVE EarnedInv'
  OBVIOUS
<1>t. RunInv /\ RunInv' /\ LocalsOK /\ FilesOK /\ FilesOK'
  BY RunStep, FileFacts, FileFactsNext DEF EarnedInv, RunInv
<1>1. ASSUME NEW f \in Files, NEW k, Verdict(Parsed(f), k) = Referenced
      PROVE  Verdict(Parsed(f)', k) = Referenced
  <2>1. CASE disk'[f] = disk[f]
    BY <1>1, <2>1 DEF Parsed
  <2>2. CASE Grows(f)
    <3>1. Parsed(f) \in Seq(Lines) /\ Parsed(f)' \in Seq(Lines) /\ Begins(Parsed(f), Parsed(f)')
      BY <1>t, <2>2 DEF FilesOK, FileOK, Grows
    <3> QED BY <1>1, <3>1, VerdictStays
  <2> QED BY <1>t, <2>1, <2>2, DiskStep DEF RunInv
<1>2. ASSUME NEW k \in DOMAIN blocks', blocks'[k] = Referenced
      PROVE  \E f \in Files : Verdict(Parsed(f), k) = Referenced
  <2>1. CASE k \in DOMAIN blocks /\ blocks[k] = Referenced
    BY <2>1 DEF EarnedInv, ReferencedEarned
  <2>2. ASSUME NEW p \in Ingesters, Commit(p), ~(k \in DOMAIN blocks /\ blocks[k] = Referenced)
        PROVE  \E f \in Files : Verdict(Parsed(f), k) = Referenced
    <3>1. Verdict(parsed[p], k) = Referenced
      BY <1>2, <2>2 DEF Commit, Store, Merge
    <3>2. pc[p] = "commit"
      BY <2>2 DEF Commit, Goto
    <3>3. PICK f \in Files : f = Current(p) /\ Begins(parsed[p], Parsed(f))
      BY <1>t, <3>2, CurrentListed DEF RunInv, RunOK, Busy
    <3>4. parsed[p] \in Seq(Lines) /\ Parsed(f) \in Seq(Lines)
      BY <1>t DEF LocalsOK, FilesOK, FileOK
    <3> QED BY <3>1, <3>3, <3>4, VerdictStays
  <2> QED BY <1>2, <2>1, <2>2, DbSteps DEF db
<1> QED BY <1>t, <1>1, <1>2 DEF EarnedInv, ReferencedEarned

\* A block is only called referenced if some transcript refers to it often enough,
\* whatever copies were parsed in which order, and at whatever moment.
THEOREM ReferencedEarnedHolds == Spec => []ReferencedEarned
<1>1. Init => EarnedInv
  BY RunInit DEF Init, EarnedInv, ReferencedEarned
<1>2. EarnedInv => ReferencedEarned
  BY DEF EarnedInv
<1> QED BY <1>1, <1>2, EarnedStep, PTL DEF Spec

-----------------------------------------------------------------------------
(***************************************************************************)
(* What a session is called.  Titles are replaced and not merged, so what  *)
(* is proved of one process is false of two.                               *)
(***************************************************************************)
SingleIngester == \A p, q \in Ingesters : p = q

\* The title a file gives a session as it stands.
Now(f, s) == TitleOf(f, Parsed(f), s)

\* The file that a title came from, until it is read again.
Source(f, s) == Now(f, s) # NoTitle /\ (WouldSkip(f) => titles[s] = Now(f, s))

AllSourced == \A s \in Files : titles[s] # NoTitle => \E f \in Files : Source(f, s)

SkippedNamed == \A f, s \in Files : WouldSkip(f) /\ Now(f, s) # NoTitle => titles[s] # NoTitle

\* No size is recorded that a run at work on the file has not seen, and the
\* commit before a record left the titles of the file.
RunTitles ==
    \A p \in Ingesters, f \in Files : f = Current(p) =>
        /\ pc[p] \in Busy => recorded[f] <= size[p]
        /\ pc[p] = "record" /\ size[p] = Stat(f) =>
              \A s \in Files : Now(f, s) # NoTitle => titles[s] = Now(f, s)

TitleInv == RunInv /\ AllSourced /\ SkippedNamed /\ RunTitles

LEMMA NowStays ==
    ASSUME RunInv, [Next]_vars, NEW f \in Files, NEW s, Now(f, s) # NoTitle
    PROVE  Now(f, s)' # NoTitle
<1>1. CASE disk'[f] = disk[f]
  BY <1>1 DEF Now, Parsed
<1>2. CASE Grows(f)
  <2>1. Parsed(f) \in Seq(Lines) /\ Parsed(f)' \in Seq(Lines)
    BY RunStep, FileFacts, FileFactsNext DEF RunInv, FilesOK, FileOK
  <2>2. TitleOf(f, Parsed(f)', s) # NoTitle
    BY <1>2, <2>1, TitleNamed DEF Now, Grows
  <2> QED BY <2>2 DEF Now
<1> QED BY <1>1, <1>2, DiskStep DEF RunInv

\* A file that will be skipped, and was not recorded just now, was to be skipped.
LEMMA SkippedBefore ==
    ASSUME RunInv, [Next]_vars, NEW f \in Files, WouldSkip(f)', recorded'[f] = recorded[f]
    PROVE  WouldSkip(f) /\ Parsed(f)' = Parsed(f)
<1>1. recorded[f] \in Nat /\ recorded[f] <= Stat(f) /\ recorded[f] = Stat(f)'
  BY DEF RunInv, LocalsOK, WouldSkip
<1>2. recorded[f] = Stat(f) /\ Parsed(f)' = Parsed(f) /\ Exists(f)' = Exists(f)
  BY <1>1, SameSize
<1> QED BY <1>2 DEF WouldSkip

\* What a run that commits to a file which would be skipped has parsed is the
\* file: a reading that is old would have found it recorded with a size that it
\* has outgrown.
LEMMA CommitOfSkipped ==
    ASSUME TitleInv, NEW p \in Ingesters, Commit(p)
    PROVE  \E f \in Files : /\ f = Current(p) /\ Begins(parsed[p], Parsed(f))
                            /\ parsed[p] \in Seq(Lines) /\ Parsed(f) \in Seq(Lines)
                            /\ WouldSkip(f) \/ size[p] = Stat(f) => parsed[p] = Parsed(f)
<1>t. RunInv /\ LocalsOK /\ FilesOK /\ pc[p] = "commit"
  BY FileFacts DEF TitleInv, RunInv, Commit, Goto
<1>1. PICK f \in Files : f = Current(p)
  BY <1>t, CurrentListed DEF RunInv, RunOK, Busy
<1>2. /\ Begins(parsed[p], Parsed(f)) /\ size[p] <= Stat(f) /\ recorded[f] <= size[p]
      /\ size[p] = Stat(f) => parsed[p] = Parsed(f)
  BY <1>t, <1>1 DEF TitleInv, RunTitles, RunInv, RunOK, Busy
<1>3. size[p] \in Nat /\ Stat(f) \in Nat /\ parsed[p] \in Seq(Lines) /\ Parsed(f) \in Seq(Lines)
  BY <1>t DEF LocalsOK, FilesOK, FileOK
<1>4. WouldSkip(f) => size[p] = Stat(f)
  BY <1>2, <1>3 DEF WouldSkip
<1> QED BY <1>1, <1>2, <1>3, <1>4

\* A commit makes its file the source of the titles it gives.
LEMMA TitleCommit ==
    ASSUME TitleInv, NEW p \in Ingesters, Commit(p)
    PROVE  /\ AllSourced' /\ SkippedNamed'
           /\ \A f \in Files : f = Current(p) /\ size[p] = Stat(f) =>
                 \A s \in Files : Now(f, s)' # NoTitle => titles'[s] = Now(f, s)'
<1>1. PICK c \in Files : /\ c = Current(p) /\ Begins(parsed[p], Parsed(c))
                         /\ parsed[p] \in Seq(Lines) /\ Parsed(c) \in Seq(Lines)
                         /\ WouldSkip(c) \/ size[p] = Stat(c) => parsed[p] = Parsed(c)
  BY CommitOfSkipped
<1>2. disk' = disk /\ recorded' = recorded
  BY DEF Commit
<1>3. \A f \in Files : /\ WouldSkip(f)' = WouldSkip(f)
                       /\ \A s \in Files : Now(f, s)' = Now(f, s)
  BY <1>2 DEF WouldSkip, Exists, Stat, Now, Parsed
<1>4. \A s \in Files : titles'[s] = NewTitle(titles[s], TitleOf(c, parsed[p], s))
  BY <1>1 DEF Commit, Store
<1>5. ASSUME NEW s \in Files, titles'[s] # NoTitle PROVE \E f \in Files : Source(f, s)'
  <2>1. CASE TitleOf(c, parsed[p], s) = NoTitle
    <3>1. titles'[s] = titles[s]
      BY <1>4, <2>1 DEF NewTitle
    <3>2. PICK f \in Files : Source(f, s)
      BY <1>5, <3>1 DEF TitleInv, AllSourced
    <3> QED BY <1>3, <3>1, <3>2 DEF Source
  <2>2. CASE TitleOf(c, parsed[p], s) # NoTitle
    <3>1. titles'[s] = TitleOf(c, parsed[p], s)
      BY <1>4, <2>2 DEF NewTitle
    <3>2. Now(c, s) # NoTitle
      BY <1>1, <2>2, TitleNamed DEF Now
    <3>3. WouldSkip(c) => titles'[s] = Now(c, s)
      BY <1>1, <3>1 DEF Now
    <3>4. Source(c, s)'
      BY <1>3, <3>2, <3>3 DEF Source
    <3> QED BY <3>4
  <2> QED BY <2>1, <2>2
<1>6. SkippedNamed'
  BY <1>3, <1>4 DEF TitleInv, SkippedNamed, NewTitle
<1>7. ASSUME NEW f \in Files, f = Current(p), size[p] = Stat(f), NEW s \in Files, Now(f, s)' # NoTitle
      PROVE  titles'[s] = Now(f, s)'
  <2>1. parsed[p] = Parsed(f) /\ f = c
    BY <1>1, <1>7
  <2>2. TitleOf(c, parsed[p], s) = Now(f, s)
    BY <2>1 DEF Now
  <2> QED BY <1>3, <1>4, <1>7, <2>2 DEF NewTitle
<1> QED BY <1>5, <1>6, <1>7 DEF AllSourced

LEMMA TitleStep ==
    ASSUME SingleIngester
    PROVE  TitleInv /\ [Next]_vars => TitleInv'
<1> SUFFICES ASSUME TitleInv, [Next]_vars PROVE TitleInv'
  OBVIOUS
<1>t. RunInv /\ RunInv' /\ LocalsOK /\ LocalsOK' /\ FilesOK
  BY RunStep, FileFacts DEF TitleInv, RunInv
<1>1. ASSUME NEW p \in Ingesters, RecordFile(p), NEW f \in Files, recorded'[f] # recorded[f],
             WouldSkip(f)', NEW s \in Files, Now(f, s)' # NoTitle
      PROVE  titles'[s] = Now(f, s)'
  <2>1. /\ f = Current(p) /\ recorded'[f] = size[p] /\ pc[p] = "record"
        /\ UNCHANGED <<disk, titles>>
    BY <1>t, <1>1 DEF RecordFile, Goto, LocalsOK, db
  <2>2. Stat(f)' = Stat(f) /\ Now(f, s)' = Now(f, s)
    BY <2>1 DEF Now, Parsed, Stat
  <2>3. size[p] = Stat(f)
    BY <1>1, <2>1, <2>2 DEF WouldSkip
  <2> QED BY <1>1, <2>1, <2>2, <2>3 DEF TitleInv, RunTitles
<1>2. AllSourced' /\ SkippedNamed'
  <2>1. CASE UNCHANGED db
    <3>1. titles' = titles
      BY <2>1 DEF db
    <3>2. ASSUME NEW s \in Files, NEW f \in Files, Source(f, s) PROVE Source(f, s)'
      <4>1. Now(f, s)' # NoTitle
        BY <1>t, <3>2, NowStays DEF Source
      <4>2. ASSUME WouldSkip(f)' PROVE titles'[s] = Now(f, s)'
        <5>1. CASE recorded'[f] = recorded[f]
          <6>1. WouldSkip(f) /\ Now(f, s)' = Now(f, s)
            BY <1>t, <4>2, <5>1, SkippedBefore DEF Now
          <6> QED BY <3>1, <3>2, <6>1 DEF Source
        <5>2. CASE recorded'[f] # recorded[f]
          <6>1. PICK p \in Ingesters : RecordFile(p)
            BY <5>2, RecordedSteps
          <6> QED BY <1>1, <4>1, <4>2, <5>2, <6>1
        <5> QED BY <5>1, <5>2
      <4> QED BY <4>1, <4>2 DEF Source
    <3>3. ASSUME NEW f \in Files, NEW s \in Files, WouldSkip(f)', Now(f, s)' # NoTitle
          PROVE  titles'[s] # NoTitle
      <4>1. CASE recorded'[f] = recorded[f]
        <5>1. WouldSkip(f) /\ Now(f, s)' = Now(f, s)
          BY <1>t, <3>3, <4>1, SkippedBefore DEF Now
        <5> QED BY <3>1, <3>3, <5>1 DEF TitleInv, SkippedNamed
      <4>2. CASE recorded'[f] # recorded[f]
        <5>1. PICK p \in Ingesters : RecordFile(p)
          BY <4>2, RecordedSteps
        <5> QED BY <1>1, <3>3, <4>2, <5>1
      <4> QED BY <4>1, <4>2
    <3>4. AllSourced'
      BY <3>1, <3>2 DEF TitleInv, AllSourced
    <3> QED BY <3>3, <3>4 DEF SkippedNamed
  <2>2. ASSUME NEW p \in Ingesters, Commit(p) PROVE AllSourced' /\ SkippedNamed'
    BY <2>2, TitleCommit
  <2> QED BY <2>1, <2>2, DbSteps
<1>3. ASSUME NEW p \in Ingesters, NEW f \in Files, NEW s \in Files,
             pc'[p] = "record", f = Current(p)', size'[p] = Stat(f)', Now(f, s)' # NoTitle
      PROVE  titles'[s] = Now(f, s)'
  <2>1. CASE Commit(p)
    <3>1. UNCHANGED <<disk, todo, size>>
      BY <2>1 DEF Commit, locals
    <3>2. f = Current(p) /\ size[p] = Stat(f)
      BY <1>3, <3>1 DEF Current, Stat
    <3> QED BY <1>3, <2>1, <3>2, TitleCommit
  <2>2. CASE pc[p] = "record" /\ todo'[p] = todo[p] /\ size'[p] = size[p]
    <3>1. f = Current(p) /\ size[p] = Stat(f)' /\ size[p] \in Nat
      BY <1>t, <1>3, <2>2 DEF Current, LocalsOK
    <3>2. size[p] <= Stat(f)
      BY <1>t, <2>2, <3>1 DEF RunInv, RunOK, Busy
    <3>3. size[p] = Stat(f) /\ Now(f, s)' = Now(f, s)
      BY <1>t, <3>1, <3>2, SameSize DEF Now
    <3>4. \A q \in Ingesters : ~Commit(q)
      BY <2>2 DEF SingleIngester, Commit, Goto
    <3>5. titles' = titles
      BY <3>4, DbSteps DEF db
    <3> QED BY <1>3, <2>2, <3>1, <3>3, <3>5 DEF TitleInv, RunTitles
  <2> QED BY <1>t, <1>3, <2>1, <2>2, RecordSteps
<1>4. ASSUME NEW p \in Ingesters, NEW f \in Files, f = Current(p)', pc'[p] \in Busy
      PROVE  recorded'[f] <= size'[p]
  <2>1. CASE StatFile(p)
    <3>1. f = Current(p) /\ size'[p] = Stat(f) /\ recorded' = recorded
      BY <1>t, <1>4, <2>1 DEF StatFile, Current, LocalsOK
    <3> QED BY <1>t, <3>1 DEF RunInv
  <2>2. CASE ~StatFile(p)
    <3>1. UNCHANGED <<recorded, size, todo>> /\ pc[p] \in Busy
      <4>1. CASE pc' = pc /\ UNCHANGED <<recorded, size, todo>>
        BY <1>4, <4>1
      <4>2. CASE Glob(p) \/ Step(p) \/ Abort(p)
        BY <1>t, <1>4, <2>2, <4>2
           DEF LocalsOK, Busy, Goto, locals, Glob, Step, Abort, SkipFile, OpenFile, ReadFile,
               Commit, RecordFile, EndRun
      <4>3. \A q \in Ingesters : q = p
        BY DEF SingleIngester
      <4> QED BY <4>1, <4>2, <4>3 DEF Next, vars, WriteLine, FinishLine, Fork, locals
    <3>2. f = Current(p)
      BY <1>4, <3>1 DEF Current
    <3> QED BY <3>1, <3>2 DEF TitleInv, RunTitles
  <2> QED BY <2>1, <2>2
<1>5. RunTitles'
  BY <1>3, <1>4 DEF RunTitles
<1> QED BY <1>t, <1>2, <1>5 DEF TitleInv

\* With one process, a session all of whose files would be skipped has a title
\* that one of them gives it as it stands, although titles only ever come from a
\* reading that may be old (UpsertSession, Run).
THEOREM TitleCurrentHolds ==
    ASSUME SingleIngester
    PROVE  Spec => []TitleCurrent
<1>1. Init => TitleInv
  BY RunInit DEF Init, TitleInv, AllSourced, SkippedNamed, RunTitles, WouldSkip, Exists, Busy
<1>2. TitleInv => TitleCurrent
  BY DEF TitleInv, AllSourced, SkippedNamed, Source, Now, TitleCurrent, Holders
<1>3. TitleInv /\ [Next]_vars => TitleInv'
  BY SingleIngester, TitleStep
<1> QED BY <1>1, <1>2, <1>3, PTL DEF Spec
=============================================================================

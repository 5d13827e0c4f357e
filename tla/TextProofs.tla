------------------------------ MODULE TextProofs ------------------------------
(***************************************************************************)
(* What is proved of the two readers of the text of a transcript: of the   *)
(* reference tracker, for any identifiers, limits and transcript, that its *)
(* verdict, which it arrives at one line at a time, is the one the whole   *)
(* transcript gives; of the search and the pages of the browser, for any   *)
(* transcripts, query and size of a read, that nothing is missed while the *)
(* harness writes on.                                                      *)
(***************************************************************************)
EXTENDS RefTracker, SessionViewer, FiniteSums

Lines == [kind : {"result", "source"}, idents : SUBSET Idents]

Records == [line : Nat, orig : Nat, need : Nat, refTS : Nat]

\* What the index follows: the first quote after a line, the claims that no
\* quote has taken out of the index since, and the identifiers of a result
\* that credit it, whatever was quoted before it.
NextQuote(i, line, k) ==
    k \in Quotes(i, line + 1, Len(file)) /\ Quotes(i, line + 1, k - 1) = {}

ClaimedSinceQuote(i, k) ==
    {c \in Claims(i, 1, k - 1) : Quotes(i, c + 1, k - 1) = {}}

Credited(line, upto) ==
    {i \in file[line].idents : \E k \in line + 1 .. upto :
        /\ NextQuote(i, line, k)
        /\ Cardinality(ClaimedSinceQuote(i, k)) <= MaxBlocksPerIdent}

\* The index knows, of each identifier, the results that claimed it since it
\* was last quoted, as long as they are not too many.
EntryOK(i) ==
    LET claimed == ClaimedSinceQuote(i, Here)
    IN  Entry(i) = IF Cardinality(claimed) > MaxBlocksPerIdent
                   THEN [results |-> {}, dead |-> TRUE]
                   ELSE [results |-> {n \in DOMAIN results : results[n].line \in claimed},
                         dead |-> FALSE]

\* What a result still needs is what the evidence so far leaves.
ResultOK(n) ==
    LET r == results[n]
    IN  /\ r.line \in 1 .. Len(file) /\ file[r.line].kind = "result"
        /\ r.orig = Needed(r.line) /\ r.orig # 0
        /\ r.need = r.orig - Least(r.orig, Cardinality(Credited(r.line, Len(file))))
        /\ r.need # 0 => r.refTS = 0
        /\ r.refTS # 0 =>
              /\ r.refTS <= Len(file)
              /\ Cardinality(Credited(r.line, r.refTS)) >= r.orig
              /\ Cardinality(Credited(r.line, r.refTS - 1)) < r.orig

\* One result of each line that has one.
LinesOK ==
    /\ \A n, m \in DOMAIN results : results[n].line = results[m].line => n = m
    /\ \A k \in 1 .. Len(file) : file[k].kind = "result" /\ file[k].idents # {} =>
          \E n \in DOMAIN results : results[n].line = k

RefInv ==
    /\ file \in Seq(Lines) /\ results \in Seq(Records)
    /\ \A i \in Idents : EntryOK(i)
    /\ \A n \in DOMAIN results : ResultOK(n)
    /\ LinesOK
-----------------------------------------------------------------------------
(***************************************************************************)
(* One more line of the transcript.                                        *)
(***************************************************************************)
Grows(N, x) ==
    /\ file \in Seq(Lines) /\ N = Len(file) /\ x \in Lines
    /\ file' = Append(file, x)

LEMMA GrownFile ==
    ASSUME NEW N, NEW x, Grows(N, x)
    PROVE  /\ N \in Nat /\ Len(file') = N + 1 /\ file' \in Seq(Lines)
           /\ \A k \in 1 .. N : file'[k] = file[k]
           /\ file'[N + 1] = x
BY DEF Grows

LEMMA EarlierQuotes ==
    ASSUME NEW N, NEW x, Grows(N, x), NEW i, NEW from \in Nat \ {0}, NEW to \in Int, to <= N
    PROVE  Quotes(i, from, to)' = Quotes(i, from, to) /\ Claims(i, from, to)' = Claims(i, from, to)
<1>1. N \in Nat /\ \A k \in 1 .. N : file'[k] = file[k]
  BY GrownFile
<1>2. \A k \in from .. to : file'[k] = file[k]
  BY <1>1
<1> QED BY <1>2 DEF Quotes, Claims

LEMMA NewQuotes ==
    ASSUME NEW N, NEW x, Grows(N, x), NEW i, NEW from \in 1 .. N + 1
    PROVE  Quotes(i, from, N + 1)' =
             Quotes(i, from, N) \cup {k \in {N + 1} : x.kind = "source" /\ i \in x.idents}
<1>1. N \in Nat /\ (\A k \in 1 .. N : file'[k] = file[k]) /\ file'[N + 1] = x
  BY GrownFile
<1>2. from .. (N + 1) = (from .. N) \cup {N + 1}
  BY <1>1
<1>3. \A k \in from .. N : file'[k] = file[k]
  BY <1>1
<1> QED BY <1>1, <1>2, <1>3 DEF Quotes

LEMMA NewClaims ==
    ASSUME NEW N, NEW x, Grows(N, x), NEW i
    PROVE  Claims(i, 1, N + 1)' =
             Claims(i, 1, N) \cup {k \in {N + 1} : x.kind = "result" /\ i \in x.idents}
<1>1. N \in Nat /\ (\A k \in 1 .. N : file'[k] = file[k]) /\ file'[N + 1] = x
  BY GrownFile
<1>2. 1 .. (N + 1) = (1 .. N) \cup {N + 1}
  BY <1>1
<1> QED BY <1>1, <1>2 DEF Claims

LEMMA EarlierClaimed ==
    ASSUME NEW N, NEW x, Grows(N, x), NEW i, NEW k \in Nat, k <= N + 1
    PROVE  ClaimedSinceQuote(i, k)' = ClaimedSinceQuote(i, k)
<1>1. N \in Nat /\ k - 1 \in Int /\ k - 1 <= N
  BY GrownFile
<1>2. Claims(i, 1, k - 1)' = Claims(i, 1, k - 1)
  BY <1>1, EarlierQuotes
<1>3. \A c \in Claims(i, 1, k - 1) : Quotes(i, c + 1, k - 1)' = Quotes(i, c + 1, k - 1)
  <2> TAKE c \in Claims(i, 1, k - 1)
  <2>1. c + 1 \in Nat \ {0}
    BY DEF Claims
  <2> QED BY <1>1, <2>1, EarlierQuotes
<1> QED BY <1>2, <1>3 DEF ClaimedSinceQuote

\* The claims that stand when the line was read.
LEMMA NewClaimed ==
    ASSUME NEW N, NEW x, Grows(N, x), NEW i
    PROVE  ClaimedSinceQuote(i, N + 2)' =
             IF x.kind = "source" /\ i \in x.idents THEN {}
             ELSE ClaimedSinceQuote(i, N + 1) \cup
                    {k \in {N + 1} : x.kind = "result" /\ i \in x.idents}
<1> DEFINE new == {k \in {N + 1} : x.kind = "result" /\ i \in x.idents}
           quote == {k \in {N + 1} : x.kind = "source" /\ i \in x.idents}
<1>1. N \in Nat /\ (N + 2) - 1 = N + 1 /\ (N + 1) - 1 = N
  BY GrownFile
<1>2. Claims(i, 1, N + 1)' = Claims(i, 1, N) \cup new
  BY NewClaims
<1>3. \A c \in Claims(i, 1, N) : c \in 1 .. N /\ Quotes(i, c + 1, N + 1)' = Quotes(i, c + 1, N) \cup quote
  <2> TAKE c \in Claims(i, 1, N)
  <2>1. c \in 1 .. N
    BY DEF Claims
  <2>2. c + 1 \in 1 .. N + 1
    BY <1>1, <2>1
  <2> QED BY <2>1, <2>2, NewQuotes
<1>4. Quotes(i, (N + 1) + 1, N + 1)' = {}
  <2>1. ((N + 1) + 1) .. (N + 1) = {}
    BY <1>1
  <2> QED BY <2>1 DEF Quotes
<1>5. ClaimedSinceQuote(i, N + 2)' =
        {c \in Claims(i, 1, N + 1)' : Quotes(i, c + 1, N + 1)' = {}}
  BY <1>1 DEF ClaimedSinceQuote
<1>6. ClaimedSinceQuote(i, N + 1) = {c \in Claims(i, 1, N) : Quotes(i, c + 1, N) = {}}
  BY <1>1 DEF ClaimedSinceQuote
<1>7. x.kind = "source" => new = {}
  OBVIOUS
<1>8. (x.kind = "source" /\ i \in x.idents => quote = {N + 1})
      /\ (~(x.kind = "source" /\ i \in x.idents) => quote = {})
  OBVIOUS
<1>9. \A c \in new : c = N + 1
  OBVIOUS
<1> HIDE DEF new, quote
<1>10. CASE x.kind = "source" /\ i \in x.idents
  BY <1>2, <1>3, <1>5, <1>7, <1>8, <1>10
<1>11. CASE ~(x.kind = "source" /\ i \in x.idents)
  <2>1. \A c \in Claims(i, 1, N) : Quotes(i, c + 1, N + 1)' = Quotes(i, c + 1, N)
    BY <1>3, <1>8, <1>11
  <2>2. \A c \in new : Quotes(i, c + 1, N + 1)' = {}
    BY <1>4, <1>9
  <2>3. ClaimedSinceQuote(i, N + 2)' = ClaimedSinceQuote(i, N + 1) \cup new
    BY <1>2, <1>5, <1>6, <2>1, <2>2
  <2> QED BY <1>11, <2>3 DEF new
<1> QED BY <1>10, <1>11

LEMMA EarlierNextQuote ==
    ASSUME NEW N, NEW x, Grows(N, x), NEW i, NEW line \in 1 .. N, NEW k \in 1 .. N
    PROVE  NextQuote(i, line, k)' <=> NextQuote(i, line, k)
<1>1. N \in Nat /\ Len(file) = N /\ Len(file') = N + 1
  BY GrownFile DEF Grows
<1>2. line + 1 \in 1 .. N + 1 /\ line + 1 \in Nat \ {0} /\ k - 1 \in Int /\ k - 1 <= N
  BY <1>1
<1>3. Quotes(i, line + 1, N + 1)' =
        Quotes(i, line + 1, N) \cup {n \in {N + 1} : x.kind = "source" /\ i \in x.idents}
  BY <1>2, NewQuotes
<1>4. Quotes(i, line + 1, k - 1)' = Quotes(i, line + 1, k - 1)
  BY <1>2, EarlierQuotes
<1>5. k \in Quotes(i, line + 1, N + 1)' <=> k \in Quotes(i, line + 1, N)
  BY <1>1, <1>3
<1>6. Quotes(i, line + 1, Len(file))' = Quotes(i, line + 1, N + 1)'
  BY <1>1 DEF Quotes
<1> QED BY <1>1, <1>4, <1>5, <1>6 DEF NextQuote

LEMMA EarlierCredited ==
    ASSUME NEW N, NEW x, Grows(N, x), NEW line \in 1 .. N, NEW upto \in Int, upto <= N
    PROVE  Credited(line, upto)' = Credited(line, upto)
<1>1. N \in Nat /\ file'[line] = file[line]
  BY GrownFile
<1>2. ASSUME NEW i, NEW k \in line + 1 .. upto
      PROVE  /\ NextQuote(i, line, k)' <=> NextQuote(i, line, k)
             /\ ClaimedSinceQuote(i, k)' = ClaimedSinceQuote(i, k)
  <2>1. k \in 1 .. N /\ k \in Nat /\ k <= N + 1
    BY <1>1
  <2> QED BY <2>1, EarlierNextQuote, EarlierClaimed
<1> QED BY <1>1, <1>2 DEF Credited

\* What the line adds to the evidence for an earlier result.
NewCredits(N, x, line) ==
    {i \in file[line].idents : /\ x.kind = "source" /\ i \in x.idents
                               /\ Quotes(i, line + 1, N) = {}
                               /\ Cardinality(ClaimedSinceQuote(i, N + 1)) <= MaxBlocksPerIdent}

LEMMA NewCredited ==
    ASSUME NEW N, NEW x, Grows(N, x), NEW line \in 1 .. N
    PROVE  /\ Credited(line, N + 1)' = Credited(line, N) \cup NewCredits(N, x, line)
           /\ Credited(line, N) \cap NewCredits(N, x, line) = {}
<1>1. /\ N \in Nat /\ Len(file) = N /\ Len(file') = N + 1 /\ file'[line] = file[line]
      /\ (N + 1) - 1 = N
  BY GrownFile DEF Grows
<1>2. line + 1 .. N + 1 = (line + 1 .. N) \cup {N + 1}
  BY <1>1
<1>3. ASSUME NEW i, NEW k \in line + 1 .. N
      PROVE  /\ NextQuote(i, line, k)' <=> NextQuote(i, line, k)
             /\ ClaimedSinceQuote(i, k)' = ClaimedSinceQuote(i, k)
  <2>1. k \in 1 .. N /\ k \in Nat /\ k <= N + 1
    BY <1>1
  <2> QED BY <2>1, EarlierNextQuote, EarlierClaimed
<1>4. ASSUME NEW i
      PROVE  NextQuote(i, line, N + 1)' <=>
               x.kind = "source" /\ i \in x.idents /\ Quotes(i, line + 1, N) = {}
  <2>1. line + 1 \in 1 .. N + 1 /\ line + 1 \in Nat \ {0} /\ N \in Int
    BY <1>1
  <2>2. Quotes(i, line + 1, N + 1)' =
          Quotes(i, line + 1, N) \cup {n \in {N + 1} : x.kind = "source" /\ i \in x.idents}
    BY <2>1, NewQuotes
  <2>3. Quotes(i, line + 1, N)' = Quotes(i, line + 1, N)
    BY <1>1, <2>1, EarlierQuotes
  <2>4. N + 1 \notin Quotes(i, line + 1, N)
    BY <1>1 DEF Quotes
  <2>5. Quotes(i, line + 1, Len(file))' = Quotes(i, line + 1, N + 1)'
    BY <1>1 DEF Quotes
  <2>6. Quotes(i, line + 1, (N + 1) - 1)' = Quotes(i, line + 1, N)
    BY <1>1, <2>3
  <2>7. NextQuote(i, line, N + 1)' <=>
          N + 1 \in Quotes(i, line + 1, Len(file))' /\ Quotes(i, line + 1, (N + 1) - 1)' = {}
    BY DEF NextQuote
  <2> QED BY <2>2, <2>4, <2>5, <2>6, <2>7
<1>5. \A i : ClaimedSinceQuote(i, N + 1)' = ClaimedSinceQuote(i, N + 1)
  BY <1>1, EarlierClaimed
<1>6. Credited(line, N + 1)' = Credited(line, N) \cup NewCredits(N, x, line)
  <2> SUFFICES ASSUME NEW i \in file[line].idents
               PROVE  i \in Credited(line, N + 1)' <=>
                        i \in Credited(line, N) \/ i \in NewCredits(N, x, line)
    BY <1>1 DEF Credited, NewCredits
  <2>1. i \in Credited(line, N + 1)' <=>
          \E k \in line + 1 .. N + 1 :
             NextQuote(i, line, k)' /\ Cardinality(ClaimedSinceQuote(i, k))' <= MaxBlocksPerIdent
    BY <1>1 DEF Credited
  <2>2. (\E k \in line + 1 .. N + 1 :
             NextQuote(i, line, k)' /\ Cardinality(ClaimedSinceQuote(i, k))' <= MaxBlocksPerIdent)
        <=> \/ \E k \in line + 1 .. N :
                  NextQuote(i, line, k) /\ Cardinality(ClaimedSinceQuote(i, k)) <= MaxBlocksPerIdent
            \/ /\ NextQuote(i, line, N + 1)'
               /\ Cardinality(ClaimedSinceQuote(i, N + 1)) <= MaxBlocksPerIdent
    BY <1>2, <1>3, <1>5
  <2> QED BY <1>4, <2>1, <2>2 DEF Credited, NewCredits
<1>7. Credited(line, N) \cap NewCredits(N, x, line) = {}
  <2> SUFFICES ASSUME NEW i \in Credited(line, N), Quotes(i, line + 1, N) = {} PROVE FALSE
    BY DEF NewCredits
  <2>1. PICK k \in line + 1 .. N : NextQuote(i, line, k)
    BY DEF Credited
  <2> QED BY <1>1, <2>1 DEF NextQuote
<1> QED BY <1>6, <1>7

-----------------------------------------------------------------------------
(***************************************************************************)
(* Counting.                                                               *)
(***************************************************************************)
LEMMA ClaimedLines ==
    ASSUME NEW N \in Nat, NEW i
    PROVE  /\ \A c \in ClaimedSinceQuote(i, N + 1) :
                 c \in 1 .. N /\ file[c].kind = "result" /\ i \in file[c].idents
           /\ IsFiniteSet(ClaimedSinceQuote(i, N + 1))
           /\ Cardinality(ClaimedSinceQuote(i, N + 1)) \in Nat
<1>1. \A c \in ClaimedSinceQuote(i, N + 1) :
          c \in 1 .. N /\ file[c].kind = "result" /\ i \in file[c].idents
  <2>1. (N + 1) - 1 = N
    OBVIOUS
  <2> QED BY <2>1 DEF ClaimedSinceQuote, Claims
<1>2. IsFiniteSet(1 .. N)
  BY FS_Interval
<1>3. IsFiniteSet(ClaimedSinceQuote(i, N + 1))
  <2>1. ClaimedSinceQuote(i, N + 1) \in SUBSET (1 .. N)
    BY <1>1
  <2> QED BY <1>2, <2>1, FS_Subset
<1> QED BY <1>1, <1>3, FS_CardinalityType

\* There are as many results as lines that claim.
LEMMA ClaimedResults ==
    ASSUME LinesOK, NEW N \in Nat, N = Len(file), NEW i
    PROVE  LET claimed == ClaimedSinceQuote(i, N + 1)
               owners  == {n \in DOMAIN results : results[n].line \in claimed}
           IN  IsFiniteSet(owners) /\ Cardinality(owners) = Cardinality(claimed)
<1> DEFINE claimed == ClaimedSinceQuote(i, N + 1)
           owners  == {n \in DOMAIN results : results[n].line \in claimed}
           of == [n \in owners |-> results[n].line]
<1>1. /\ \A c \in claimed : c \in 1 .. N /\ file[c].kind = "result" /\ i \in file[c].idents
      /\ IsFiniteSet(claimed)
  BY ClaimedLines
<1> HIDE DEF claimed
<1>2. of \in [owners -> claimed]
  OBVIOUS
<1>3. \A n, m \in owners : of[n] = of[m] => n = m
  BY DEF LinesOK
<1>4. \A c \in claimed : \E n \in owners : of[n] = c
  BY <1>1 DEF LinesOK
<1> HIDE DEF owners, of
<1>5. of \in Injection(owners, claimed) /\ of \in Surjection(owners, claimed)
  BY <1>2, <1>3, <1>4 DEF Injection, IsInjective, Surjection
<1>6. IsFiniteSet(owners) /\ Cardinality(owners) = Cardinality(claimed)
  BY <1>1, <1>5, FS_Injection
<1> QED BY <1>6 DEF claimed, owners

LEMMA CreditedCounts ==
    ASSUME RefAssumption, file \in Seq(Lines), NEW line \in 1 .. Len(file), NEW upto
    PROVE  IsFiniteSet(Credited(line, upto)) /\ Cardinality(Credited(line, upto)) \in Nat
<1>1. file[line].idents \in SUBSET Idents /\ IsFiniteSet(Idents)
  <2>1. file[line] \in Lines
    OBVIOUS
  <2> QED BY <2>1 DEF RefAssumption, Lines
<1>2. Credited(line, upto) \in SUBSET Idents
  BY <1>1 DEF Credited
<1> QED BY <1>1, <1>2, FS_Subset, FS_CardinalityType

LEMMA CreditedGrowsBy ==
    ASSUME RefAssumption, NEW N, NEW x, Grows(N, x), NEW line \in 1 .. N
    PROVE  /\ Cardinality(Credited(line, N)) \in Nat
           /\ IsFiniteSet(NewCredits(N, x, line)) /\ Cardinality(NewCredits(N, x, line)) \in Nat
           /\ Cardinality(Credited(line, N + 1)') =
                Cardinality(Credited(line, N)) + Cardinality(NewCredits(N, x, line))
<1> DEFINE E == Credited(line, N)
           F == NewCredits(N, x, line)
<1>1. file \in Seq(Lines) /\ N = Len(file)
  BY DEF Grows
<1>2. IsFiniteSet(E) /\ Cardinality(E) \in Nat
  BY <1>1, CreditedCounts
<1>3. IsFiniteSet(F) /\ Cardinality(F) \in Nat
  <2>1. file[line].idents \in SUBSET Idents /\ IsFiniteSet(Idents)
    <3>1. file[line] \in Lines
      BY <1>1
    <3> QED BY <3>1 DEF RefAssumption, Lines
  <2>2. F \in SUBSET Idents
    BY <2>1 DEF NewCredits
  <2> HIDE DEF F
  <2> QED BY <2>1, <2>2, FS_Subset, FS_CardinalityType
<1>4. Credited(line, N + 1)' = E \cup F /\ E \cap F = {}
  BY NewCredited
<1> HIDE DEF E, F
<1>5. Cardinality(E \cap F) = 0
  BY <1>4, FS_EmptySet
<1>6. Cardinality(E \cup F) = Cardinality(E) + Cardinality(F) - 0
  BY <1>2, <1>3, <1>5, FS_Union
<1>7. Cardinality(Credited(line, N + 1)') = Cardinality(E) + Cardinality(F)
  BY <1>2, <1>3, <1>4, <1>6
<1> QED BY <1>2, <1>3, <1>7 DEF E, F
-----------------------------------------------------------------------------
(***************************************************************************)
(* The invariant, step by step.                                            *)
(***************************************************************************)
LEMMA RefInit == ASSUME RefAssumption, Init PROVE RefInv
<1>1. file = <<>> /\ results = <<>> /\ DOMAIN index = {}
  BY DEF Init
<1>2. file \in Seq(Lines) /\ results \in Seq(Records) /\ Len(file) = 0 /\ Here = 1 /\ DOMAIN results = {}
  BY <1>1 DEF Here
<1>3. ASSUME NEW i \in Idents PROVE EntryOK(i)
  <2>1. ClaimedSinceQuote(i, 1) = {}
    <3>1. Claims(i, 1, 1 - 1) = {}
      BY DEF Claims
    <3> QED BY <3>1 DEF ClaimedSinceQuote
  <2>2. Cardinality(ClaimedSinceQuote(i, Here)) = 0
    BY <1>2, <2>1, FS_EmptySet
  <2>3. ~(Cardinality(ClaimedSinceQuote(i, Here)) > MaxBlocksPerIdent)
    BY <2>2 DEF RefAssumption
  <2>4. Entry(i) = [results |-> {}, dead |-> FALSE]
    BY <1>1 DEF Entry, NoEntry
  <2> QED BY <1>2, <2>3, <2>4 DEF EntryOK
<1>4. LinesOK
  BY <1>2 DEF LinesOK
<1> QED BY <1>2, <1>3, <1>4 DEF RefInv

\* A result that the new line leaves alone.
LEMMA ResultKept ==
    ASSUME RefAssumption, NEW N, NEW x, Grows(N, x),
           NEW n, ResultOK(n), results[n] \in Records, results'[n] = results[n],
           NewCredits(N, x, results[n].line) = {}
    PROVE  ResultOK(n)'
<1>1. PICK line : line = results[n].line
  OBVIOUS
<1>2. /\ N \in Nat /\ Len(file) = N /\ Len(file') = N + 1 /\ file \in Seq(Lines)
      /\ \A k \in 1 .. N : file'[k] = file[k]
  BY GrownFile DEF Grows
<1>3. line \in 1 .. N /\ line \in 1 .. N + 1 /\ file[line].kind = "result" /\ file'[line] = file[line]
  BY <1>1, <1>2 DEF ResultOK
<1>4. Cardinality(Credited(line, N + 1)') = Cardinality(Credited(line, N))
  <2>1. Cardinality(NewCredits(N, x, line)) = 0
    BY <1>1, FS_EmptySet
  <2> QED BY <1>3, <2>1, CreditedGrowsBy
<1>5. ASSUME NEW ts \in Int, ts <= N PROVE Credited(line, ts)' = Credited(line, ts)
  BY <1>3, <1>5, EarlierCredited
<1>6. Needed(line)' = Needed(line)
  BY <1>3 DEF Needed
<1>7. PICK ts \in Nat : ts = results[n].refTS
  BY DEF Records
<1>8. /\ results[n].orig = Needed(line) /\ results[n].orig # 0
      /\ results[n].need = results[n].orig
                             - Least(results[n].orig, Cardinality(Credited(line, N)))
      /\ results[n].need # 0 => ts = 0
      /\ ts # 0 => /\ ts <= N
                   /\ Cardinality(Credited(line, ts)) >= results[n].orig
                   /\ Cardinality(Credited(line, ts - 1)) < results[n].orig
  BY <1>1, <1>2, <1>7 DEF ResultOK
<1>9. ts # 0 => /\ ts <= N + 1
                /\ Credited(line, ts)' = Credited(line, ts)
                /\ Credited(line, ts - 1)' = Credited(line, ts - 1)
  BY <1>2, <1>5, <1>8
<1>10. /\ results'[n].line = line /\ results'[n].refTS = ts
       /\ results'[n].orig = results[n].orig /\ results'[n].need = results[n].need
  BY <1>1, <1>7
<1>11. /\ results'[n].line \in 1 .. Len(file') /\ file'[results'[n].line].kind = "result"
  BY <1>2, <1>3, <1>10
<1>12. /\ Needed(results[n].line)' = Needed(line)
       /\ Credited(results[n].line, Len(file))' = Credited(line, N + 1)'
       /\ Credited(results[n].line, results[n].refTS)' = Credited(line, ts)'
       /\ Credited(results[n].line, results[n].refTS - 1)' = Credited(line, ts - 1)'
  BY <1>2, <1>6, <1>10
<1> QED BY <1>2, <1>4, <1>8, <1>9, <1>10, <1>11, <1>12 DEF ResultOK

\* A text: what it quotes leaves the index and credits the results there.
LEMMA ObserveStep == ASSUME RefAssumption, RefInv, ObserveText PROVE RefInv'
<1> DEFINE N == Len(file)
<1>0. /\ file \in Seq(Lines) /\ results \in Seq(Records) /\ N \in Nat /\ LinesOK
      /\ \A i \in Idents : EntryOK(i)
      /\ \A n \in DOMAIN results : ResultOK(n)
  BY DEF RefInv
<1>1. PICK text \in SUBSET Idents \ {{}} :
          /\ file' = Append(file, [kind |-> "source", idents |-> text])
          /\ results' = [n \in DOMAIN results |-> Credit(results[n], Cardinality(Hits(text, n)))]
          /\ index' = [i \in DOMAIN index \ text |-> index[i]]
  BY DEF ObserveText, Read, Retire
<1>2. PICK M : M = N
  OBVIOUS
<1>3. PICK x : x = [kind |-> "source", idents |-> text]
  OBVIOUS
<1>4. x \in Lines /\ x.kind = "source" /\ x.idents = text /\ Grows(M, x)
  BY <1>0, <1>1, <1>2, <1>3 DEF Lines, Grows
<1> HIDE DEF N
<1>5. /\ M \in Nat /\ Len(file) = M /\ Len(file') = M + 1 /\ file' \in Seq(Lines)
      /\ \A k \in 1 .. M : file'[k] = file[k]
      /\ file'[M + 1] = x /\ Here = M + 1 /\ Here' = M + 2
  BY <1>4, GrownFile DEF Here, Grows
<1>6. DOMAIN results' = DOMAIN results
  BY <1>1
<1>7. \A n \in DOMAIN results : results'[n] = Credit(results[n], Cardinality(Hits(text, n)))
  BY <1>1
<1>8. ASSUME NEW n \in DOMAIN results
      PROVE  results'[n] \in Records /\ results'[n].line = results[n].line
  <2>1. results[n] \in Records /\ results[n].need \in Nat /\ results[n].refTS \in Nat
    <3>1. results[n] \in Records
      BY <1>0
    <3> QED BY <3>1 DEF Records
  <2> DEFINE h == Cardinality(Hits(text, n))
             left == results[n].need - Least(results[n].need, h)
  <2>3. h \in Nat
    <3>1. Hits(text, n) \in SUBSET Idents /\ IsFiniteSet(Idents)
      BY DEF Hits, RefAssumption
    <3> QED BY <3>1, FS_Subset, FS_CardinalityType
  <2> HIDE DEF h
  <2>4. left \in Nat
    BY <2>1, <2>3 DEF Least
  <2>5. PICK ts : ts = IF results[n].need > 0 /\ left = 0 THEN Here ELSE results[n].refTS
    OBVIOUS
  <2>6. ts \in Nat
    BY <1>5, <2>1, <2>5
  <2>7. results'[n] = [results[n] EXCEPT !.need = left, !.refTS = ts]
    BY <1>7, <2>5 DEF Credit, h
  <2>8. PICK r \in Records : r = results[n]
    BY <2>1
  <2> HIDE DEF left
  <2>9. results'[n] = [r EXCEPT !.need = left, !.refTS = ts]
    BY <2>7, <2>8
  <2>10. [r EXCEPT !.need = left, !.refTS = ts] \in Records
         /\ [r EXCEPT !.need = left, !.refTS = ts].line = r.line
    BY <2>4, <2>6 DEF Records
  <2> QED BY <2>8, <2>9, <2>10
<1>9. results' \in Seq(Records)
  <2>1. DOMAIN results = 1 .. Len(results) /\ Len(results) \in Nat
    BY <1>0
  <2>2. results' = [n \in 1 .. Len(results) |-> results'[n]]
    BY <1>1, <2>1, Zenon
  <2>3. \A n \in 1 .. Len(results) : results'[n] \in Records
    BY <1>8, <2>1
  <2>4. results' \in [1 .. Len(results) -> Records]
    BY <2>2, <2>3
  <2> QED BY <2>1, <2>4
<1>10. ASSUME NEW i \in Idents PROVE EntryOK(i)'
  <2>1. Entry(i)' = IF i \in text THEN NoEntry ELSE Entry(i)
    BY <1>1 DEF Entry
  <2>2. ClaimedSinceQuote(i, M + 2)' = IF i \in text THEN {} ELSE ClaimedSinceQuote(i, M + 1)
    <3>1. ClaimedSinceQuote(i, M + 2)' =
            IF x.kind = "source" /\ i \in x.idents THEN {}
            ELSE ClaimedSinceQuote(i, M + 1) \cup {k \in {M + 1} : x.kind = "result" /\ i \in x.idents}
      BY <1>4, NewClaimed
    <3>2. {k \in {M + 1} : x.kind = "result" /\ i \in x.idents} = {}
      BY <1>4
    <3>3. x.kind = "source" /\ x.idents = text
      BY <1>4
    <3> QED BY <3>1, <3>2, <3>3
  <2>3. {n \in DOMAIN results' : results'[n].line \in ClaimedSinceQuote(i, M + 2)'} =
          {n \in DOMAIN results : results[n].line \in ClaimedSinceQuote(i, M + 2)'}
    BY <1>6, <1>8
  <2>4. CASE i \in text
    <3>1. Cardinality(ClaimedSinceQuote(i, M + 2)') = 0
      BY <2>2, <2>4, FS_EmptySet
    <3>2. ~(Cardinality(ClaimedSinceQuote(i, M + 2)') > MaxBlocksPerIdent)
      BY <3>1 DEF RefAssumption
    <3>3. {n \in DOMAIN results' : results'[n].line \in ClaimedSinceQuote(i, M + 2)'} = {}
      BY <2>2, <2>4
    <3>4. Entry(i)' = [results |-> {}, dead |-> FALSE]
      BY <2>1, <2>4 DEF NoEntry
    <3> QED BY <1>5, <3>2, <3>3, <3>4 DEF EntryOK
  <2>5. CASE i \notin text
    <3>1. Entry(i) = IF Cardinality(ClaimedSinceQuote(i, M + 1)) > MaxBlocksPerIdent
                     THEN [results |-> {}, dead |-> TRUE]
                     ELSE [results |-> {n \in DOMAIN results :
                                          results[n].line \in ClaimedSinceQuote(i, M + 1)},
                           dead |-> FALSE]
      BY <1>0, <1>5 DEF EntryOK
    <3>2. Entry(i)' = Entry(i) /\ ClaimedSinceQuote(i, M + 2)' = ClaimedSinceQuote(i, M + 1)
      BY <2>1, <2>2, <2>5
    <3>3. Entry(i)' = IF Cardinality(ClaimedSinceQuote(i, M + 2)') > MaxBlocksPerIdent
                      THEN [results |-> {}, dead |-> TRUE]
                      ELSE [results |-> {n \in DOMAIN results' :
                                           results'[n].line \in ClaimedSinceQuote(i, M + 2)'},
                            dead |-> FALSE]
      BY <2>3, <3>1, <3>2
    <3> QED BY <1>5, <3>3 DEF EntryOK
  <2> QED BY <2>4, <2>5
<1>11. LinesOK'
  <2>1. \A n, m \in DOMAIN results' : results'[n].line = results'[m].line => n = m
    BY <1>0, <1>6, <1>8 DEF LinesOK
  <2>2. ASSUME NEW k \in 1 .. Len(file'), file'[k].kind = "result", file'[k].idents # {}
        PROVE  \E n \in DOMAIN results' : results'[n].line = k
    <3>1. k \in 1 .. M /\ file'[k] = file[k]
      BY <1>4, <1>5, <2>2
    <3>2. PICK n \in DOMAIN results : results[n].line = k
      BY <1>0, <1>5, <2>2, <3>1 DEF LinesOK
    <3> QED BY <1>6, <1>8, <3>2
  <2> QED BY <2>1, <2>2 DEF LinesOK
<1>12. ASSUME NEW n \in DOMAIN results PROVE ResultOK(n)'
  <2>1. PICK line : line = results[n].line
    OBVIOUS
  <2>2. ResultOK(n) /\ results[n] \in Records
    BY <1>0
  <2>3. line \in 1 .. M /\ file[line].kind = "result" /\ file'[line] = file[line]
    BY <1>5, <2>1, <2>2 DEF ResultOK
  <2>4. Hits(text, n) = NewCredits(M, x, line)
    <3>1. ASSUME NEW i \in text
          PROVE  (i \in DOMAIN index /\ n \in index[i].results) <=>
                   /\ i \in file[line].idents /\ Quotes(i, line + 1, M) = {}
                   /\ Cardinality(ClaimedSinceQuote(i, M + 1)) <= MaxBlocksPerIdent
      <4>1. i \in Idents
        OBVIOUS
      <4>2. (i \in DOMAIN index /\ n \in index[i].results) <=> n \in Entry(i).results
        BY DEF Entry, NoEntry
      <4>3. Entry(i) = IF Cardinality(ClaimedSinceQuote(i, M + 1)) > MaxBlocksPerIdent
                       THEN [results |-> {}, dead |-> TRUE]
                       ELSE [results |-> {m \in DOMAIN results :
                                            results[m].line \in ClaimedSinceQuote(i, M + 1)},
                             dead |-> FALSE]
        BY <1>0, <1>5, <4>1 DEF EntryOK
      <4>4. Cardinality(ClaimedSinceQuote(i, M + 1)) \in Nat /\ MaxBlocksPerIdent \in Nat
        BY <1>5, ClaimedLines DEF RefAssumption
      <4>5. n \in Entry(i).results <=>
              /\ Cardinality(ClaimedSinceQuote(i, M + 1)) <= MaxBlocksPerIdent
              /\ line \in ClaimedSinceQuote(i, M + 1)
        BY <2>1, <4>3, <4>4
      <4>6. line \in ClaimedSinceQuote(i, M + 1) <=>
              i \in file[line].idents /\ Quotes(i, line + 1, M) = {}
        <5>1. (M + 1) - 1 = M
          BY <1>5
        <5> QED BY <2>3, <5>1 DEF ClaimedSinceQuote, Claims
      <4> QED BY <4>2, <4>5, <4>6
    <3> QED BY <1>4, <3>1 DEF Hits, NewCredits
  <2> DEFINE E == Cardinality(Credited(line, M))
             h == Cardinality(NewCredits(M, x, line))
             r == results[n]
             left == r.need - Least(r.need, h)
  <2>5. E \in Nat /\ h \in Nat /\ Cardinality(Credited(line, M + 1)') = E + h
    BY <1>4, <2>3, CreditedGrowsBy
  <2>6. /\ r.line = line /\ r.orig = Needed(line) /\ r.orig # 0
        /\ r.orig \in Nat /\ r.need \in Nat /\ r.refTS \in Nat
        /\ r.need = r.orig - Least(r.orig, E)
        /\ r.need # 0 => r.refTS = 0
    BY <1>5, <2>1, <2>2 DEF ResultOK, Records
  <2> HIDE DEF E, h
  <2>7. left = r.orig - Least(r.orig, E + h) /\ left \in Nat
    BY <2>5, <2>6 DEF Least
  <2>8. /\ results'[n].line = line /\ results'[n].orig = r.orig /\ results'[n].need = left
        /\ results'[n].refTS = IF r.need > 0 /\ left = 0 THEN M + 1 ELSE r.refTS
    <3>1. results'[n] = [r EXCEPT !.need = left,
                           !.refTS = IF r.need > 0 /\ left = 0 THEN Here ELSE @]
      BY <1>7, <2>4 DEF Credit, h
    <3> HIDE DEF left
    <3> QED BY <1>5, <2>1, <2>2, <3>1 DEF Records
  <2> HIDE DEF left
  <2>9. Needed(line)' = Needed(line)
    BY <2>3 DEF Needed
  <2>10. PICK ts \in Nat : ts = results'[n].refTS
    BY <1>5, <2>6, <2>8
  <2>11. left # 0 => ts = 0
    <3>1. r.need = 0 => left = 0
      BY <2>5, <2>6, <2>7 DEF Least
    <3> QED BY <2>6, <2>8, <2>10, <3>1
  <2>12. ASSUME ts # 0
         PROVE  /\ ts <= M + 1
                /\ Cardinality(Credited(line, ts)') >= r.orig
                /\ Cardinality(Credited(line, ts - 1)') < r.orig
    <3>1. CASE r.need > 0 /\ left = 0
      <4>1. ts = M + 1 /\ ts - 1 = M
        BY <1>5, <2>8, <2>10, <3>1
      <4>2. Credited(line, M)' = Credited(line, M)
        BY <1>4, <1>5, <2>3, EarlierCredited
      <4>3. E < r.orig /\ E + h >= r.orig
        BY <2>5, <2>6, <2>7, <3>1 DEF Least
      <4> QED BY <1>5, <2>5, <4>1, <4>2, <4>3 DEF E
    <3>2. CASE ~(r.need > 0 /\ left = 0)
      <4>1. ts = r.refTS
        BY <2>8, <2>10, <3>2
      <4>2. /\ ts <= M /\ Cardinality(Credited(line, ts)) >= r.orig
            /\ Cardinality(Credited(line, ts - 1)) < r.orig
        BY <1>5, <2>1, <2>2, <2>12, <4>1 DEF ResultOK
      <4>3. ts \in Int /\ ts - 1 \in Int /\ ts - 1 <= M /\ ts <= M + 1
        BY <1>5, <4>2
      <4>4. Credited(line, ts)' = Credited(line, ts) /\ Credited(line, ts - 1)' = Credited(line, ts - 1)
        BY <1>4, <2>3, <4>2, <4>3, EarlierCredited
      <4> QED BY <4>2, <4>3, <4>4
    <3> QED BY <3>1, <3>2
  <2>13. results'[n].line \in 1 .. Len(file') /\ file'[results'[n].line].kind = "result"
    BY <1>5, <2>3, <2>8
  <2>14. /\ Needed(results[n].line)' = Needed(line)
         /\ Credited(results[n].line, Len(file))' = Credited(line, M + 1)'
         /\ Credited(results[n].line, results[n].refTS)' = Credited(line, ts)'
         /\ Credited(results[n].line, results[n].refTS - 1)' = Credited(line, ts - 1)'
    BY <1>5, <2>8, <2>9, <2>10
  <2>15. /\ results'[n].orig = Needed(line) /\ results'[n].orig # 0
         /\ results'[n].need = results'[n].orig
                                 - Least(results'[n].orig, Cardinality(Credited(line, M + 1)'))
    BY <2>5, <2>6, <2>7, <2>8
  <2>16. /\ results'[n].need # 0 => results'[n].refTS = 0
         /\ results'[n].refTS # 0 =>
               /\ results'[n].refTS <= Len(file')
               /\ Cardinality(Credited(line, ts)') >= results'[n].orig
               /\ Cardinality(Credited(line, ts - 1)') < results'[n].orig
    BY <1>5, <2>8, <2>10, <2>11, <2>12
  <2> HIDE DEF r
  <2> QED BY <2>13, <2>14, <2>15, <2>16 DEF ResultOK
<1> QED BY <1>5, <1>6, <1>9, <1>10, <1>11, <1>12 DEF RefInv

\* A result without identifiers only lengthens the transcript.
LEMMA EmptyResultStep ==
    ASSUME RefAssumption, RefInv, UNCHANGED <<results, index>>,
           file' = Append(file, [kind |-> "result", idents |-> {}])
    PROVE  RefInv'
<1>0. /\ file \in Seq(Lines) /\ results \in Seq(Records) /\ LinesOK
      /\ \A i \in Idents : EntryOK(i)
      /\ \A n \in DOMAIN results : ResultOK(n)
  BY DEF RefInv
<1>1. PICK M : M = Len(file)
  OBVIOUS
<1>2. PICK x : x = [kind |-> "result", idents |-> {}]
  OBVIOUS
<1>3. x \in Lines /\ x.kind = "result" /\ x.idents = {} /\ Grows(M, x)
  BY <1>0, <1>1, <1>2 DEF Lines, Grows
<1>4. /\ M \in Nat /\ Len(file) = M /\ Len(file') = M + 1 /\ file' \in Seq(Lines)
      /\ \A k \in 1 .. M : file'[k] = file[k]
      /\ file'[M + 1] = x /\ Here = M + 1 /\ Here' = M + 2
  BY <1>3, GrownFile DEF Here, Grows
<1>5. ASSUME NEW i \in Idents PROVE EntryOK(i)'
  <2>1. ClaimedSinceQuote(i, M + 2)' = ClaimedSinceQuote(i, M + 1)
    <3>1. ClaimedSinceQuote(i, M + 2)' =
            IF x.kind = "source" /\ i \in x.idents THEN {}
            ELSE ClaimedSinceQuote(i, M + 1) \cup {k \in {M + 1} : x.kind = "result" /\ i \in x.idents}
      BY <1>3, NewClaimed
    <3>2. {k \in {M + 1} : x.kind = "result" /\ i \in x.idents} = {} /\ i \notin x.idents
      BY <1>3
    <3> QED BY <3>1, <3>2
  <2>2. Entry(i) = IF Cardinality(ClaimedSinceQuote(i, M + 1)) > MaxBlocksPerIdent
                   THEN [results |-> {}, dead |-> TRUE]
                   ELSE [results |-> {n \in DOMAIN results :
                                        results[n].line \in ClaimedSinceQuote(i, M + 1)},
                         dead |-> FALSE]
    BY <1>0, <1>4 DEF EntryOK
  <2>3. Entry(i)' = Entry(i)
    BY DEF Entry
  <2> QED BY <1>4, <2>1, <2>2, <2>3 DEF EntryOK
<1>6. LinesOK'
  <2>1. ASSUME NEW k \in 1 .. Len(file'), file'[k].kind = "result", file'[k].idents # {}
        PROVE  \E n \in DOMAIN results' : results'[n].line = k
    <3>1. k \in 1 .. M /\ file'[k] = file[k]
      BY <1>3, <1>4, <2>1
    <3> QED BY <1>0, <1>4, <2>1, <3>1 DEF LinesOK
  <2> QED BY <1>0, <2>1 DEF LinesOK
<1>7. ASSUME NEW n \in DOMAIN results PROVE ResultOK(n)'
  <2>1. ResultOK(n) /\ results[n] \in Records /\ results'[n] = results[n]
    BY <1>0
  <2>2. NewCredits(M, x, results[n].line) = {}
    BY <1>3 DEF NewCredits
  <2> QED BY <1>3, <2>1, <2>2, ResultKept
<1> QED BY <1>0, <1>4, <1>5, <1>6, <1>7 DEF RefInv

LEMMA AddedToEntry ==
    ASSUME NEW owners, NEW dead, NEW n, NEW e, e = [results |-> owners, dead |-> dead]
    PROVE  [e EXCEPT !.results = @ \cup {n}] = [results |-> owners \cup {n}, dead |-> dead]
OBVIOUS

\* The books of one identifier when a result that may hold it is registered.
LEMMA RegisteredEntry ==
    ASSUME RefAssumption, LinesOK, NEW N, NEW x, Grows(N, x), x.kind = "result",
           NEW i \in Idents, EntryOK(i),
           NEW r, r.line = N + 1,
           DOMAIN results = 1 .. Len(results), Len(results) \in Nat,
           Len(results') = Len(results) + 1, DOMAIN results' = 1 .. Len(results) + 1,
           \A n \in DOMAIN results : results'[n] = results[n],
           results'[Len(results) + 1] = r,
           \A n \in DOMAIN results : results[n].line \in 1 .. N,
           Entry(i)' = IF i \in x.idents THEN Register(Entry(i), Len(results) + 1) ELSE Entry(i)
    PROVE  EntryOK(i)'
<1>1. PICK C : C = ClaimedSinceQuote(i, N + 1)
  OBVIOUS
<1>2. PICK last : last = Len(results) + 1
  OBVIOUS
<1>3. /\ N \in Nat /\ Len(file) = N /\ Len(file') = N + 1 /\ Here = N + 1 /\ Here' = N + 2
  BY GrownFile DEF Here, Grows
<1>4. /\ \A c \in C : c \in 1 .. N
      /\ IsFiniteSet(C) /\ Cardinality(C) \in Nat
  BY <1>1, <1>3, ClaimedLines
<1>5. PICK owners : owners = {n \in DOMAIN results : results[n].line \in C}
  OBVIOUS
<1>6. Cardinality(owners) = Cardinality(C)
  BY <1>1, <1>3, <1>5, ClaimedResults
<1>7. Entry(i) = IF Cardinality(C) > MaxBlocksPerIdent
                 THEN [results |-> {}, dead |-> TRUE]
                 ELSE [results |-> owners, dead |-> FALSE]
  BY <1>1, <1>3, <1>5 DEF EntryOK
<1>8. ClaimedSinceQuote(i, N + 2)' = C \cup {k \in {N + 1} : x.kind = "result" /\ i \in x.idents}
  <2>1. ClaimedSinceQuote(i, N + 2)' =
          IF x.kind = "source" /\ i \in x.idents THEN {}
          ELSE ClaimedSinceQuote(i, N + 1) \cup {k \in {N + 1} : x.kind = "result" /\ i \in x.idents}
    BY NewClaimed
  <2>2. x.kind # "source"
    OBVIOUS
  <2> QED BY <1>1, <2>1, <2>2
<1>9. CASE i \in x.idents
  <2>1. ClaimedSinceQuote(i, N + 2)' = C \cup {N + 1}
    BY <1>8, <1>9
  <2>2. N + 1 \notin C
    BY <1>3, <1>4
  <2>3. Cardinality(C \cup {N + 1}) = Cardinality(C) + 1
    BY <1>4, <2>2, FS_AddElement
  <2>4. {n \in DOMAIN results' : results'[n].line \in C \cup {N + 1}} = owners \cup {last}
    <3>1. DOMAIN results' = DOMAIN results \cup {last} /\ last \notin DOMAIN results
      BY <1>2
    <3>2. results'[last].line = N + 1
      BY <1>2
    <3>3. \A n \in DOMAIN results : results'[n].line = results[n].line /\ results[n].line # N + 1
      BY <1>3
    <3> QED BY <1>5, <3>1, <3>2, <3>3
  <2>5. Entry(i)' = Register(Entry(i), last)
    BY <1>2, <1>9
  <2>6. Register(Entry(i), last) =
          IF Cardinality(C) + 1 > MaxBlocksPerIdent THEN [results |-> {}, dead |-> TRUE]
          ELSE [results |-> owners \cup {last}, dead |-> FALSE]
    <3>1. MaxBlocksPerIdent \in Nat
      BY DEF RefAssumption
    <3>2. CASE Cardinality(C) > MaxBlocksPerIdent
      <4>1. Entry(i).dead
        BY <1>7, <3>2
      <4> QED BY <1>4, <3>1, <3>2, <4>1 DEF Register
    <3>3. CASE ~(Cardinality(C) > MaxBlocksPerIdent)
      <4>1. Entry(i) = [results |-> owners, dead |-> FALSE]
        BY <1>7, <3>3
      <4>2. Full(Entry(i)) <=> Cardinality(C) >= MaxBlocksPerIdent
        BY <1>6, <4>1 DEF Full
      <4>3. ~Entry(i).dead
        <5>1. [results |-> owners, dead |-> FALSE].dead = FALSE
          OBVIOUS
        <5> QED BY <4>1, <5>1
      <4>4. [Entry(i) EXCEPT !.results = @ \cup {last}] = [results |-> owners \cup {last}, dead |-> FALSE]
        <5>1. PICK dead : dead = FALSE
          OBVIOUS
        <5>2. PICK e : e = [results |-> owners, dead |-> dead]
          OBVIOUS
        <5>3. [e EXCEPT !.results = @ \cup {last}] = [results |-> owners \cup {last}, dead |-> dead]
          BY <5>2, AddedToEntry
        <5>4. e = Entry(i)
          BY <4>1, <5>1, <5>2, Zenon
        <5> QED BY <5>1, <5>3, <5>4, Zenon
      <4> QED BY <1>4, <3>1, <4>2, <4>3, <4>4 DEF Register
    <3> QED BY <3>2, <3>3
  <2> QED BY <1>3, <2>1, <2>3, <2>4, <2>5, <2>6 DEF EntryOK
<1>10. CASE i \notin x.idents
  <2>1. ClaimedSinceQuote(i, N + 2)' = C
    BY <1>8, <1>10
  <2>2. {n \in DOMAIN results' : results'[n].line \in C} = owners
    <3>1. DOMAIN results' = DOMAIN results \cup {last} /\ results'[last].line = N + 1 /\ N + 1 \notin C
      BY <1>2, <1>3, <1>4
    <3> QED BY <1>5, <3>1
  <2>3. Entry(i)' = Entry(i)
    BY <1>10
  <2> QED BY <1>3, <1>7, <2>1, <2>2, <2>3 DEF EntryOK
<1> QED BY <1>9, <1>10

\* A result registers the identifiers it produced.
LEMMA ResultStep ==
    ASSUME RefAssumption, RefInv, NEW idents \in SUBSET Idents, idents # {},
           file' = Append(file, [kind |-> "result", idents |-> idents]),
           NEW need, need = Least(NeedDistinct, Cardinality(idents)),
           results' = Append(results, [line |-> Here, orig |-> need, need |-> need, refTS |-> 0]),
           index' = [i \in DOMAIN index \cup idents |->
                       IF i \in idents THEN Register(Entry(i), Len(results) + 1) ELSE index[i]]
    PROVE  RefInv'
<1>0. /\ file \in Seq(Lines) /\ results \in Seq(Records) /\ LinesOK
      /\ \A i \in Idents : EntryOK(i)
      /\ \A n \in DOMAIN results : ResultOK(n)
  BY DEF RefInv
<1>1. PICK M : M = Len(file)
  OBVIOUS
<1>2. PICK x : x = [kind |-> "result", idents |-> idents]
  OBVIOUS
<1>3. x \in Lines /\ x.kind = "result" /\ x.idents = idents /\ Grows(M, x)
  BY <1>0, <1>1, <1>2 DEF Lines, Grows
<1>4. /\ M \in Nat /\ Len(file) = M /\ Len(file') = M + 1 /\ file' \in Seq(Lines)
      /\ \A k \in 1 .. M : file'[k] = file[k]
      /\ file'[M + 1] = x /\ Here = M + 1 /\ Here' = M + 2
  BY <1>3, GrownFile DEF Here, Grows
<1>5. need \in Nat /\ need # 0
  <2>1. IsFiniteSet(idents) /\ Cardinality(idents) \in Nat /\ Cardinality(idents) # 0
    <3>1. IsFiniteSet(Idents)
      BY DEF RefAssumption
    <3> QED BY <3>1, FS_Subset, FS_CardinalityType, FS_EmptySet
  <2> QED BY <2>1 DEF RefAssumption, Least
<1>6. PICK r : r = [line |-> M + 1, orig |-> need, need |-> need, refTS |-> 0]
  OBVIOUS
<1>7. r \in Records /\ r.line = M + 1 /\ r.orig = need /\ r.need = need /\ r.refTS = 0
  BY <1>4, <1>5, <1>6 DEF Records
<1>8. PICK last : last = Len(results) + 1
  OBVIOUS
<1>9. /\ results' = Append(results, r) /\ results' \in Seq(Records)
      /\ Len(results) \in Nat /\ DOMAIN results = 1 .. Len(results)
      /\ Len(results') = last /\ DOMAIN results' = 1 .. last
      /\ DOMAIN results' = DOMAIN results \cup {last} /\ last \notin DOMAIN results
      /\ \A n \in DOMAIN results : results'[n] = results[n]
      /\ results'[last] = r
  BY <1>0, <1>4, <1>6, <1>7, <1>8
<1>10. ASSUME NEW n \in DOMAIN results
       PROVE  /\ results[n] \in Records /\ results[n].line \in 1 .. M
  <2>1. ResultOK(n)
    BY <1>0
  <2>2. results[n].line \in 1 .. M
    BY <1>4, <2>1 DEF ResultOK
  <2> QED BY <1>0, <2>2
<1>11. ASSUME NEW i \in Idents PROVE EntryOK(i)'
  <2>1. Entry(i)' = IF i \in idents THEN Register(Entry(i), last) ELSE Entry(i)
    BY <1>8 DEF Entry
  <2>2. EntryOK(i)
    BY <1>0
  <2> QED BY <1>0, <1>3, <1>7, <1>8, <1>9, <1>10, <2>1, <2>2, RegisteredEntry
<1>12. LinesOK'
  <2>1. \A n, m \in DOMAIN results' : results'[n].line = results'[m].line => n = m
    BY <1>0, <1>4, <1>7, <1>9, <1>10 DEF LinesOK
  <2>2. ASSUME NEW k \in 1 .. Len(file'), file'[k].kind = "result", file'[k].idents # {}
        PROVE  \E n \in DOMAIN results' : results'[n].line = k
    <3>1. CASE k = M + 1
      BY <1>7, <1>9, <3>1
    <3>2. CASE k # M + 1
      <4>1. k \in 1 .. M /\ file'[k] = file[k]
        BY <1>4, <3>2
      <4>2. PICK n \in DOMAIN results : results[n].line = k
        BY <1>0, <1>4, <2>2, <4>1 DEF LinesOK
      <4> QED BY <1>9, <4>2
    <3> QED BY <3>1, <3>2
  <2> QED BY <2>1, <2>2 DEF LinesOK
<1>13. ASSUME NEW n \in DOMAIN results PROVE ResultOK(n)'
  <2>1. ResultOK(n) /\ results[n] \in Records /\ results'[n] = results[n]
    BY <1>0, <1>9, <1>10
  <2>2. NewCredits(M, x, results[n].line) = {}
    BY <1>3 DEF NewCredits
  <2> QED BY <1>3, <2>1, <2>2, ResultKept
<1>14. ResultOK(last)'
  <2>1. Credited(M + 1, M + 1)' = {}
    <3>1. (M + 1) + 1 .. M + 1 = {}
      BY <1>4
    <3> QED BY <3>1 DEF Credited
  <2>2. Cardinality(Credited(M + 1, M + 1)') = 0
    BY <2>1, FS_EmptySet
  <2>3. Needed(M + 1)' = need
    BY <1>3, <1>4 DEF Needed
  <2>4. need = need - Least(need, 0)
    BY <1>5 DEF Least
  <2>5. M + 1 \in 1 .. Len(file') /\ file'[M + 1].kind = "result"
    BY <1>3, <1>4
  <2>6. Needed(results[last].line)' = Needed(M + 1)'
        /\ Credited(results[last].line, Len(file))' = Credited(M + 1, M + 1)'
    BY <1>4, <1>7, <1>9
  <2> QED BY <1>5, <1>7, <1>9, <2>2, <2>3, <2>4, <2>5, <2>6 DEF ResultOK
<1> QED BY <1>4, <1>9, <1>11, <1>12, <1>13, <1>14 DEF RefInv

LEMMA AddResultStep == ASSUME RefAssumption, RefInv, AddResult PROVE RefInv'
<1>1. PICK idents \in SUBSET Idents :
        /\ file' = Append(file, [kind |-> "result", idents |-> idents])
        /\ LET need == Least(NeedDistinct, Cardinality(idents))
               n    == Len(results) + 1
           IN  IF idents = {} THEN UNCHANGED <<results, index>>
               ELSE /\ results' = Append(results, [line |-> Here, orig |-> need,
                                                   need |-> need, refTS |-> 0])
                    /\ index' = [i \in DOMAIN index \cup idents |->
                                   IF i \in idents THEN Register(Entry(i), n) ELSE index[i]]
  BY DEF AddResult, Read
<1>2. CASE idents = {}
  BY <1>1, <1>2, EmptyResultStep
<1>3. CASE idents # {}
  <2>1. PICK need : need = Least(NeedDistinct, Cardinality(idents))
    OBVIOUS
  <2> QED BY <1>1, <1>3, <2>1, ResultStep
<1> QED BY <1>2, <1>3

LEMMA RefStutter == ASSUME RefInv, UNCHANGED vars PROVE RefInv'
<1>1. UNCHANGED <<index, results, file>>
  BY DEF vars
<1>2. /\ file' \in Seq(Lines) /\ results' \in Seq(Records)
      /\ \A i \in Idents : EntryOK(i)
      /\ \A n \in DOMAIN results' : ResultOK(n)
      /\ LinesOK
  BY <1>1 DEF RefInv
<1>3. LinesOK'
  BY <1>1, <1>2 DEF LinesOK
<1>4. ASSUME NEW i \in Idents PROVE EntryOK(i)'
  <2>1. EntryOK(i)' <=> EntryOK(i)
    BY <1>1 DEF EntryOK, Entry, Here, ClaimedSinceQuote, Claims, Quotes
  <2> QED BY <1>2, <2>1
<1>5. ASSUME NEW n \in DOMAIN results' PROVE ResultOK(n)'
  <2>1. ResultOK(n)' <=> ResultOK(n)
    BY <1>1 DEF ResultOK, Needed, Credited, NextQuote, ClaimedSinceQuote, Claims, Quotes
  <2> QED BY <1>2, <2>1
<1> QED BY <1>2, <1>3, <1>4, <1>5 DEF RefInv

LEMMA RefInvHolds == Spec => []RefInv
<1>1. Init => RefInv
  BY RefAssumption, RefInit
<1>2. RefInv /\ [Next]_vars => RefInv'
  BY RefAssumption, AddResultStep, ObserveStep, RefStutter DEF Next
<1> QED BY <1>1, <1>2, PTL DEF Spec

\* As long as no identifier of a result was quoted before it and claimed
\* again, what credits the result is what the comments say: there is one quote
\* of each that counts, the first of the file.
LEMMA FreshCredited ==
    ASSUME RefAssumption, file \in Seq(Lines), NEW line \in 1 .. Len(file),
           file[line].kind = "result", Fresh(line), NEW upto \in Int, upto <= Len(file)
    PROVE  Evidence(line, upto) = Credited(line, upto)
<1>1. Len(file) \in Nat /\ MaxBlocksPerIdent \in Nat
  BY DEF RefAssumption
<1>2. ASSUME NEW i \in file[line].idents, NEW k \in line + 1 .. upto, ~Fired(i, k)
      PROVE  Claims(i, 1, k - 1) = ClaimedSinceQuote(i, k)
  <2> SUFFICES ASSUME NEW c \in Claims(i, 1, k - 1), NEW q \in Quotes(i, c + 1, k - 1)
      PROVE  FALSE
    BY DEF ClaimedSinceQuote
  <2>1. q \in Quotes(i, 1, k - 1) /\ c \in Claims(i, 1, q - 1)
    BY <1>1 DEF Quotes, Claims
  <2> QED BY <1>2, <2>1 DEF Fired
<1>3. ASSUME NEW i \in file[line].idents, NEW k \in line + 1 .. upto
      PROVE  ~Fired(i, k) <=> Quotes(i, line + 1, k - 1) = {}
  <2>1. ASSUME NEW q \in Quotes(i, line + 1, k - 1) PROVE Fired(i, k)
    <3>1. q \in Quotes(i, 1, k - 1) /\ line \in Claims(i, 1, q - 1)
      BY <1>1 DEF Quotes, Claims
    <3> QED BY <3>1 DEF Fired
  <2>2. ASSUME Fired(i, k) PROVE Quotes(i, line + 1, k - 1) # {}
    <3>1. PICK q \in Quotes(i, 1, k - 1) : Claims(i, 1, q - 1) # {}
      BY <2>2 DEF Fired
    <3>2. ~(q < line)
      <4>1. ASSUME q < line PROVE Fired(i, line)
        <5>1. q \in Quotes(i, 1, line - 1)
          BY <1>1, <4>1 DEF Quotes
        <5> QED BY <3>1, <5>1 DEF Fired
      <4> QED BY <4>1 DEF Fresh
    <3>3. q # line
      BY DEF Quotes
    <3>4. q \in Quotes(i, line + 1, k - 1)
      BY <1>1, <3>2, <3>3 DEF Quotes
    <3> QED BY <3>4
  <2> QED BY <2>1, <2>2
<1>4. ASSUME NEW i \in file[line].idents, NEW k \in line + 1 .. upto
      PROVE  /\ k \in Quotes(i, line + 1, upto) <=> k \in Quotes(i, line + 1, Len(file))
             /\ Cardinality(Claims(i, 1, k - 1)) \in Nat
  <2>1. k \in Quotes(i, line + 1, upto) <=> k \in Quotes(i, line + 1, Len(file))
    BY <1>1 DEF Quotes
  <2>2. IsFiniteSet(Claims(i, 1, k - 1))
    <3>1. IsFiniteSet(1 .. k - 1)
      <4>1. 1 \in Int /\ k - 1 \in Int
        BY <1>1
      <4> QED BY <4>1, FS_Interval
    <3>2. Claims(i, 1, k - 1) \in SUBSET (1 .. k - 1)
      BY DEF Claims
    <3> QED BY <3>1, <3>2, FS_Subset
  <2> QED BY <2>1, <2>2, FS_CardinalityType
<1>5. ASSUME NEW i \in file[line].idents, NEW k \in line + 1 .. upto
      PROVE  (k \in Quotes(i, line + 1, upto) /\ ~Fired(i, k) /\ ~Ambient(i, k)) <=>
             (NextQuote(i, line, k) /\ Cardinality(ClaimedSinceQuote(i, k)) <= MaxBlocksPerIdent)
  <2>1. ~Ambient(i, k) <=> Cardinality(Claims(i, 1, k - 1)) <= MaxBlocksPerIdent
    <3>1. PICK c : c = Cardinality(Claims(i, 1, k - 1))
      OBVIOUS
    <3>2. c \in Nat
      BY <1>4, <3>1
    <3> QED BY <1>1, <3>1, <3>2 DEF Ambient
  <2>2. NextQuote(i, line, k) <=> k \in Quotes(i, line + 1, upto) /\ ~Fired(i, k)
    BY <1>3, <1>4 DEF NextQuote
  <2> QED BY <1>2, <2>1, <2>2
<1>6. ASSUME NEW i, NEW k \in Quotes(i, line + 1, upto) PROVE k \in line + 1 .. upto
  BY DEF Quotes
<1> QED BY <1>5, <1>6 DEF Evidence, Credited

\* The verdict and the time of a result with fresh identifiers are those a
\* reader of the whole transcript so far would give it: how many distinct
\* identifiers of the result had the first quote of the file later, before too
\* many results had claimed them.  addResult, observeText and finalize only
\* ever look at the inverted index (refs.go).
THEOREM VerdictMatchesTextHolds == Spec => []VerdictMatchesText
<1>1. ASSUME RefInv PROVE VerdictMatchesText
  <2> SUFFICES ASSUME NEW n \in DOMAIN results, Fresh(results[n].line)
      PROVE  LET r    == results[n]
                 seen == Cardinality(Evidence(r.line, Len(file)))
             IN  /\ Verdict(r) = (IF seen >= Needed(r.line) THEN "referenced"
                                  ELSE IF seen = 0 THEN "unreferenced" ELSE "unknown")
                 /\ r.refTS # 0 =>
                       /\ Cardinality(Evidence(r.line, r.refTS)) >= Needed(r.line)
                       /\ Cardinality(Evidence(r.line, r.refTS - 1)) < Needed(r.line)
    BY DEF VerdictMatchesText
  <2>1. file \in Seq(Lines) /\ results \in Seq(Records) /\ ResultOK(n)
    BY <1>1 DEF RefInv
  <2>2. results[n].line \in 1 .. Len(file) /\ file[results[n].line].kind = "result"
    BY <2>1 DEF ResultOK
  <2>3. results[n].orig \in Nat /\ results[n].refTS \in Nat
    <3>1. results[n] \in Records
      BY <2>1
    <3> QED BY <3>1 DEF Records
  <2>4. ASSUME NEW u \in Int, u <= Len(file)
        PROVE  Evidence(results[n].line, u) = Credited(results[n].line, u)
    BY <2>1, <2>2, <2>4, RefAssumption, FreshCredited
  <2> DEFINE seen == Cardinality(Credited(results[n].line, Len(file)))
  <2>5. seen \in Nat
    BY <2>1, <2>2, RefAssumption, CreditedCounts
  <2>6. /\ results[n].orig = Needed(results[n].line) /\ results[n].orig # 0
        /\ results[n].need = results[n].orig - Least(results[n].orig, seen)
    BY <2>1 DEF ResultOK
  <2>7. Evidence(results[n].line, Len(file)) = Credited(results[n].line, Len(file))
    BY <2>1, <2>4
  <2>8. ASSUME results[n].refTS # 0
        PROVE  /\ Cardinality(Evidence(results[n].line, results[n].refTS)) >= Needed(results[n].line)
               /\ Cardinality(Evidence(results[n].line, results[n].refTS - 1)) < Needed(results[n].line)
    <3>1. results[n].refTS <= Len(file)
      BY <2>1, <2>8 DEF ResultOK
    <3>2. /\ Evidence(results[n].line, results[n].refTS) = Credited(results[n].line, results[n].refTS)
          /\ Evidence(results[n].line, results[n].refTS - 1) = Credited(results[n].line, results[n].refTS - 1)
      BY <2>1, <2>3, <2>4, <3>1
    <3> QED BY <2>1, <2>8, <3>2 DEF ResultOK
  <2> HIDE DEF seen
  <2>9. Verdict(results[n]) =
          IF seen >= Needed(results[n].line) THEN "referenced"
          ELSE IF seen = 0 THEN "unreferenced" ELSE "unknown"
    BY <2>3, <2>5, <2>6 DEF Verdict, Least
  <2> QED BY <2>7, <2>8, <2>9 DEF seen
<1> QED BY <1>1, RefInvHolds, PTL

(***************************************************************************)
(* Sequences of sequences, one after the other.                            *)
(***************************************************************************)
\* Induction over sequences, with a set for the predicate.
LEMMA SeqInduct ==
    ASSUME NEW T, NEW G, <<>> \in G,
           \A ls \in Seq(T), x \in T : ls \in G => Append(ls, x) \in G
    PROVE  \A ls \in Seq(T) : ls \in G
<1> DEFINE Bad == {n \in Nat : \E ls \in Seq(T) : Len(ls) = n /\ ls \notin G}
<1> SUFFICES Bad = {}
  <2> TAKE ls \in Seq(T)
  <2>1. Len(ls) \in Nat
    OBVIOUS
  <2> QED BY <2>1
<1>1. SUFFICES ASSUME Bad # {} PROVE FALSE
  OBVIOUS
<1>2. PICK n \in Bad : \A m \in Bad : n <= m
  <2>1. Bad \in SUBSET Nat
    OBVIOUS
  <2> HIDE DEF Bad
  <2> QED BY <1>1, <2>1, LeastOf
<1>3. PICK ls \in Seq(T) : Len(ls) = n /\ ls \notin G
  OBVIOUS
<1>4. ls # <<>>
  BY <1>3
<1>5. Len(ls) \in Nat \ {0}
  BY <1>4
<1> DEFINE front == SubSeq(ls, 1, n - 1)
<1>6. front \in Seq(T) /\ Len(front) = n - 1 /\ ls[n] \in T
  BY <1>3, <1>5
<1>7. ls = Append(front, ls[n])
  BY <1>3, <1>5
<1>8. n - 1 \in Nat
  BY <1>3, <1>5
<1>9. front \in G
  <2>1. n - 1 \notin Bad
    <3>1. ~(n <= n - 1)
      BY <1>8
    <3> QED BY <1>2, <3>1
  <2> QED BY <1>6, <1>8, <2>1
<1> QED BY <1>3, <1>6, <1>7, <1>9

\* Two sequences, one after the other.
LEMMA ConcatSeq ==
    ASSUME NEW T, NEW a \in Seq(T), NEW b \in Seq(T)
    PROVE  /\ a \o b \in Seq(T)
           /\ Len(a \o b) = Len(a) + Len(b)
           /\ \A i \in 1 .. Len(a) : (a \o b)[i] = a[i]
           /\ \A i \in 1 .. Len(b) : (a \o b)[Len(a) + i] = b[i]
OBVIOUS

LEMMA ConcatAssoc ==
    ASSUME NEW T, NEW a \in Seq(T), NEW b \in Seq(T), NEW c \in Seq(T)
    PROVE  (a \o b) \o c = a \o (b \o c)
OBVIOUS

\* The same for all of them at once, as a fact to cite.
Assoc(T) == \A a, b, c \in Seq(T) : (a \o b) \o c = a \o (b \o c)

LEMMA ConcatAssocs == ASSUME NEW T PROVE Assoc(T)
<1> SUFFICES ASSUME NEW a \in Seq(T), NEW b \in Seq(T), NEW c \in Seq(T)
             PROVE  (a \o b) \o c = a \o (b \o c)
  BY Zenon DEF Assoc
<1> QED BY ConcatAssoc

\* FlattenSeq is the last value of a recursion over the sequence; g solves it.
FlatEq(g, ss) == g = [i \in 1 .. Len(ss) |-> IF i = 1 THEN ss[i] ELSE g[i - 1] \o ss[i]]

FlatIter(ss) == CHOOSE g : FlatEq(g, ss)

LEMMA FlattenIsIter == ASSUME NEW ss, Len(ss) # 0 PROVE FlattenSeq(ss) = FlatIter(ss)[Len(ss)]
BY Zenon DEF FlattenSeq, FlatEq, FlatIter

\* A solution for a sequence extends to one for a longer sequence.
LEMMA FlatGrows ==
    ASSUME NEW T, NEW ss \in Seq(Seq(T)), NEW x \in Seq(T), NEW g, FlatEq(g, ss)
    PROVE  \E h : FlatEq(h, Append(ss, x))
<1> DEFINE n == Len(ss)
           h == [i \in 1 .. n + 1 |-> IF i <= n THEN g[i] ELSE IF n = 0 THEN x ELSE g[n] \o x]
           E(i) == IF i = 1 THEN Append(ss, x)[i] ELSE h[i - 1] \o Append(ss, x)[i]
<1>1. n \in Nat /\ Len(Append(ss, x)) = n + 1
  OBVIOUS
<1>2. \A i \in 1 .. n + 1 : h[i] = E(i)
  <2> TAKE i \in 1 .. n + 1
  <2>1. CASE i <= n
    <3>1. i \in 1 .. n /\ Append(ss, x)[i] = ss[i] /\ h[i] = g[i]
      BY <1>1, <2>1
    <3>2. g[i] = IF i = 1 THEN ss[i] ELSE g[i - 1] \o ss[i]
      BY <3>1 DEF FlatEq
    <3>3. i # 1 => i - 1 \in 1 .. n + 1 /\ i - 1 <= n
      BY <1>1, <3>1
    <3>4. i # 1 => h[i - 1] = g[i - 1]
      BY <3>3
    <3> QED BY <3>1, <3>2, <3>4
  <2>2. CASE ~(i <= n)
    <3>1. i = n + 1 /\ Append(ss, x)[i] = x
      BY <1>1, <2>2
    <3>2. CASE n = 0
      BY <3>1, <3>2
    <3>3. CASE n # 0
      <4>1. h[i] = g[n] \o x
        BY <1>1, <3>1, <3>3
      <4>2. h[i - 1] = g[n] /\ i # 1
        BY <1>1, <3>1, <3>3
      <4> QED BY <3>1, <4>1, <4>2
    <3> QED BY <3>2, <3>3
  <2> QED BY <2>1, <2>2
<1>3. h = [i \in 1 .. n + 1 |-> E(i)]
  <2>1. h = [i \in 1 .. n + 1 |-> h[i]]
    OBVIOUS
  <2> HIDE DEF h, E
  <2> QED BY <1>2, <2>1
<1>4. FlatEq(h, Append(ss, x))
  <2> HIDE DEF h
  <2> QED BY <1>1, <1>3 DEF FlatEq
<1> QED BY <1>4

\* So there is one for every sequence.
LEMMA FlatExists == ASSUME NEW T, NEW ss \in Seq(Seq(T)) PROVE FlatEq(FlatIter(ss), ss)
<1> DEFINE G == {r \in Seq(Seq(T)) : \E g : FlatEq(g, r)}
<1>1. <<>> \in G
  <2>1. FlatEq(<<>>, <<>>)
    BY DEF FlatEq
  <2> QED BY <2>1
<1>2. \A r \in Seq(Seq(T)), x \in Seq(T) : r \in G => Append(r, x) \in G
  <2> TAKE r \in Seq(Seq(T)), x \in Seq(T)
  <2> HAVE r \in G
  <2>1. \E h : FlatEq(h, Append(r, x))
    BY FlatGrows
  <2> QED BY <2>1
<1>3. ss \in G
  <2> HIDE DEF G
  <2> QED BY <1>1, <1>2, SeqInduct
<1> QED BY <1>3 DEF FlatIter

\* What the first of two solutions that share a beginning says, the other says.
LEMMA FlatShared ==
    ASSUME NEW T, NEW ss \in Seq(Seq(T)), NEW x \in Seq(T), NEW g, NEW h,
           FlatEq(g, ss), FlatEq(h, Append(ss, x))
    PROVE  \A i \in 1 .. Len(ss) : h[i] = g[i] /\ g[i] \in Seq(T)
<1> DEFINE n == Len(ss)
           Bad == {i \in 1 .. n : ~(h[i] = g[i] /\ g[i] \in Seq(T))}
<1>1. SUFFICES ASSUME Bad # {} PROVE FALSE
  OBVIOUS
<1>2. Bad \in SUBSET Nat
  OBVIOUS
<1>3. PICK i \in Bad : \A j \in Bad : i <= j
  <2> HIDE DEF Bad
  <2> QED BY <1>1, <1>2, LeastOf
<1>4. i \in 1 .. n /\ n \in Nat /\ Len(Append(ss, x)) = n + 1 /\ Append(ss, x)[i] = ss[i]
  OBVIOUS
<1>5. g[i] = (IF i = 1 THEN ss[i] ELSE g[i - 1] \o ss[i])
  BY <1>4 DEF FlatEq
<1>6. h[i] = (IF i = 1 THEN ss[i] ELSE h[i - 1] \o ss[i])
  <2>1. i \in 1 .. n + 1
    BY <1>4
  <2> QED BY <1>4, <2>1 DEF FlatEq
<1>7. CASE i = 1
  BY <1>4, <1>5, <1>6, <1>7
<1>8. CASE i # 1
  <2>1. i - 1 \in 1 .. n /\ ~(i <= i - 1)
    BY <1>4, <1>8
  <2>2. h[i - 1] = g[i - 1] /\ g[i - 1] \in Seq(T)
    BY <1>3, <2>1
  <2>3. ss[i] \in Seq(T)
    BY <1>4
  <2>4. g[i - 1] \o ss[i] \in Seq(T)
    BY <2>2, <2>3, ConcatSeq
  <2> QED BY <1>5, <1>6, <1>8, <2>2, <2>4
<1> QED BY <1>7, <1>8

\* What FlattenSeq gives for nothing, for one sequence more, and for two parts.
LEMMA FlattenNone == FlattenSeq(<<>>) = <<>>
BY Zenon, Len(<<>>) = 0 DEF FlattenSeq

LEMMA FlattenAppend ==
    ASSUME NEW T, NEW ss \in Seq(Seq(T)), NEW x \in Seq(T)
    PROVE  /\ FlattenSeq(ss) \in Seq(T)
           /\ FlattenSeq(Append(ss, x)) = FlattenSeq(ss) \o x
<1> DEFINE n == Len(ss)
           g == FlatIter(ss)
           h == FlatIter(Append(ss, x))
<1>1. Append(ss, x) \in Seq(Seq(T)) /\ Len(Append(ss, x)) = n + 1 /\ n \in Nat
         /\ Append(ss, x)[n + 1] = x
  OBVIOUS
<1>2. FlatEq(g, ss) /\ FlatEq(h, Append(ss, x))
  BY <1>1, FlatExists
<1>3. FlattenSeq(Append(ss, x)) = h[n + 1]
  <2>1. Len(Append(ss, x)) # 0
    BY <1>1
  <2> QED BY Zenon, <1>1, <2>1, FlattenIsIter
<1>4. h[n + 1] = (IF n = 0 THEN x ELSE h[n] \o x)
  <2> DEFINE r == Append(ss, x)
             k == n + 1
             E(i) == IF i = 1 THEN r[i] ELSE h[i - 1] \o r[i]
  <2>1. h = [i \in 1 .. Len(r) |-> E(i)]
    <3> HIDE DEF h, n
    <3> QED BY <1>2 DEF FlatEq
  <2>2. k \in 1 .. Len(r) /\ k - 1 = n /\ (k = 1 <=> n = 0) /\ r[k] = x
    BY <1>1
  <2>3. h[k] = E(k)
    <3> HIDE DEF h, k, r, E
    <3> QED BY Zenon, <2>1, <2>2
  <2> HIDE DEF h, n, k, r
  <2>4. h[k] = IF n = 0 THEN x ELSE h[n] \o x
    BY Zenon, <2>2, <2>3
  <2> QED BY <2>4 DEF k
<1>5. CASE n = 0
  <2>1. ss = <<>>
    BY <1>5
  <2>2. FlattenSeq(Append(ss, x)) = x
    <3> HIDE DEF h, n
    <3> QED BY <1>3, <1>4, <1>5
  <2>3. <<>> \o x = x /\ <<>> \in Seq(T)
    OBVIOUS
  <2> QED BY Zenon, <2>1, <2>2, <2>3, FlattenNone
<1>6. CASE n # 0
  <2>1. FlattenSeq(ss) = g[n]
    BY <1>6, FlattenIsIter
  <2>2. n \in 1 .. Len(ss)
    BY <1>1, <1>6
  <2>3. h[n] = g[n] /\ g[n] \in Seq(T)
    BY <1>2, <2>2, FlatShared
  <2> QED BY <1>3, <1>4, <1>6, <2>1, <2>3
<1> QED BY <1>5, <1>6

LEMMA FlattenType == ASSUME NEW T, NEW ss \in Seq(Seq(T)) PROVE FlattenSeq(ss) \in Seq(T)
BY FlattenAppend, <<>> \in Seq(T)

LEMMA FlattenConcat ==
    ASSUME NEW T, NEW ss \in Seq(Seq(T)), NEW tt \in Seq(Seq(T))
    PROVE  FlattenSeq(ss \o tt) = FlattenSeq(ss) \o FlattenSeq(tt)
<1> DEFINE G == {r \in Seq(Seq(T)) : FlattenSeq(ss \o r) = FlattenSeq(ss) \o FlattenSeq(r)}
<1>1. <<>> \in G
  <2>1. FlattenSeq(ss) \in Seq(T) /\ ss \o <<>> = ss
    BY FlattenType
  <2> QED BY <2>1, FlattenNone
<1>2. \A r \in Seq(Seq(T)), x \in Seq(T) : r \in G => Append(r, x) \in G
  <2> TAKE r \in Seq(Seq(T)), x \in Seq(T)
  <2> HAVE r \in G
  <2>1. ss \o Append(r, x) = Append(ss \o r, x) /\ ss \o r \in Seq(Seq(T))
    OBVIOUS
  <2>2. FlattenSeq(ss \o Append(r, x)) = FlattenSeq(ss \o r) \o x
    BY <2>1, FlattenAppend
  <2>3. FlattenSeq(Append(r, x)) = FlattenSeq(r) \o x
    BY FlattenAppend
  <2>4. FlattenSeq(ss) \in Seq(T) /\ FlattenSeq(r) \in Seq(T)
    BY FlattenType
  <2>5. (FlattenSeq(ss) \o FlattenSeq(r)) \o x = FlattenSeq(ss) \o (FlattenSeq(r) \o x)
    <3>1. Assoc(T)
      BY Zenon, ConcatAssocs
    <3> QED BY Zenon, <2>4, <3>1 DEF Assoc
  <2>6. Append(r, x) \in Seq(Seq(T)) /\ FlattenSeq(ss \o r) = FlattenSeq(ss) \o FlattenSeq(r)
    OBVIOUS
  <2> QED BY <2>2, <2>3, <2>5, <2>6
<1>3. tt \in G
  <2> HIDE DEF G
  <2> QED BY <1>1, <1>2, SeqInduct
<1> QED BY <1>3

\* The sequences a function gives for the elements of a sequence, end to end.
Mapped(F, ls) == [i \in DOMAIN ls |-> F[ls[i]]]

FlatMap(F, ls) == FlattenSeq(Mapped(F, ls))

\* Applied to two sequences, one after the other.
MapsJoin(F, S, R) ==
    \A a, b \in Seq(S) :
        /\ Mapped(F, a) \in Seq(R) /\ Mapped(F, b) \in Seq(R)
        /\ Mapped(F, a \o b) = Mapped(F, a) \o Mapped(F, b)

LEMMA MappedJoins == ASSUME NEW S, NEW R, NEW F \in [S -> R] PROVE MapsJoin(F, S, R)
<1> SUFFICES ASSUME NEW a \in Seq(S), NEW b \in Seq(S)
             PROVE  /\ Mapped(F, a) \in Seq(R) /\ Mapped(F, b) \in Seq(R)
                    /\ Mapped(F, a \o b) = Mapped(F, a) \o Mapped(F, b)
  BY Zenon DEF MapsJoin
<1>1. \A c \in Seq(S) : Mapped(F, c) \in Seq(R) /\ Len(Mapped(F, c)) = Len(c)
                         /\ \A i \in 1 .. Len(c) : Mapped(F, c)[i] = F[c[i]]
  <2> TAKE c \in Seq(S)
  <2>1. \A i \in 1 .. Len(c) : F[c[i]] \in R
    OBVIOUS
  <2> QED BY <2>1 DEF Mapped
<1>2. a \o b \in Seq(S) /\ Len(a \o b) = Len(a) + Len(b)
  BY ConcatSeq
<1>3. Mapped(F, a) \o Mapped(F, b) \in Seq(R)
         /\ Len(Mapped(F, a) \o Mapped(F, b)) = Len(a) + Len(b)
  <2>1. Mapped(F, a) \in Seq(R) /\ Mapped(F, b) \in Seq(R)
           /\ Len(Mapped(F, a)) = Len(a) /\ Len(Mapped(F, b)) = Len(b)
    BY <1>1
  <2>2. /\ Mapped(F, a) \o Mapped(F, b) \in Seq(R)
        /\ Len(Mapped(F, a) \o Mapped(F, b)) = Len(Mapped(F, a)) + Len(Mapped(F, b))
    BY Zenon, <2>1, ConcatSeq
  <2> QED BY <2>1, <2>2
<1>4. \A i \in 1 .. Len(a) + Len(b) : Mapped(F, a \o b)[i] = (Mapped(F, a) \o Mapped(F, b))[i]
  <2> TAKE i \in 1 .. Len(a) + Len(b)
  <2>1. Mapped(F, a \o b)[i] = F[(a \o b)[i]]
    BY <1>1, <1>2
  <2>2. CASE i <= Len(a)
    <3>1. i \in 1 .. Len(a)
      BY <2>2
    <3>2. (a \o b)[i] = a[i] /\ (Mapped(F, a) \o Mapped(F, b))[i] = Mapped(F, a)[i]
      BY <1>1, <3>1
    <3> QED BY <1>1, <2>1, <3>1, <3>2
  <2>3. CASE ~(i <= Len(a))
    <3> DEFINE j == i - Len(a)
    <3>1. j \in 1 .. Len(b) /\ i = Len(a) + j
      BY <2>3
    <3>2. (a \o b)[i] = b[j]
      BY <3>1, ConcatSeq
    <3>3. (Mapped(F, a) \o Mapped(F, b))[i] = Mapped(F, b)[j]
      BY <1>1, <3>1, ConcatSeq
    <3> QED BY <1>1, <2>1, <3>1, <3>2, <3>3
  <2> QED BY <2>2, <2>3
<1>5. Mapped(F, a \o b) \in Seq(R) /\ Len(Mapped(F, a \o b)) = Len(a) + Len(b)
  BY <1>1, <1>2
<1>6. Mapped(F, a) \in Seq(R) /\ Mapped(F, b) \in Seq(R)
  BY Zenon, <1>1
<1>7. Mapped(F, a \o b) = Mapped(F, a) \o Mapped(F, b)
  BY <1>3, <1>4, <1>5
<1> QED BY Zenon, <1>6, <1>7

\* A function whose values are sequences.
Gives(F, S, T) == F \in [S -> Seq(T)]

\* The type of a flat map, and its values for a concatenation, for nothing, for one
\* element.
LEMMA FlatMapType ==
    ASSUME NEW S, NEW T, NEW F, Gives(F, S, T), NEW a \in Seq(S)
    PROVE  FlatMap(F, a) \in Seq(T)
<1>1. Mapped(F, a) \in Seq(Seq(T))
  <2> DEFINE R == Seq(T)
  <2>1. F \in [S -> R]
    BY DEF Gives
  <2> HIDE DEF R
  <2>2. Mapped(F, a) \in Seq(R)
    <3>1. MapsJoin(F, S, R)
      BY Zenon, <2>1, MappedJoins
    <3> QED BY Zenon, <3>1 DEF MapsJoin
  <2> QED BY <2>2 DEF R
<1> QED BY <1>1, FlattenType DEF FlatMap

\* A flat map of a concatenation is the concatenation of the flat maps.
Joins(F, S) == \A a \in Seq(S) : \A b \in Seq(S) : FlatMap(F, a \o b) = FlatMap(F, a) \o FlatMap(F, b)

LEMMA FlatMapJoins ==
    ASSUME NEW S, NEW T, NEW F, Gives(F, S, T)
    PROVE  Joins(F, S)
<1> SUFFICES ASSUME NEW a \in Seq(S), NEW b \in Seq(S)
             PROVE  FlatMap(F, a \o b) = FlatMap(F, a) \o FlatMap(F, b)
  BY Zenon DEF Joins
<1> DEFINE R == Seq(T)
<1>1. F \in [S -> R]
  BY DEF Gives
<1>2. /\ Mapped(F, a) \in Seq(R) /\ Mapped(F, b) \in Seq(R)
      /\ Mapped(F, a \o b) = Mapped(F, a) \o Mapped(F, b)
  <2> HIDE DEF R
  <2>1. MapsJoin(F, S, R)
    BY Zenon, <1>1, MappedJoins
  <2> QED BY Zenon, <2>1 DEF MapsJoin
<1>3. FlattenSeq(Mapped(F, a) \o Mapped(F, b)) = FlattenSeq(Mapped(F, a)) \o FlattenSeq(Mapped(F, b))
  BY Zenon, <1>2, FlattenConcat
<1> QED BY Zenon, <1>2, <1>3 DEF FlatMap

LEMMA FlatMapNone == ASSUME NEW F PROVE FlatMap(F, <<>>) = <<>>
<1>1. Mapped(F, <<>>) = <<>>
  BY DEF Mapped
<1> QED BY Zenon, <1>1, FlattenNone DEF FlatMap

LEMMA FlatMapOne ==
    ASSUME NEW S, NEW T, NEW F, Gives(F, S, T), NEW x \in S
    PROVE  FlatMap(F, <<x>>) = F[x]
<1>1. Mapped(F, <<x>>) = Append(<<>>, F[x])
  BY DEF Mapped
<1>2. <<>> \in Seq(Seq(T)) /\ F[x] \in Seq(T)
  BY DEF Gives
<1>3. FlattenSeq(Append(<<>>, F[x])) = FlattenSeq(<<>>) \o F[x]
  BY <1>2, FlattenAppend
<1>4. <<>> \o F[x] = F[x]
  BY <1>2
<1> QED BY Zenon, <1>1, <1>3, <1>4, FlattenNone DEF FlatMap

\* A flat map of a sequence and one element more.
Adds(F, S) == \A a \in Seq(S) : \A x \in S : FlatMap(F, Append(a, x)) = FlatMap(F, a) \o F[x]

LEMMA FlatMapAdds ==
    ASSUME NEW S, NEW T, NEW F, Gives(F, S, T)
    PROVE  Adds(F, S)
<1> SUFFICES ASSUME NEW a \in Seq(S), NEW x \in S
             PROVE  FlatMap(F, Append(a, x)) = FlatMap(F, a) \o F[x]
  BY Zenon DEF Adds
<1>1. Append(a, x) = a \o <<x>> /\ <<x>> \in Seq(S)
  OBVIOUS
<1>2. FlatMap(F, a \o <<x>>) = FlatMap(F, a) \o FlatMap(F, <<x>>)
  <2>1. Joins(F, S)
    BY Zenon, FlatMapJoins
  <2> QED BY Zenon, <1>1, <2>1 DEF Joins
<1>3. FlatMap(F, <<x>>) = F[x]
  BY FlatMapOne
<1> QED BY Zenon, <1>1, <1>2, <1>3

(***************************************************************************)
(* The texts of the search as flat maps.                                   *)
(***************************************************************************)
\* A character as JSON writes it; a block, a line and a file as bytes.
Char == [c \in Alphabet |-> IF c = "quote" THEN <<"escape", "quote">> ELSE <<c>>]

LEMMA OneSeq == ASSUME NEW T, NEW x \in T PROVE <<x>> \in Seq(T)
OBVIOUS

LEMMA InAlphabet ==
    \A x \in {"comma", "newline", "space", "quote", "escape"} : x \in Alphabet /\ <<x>> \in Seq(Alphabet)
<1>1. \A x \in {"comma", "newline", "space", "quote", "escape"} : x \in Alphabet
  BY SearchAssumption
<1> QED BY Zenon, <1>1, OneSeq

LEMMA CharType == Gives(Char, Alphabet, Alphabet)
<1>1. <<"escape", "quote">> \in Seq(Alphabet)
  <2>1. <<"escape">> \o <<"quote">> \in Seq(Alphabet)
    BY InAlphabet, ConcatSeq
  <2> QED BY <2>1
<1>2. \A c \in Alphabet : <<c>> \in Seq(Alphabet)
  BY OneSeq
<1> QED BY <1>1, <1>2 DEF Char, Gives

LEMMA EscapedIs == ASSUME NEW t \in Seq(Alphabet) PROVE Escaped(t) = FlatMap(Char, t)
<1>1. \A i \in DOMAIN t : Char[t[i]] = IF t[i] = "quote" THEN <<"escape", "quote">> ELSE <<t[i]>>
  BY DEF Char
<1> DEFINE E(i) == IF t[i] = "quote" THEN <<"escape", "quote">> ELSE <<t[i]>>
           C(i) == Char[t[i]]
<1>2. [i \in DOMAIN t |-> E(i)] = [i \in DOMAIN t |-> C(i)]
  <2>1. \A i \in DOMAIN t : E(i) = C(i)
    BY <1>1
  <2> HIDE DEF E, C
  <2> QED BY <2>1
<1> QED BY <1>2, Zenon DEF Escaped, FlatMap, Mapped

Block == [b \in Seq(Alphabet) |-> Escaped(b) \o <<"comma">>]

LEMMA BlockType == Gives(Block, Seq(Alphabet), Alphabet)
<1>1. \A b \in Seq(Alphabet) : Escaped(b) \in Seq(Alphabet)
  <2> TAKE b \in Seq(Alphabet)
  <2>1. FlatMap(Char, b) \in Seq(Alphabet)
    BY CharType, FlatMapType
  <2> QED BY <2>1, EscapedIs
<1>2. \A b \in Seq(Alphabet) : Escaped(b) \o <<"comma">> \in Seq(Alphabet)
  <2> TAKE b \in Seq(Alphabet)
  <2> DEFINE e == Escaped(b)
             c == <<"comma">>
  <2>1. e \in Seq(Alphabet) /\ c \in Seq(Alphabet)
    BY Zenon, <1>1, InAlphabet
  <2> HIDE DEF e, c
  <2>2. e \o c \in Seq(Alphabet)
    BY <2>1, ConcatSeq
  <2> QED BY Zenon, <2>2 DEF e, c
<1> QED BY <1>2 DEF Block, Gives

LEMMA RawIs == ASSUME NEW l \in TranscriptLine PROVE Raw(l) = FlatMap(Block, l.blocks)
<1> DEFINE bs == l.blocks
           E(i) == Escaped(bs[i]) \o <<"comma">>
           C(i) == Block[bs[i]]
<1>1. bs \in Seq(Seq(Alphabet))
  BY DEF TranscriptLine
<1>2. \A i \in DOMAIN bs : bs[i] \in Seq(Alphabet)
  <2> HIDE DEF bs
  <2> QED BY <1>1
<1>3. \A i \in DOMAIN bs : E(i) = C(i)
  <2> HIDE DEF bs
  <2> QED BY <1>2 DEF Block
<1>4. [i \in DOMAIN bs |-> E(i)] = [i \in DOMAIN bs |-> C(i)]
  <2> HIDE DEF E, C, bs
  <2> QED BY <1>3
<1> QED BY <1>4, Zenon DEF Raw, FlatMap, Mapped

Stretch == [l \in TranscriptLine |-> IF l.half THEN Raw(l) ELSE Raw(l) \o <<"newline">>]

LEMMA StretchType == Gives(Stretch, TranscriptLine, Alphabet)
<1>1. \A l \in TranscriptLine : Raw(l) \in Seq(Alphabet)
  <2> TAKE l \in TranscriptLine
  <2>1. l.blocks \in Seq(Seq(Alphabet))
    BY DEF TranscriptLine
  <2>2. FlatMap(Block, l.blocks) \in Seq(Alphabet)
    BY <2>1, BlockType, FlatMapType
  <2> QED BY <2>2, RawIs
<1>2. \A l \in TranscriptLine : Raw(l) \o <<"newline">> \in Seq(Alphabet)
  BY <1>1, ConcatSeq, InAlphabet
<1> QED BY <1>1, <1>2 DEF Stretch, Gives

LEMMA BytesIs == ASSUME NEW ls \in Seq(TranscriptLine) PROVE Bytes(ls) = FlatMap(Stretch, ls)
<1> DEFINE E(i) == IF ls[i].half THEN Raw(ls[i]) ELSE Raw(ls[i]) \o <<"newline">>
           C(i) == Stretch[ls[i]]
<1>1. \A i \in DOMAIN ls : ls[i] \in TranscriptLine
  OBVIOUS
<1>2. \A i \in DOMAIN ls : E(i) = C(i)
  BY <1>1 DEF Stretch
<1>3. [i \in DOMAIN ls |-> E(i)] = [i \in DOMAIN ls |-> C(i)]
  <2> HIDE DEF E, C
  <2> QED BY <1>2
<1> QED BY <1>3, Zenon DEF Bytes, FlatMap, Mapped

\* What a line, a file and a session show.
Shown(s) == [l \in TranscriptLine |-> EntriesOf(s, l)]

LEMMA BlocksOf ==
    ASSUME NEW l \in TranscriptLine
    PROVE  /\ Blocks(l) \in Seq(Seq(Alphabet))
           /\ Len(Blocks(l)) = Len(l.blocks)
           /\ \A i \in 1 .. Len(l.blocks) : Blocks(l)[i] = Text(l.kind, l.blocks[i])
<1>1. l.blocks \in Seq(Seq(Alphabet))
  BY DEF TranscriptLine
<1>2. \A i \in 1 .. Len(l.blocks) : l.blocks[i] \in Seq(Alphabet)
  BY <1>1
<1>3. \A i \in 1 .. Len(l.blocks) : l.blocks[i] \o <<"space">> \in Seq(Alphabet)
  BY <1>2, ConcatSeq, InAlphabet
<1>4. \A i \in 1 .. Len(l.blocks) : Text(l.kind, l.blocks[i]) \in Seq(Alphabet)
  BY <1>2, <1>3 DEF Text
<1>5. DOMAIN l.blocks = 1 .. Len(l.blocks) /\ Len(l.blocks) \in Nat
  BY <1>1
<1> QED BY <1>4, <1>5 DEF Blocks

LEMMA ShownType == ASSUME NEW s PROVE Gives(Shown(s), TranscriptLine, Seq(Alphabet))
<1>1. \A l \in TranscriptLine : EntriesOf(s, l) \in Seq(Seq(Alphabet))
  <2> TAKE l \in TranscriptLine
  <2>1. Blocks(l) \in Seq(Seq(Alphabet)) /\ <<>> \in Seq(Seq(Alphabet))
    BY BlocksOf
  <2> QED BY <2>1 DEF EntriesOf
<1> QED BY <1>1 DEF Shown, Gives

LEMMA EntriesInIs ==
    ASSUME NEW s, NEW ls \in Seq(TranscriptLine)
    PROVE  EntriesIn(s, ls) = FlatMap(Shown(s), ls)
<1> DEFINE E(i) == EntriesOf(s, ls[i])
           C(i) == Shown(s)[ls[i]]
<1>1. \A i \in DOMAIN ls : ls[i] \in TranscriptLine
  OBVIOUS
<1>2. \A i \in DOMAIN ls : E(i) = C(i)
  BY <1>1 DEF Shown
<1>3. [i \in DOMAIN ls |-> E(i)] = [i \in DOMAIN ls |-> C(i)]
  <2> HIDE DEF E, C
  <2> QED BY <1>2
<1> QED BY <1>3, Zenon DEF EntriesIn, FlatMap, Mapped

Filed(s) == [ls \in Seq(TranscriptLine) |-> EntriesIn(s, ls)]

LEMMA FiledType == ASSUME NEW s PROVE Gives(Filed(s), Seq(TranscriptLine), Seq(Alphabet))
<1>1. \A ls \in Seq(TranscriptLine) : EntriesIn(s, ls) \in Seq(Seq(Alphabet))
  BY EntriesInIs, ShownType, FlatMapType
<1> QED BY <1>1 DEF Filed, Gives

LEMMA EntriesIs ==
    ASSUME NEW s, NEW fs \in Seq(Seq(TranscriptLine))
    PROVE  Entries(s, fs) = FlatMap(Filed(s), fs)
<1> DEFINE E(i) == EntriesIn(s, fs[i])
           C(i) == Filed(s)[fs[i]]
<1>1. \A i \in DOMAIN fs : fs[i] \in Seq(TranscriptLine)
  OBVIOUS
<1>2. \A i \in DOMAIN fs : E(i) = C(i)
  BY <1>1 DEF Filed
<1>3. [i \in DOMAIN fs |-> E(i)] = [i \in DOMAIN fs |-> C(i)]
  <2> HIDE DEF E, C
  <2> QED BY <1>2
<1> QED BY <1>3, Zenon DEF Entries, FlatMap, Mapped

(***************************************************************************)
(* A text that occurs in a text.                                           *)
(***************************************************************************)
\* The text occurs after the i-th character.
At(q, t, i) == \A j \in 1 .. Len(q) : t[i + j] = q[j]

\* A stretch of a text, from the character after the a-th to the b-th.
LEMMA StretchOf ==
    ASSUME NEW T, NEW t \in Seq(T), NEW a \in Nat, NEW b \in a .. Len(t)
    PROVE  /\ SubSeq(t, a + 1, b) \in Seq(T) /\ Len(SubSeq(t, a + 1, b)) = b - a
           /\ \A j \in 1 .. b - a : SubSeq(t, a + 1, b)[j] = t[a + j]
<1>1. CASE a < b
  <2>1. Len(SubSeq(t, a + 1, b)) = b - a
    BY <1>1
  <2>2. \A j \in 1 .. b - a : SubSeq(t, a + 1, b)[j] = t[a + j]
    BY <1>1
  <2> QED BY <1>1, <2>1, <2>2
<1>2. CASE a = b
  BY <1>2
<1> QED BY <1>1, <1>2

\* What the elements of two sequences, one after the other, are.
Joint(u, a, b) ==
    /\ Len(u) = Len(a) + Len(b)
    /\ \A i \in 1 .. Len(a) : u[i] = a[i]
    /\ \A i \in 1 .. Len(b) : u[Len(a) + i] = b[i]

LEMMA ConcatJoint ==
    ASSUME NEW T, NEW a \in Seq(T), NEW b \in Seq(T)
    PROVE  a \o b \in Seq(T) /\ Joint(a \o b, a, b)
BY ConcatSeq DEF Joint

\* Two sequences are one when their elements are.
LEMMA SameSeq ==
    ASSUME NEW T, NEW s \in Seq(T), NEW t \in Seq(T), Len(s) = Len(t),
           \A j \in 1 .. Len(s) : s[j] = t[j]
    PROVE  s = t
OBVIOUS

\* What occurs in a stretch of a text, or at a place of it, occurs in the text.
LEMMA OccursSub ==
    ASSUME NEW T, NEW q \in Seq(T), NEW t \in Seq(T), NEW a \in Nat, NEW b \in a .. Len(t)
    PROVE  Occurs(q, SubSeq(t, a + 1, b)) <=> \E i \in a .. b - Len(q) : At(q, t, i)
<1> DEFINE u == SubSeq(t, a + 1, b)
<1>1. u \in Seq(T) /\ Len(u) = b - a /\ \A j \in 1 .. b - a : u[j] = t[a + j]
  BY StretchOf
<1>2. Len(q) \in Nat /\ Len(t) \in Nat
  OBVIOUS
<1> HIDE DEF u
<1>3. ASSUME NEW i \in 0 .. Len(u) - Len(q)
      PROVE  SubSeq(u, i + 1, i + Len(q)) = q <=> At(q, t, a + i)
  <2> DEFINE w == SubSeq(u, i + 1, i + Len(q))
  <2>1. i \in Nat /\ i + Len(q) \in i .. Len(u) /\ i + Len(q) - i = Len(q)
    BY <1>1, <1>2
  <2>2. w \in Seq(T) /\ Len(w) = Len(q) /\ \A j \in 1 .. Len(q) : w[j] = u[i + j]
    BY <1>1, <2>1, StretchOf
  <2>3. \A j \in 1 .. Len(q) : u[i + j] = t[a + i + j]
    <3> TAKE j \in 1 .. Len(q)
    <3>1. i + j \in 1 .. b - a /\ a + (i + j) = a + i + j
      BY <1>1, <1>2
    <3> QED BY <1>1, <3>1
  <2> HIDE DEF w
  <2>4. w = q <=> \A j \in 1 .. Len(q) : w[j] = q[j]
    BY <2>2, SameSeq
  <2>5. (\A j \in 1 .. Len(q) : w[j] = q[j]) <=> At(q, t, a + i)
    BY <2>2, <2>3 DEF At
  <2> QED BY <2>4, <2>5 DEF w
<1>4. ASSUME Occurs(q, u) PROVE \E i \in a .. b - Len(q) : At(q, t, i)
  <2>1. PICK i \in 0 .. Len(u) - Len(q) : SubSeq(u, i + 1, i + Len(q)) = q
    BY <1>4 DEF Occurs
  <2>2. At(q, t, a + i)
    BY <1>3, <2>1
  <2>3. a + i \in a .. b - Len(q)
    BY <1>1, <1>2
  <2> QED BY <2>2, <2>3
<1>5. ASSUME NEW i \in a .. b - Len(q), At(q, t, i) PROVE Occurs(q, u)
  <2>1. i - a \in 0 .. Len(u) - Len(q) /\ a + (i - a) = i
    BY <1>1, <1>2
  <2>2. SubSeq(u, (i - a) + 1, (i - a) + Len(q)) = q
    BY <1>3, <1>5, <2>1
  <2> QED BY <2>1, <2>2 DEF Occurs
<1> QED BY <1>4, <1>5 DEF u

LEMMA OccursAt ==
    ASSUME NEW T, NEW q \in Seq(T), NEW t \in Seq(T)
    PROVE  Occurs(q, t) <=> \E i \in 0 .. Len(t) - Len(q) : At(q, t, i)
<1>1. SubSeq(t, 0 + 1, Len(t)) = t /\ Len(t) \in 0 .. Len(t) /\ 0 \in Nat
  <2>1. SubSeq(t, 1, Len(t)) = t
    OBVIOUS
  <2> QED BY <2>1
<1>2. Occurs(q, SubSeq(t, 0 + 1, Len(t))) <=> \E i \in 0 .. Len(t) - Len(q) : At(q, t, i)
  BY <1>1, OccursSub
<1> QED BY <1>1, <1>2

LEMMA OccursWider ==
    ASSUME NEW T, NEW q \in Seq(T), NEW a \in Seq(T), NEW b \in Seq(T), NEW c \in Seq(T),
           Occurs(q, b)
    PROVE  Occurs(q, (a \o b) \o c)
<1> DEFINE t == (a \o b) \o c
<1>1. PICK i \in 0 .. Len(b) - Len(q) : At(q, b, i)
  BY OccursAt
<1>2. t \in Seq(T) /\ Len(t) = Len(a) + Len(b) + Len(c)
  OBVIOUS
<1>3. \A j \in 1 .. Len(b) : t[Len(a) + j] = b[j]
  OBVIOUS
<1>4. Len(a) \in Nat /\ Len(b) \in Nat /\ Len(c) \in Nat /\ Len(q) \in Nat
  OBVIOUS
<1> HIDE DEF t
<1>5. At(q, t, Len(a) + i)
  <2> SUFFICES ASSUME NEW j \in 1 .. Len(q) PROVE t[Len(a) + i + j] = q[j]
    BY DEF At
  <2>1. i + j \in 1 .. Len(b) /\ Len(a) + (i + j) = Len(a) + i + j
    BY <1>4
  <2> QED BY <1>1, <1>3, <2>1 DEF At
<1>6. Len(a) + i \in 0 .. Len(t) - Len(q)
  BY <1>2, <1>4
<1>7. Occurs(q, t)
  BY <1>2, <1>5, <1>6, OccursAt
<1> QED BY <1>7 DEF t

\* A text that occurs in the first of two texts occurs in both together.
LEMMA OccursLeft ==
    ASSUME NEW T, NEW q \in Seq(T), NEW a \in Seq(T), NEW b \in Seq(T), Occurs(q, a)
    PROVE  Occurs(q, a \o b)
<1>1. <<>> \in Seq(T) /\ <<>> \o a = a
  OBVIOUS
<1> QED BY <1>1, OccursWider

\* What is before an element, the element, and what is after it.
LEMMA Apart ==
    ASSUME NEW S, NEW ls \in Seq(S), NEW i \in 1 .. Len(ls)
    PROVE  /\ SubSeq(ls, 1, i - 1) \in Seq(S) /\ SubSeq(ls, i + 1, Len(ls)) \in Seq(S)
           /\ <<ls[i]>> \in Seq(S)
           /\ ls = (SubSeq(ls, 1, i - 1) \o <<ls[i]>>) \o SubSeq(ls, i + 1, Len(ls))
<1> DEFINE a == SubSeq(ls, 1, i - 1)
           c == SubSeq(ls, i + 1, Len(ls))
<1>1. a \in Seq(S) /\ Len(a) = i - 1 /\ \A j \in 1 .. i - 1 : a[j] = ls[j]
  <2>1. 0 \in Nat /\ i - 1 \in 0 .. Len(ls)
    OBVIOUS
  <2> QED BY <2>1, StretchOf
<1>2. c \in Seq(S) /\ Len(c) = Len(ls) - i /\ \A j \in 1 .. Len(ls) - i : c[j] = ls[i + j]
  <2>1. i \in Nat /\ Len(ls) \in i .. Len(ls)
    OBVIOUS
  <2> QED BY <2>1, StretchOf
<1>3. <<ls[i]>> \in Seq(S)
  OBVIOUS
<1> HIDE DEF a, c
<1> DEFINE u == (a \o <<ls[i]>>) \o c
<1>4. u \in Seq(S) /\ Len(u) = Len(ls)
  BY <1>1, <1>2, <1>3
<1>5. \A j \in 1 .. Len(u) : u[j] = ls[j]
  <2> TAKE j \in 1 .. Len(u)
  <2>1. CASE j < i
    BY <1>1, <1>2, <1>3, <1>4, <2>1
  <2>2. CASE j = i
    BY <1>1, <1>2, <1>3, <1>4, <2>2
  <2>3. CASE j > i
    <3>1. j - i \in 1 .. Len(ls) - i /\ i + (j - i) = j
      BY <1>4, <2>3
    <3>2. u[j] = c[j - i]
      BY <1>1, <1>2, <1>3, <1>4, <2>3
    <3> QED BY <1>2, <3>1, <3>2
  <2> QED BY <2>1, <2>2, <2>3
<1>6. u = ls
  <2> HIDE DEF u
  <2> QED BY <1>4, <1>5, SameSeq
<1> QED BY <1>1, <1>2, <1>3, <1>6 DEF a, c

\* What a flat map gives for one element is a stretch of all it gives.
Apartness(F, S, T) ==
    \A a, b, c \in Seq(S) :
        /\ FlatMap(F, (a \o b) \o c) = (FlatMap(F, a) \o FlatMap(F, b)) \o FlatMap(F, c)
        /\ FlatMap(F, a) \in Seq(T) /\ FlatMap(F, b) \in Seq(T) /\ FlatMap(F, c) \in Seq(T)

LEMMA FlatMapApart ==
    ASSUME NEW S, NEW T, NEW F, Gives(F, S, T)
    PROVE  Apartness(F, S, T)
<1> SUFFICES ASSUME NEW a \in Seq(S), NEW b \in Seq(S), NEW c \in Seq(S)
             PROVE  /\ FlatMap(F, (a \o b) \o c) = (FlatMap(F, a) \o FlatMap(F, b)) \o FlatMap(F, c)
                    /\ FlatMap(F, a) \in Seq(T) /\ FlatMap(F, b) \in Seq(T) /\ FlatMap(F, c) \in Seq(T)
  BY Zenon DEF Apartness
<1>1. a \o b \in Seq(S)
  BY Zenon, ConcatSeq
<1>2. FlatMap(F, (a \o b) \o c) = FlatMap(F, a \o b) \o FlatMap(F, c)
  <2>1. Joins(F, S)
    BY Zenon, FlatMapJoins
  <2> QED BY Zenon, <1>1, <2>1 DEF Joins
<1>3. FlatMap(F, a \o b) = FlatMap(F, a) \o FlatMap(F, b)
  <2>1. Joins(F, S)
    BY Zenon, FlatMapJoins
  <2> QED BY Zenon, <2>1 DEF Joins
<1>4. \A x \in Seq(S) : FlatMap(F, x) \in Seq(T)
  BY Zenon, FlatMapType
<1> QED BY <1>2, <1>3, <1>4

\* So what occurs there occurs in the whole.
LEMMA OccursInFlat ==
    ASSUME NEW S, NEW T, NEW F, Gives(F, S, T), NEW ls \in Seq(S), NEW i \in 1 .. Len(ls),
           NEW q \in Seq(T), Occurs(q, F[ls[i]])
    PROVE  Occurs(q, FlatMap(F, ls))
<1> DEFINE a == SubSeq(ls, 1, i - 1)
           c == SubSeq(ls, i + 1, Len(ls))
<1>1. a \in Seq(S) /\ c \in Seq(S) /\ <<ls[i]>> \in Seq(S) /\ ls = (a \o <<ls[i]>>) \o c
  BY Zenon, Apart
<1> HIDE DEF a, c
<1>2. /\ FlatMap(F, (a \o <<ls[i]>>) \o c) = (FlatMap(F, a) \o FlatMap(F, <<ls[i]>>)) \o FlatMap(F, c)
      /\ FlatMap(F, a) \in Seq(T) /\ FlatMap(F, <<ls[i]>>) \in Seq(T) /\ FlatMap(F, c) \in Seq(T)
  <2>1. Apartness(F, S, T)
    BY Zenon, FlatMapApart
  <2> QED BY Zenon, <1>1, <2>1 DEF Apartness
<1>3. ls[i] \in S
  OBVIOUS
<1>4. FlatMap(F, <<ls[i]>>) = F[ls[i]]
  BY <1>3, FlatMapOne
<1>5. Occurs(q, (FlatMap(F, a) \o FlatMap(F, <<ls[i]>>)) \o FlatMap(F, c))
  BY Zenon, <1>2, <1>4, OccursWider
<1> QED BY Zenon, <1>1, <1>2, <1>5

\* A text without quotes is the same in JSON.
LEMMA PlainEscaped ==
    ASSUME NEW q \in Seq(Alphabet), \A i \in DOMAIN q : q[i] # "quote"
    PROVE  FlatMap(Char, q) = q
<1> DEFINE NoQuote(r) == \A i \in DOMAIN r : r[i] # "quote"
           G == {r \in Seq(Alphabet) : NoQuote(r) => FlatMap(Char, r) = r}
<1>1. <<>> \in G
  BY FlatMapNone, <<>> \in Seq(Alphabet)
<1>2. \A r \in Seq(Alphabet), x \in Alphabet : r \in G => Append(r, x) \in G
  <2> TAKE r \in Seq(Alphabet), x \in Alphabet
  <2> HAVE r \in G
  <2>1. Append(r, x) \in Seq(Alphabet)
    OBVIOUS
  <2>2. ASSUME NoQuote(Append(r, x)) PROVE FlatMap(Char, Append(r, x)) = Append(r, x)
    <3>1. \A i \in DOMAIN r : i \in DOMAIN Append(r, x) /\ Append(r, x)[i] = r[i]
      OBVIOUS
    <3>2. Len(r) + 1 \in DOMAIN Append(r, x) /\ Append(r, x)[Len(r) + 1] = x
      OBVIOUS
    <3>3. NoQuote(r) /\ x # "quote"
      BY <2>2, <3>1, <3>2
    <3>4. FlatMap(Char, r) = r /\ Char[x] = <<x>>
      BY <3>3 DEF Char
    <3>5. FlatMap(Char, Append(r, x)) = FlatMap(Char, r) \o Char[x]
      <4>1. Adds(Char, Alphabet)
        BY Zenon, CharType, FlatMapAdds
      <4> QED BY Zenon, <4>1 DEF Adds
    <3>6. r \o <<x>> = Append(r, x)
      OBVIOUS
    <3> QED BY Zenon, <3>4, <3>5, <3>6
  <2> QED BY <2>1, <2>2
<1>3. q \in G
  <2> HIDE DEF G
  <2> QED BY Zenon, <1>1, <1>2, SeqInduct
<1> QED BY <1>3

\* So the raw bytes hold what the text holds.
LEMMA EscapedKeeps ==
    ASSUME NEW q \in Seq(Alphabet), \A i \in DOMAIN q : q[i] # "quote",
           NEW t \in Seq(Alphabet), Occurs(q, t)
    PROVE  Occurs(q, Escaped(t))
<1>1. PICK i \in 0 .. Len(t) - Len(q) : At(q, t, i)
  BY OccursAt
<1> DEFINE a == SubSeq(t, 1, i)
           c == SubSeq(t, i + Len(q) + 1, Len(t))
           u == (a \o q) \o c
<1>2. Len(q) \in Nat /\ Len(t) \in Nat /\ i \in 0 .. Len(t) /\ 0 \in Nat
         /\ i + Len(q) \in Nat /\ Len(t) \in i + Len(q) .. Len(t)
  OBVIOUS
<1>3. a \in Seq(Alphabet) /\ Len(a) = i /\ \A j \in 1 .. i : a[j] = t[j]
  <2>1. /\ SubSeq(t, 0 + 1, i) \in Seq(Alphabet) /\ Len(SubSeq(t, 0 + 1, i)) = i - 0
        /\ \A j \in 1 .. i - 0 : SubSeq(t, 0 + 1, i)[j] = t[0 + j]
    BY <1>2, StretchOf
  <2> QED BY <1>2, <2>1
<1>4. /\ c \in Seq(Alphabet) /\ Len(c) = Len(t) - (i + Len(q))
      /\ \A j \in 1 .. Len(t) - (i + Len(q)) : c[j] = t[i + Len(q) + j]
  BY <1>2, StretchOf
<1> HIDE DEF a, c
<1>5. u \in Seq(Alphabet) /\ Len(u) = Len(t)
  <2>1. a \o q \in Seq(Alphabet) /\ Len(a \o q) = i + Len(q)
    BY <1>3, ConcatSeq
  <2>2. u \in Seq(Alphabet) /\ Len(u) = Len(a \o q) + Len(c)
    BY <1>4, <2>1, ConcatSeq
  <2> QED BY <1>2, <1>4, <2>1, <2>2
<1>6. \A j \in 1 .. Len(u) : u[j] = t[j]
  <2> TAKE j \in 1 .. Len(u)
  <2>1. CASE j <= i
    BY <1>2, <1>3, <1>4, <1>5, <2>1
  <2>2. CASE i < j /\ j <= i + Len(q)
    <3>1. j - i \in 1 .. Len(q) /\ i + (j - i) = j
      BY <1>2, <1>5, <2>2
    <3>2. u[j] = q[j - i]
      BY <1>2, <1>3, <1>4, <1>5, <2>2
    <3> QED BY <1>1, <3>1, <3>2 DEF At
  <2>3. CASE i + Len(q) < j
    <3>1. j - (i + Len(q)) \in 1 .. Len(t) - (i + Len(q)) /\ i + Len(q) + (j - (i + Len(q))) = j
      BY <1>2, <1>5, <2>3
    <3>2. u[j] = c[j - (i + Len(q))]
      BY <1>2, <1>3, <1>4, <1>5, <2>3
    <3> QED BY <1>4, <3>1, <3>2
  <2> QED BY <1>2, <2>1, <2>2, <2>3
<1>7. u = t
  <2> HIDE DEF u
  <2> QED BY <1>5, <1>6, SameSeq
<1>8. /\ FlatMap(Char, (a \o q) \o c) = (FlatMap(Char, a) \o FlatMap(Char, q)) \o FlatMap(Char, c)
      /\ FlatMap(Char, a) \in Seq(Alphabet) /\ FlatMap(Char, c) \in Seq(Alphabet)
  <2>1. Apartness(Char, Alphabet, Alphabet)
    BY Zenon, CharType, FlatMapApart
  <2> QED BY Zenon, <1>3, <1>4, <2>1 DEF Apartness
<1>9. FlatMap(Char, q) = q
  BY Zenon, PlainEscaped
<1>10. Occurs(q, q)
  BY OccursAt DEF At
<1>11. Occurs(q, (FlatMap(Char, a) \o q) \o FlatMap(Char, c))
  BY Zenon, <1>8, <1>10, OccursWider
<1> QED BY Zenon, <1>7, <1>8, <1>9, <1>11, EscapedIs

(***************************************************************************)
(* Stretches of a text, and the read buffer.                               *)
(***************************************************************************)
\* A stretch of a stretch.
LEMMA StretchOfStretch ==
    ASSUME NEW T, NEW t \in Seq(T), NEW a \in Nat, NEW b \in a .. Len(t), NEW c \in a .. b
    PROVE  SubSeq(SubSeq(t, a + 1, b), c - a + 1, b - a) = SubSeq(t, c + 1, b)
<1> DEFINE u == SubSeq(t, a + 1, b)
           v == SubSeq(u, (c - a) + 1, b - a)
           w == SubSeq(t, c + 1, b)
<1>1. u \in Seq(T) /\ Len(u) = b - a /\ \A j \in 1 .. b - a : u[j] = t[a + j]
  BY StretchOf
<1>2. c \in Nat /\ b \in c .. Len(t) /\ c - a \in Nat /\ b - a \in c - a .. b - a /\ (b - a) - (c - a) = b - c
         /\ b - c \in Nat
  OBVIOUS
<1>3. w \in Seq(T) /\ Len(w) = b - c /\ \A j \in 1 .. b - c : w[j] = t[c + j]
  BY <1>2, StretchOf
<1>4. v \in Seq(T) /\ Len(v) = b - c /\ \A j \in 1 .. b - c : v[j] = u[(c - a) + j]
  <2>1. /\ v \in Seq(T) /\ Len(v) = (b - a) - (c - a)
        /\ \A j \in 1 .. (b - a) - (c - a) : v[j] = u[(c - a) + j]
    <3> HIDE DEF u
    <3> QED BY <1>1, <1>2, StretchOf
  <2> HIDE DEF u, v
  <2> QED BY <1>2, <2>1
<1>5. \A j \in 1 .. b - c : v[j] = w[j]
  <2> TAKE j \in 1 .. b - c
  <2>1. (c - a) + j \in 1 .. b - a /\ a + ((c - a) + j) = c + j
    BY <1>2
  <2> HIDE DEF u, v, w
  <2> QED BY <1>1, <1>3, <1>4, <2>1
<1>6. v = w
  <2> HIDE DEF u, v, w
  <2> QED BY <1>3, <1>4, <1>5, SameSeq
<1> QED BY <1>6

\* Two stretches, one after the other.
LEMMA StretchJoin ==
    ASSUME NEW T, NEW t \in Seq(T), NEW a \in Nat, NEW b \in a .. Len(t), NEW c \in b .. Len(t)
    PROVE  SubSeq(t, a + 1, b) \o SubSeq(t, b + 1, c) = SubSeq(t, a + 1, c)
<1> DEFINE u == SubSeq(t, a + 1, b)
           v == SubSeq(t, b + 1, c)
           w == SubSeq(t, a + 1, c)
<1>1. u \in Seq(T) /\ Len(u) = b - a /\ \A j \in 1 .. b - a : u[j] = t[a + j]
  BY StretchOf
<1>2. b \in Nat /\ c \in a .. Len(t)
  OBVIOUS
<1>3. v \in Seq(T) /\ Len(v) = c - b /\ \A j \in 1 .. c - b : v[j] = t[b + j]
  BY <1>2, StretchOf
<1>4. w \in Seq(T) /\ Len(w) = c - a /\ \A j \in 1 .. c - a : w[j] = t[a + j]
  BY <1>2, StretchOf
<1> HIDE DEF u, v, w
<1>5. /\ u \o v \in Seq(T) /\ Len(u \o v) = Len(u) + Len(v)
      /\ \A i \in 1 .. Len(u) : (u \o v)[i] = u[i]
      /\ \A i \in 1 .. Len(v) : (u \o v)[Len(u) + i] = v[i]
  <2>1. u \in Seq(T) /\ v \in Seq(T)
    BY <1>1, <1>3
  <2>2. u \o v \in Seq(T) /\ Joint(u \o v, u, v)
    BY Zenon, <2>1, ConcatJoint
  <2> QED BY <2>2 DEF Joint
<1>6. \A j \in 1 .. c - a : (u \o v)[j] = w[j]
  <2> TAKE j \in 1 .. c - a
  <2>1. CASE j <= b - a
    <3>1. j \in 1 .. Len(u) /\ j \in 1 .. b - a
      BY <1>1, <2>1
    <3> QED BY <1>1, <1>4, <1>5, <3>1
  <2>2. CASE ~(j <= b - a)
    <3> DEFINE k == j - (b - a)
    <3>1. k \in 1 .. c - b /\ Len(u) + k = j /\ b + k = a + j
      BY <1>1, <1>2, <2>2
    <3>2. (u \o v)[j] = v[k]
      BY <1>3, <1>5, <3>1
    <3> QED BY <1>3, <1>4, <3>1, <3>2
  <2> QED BY <2>1, <2>2
<1>7. u \o v = w
  <2>1. Len(u \o v) = Len(w)
    BY <1>1, <1>2, <1>3, <1>4, <1>5
  <2> QED BY <1>4, <1>5, <1>6, <2>1, SameSeq
<1> QED BY <1>7 DEF u, v, w

\* What a file had before it grew is there still.
LEMMA StretchKept ==
    ASSUME NEW T, NEW t \in Seq(T), NEW u \in Seq(T), NEW a \in Nat, NEW b \in a .. Len(t)
    PROVE  SubSeq(t \o u, a + 1, b) = SubSeq(t, a + 1, b)
<1>1. t \o u \in Seq(T) /\ b \in a .. Len(t \o u) /\ \A i \in 1 .. Len(t) : (t \o u)[i] = t[i]
  BY ConcatSeq
<1>2. /\ SubSeq(t \o u, a + 1, b) \in Seq(T) /\ Len(SubSeq(t \o u, a + 1, b)) = b - a
      /\ \A j \in 1 .. b - a : SubSeq(t \o u, a + 1, b)[j] = (t \o u)[a + j]
  BY <1>1, StretchOf
<1>3. /\ SubSeq(t, a + 1, b) \in Seq(T) /\ Len(SubSeq(t, a + 1, b)) = b - a
      /\ \A j \in 1 .. b - a : SubSeq(t, a + 1, b)[j] = t[a + j]
  BY StretchOf
<1>4. \A j \in 1 .. b - a : (t \o u)[a + j] = t[a + j]
  BY <1>1
<1> QED BY <1>2, <1>3, <1>4, SameSeq

\* The buffer is the end of what was read, and all of it or enough of it.
BufferOf(q, t, r, buf) ==
    \E a \in 0 .. r : buf = SubSeq(t, a + 1, r) /\ (a = 0 \/ r - a >= Len(q) - 1)

\* A match that straddles two reads is in the buffer and what was read after it.
LEMMA ReadOn ==
    ASSUME NEW T, NEW q \in Seq(T), NEW t \in Seq(T), NEW r \in Nat, NEW n \in Nat, r + n <= Len(t),
           NEW buf, BufferOf(q, t, r, buf),
           ~Occurs(q, SubSeq(t, 1, r)), ~Occurs(q, buf \o SubSeq(t, r + 1, r + n))
    PROVE  ~Occurs(q, SubSeq(t, 1, r + n))
<1>1. PICK a \in 0 .. r : buf = SubSeq(t, a + 1, r) /\ (a = 0 \/ r - a >= Len(q) - 1)
  BY DEF BufferOf
<1>2. a \in Nat /\ r \in a .. Len(t) /\ r + n \in a .. Len(t) /\ r + n \in r .. Len(t)
         /\ Len(q) \in Nat /\ Len(t) \in Nat
  OBVIOUS
<1>3. buf \o SubSeq(t, r + 1, r + n) = SubSeq(t, a + 1, r + n)
  BY <1>1, <1>2, StretchJoin
<1>4. ~ \E i \in a .. (r + n) - Len(q) : At(q, t, i)
  BY <1>2, <1>3, OccursSub
<1>5. ~ \E i \in 0 .. r - Len(q) : At(q, t, i)
  <2>1. 0 \in Nat /\ r \in 0 .. Len(t)
    BY <1>2
  <2>2. Occurs(q, SubSeq(t, 0 + 1, r)) <=> \E i \in 0 .. r - Len(q) : At(q, t, i)
    BY <2>1, OccursSub
  <2> QED BY <2>2
<1>6. ~ \E i \in 0 .. (r + n) - Len(q) : At(q, t, i)
  <2> SUFFICES ASSUME NEW i \in 0 .. (r + n) - Len(q), At(q, t, i) PROVE FALSE
    OBVIOUS
  <2>1. i \notin a .. (r + n) - Len(q) /\ i \notin 0 .. r - Len(q)
    BY <1>4, <1>5
  <2> QED BY <1>1, <1>2, <2>1
<1> QED
  <2>1. 0 \in Nat /\ r + n \in 0 .. Len(t)
    BY <1>2
  <2>2. Occurs(q, SubSeq(t, 0 + 1, r + n)) <=> \E i \in 0 .. (r + n) - Len(q) : At(q, t, i)
    BY <2>1, OccursSub
  <2> QED BY <1>6, <2>2

\* What is carried over is enough of it again.
LEMMA CarryKeeps ==
    ASSUME NEW T, query \in Seq(T), NEW t \in Seq(T), NEW r \in Nat, NEW n \in Nat, r + n <= Len(t),
           NEW buf, BufferOf(query, t, r, buf)
    PROVE  BufferOf(query, t, r + n, Carry(buf \o SubSeq(t, r + 1, r + n)))
<1>1. PICK a \in 0 .. r : buf = SubSeq(t, a + 1, r) /\ (a = 0 \/ r - a >= Len(query) - 1)
  BY DEF BufferOf
<1>2. a \in Nat /\ r \in a .. Len(t) /\ r + n \in a .. Len(t) /\ r + n \in r .. Len(t)
         /\ Len(query) \in Nat /\ Len(t) \in Nat
  OBVIOUS
<1> DEFINE chunk == SubSeq(t, a + 1, r + n)
           k == Len(query) - 1
<1>3. buf \o SubSeq(t, r + 1, r + n) = chunk
  BY <1>1, <1>2, StretchJoin
<1>4. Len(chunk) = r + n - a
  BY <1>2, StretchOf
<1>5. CASE k > 0 /\ Len(chunk) > k
  <2> DEFINE c == r + n - k
  <2>1. c \in a .. r + n /\ c - a + 1 = Len(chunk) - k + 1 /\ c \in 0 .. r + n /\ r + n - c >= Len(query) - 1
    BY <1>2, <1>4, <1>5
  <2>2. SubSeq(chunk, c - a + 1, r + n - a) = SubSeq(t, c + 1, r + n)
    BY <1>2, <2>1, StretchOfStretch
  <2>3. Carry(chunk) = SubSeq(chunk, Len(chunk) - k + 1, Len(chunk))
    BY <1>5 DEF Carry, Keep
  <2>4. Carry(chunk) = SubSeq(t, c + 1, r + n)
    <3> HIDE DEF chunk, c, k
    <3> QED BY <1>4, <2>1, <2>2, <2>3
  <2>5. BufferOf(query, t, r + n, Carry(chunk))
    <3> HIDE DEF chunk, c
    <3> QED BY <2>1, <2>4 DEF BufferOf
  <2> HIDE DEF chunk
  <2> QED BY <1>3, <2>5
<1>6. CASE ~(k > 0 /\ Len(chunk) > k)
  <2>1. Carry(chunk) = chunk
    BY <1>6 DEF Carry, Keep
  <2>2. a \in 0 .. r + n /\ (a = 0 \/ r + n - a >= Len(query) - 1)
    BY <1>1, <1>2
  <2>3. BufferOf(query, t, r + n, chunk)
    BY <2>2 DEF BufferOf
  <2> HIDE DEF chunk
  <2> QED BY <1>3, <2>1, <2>3
<1> QED BY <1>5, <1>6

\* The buffer is still right about a file that has grown.
LEMMA BufferKept ==
    ASSUME NEW T, NEW q, NEW t \in Seq(T), NEW u \in Seq(T), NEW r \in 0 .. Len(t), NEW buf,
           BufferOf(q, t, r, buf)
    PROVE  BufferOf(q, t \o u, r, buf)
<1>1. PICK a \in 0 .. r : buf = SubSeq(t, a + 1, r) /\ (a = 0 \/ r - a >= Len(q) - 1)
  BY DEF BufferOf
<1>2. SubSeq(t \o u, a + 1, r) = SubSeq(t, a + 1, r)
  <2>1. a \in Nat /\ r \in a .. Len(t)
    OBVIOUS
  <2> QED BY <2>1, StretchKept
<1> QED BY <1>1, <1>2 DEF BufferOf

(***************************************************************************)
(* A sequence whose elements are all in another one, each at a place of    *)
(* its own.                                                                *)
(***************************************************************************)
\* An increasing way to place the elements of the first among those of the second.
Places(f, a, b) ==
    /\ f \in [1 .. Len(a) -> 1 .. Len(b)]
    /\ \A i, j \in 1 .. Len(a) : f[i] = f[j] => i = j
    /\ \A i \in 1 .. Len(a) : b[f[i]] = a[i]

Emb(a, b) == \E f : Places(f, a, b)

LEMMA EmbNone == ASSUME NEW b PROVE Emb(<<>>, b)
<1>1. Places(<<>>, <<>>, b)
  BY DEF Places
<1> QED BY <1>1 DEF Emb

LEMMA EmbRefl == ASSUME NEW T, NEW a \in Seq(T) PROVE Emb(a, a)
<1>1. Places([i \in 1 .. Len(a) |-> i], a, a)
  BY DEF Places
<1> QED BY <1>1 DEF Emb

LEMMA EmbTrans ==
    ASSUME NEW T, NEW a \in Seq(T), NEW b \in Seq(T), NEW c \in Seq(T), Emb(a, b), Emb(b, c)
    PROVE  Emb(a, c)
<1>1. PICK f : Places(f, a, b)
  BY DEF Emb
<1>2. PICK g : Places(g, b, c)
  BY DEF Emb
<1> DEFINE h == [i \in 1 .. Len(a) |-> g[f[i]]]
<1>3. \A i \in 1 .. Len(a) : f[i] \in 1 .. Len(b) /\ g[f[i]] \in 1 .. Len(c)
  BY <1>1, <1>2 DEF Places
<1>4. h \in [1 .. Len(a) -> 1 .. Len(c)]
  BY <1>3
<1>5. \A i \in 1 .. Len(a) : c[h[i]] = a[i]
  BY <1>1, <1>2, <1>3 DEF Places
<1>6. \A i, j \in 1 .. Len(a) : h[i] = h[j] => i = j
  <2> TAKE i, j \in 1 .. Len(a)
  <2> HAVE h[i] = h[j]
  <2>1. g[f[i]] = g[f[j]]
    OBVIOUS
  <2>2. f[i] = f[j]
    BY <1>2, <1>3, <2>1 DEF Places
  <2> QED BY <1>1, <2>2 DEF Places
<1>7. Places(h, a, c)
  <2> HIDE DEF h
  <2> QED BY <1>4, <1>5, <1>6 DEF Places
<1> QED BY <1>7 DEF Emb

\* Two sequences in two others are, one after the other, in the others together.
LEMMA EmbConcat ==
    ASSUME NEW T, NEW a \in Seq(T), NEW b \in Seq(T), NEW c \in Seq(T), NEW d \in Seq(T),
           Emb(a, b), Emb(c, d)
    PROVE  Emb(a \o c, b \o d)
<1>1. PICK f : Places(f, a, b)
  BY DEF Emb
<1>2. PICK g : Places(g, c, d)
  BY DEF Emb
<1>3. /\ a \o c \in Seq(T) /\ Len(a \o c) = Len(a) + Len(c)
      /\ \A i \in 1 .. Len(a) : (a \o c)[i] = a[i]
      /\ \A i \in 1 .. Len(c) : (a \o c)[Len(a) + i] = c[i]
  <2>1. a \o c \in Seq(T) /\ Joint(a \o c, a, c)
    BY Zenon, ConcatJoint
  <2> QED BY <2>1 DEF Joint
<1>4. /\ b \o d \in Seq(T) /\ Len(b \o d) = Len(b) + Len(d)
      /\ \A i \in 1 .. Len(b) : (b \o d)[i] = b[i]
      /\ \A i \in 1 .. Len(d) : (b \o d)[Len(b) + i] = d[i]
  <2>1. b \o d \in Seq(T) /\ Joint(b \o d, b, d)
    BY Zenon, ConcatJoint
  <2> QED BY <2>1 DEF Joint
<1> DEFINE n == Len(a)
           m == Len(c)
           p == Len(b)
           h == [i \in 1 .. n + m |-> IF i <= n THEN f[i] ELSE p + g[i - n]]
<1>5. n \in Nat /\ m \in Nat /\ p \in Nat /\ Len(d) \in Nat
  OBVIOUS
<1>6. \A i \in 1 .. n : f[i] \in 1 .. p /\ b[f[i]] = a[i] /\ h[i] = f[i]
  <2> TAKE i \in 1 .. n
  <2>1. f[i] \in 1 .. p /\ b[f[i]] = a[i]
    BY Zenon, <1>1 DEF Places
  <2>2. i \in 1 .. n + m /\ i <= n
    BY <1>5
  <2> QED BY <2>1, <2>2
<1>7. \A i \in 1 .. m : g[i] \in 1 .. Len(d) /\ d[g[i]] = c[i] /\ h[n + i] = p + g[i]
  <2> TAKE i \in 1 .. m
  <2>1. g[i] \in 1 .. Len(d) /\ d[g[i]] = c[i]
    BY <1>2 DEF Places
  <2>2. n + i \in 1 .. n + m /\ ~(n + i <= n) /\ (n + i) - n = i
    BY <1>5
  <2> QED BY <2>1, <2>2
<1>8. \A i \in 1 .. n + m : i \in 1 .. n \/ \E k \in 1 .. m : i = n + k
  <2> TAKE i \in 1 .. n + m
  <2>1. CASE i <= n
    BY <1>5, <2>1
  <2>2. CASE ~(i <= n)
    <3>1. i - n \in 1 .. m /\ i = n + (i - n)
      BY <1>5, <2>2
    <3> QED BY <3>1
  <2> QED BY <2>1, <2>2
<1>9. DOMAIN h = 1 .. n + m
  OBVIOUS
<1>a. h \in [1 .. n + m -> 1 .. p + Len(d)]
  <2>1. \A i \in 1 .. n + m : h[i] \in 1 .. p + Len(d)
    <3> TAKE i \in 1 .. n + m
    <3>1. CASE i \in 1 .. n
      <4> HIDE DEF h
      <4> QED BY <1>5, <1>6, <3>1
    <3>2. ASSUME NEW k \in 1 .. m, i = n + k PROVE h[i] \in 1 .. p + Len(d)
      <4> HIDE DEF h
      <4> QED BY <1>5, <1>7, <3>2
    <3> HIDE DEF h
    <3> QED BY <1>8, <3>1, <3>2
  <2>2. h = [i \in 1 .. n + m |-> h[i]]
    OBVIOUS
  <2> HIDE DEF h
  <2> QED BY <2>1, <2>2
<1>b. \A i \in 1 .. n + m : (b \o d)[h[i]] = (a \o c)[i]
  <2> TAKE i \in 1 .. n + m
  <2> HIDE DEF h
  <2>1. CASE i \in 1 .. n
    BY <1>3, <1>4, <1>6, <2>1
  <2>2. ASSUME NEW k \in 1 .. m, i = n + k PROVE (b \o d)[h[i]] = (a \o c)[i]
    <3>1. (a \o c)[i] = c[k]
      BY <1>3, <2>2
    <3>2. h[i] = p + g[k] /\ g[k] \in 1 .. Len(d) /\ d[g[k]] = c[k]
      BY <1>7, <2>2
    <3>3. (b \o d)[p + g[k]] = d[g[k]]
      BY <1>4, <3>2
    <3> QED BY <3>1, <3>2, <3>3
  <2> QED BY <1>8, <2>1, <2>2
<1>c. \A i, j \in 1 .. n + m : h[i] = h[j] => i = j
  <2> TAKE i, j \in 1 .. n + m
  <2> HAVE h[i] = h[j]
  <2> HIDE DEF h
  <2>1. CASE i \in 1 .. n /\ j \in 1 .. n
    BY <1>1, <1>6, <2>1 DEF Places
  <2>2. ASSUME i \in 1 .. n, NEW k \in 1 .. m, j = n + k PROVE FALSE
    <3>1. h[i] \in 1 .. p /\ h[j] = p + g[k] /\ g[k] \in 1 .. Len(d)
      BY <1>6, <1>7, <2>2
    <3> QED BY <1>5, <3>1
  <2>3. ASSUME j \in 1 .. n, NEW k \in 1 .. m, i = n + k PROVE FALSE
    <3>1. h[j] \in 1 .. p /\ h[i] = p + g[k] /\ g[k] \in 1 .. Len(d)
      BY <1>6, <1>7, <2>3
    <3> QED BY <1>5, <3>1
  <2>4. ASSUME NEW k \in 1 .. m, i = n + k, NEW l \in 1 .. m, j = n + l PROVE i = j
    <3>1. h[i] = p + g[k] /\ h[j] = p + g[l] /\ g[k] \in 1 .. Len(d) /\ g[l] \in 1 .. Len(d)
      BY <1>7, <2>4
    <3>2. g[k] = g[l]
      <4>1. p + g[k] = p + g[l]
        BY <3>1
      <4>2. g[k] \in Int /\ g[l] \in Int
        BY <3>1
      <4> HIDE DEF p
      <4> QED BY <1>5, <4>1, <4>2
    <3>3. k = l
      BY <1>2, <3>2 DEF Places
    <3> QED BY <2>4, <3>3
  <2> QED BY <1>8, <2>1, <2>2, <2>3, <2>4
<1>d. Places(h, a \o c, b \o d)
  <2> HIDE DEF h
  <2> QED BY <1>3, <1>4, <1>a, <1>b, <1>c DEF Places
<1> QED BY <1>d DEF Emb

\* An element that holds the text has its place in the other sequence.
Holding(q, es) == {i \in DOMAIN es : Occurs(q, es[i])}

\* The entries that hold a text can be counted.
LEMMA HoldingFinite ==
    ASSUME NEW T, NEW es \in Seq(T), NEW q
    PROVE  IsFiniteSet(Holding(q, es)) /\ Cardinality(Holding(q, es)) \in Nat
<1>1. IsFiniteSet(1 .. Len(es))
  BY FS_Interval
<1>2. Holding(q, es) \subseteq 1 .. Len(es)
  BY DEF Holding
<1>3. IsFiniteSet(Holding(q, es))
  BY Zenon, <1>1, <1>2, FS_Subset
<1> QED BY <1>3, FS_CardinalityType

\* And there are as many of them at least in the sequence it is in.
LEMMA EmbCount ==
    ASSUME NEW T, NEW a \in Seq(T), NEW b \in Seq(T), NEW q, Emb(a, b)
    PROVE  Cardinality(Holding(q, a)) <= Cardinality(Holding(q, b))
<1>1. PICK f : Places(f, a, b)
  BY DEF Emb
<1> DEFINE A == Holding(q, a)
           B == Holding(q, b)
           g == [i \in A |-> f[i]]
<1>2. \A i \in A : i \in 1 .. Len(a) /\ Occurs(q, a[i])
  BY DEF Holding
<1>3. \A i \in A : f[i] \in B
  <2> TAKE i \in A
  <2>1. f[i] \in 1 .. Len(b) /\ b[f[i]] = a[i]
    BY <1>1, <1>2 DEF Places
  <2>2. Occurs(q, b[f[i]])
    BY <1>2, <2>1
  <2> QED BY <2>1, <2>2 DEF Holding
<1>4. \A i, j \in A : f[i] = f[j] => i = j
  BY <1>1, <1>2 DEF Places
<1>5. g \in Injection(A, B)
  <2> HIDE DEF A, B
  <2> QED BY <1>3, <1>4 DEF Injection, IsInjective
<1>6. IsFiniteSet(B)
  BY HoldingFinite
<1> HIDE DEF A, B, g
<1>7. Cardinality(A) <= Cardinality(B)
  BY <1>5, <1>6, FS_Injection DEF ExistsInjection
<1> QED BY <1>7 DEF A, B

\* A sequence and one element more.
Longer(u, us, x) ==
    /\ Len(u) = Len(us) + 1 /\ u[Len(us) + 1] = x
    /\ \A i \in 1 .. Len(us) : u[i] = us[i]

LEMMA Appended ==
    ASSUME NEW S, NEW us \in Seq(S), NEW x \in S
    PROVE  Append(us, x) \in Seq(S) /\ Longer(Append(us, x), us, x)
<1>1. Append(us, x) \in Seq(S)
  OBVIOUS
<1>2. Len(Append(us, x)) = Len(us) + 1
  OBVIOUS
<1>3. Append(us, x)[Len(us) + 1] = x
  OBVIOUS
<1>4. \A i \in 1 .. Len(us) : Append(us, x)[i] = us[i]
  OBVIOUS
<1> QED BY <1>1, <1>2, <1>3, <1>4 DEF Longer

\* A sequence ends with its last element.
LEMMA SplitAt ==
    ASSUME NEW S, NEW bs \in Seq(S), NEW n \in Nat, n + 1 <= Len(bs)
    PROVE  \E b0 \in Seq(S), y \in S, b1 \in Seq(S) :
              /\ bs = (b0 \o <<y>>) \o b1 /\ y = bs[n + 1]
              /\ Len(b0) = n /\ \A i \in 1 .. n : b0[i] = bs[i]
<1> DEFINE k == n + 1
           b0 == SubSeq(bs, 1, k - 1)
           b1 == SubSeq(bs, k + 1, Len(bs))
<1>1. k \in 1 .. Len(bs) /\ k - 1 = n
  OBVIOUS
<1>2. bs[k] \in S
  BY <1>1
<1>3. b0 \in Seq(S) /\ b1 \in Seq(S) /\ bs = (b0 \o <<bs[k]>>) \o b1
  <2> HIDE DEF k
  <2> QED BY Zenon, <1>1, Apart
<1>4. Len(b0) = n /\ \A i \in 1 .. n : b0[i] = bs[i]
  <2>1. 0 \in Nat /\ n \in 0 .. Len(bs)
    BY <1>1
  <2>2. Len(SubSeq(bs, 0 + 1, n)) = n - 0 /\ \A i \in 1 .. n - 0 : SubSeq(bs, 0 + 1, n)[i] = bs[0 + i]
    BY <2>1, StretchOf
  <2> QED BY <1>1, <2>2
<1> HIDE DEF b0, b1
<1> QED BY <1>2, <1>3, <1>4

\* Element by element, so is what a function gives for them.
Within(F, us, bs) == Len(us) <= Len(bs) /\ \A i \in 1 .. Len(us) : Emb(F[us[i]], F[bs[i]])

Holds(F, S, us) == \A bs \in Seq(S) : Within(F, us, bs) => Emb(FlatMap(F, us), FlatMap(F, bs))

\* One element more on both sides.
LEMMA EmbFlatStep ==
    ASSUME NEW S, NEW T, NEW F, Gives(F, S, T), NEW us \in Seq(S), NEW x \in S, NEW bs \in Seq(S),
           Within(F, Append(us, x), bs), Holds(F, S, us)
    PROVE  Emb(FlatMap(F, Append(us, x)), FlatMap(F, bs))
<1> DEFINE n == Len(us)
           an == Append(us, x)
<1>0. an \in Seq(S) /\ Longer(an, us, x) /\ Within(F, an, bs) /\ n \in Nat /\ n = Len(us)
  BY Appended
<1> HIDE DEF n, an
<1>1. Len(an) = n + 1 /\ an[n + 1] = x /\ \A i \in 1 .. n : an[i] = us[i]
  BY <1>0 DEF Longer
<1>2. n \in Nat /\ n + 1 <= Len(bs)
  BY <1>0, <1>1 DEF Within
<1>3. \A i \in 1 .. n + 1 : Emb(F[an[i]], F[bs[i]])
  BY <1>0, <1>1 DEF Within
<1>4. PICK b0 \in Seq(S), y \in S, b1 \in Seq(S) :
         /\ bs = (b0 \o <<y>>) \o b1 /\ y = bs[n + 1]
         /\ Len(b0) = n /\ \A i \in 1 .. n : b0[i] = bs[i]
  BY <1>2, SplitAt
<1>5. Within(F, us, b0)
  <2>1. \A i \in 1 .. n : Emb(F[us[i]], F[b0[i]])
    <3> TAKE i \in 1 .. n
    <3>1. i \in 1 .. n + 1
      BY <1>2
    <3> QED BY <1>1, <1>3, <1>4, <3>1
  <2> QED BY <1>0, <1>2, <1>4, <2>1 DEF Within
<1>6. Emb(FlatMap(F, us), FlatMap(F, b0))
  BY <1>4, <1>5 DEF Holds
<1>7. Emb(F[x], F[y])
  <2>1. n + 1 \in 1 .. n + 1
    BY <1>2
  <2> QED BY <1>1, <1>3, <1>4, <2>1
<1>8. F[x] \in Seq(T) /\ F[y] \in Seq(T)
  BY DEF Gives
<1>9. \A c \in Seq(S) : FlatMap(F, c) \in Seq(T)
  BY Zenon, FlatMapType
<1> DEFINE a0 == FlatMap(F, us)
           c0 == FlatMap(F, b0)
           c1 == FlatMap(F, b1)
<1>10. a0 \in Seq(T) /\ c0 \in Seq(T) /\ c1 \in Seq(T)
  BY Zenon, <1>4, <1>9
<1>11. FlatMap(F, Append(us, x)) = a0 \o F[x]
  <2>1. Adds(F, S)
    BY Zenon, FlatMapAdds
  <2> QED BY Zenon, <2>1 DEF Adds
<1>12. FlatMap(F, bs) = (c0 \o F[y]) \o c1
  <2>1. Joins(F, S) /\ <<y>> \in Seq(S)
    BY Zenon, FlatMapJoins, OneSeq
  <2>2. b0 \o <<y>> \in Seq(S)
    BY Zenon, <2>1, ConcatJoint
  <2>3. FlatMap(F, (b0 \o <<y>>) \o b1) = FlatMap(F, b0 \o <<y>>) \o c1
    BY Zenon, <2>1, <2>2 DEF Joins
  <2>4. FlatMap(F, b0 \o <<y>>) = c0 \o FlatMap(F, <<y>>)
    BY Zenon, <2>1 DEF Joins
  <2>5. FlatMap(F, <<y>>) = F[y]
    BY Zenon, FlatMapOne
  <2> QED BY Zenon, <1>4, <2>3, <2>4, <2>5
<1>13. Emb(a0, c0)
  BY <1>6
<1> HIDE DEF a0, c0, c1
<1> DEFINE u == a0 \o F[x]
           v == c0 \o F[y]
<1>14. Emb(u, v)
  BY Zenon, <1>7, <1>8, <1>10, <1>13, EmbConcat
<1>15. u \in Seq(T) /\ v \in Seq(T) /\ u \o <<>> = u
  BY <1>8, <1>10
<1> HIDE DEF u, v
<1>16. <<>> \in Seq(T) /\ Emb(<<>>, c1)
  BY EmbNone
<1>17. Emb(u \o <<>>, v \o c1)
  BY Zenon, <1>10, <1>14, <1>15, <1>16, EmbConcat
<1> QED BY Zenon, <1>11, <1>12, <1>15, <1>17 DEF u, v

\* For sequences of any length, element by element.
LEMMA EmbFlat ==
    ASSUME NEW S, NEW T, NEW F, Gives(F, S, T), NEW fs \in Seq(S), NEW gs \in Seq(S), Within(F, fs, gs)
    PROVE  Emb(FlatMap(F, fs), FlatMap(F, gs))
<1> DEFINE G == {us \in Seq(S) : Holds(F, S, us)}
<1>1. <<>> \in G
  <2>1. \A bs \in Seq(S) : Emb(FlatMap(F, <<>>), FlatMap(F, bs))
    BY FlatMapNone, EmbNone
  <2>2. <<>> \in Seq(S)
    OBVIOUS
  <2> QED BY Zenon, <2>1, <2>2 DEF Holds
<1>2. \A us \in Seq(S), x \in S : us \in G => Append(us, x) \in G
  <2> TAKE us \in Seq(S), x \in S
  <2> HAVE us \in G
  <2>1. Append(us, x) \in Seq(S)
    BY Zenon, Appended
  <2>2. Holds(F, S, us)
    BY Zenon
  <2>3. Holds(F, S, Append(us, x))
    <3> HIDE DEF G
    <3> QED BY Zenon, <2>2, EmbFlatStep DEF Holds
  <2> QED BY Zenon, <2>1, <2>3
<1>3. fs \in G
  <2> HIDE DEF G
  <2> QED BY Zenon, <1>1, <1>2, SeqInduct
<1> QED BY Zenon, <1>3 DEF Holds

(***************************************************************************)
(* How a transcript grows.                                                 *)
(***************************************************************************)
\* A line only grows: a whole one stays as it is, a half one gets more blocks.
Grew(l, m) ==
    /\ m.kind = l.kind
    /\ l.half \/ m = l
    /\ \E bs \in Seq(Seq(Alphabet)) : m.blocks = l.blocks \o bs

FileGrew(a, b) == Len(a) <= Len(b) /\ \A i \in 1 .. Len(a) : Grew(a[i], b[i])

FilesGrew(x, y) == Len(x) = Len(y) /\ \A f \in 1 .. Len(x) : FileGrew(x[f], y[f])

LEMMA GrewRefl == ASSUME NEW l \in TranscriptLine PROVE Grew(l, l)
<1>1. l.blocks \in Seq(Seq(Alphabet))
  BY DEF TranscriptLine
<1>2. <<>> \in Seq(Seq(Alphabet)) /\ l.blocks = l.blocks \o <<>>
  BY <1>1
<1> QED BY <1>2 DEF Grew

\* One addition and another one are an addition.
LEMMA ThenThen ==
    ASSUME NEW T, NEW a \in Seq(T), NEW u \in Seq(T), NEW v \in Seq(T)
    PROVE  (a \o u) \o v = a \o (u \o v) /\ u \o v \in Seq(T)
OBVIOUS

LEMMA GrewTrans ==
    ASSUME NEW k \in TranscriptLine, NEW l \in TranscriptLine, NEW m \in TranscriptLine,
           Grew(k, l), Grew(l, m)
    PROVE  Grew(k, m)
<1>1. PICK bs \in Seq(Seq(Alphabet)) : l.blocks = k.blocks \o bs
  BY DEF Grew
<1>2. PICK cs \in Seq(Seq(Alphabet)) : m.blocks = l.blocks \o cs
  BY DEF Grew
<1>3. k.blocks \in Seq(Seq(Alphabet))
  BY DEF TranscriptLine
<1>4. m.blocks = k.blocks \o (bs \o cs) /\ bs \o cs \in Seq(Seq(Alphabet))
  <2> DEFINE T == Seq(Alphabet)
             p == k.blocks
  <2>1. p \in Seq(T) /\ bs \in Seq(T) /\ cs \in Seq(T)
    BY <1>3
  <2>2. /\ m.blocks = (p \o bs) \o cs
        /\ k.blocks = p
    BY <1>1, <1>2
  <2> HIDE DEF T, p
  <2>3. (p \o bs) \o cs = p \o (bs \o cs) /\ bs \o cs \in Seq(T)
    BY <2>1, ThenThen
  <2> QED BY <2>2, <2>3 DEF T
<1> QED BY <1>4 DEF Grew

\* A line that grows shows what it showed, and more.
LEMMA GrewShown ==
    ASSUME NEW s, NEW l \in TranscriptLine, NEW m \in TranscriptLine, Grew(l, m)
    PROVE  Emb(Shown(s)[l], Shown(s)[m])
<1>1. Shown(s)[l] = EntriesOf(s, l) /\ Shown(s)[m] = EntriesOf(s, m)
  BY DEF Shown
<1>2. CASE m = l
  <2>1. Shown(s)[l] \in Seq(Seq(Alphabet))
    BY ShownType DEF Gives
  <2> QED BY <1>2, <2>1, EmbRefl
<1>3. CASE EntriesOf(s, l) = <<>>
  BY <1>1, <1>3, EmbNone
<1>4. CASE m # l /\ EntriesOf(s, l) # <<>>
  <2>1. l.half /\ m.kind = l.kind /\ l.kind # "none" /\ Source[s] # "claude_code"
    BY <1>4 DEF Grew, EntriesOf
  <2>2. EntriesOf(s, l) = Blocks(l) /\ EntriesOf(s, m) = Blocks(m)
    BY <2>1 DEF EntriesOf
  <2>3. PICK bs \in Seq(Seq(Alphabet)) : m.blocks = l.blocks \o bs
    BY DEF Grew
  <2>4. l.blocks \in Seq(Seq(Alphabet))
    BY DEF TranscriptLine
  <2>5. Joint(m.blocks, l.blocks, bs)
    BY <2>3, <2>4, ConcatJoint
  <2>6. /\ Len(Blocks(l)) = Len(l.blocks) /\ Len(Blocks(m)) = Len(m.blocks)
        /\ \A i \in 1 .. Len(l.blocks) : Blocks(l)[i] = Text(l.kind, l.blocks[i])
        /\ \A i \in 1 .. Len(m.blocks) : Blocks(m)[i] = Text(m.kind, m.blocks[i])
    BY BlocksOf
  <2>7. Len(l.blocks) \in Nat /\ Len(bs) \in Nat
    BY <2>4
  <2>8. \A i \in 1 .. Len(l.blocks) : i \in 1 .. Len(m.blocks) /\ Blocks(m)[i] = Blocks(l)[i]
    <3> TAKE i \in 1 .. Len(l.blocks)
    <3>1. Len(m.blocks) = Len(l.blocks) + Len(bs) /\ m.blocks[i] = l.blocks[i]
      BY <2>5 DEF Joint
    <3>2. i \in 1 .. Len(m.blocks)
      BY <2>7, <3>1
    <3> QED BY Zenon, <2>1, <2>6, <3>1, <3>2
  <2>9. Places([i \in 1 .. Len(l.blocks) |-> i], Blocks(l), Blocks(m))
    BY <2>6, <2>8 DEF Places
  <2> QED BY <1>1, <2>2, <2>9 DEF Emb
<1> QED BY <1>2, <1>3, <1>4

\* So do a file and a session.
LEMMA FileGrewShown ==
    ASSUME NEW s, NEW a \in Seq(TranscriptLine), NEW b \in Seq(TranscriptLine), FileGrew(a, b)
    PROVE  Emb(Filed(s)[a], Filed(s)[b])
<1>1. Filed(s)[a] = FlatMap(Shown(s), a) /\ Filed(s)[b] = FlatMap(Shown(s), b)
  BY EntriesInIs DEF Filed
<1>2. \A i \in 1 .. Len(a) : Emb(Shown(s)[a[i]], Shown(s)[b[i]])
  <2> TAKE i \in 1 .. Len(a)
  <2>1. i \in 1 .. Len(b) /\ Grew(a[i], b[i])
    BY DEF FileGrew
  <2>2. a[i] \in TranscriptLine /\ b[i] \in TranscriptLine
    BY <2>1
  <2> QED BY <2>1, <2>2, GrewShown
<1>3. Len(a) <= Len(b) /\ Gives(Shown(s), TranscriptLine, Seq(Alphabet))
  BY ShownType DEF FileGrew
<1>4. Emb(FlatMap(Shown(s), a), FlatMap(Shown(s), b))
  <2>1. Within(Shown(s), a, b)
    BY <1>2, <1>3 DEF Within
  <2> QED BY Zenon, <1>3, <2>1, EmbFlat
<1> QED BY <1>1, <1>4

LEMMA FilesGrewShown ==
    ASSUME NEW s, NEW x \in Seq(Seq(TranscriptLine)), NEW y \in Seq(Seq(TranscriptLine)), FilesGrew(x, y)
    PROVE  Emb(Entries(s, x), Entries(s, y))
<1>1. \A f \in 1 .. Len(x) : Emb(Filed(s)[x[f]], Filed(s)[y[f]])
  <2> TAKE f \in 1 .. Len(x)
  <2>1. f \in 1 .. Len(y) /\ FileGrew(x[f], y[f])
    BY DEF FilesGrew
  <2>2. x[f] \in Seq(TranscriptLine) /\ y[f] \in Seq(TranscriptLine)
    BY <2>1
  <2> QED BY <2>1, <2>2, FileGrewShown
<1>2. Len(x) <= Len(y) /\ Gives(Filed(s), Seq(TranscriptLine), Seq(Alphabet))
  BY FiledType DEF FilesGrew
<1>3. Emb(FlatMap(Filed(s), x), FlatMap(Filed(s), y))
  <2>1. Within(Filed(s), x, y)
    BY <1>1, <1>2 DEF Within
  <2> QED BY Zenon, <1>2, <2>1, EmbFlat
<1> QED BY <1>3, EntriesIs

\* A flat map whose values are all in a set.
LEMMA FlatMapInto ==
    ASSUME NEW S, NEW G, NEW F, NEW ls \in Seq(S), \A i \in 1 .. Len(ls) : F[ls[i]] \in Seq(G)
    PROVE  FlatMap(F, ls) \in Seq(G)
<1>1. Mapped(F, ls) \in Seq(Seq(G))
  BY DEF Mapped
<1> QED BY <1>1, FlattenType DEF FlatMap

LEMMA SeqInto ==
    ASSUME NEW T, NEW G, NEW u \in Seq(T), \A i \in 1 .. Len(u) : u[i] \in G
    PROVE  u \in Seq(G)
OBVIOUS

\* Every element of a value of the function is in the flat map.
LEMMA FlatMapHas ==
    ASSUME NEW S, NEW T, NEW F, Gives(F, S, T), NEW ls \in Seq(S), NEW i \in 1 .. Len(ls),
           NEW k \in 1 .. Len(F[ls[i]])
    PROVE  \E j \in 1 .. Len(FlatMap(F, ls)) : FlatMap(F, ls)[j] = F[ls[i]][k]
<1> DEFINE a == SubSeq(ls, 1, i - 1)
           c == SubSeq(ls, i + 1, Len(ls))
           x == ls[i]
<1>1. a \in Seq(S) /\ c \in Seq(S) /\ <<x>> \in Seq(S) /\ ls = (a \o <<x>>) \o c /\ x \in S
  <2>1. ls[i] \in S
    OBVIOUS
  <2> QED BY Zenon, <2>1, Apart
<1> DEFINE A == FlatMap(F, a)
           C == FlatMap(F, c)
<1>2. FlatMap(F, ls) = (A \o F[x]) \o C /\ A \in Seq(T) /\ C \in Seq(T) /\ F[x] \in Seq(T)
  <2> HIDE DEF a, c, x
  <2> DEFINE w == <<x>>
  <2>0. w \in Seq(S) /\ a \in Seq(S) /\ c \in Seq(S)
    BY <1>1
  <2> HIDE DEF w
  <2>1. /\ FlatMap(F, (a \o w) \o c) = (FlatMap(F, a) \o FlatMap(F, w)) \o FlatMap(F, c)
        /\ FlatMap(F, a) \in Seq(T) /\ FlatMap(F, w) \in Seq(T) /\ FlatMap(F, c) \in Seq(T)
    <3>1. Joins(F, S) /\ \A d \in Seq(S) : FlatMap(F, d) \in Seq(T)
      BY Zenon, FlatMapJoins, FlatMapType
    <3>2. a \o w \in Seq(S)
      BY Zenon, <2>0, ConcatJoint
    <3>3. FlatMap(F, (a \o w) \o c) = FlatMap(F, a \o w) \o FlatMap(F, c)
      BY Zenon, <2>0, <3>1, <3>2 DEF Joins
    <3>4. FlatMap(F, a \o w) = FlatMap(F, a) \o FlatMap(F, w)
      BY Zenon, <2>0, <3>1 DEF Joins
    <3> QED BY Zenon, <2>0, <3>1, <3>3, <3>4
  <2>2. FlatMap(F, <<x>>) = F[x]
    BY Zenon, <1>1, FlatMapOne
  <2> QED BY Zenon, <1>1, <2>1, <2>2 DEF w
<1> DEFINE X == F[x]
<1>3. k \in 1 .. Len(X) /\ X \in Seq(T)
  BY <1>2
<1> HIDE DEF A, C, X
<1>4. A \o X \in Seq(T) /\ Joint(A \o X, A, X)
  BY Zenon, <1>2, <1>3, ConcatJoint
<1>5. Joint((A \o X) \o C, A \o X, C)
  BY Zenon, <1>2, <1>4, ConcatJoint
<1>6. Len(A) \in Nat /\ Len(X) \in Nat /\ Len(C) \in Nat
  BY <1>2, <1>3
<1> DEFINE j == Len(A) + k
<1>7. j \in 1 .. Len(A \o X) /\ j \in 1 .. Len((A \o X) \o C)
  BY <1>3, <1>4, <1>5, <1>6 DEF Joint
<1>8. ((A \o X) \o C)[j] = X[k]
  BY <1>3, <1>4, <1>5, <1>7 DEF Joint
<1> QED BY <1>2, <1>7, <1>8 DEF X

(***************************************************************************)
(* What the raw pass can tell.                                             *)
(***************************************************************************)
\* No block of the line, or of a plain line of the file, has the text.
Silent(q, l) == \A b \in DOMAIN l.blocks : ~Occurs(q, l.blocks[b])

IsPlain(l) == l.kind = "text" /\ ~l.half

Clean(q, ls) == \A i \in DOMAIN ls : IsPlain(ls[i]) => Silent(q, ls[i])

\* Bytes without the text, which has no quote, come from blocks without it.
LEMMA RawSilent ==
    ASSUME query \in Seq(Alphabet), fastPathOK, NEW l \in TranscriptLine, ~Occurs(query, Raw(l))
    PROVE  Silent(query, l)
<1> SUFFICES ASSUME NEW b \in DOMAIN l.blocks, Occurs(query, l.blocks[b])
             PROVE  Occurs(query, Raw(l))
  BY DEF Silent
<1>1. l.blocks \in Seq(Seq(Alphabet))
  BY DEF TranscriptLine
<1>2. b \in 1 .. Len(l.blocks) /\ l.blocks[b] \in Seq(Alphabet)
  BY <1>1
<1> DEFINE t == l.blocks[b]
<1>3. Escaped(t) \in Seq(Alphabet) /\ Occurs(query, Escaped(t))
  <2>1. FlatMap(Char, t) \in Seq(Alphabet) /\ Escaped(t) = FlatMap(Char, t)
    BY <1>2, CharType, FlatMapType, EscapedIs
  <2> QED BY <1>2, <2>1, EscapedKeeps DEF fastPathOK
<1>4. Occurs(query, Escaped(t) \o <<"comma">>)
  <2> HIDE DEF t
  <2> QED BY <1>3, InAlphabet, OccursLeft
<1>5. Occurs(query, Block[l.blocks[b]])
  BY <1>2, <1>4 DEF Block
<1>6. Occurs(query, FlatMap(Block, l.blocks))
  <2> DEFINE bs == l.blocks
  <2>1. bs \in Seq(Seq(Alphabet)) /\ b \in 1 .. Len(bs) /\ Occurs(query, Block[bs[b]])
    BY <1>1, <1>2, <1>5
  <2> HIDE DEF bs
  <2>2. Occurs(query, FlatMap(Block, bs))
    BY Zenon, <2>1, BlockType, OccursInFlat
  <2> QED BY <2>2 DEF bs
<1> QED BY <1>6, RawIs

\* The same of a file,
LEMMA BytesClean ==
    ASSUME query \in Seq(Alphabet), fastPathOK, NEW ls \in Seq(TranscriptLine),
           ~Occurs(query, Bytes(ls))
    PROVE  Clean(query, ls)
<1> SUFFICES ASSUME NEW i \in DOMAIN ls PROVE Silent(query, ls[i])
  BY DEF Clean
<1>1. i \in 1 .. Len(ls) /\ ls[i] \in TranscriptLine
  OBVIOUS
<1>2. SUFFICES ASSUME Occurs(query, Raw(ls[i])) PROVE FALSE
  BY <1>1, RawSilent
<1>3. Raw(ls[i]) \in Seq(Alphabet)
  <2>1. ls[i].blocks \in Seq(Seq(Alphabet))
    BY <1>1 DEF TranscriptLine
  <2>2. FlatMap(Block, ls[i].blocks) \in Seq(Alphabet)
    BY <2>1, BlockType, FlatMapType
  <2> QED BY <1>1, <2>2, RawIs
<1>4. Occurs(query, Raw(ls[i]) \o <<"newline">>)
  <2> DEFINE r == Raw(ls[i])
  <2> HIDE DEF r
  <2>1. Occurs(query, r) /\ r \in Seq(Alphabet)
    BY <1>2, <1>3 DEF r
  <2>2. Occurs(query, r \o <<"newline">>)
    BY <2>1, InAlphabet, OccursLeft
  <2> QED BY <2>2 DEF r
<1>5. Occurs(query, Stretch[ls[i]])
  BY <1>1, <1>2, <1>4 DEF Stretch
<1>6. Occurs(query, FlatMap(Stretch, ls))
  BY Zenon, <1>1, <1>5, StretchType, OccursInFlat
<1> QED BY <1>6, BytesIs

\* and of the file as it was.
LEMMA CleanBefore ==
    ASSUME NEW a \in Seq(TranscriptLine), NEW b \in Seq(TranscriptLine), FileGrew(a, b), Clean(query, b)
    PROVE  Clean(query, a)
<1> SUFFICES ASSUME NEW i \in DOMAIN a, IsPlain(a[i]) PROVE Silent(query, a[i])
  BY DEF Clean
<1>1. i \in DOMAIN b /\ b[i] = a[i]
  <2>1. i \in 1 .. Len(a) /\ i \in 1 .. Len(b)
    BY DEF FileGrew
  <2> QED BY <2>1 DEF FileGrew, Grew, IsPlain
<1> QED BY <1>1 DEF Clean

(***************************************************************************)
(* The entries the bytes alone tell.                                       *)
(***************************************************************************)
\* The whole text lines of a file, as a flat map.
Whole == [l \in TranscriptLine |-> IF l.kind = "text" /\ ~l.half THEN <<l>> ELSE <<>>]

LEMMA WholeType == Gives(Whole, TranscriptLine, TranscriptLine)
<1>1. \A l \in TranscriptLine : <<l>> \in Seq(TranscriptLine)
  BY OneSeq
<1> QED BY <1>1 DEF Whole, Gives

LEMMA WholeIs == ASSUME NEW ls \in Seq(TranscriptLine) PROVE WholeText(ls) = FlatMap(Whole, ls)
<1> DEFINE E(i) == IF ls[i].kind = "text" /\ ~ls[i].half THEN <<ls[i]>> ELSE <<>>
           C(i) == Whole[ls[i]]
<1>1. \A i \in DOMAIN ls : ls[i] \in TranscriptLine
  OBVIOUS
<1>2. \A i \in DOMAIN ls : E(i) = C(i)
  BY <1>1 DEF Whole
<1>3. [i \in DOMAIN ls |-> E(i)] = [i \in DOMAIN ls |-> C(i)]
  <2> HIDE DEF E, C
  <2> QED BY <1>2
<1> QED BY <1>3, Zenon DEF WholeText, FlatMap, Mapped

\* Texts that do not hold the query.
Quiet == {t \in Seq(Alphabet) : ~Occurs(query, t)}

\* A file whose plain lines do not have the text shows no such entry of them,
LEMMA PlainQuiet ==
    ASSUME NEW s, NEW ls \in Seq(TranscriptLine), Clean(query, ls)
    PROVE  EntriesIn(s, WholeText(ls)) \in Seq(Quiet)
<1> DEFINE Dumb == {l \in TranscriptLine : IsPlain(l) /\ Silent(query, l)}
           ws == WholeText(ls)
<1>1. ws \in Seq(Dumb)
  <2>1. \A i \in 1 .. Len(ls) : Whole[ls[i]] \in Seq(Dumb)
    <3> TAKE i \in 1 .. Len(ls)
    <3>1. ls[i] \in TranscriptLine /\ (IsPlain(ls[i]) => ls[i] \in Dumb)
      BY DEF Clean
    <3>2. IsPlain(ls[i]) => <<ls[i]>> \in Seq(Dumb)
      <4> HIDE DEF Dumb
      <4> QED BY <3>1, OneSeq
    <3>3. <<>> \in Seq(Dumb)
      OBVIOUS
    <3> QED BY <3>1, <3>2, <3>3 DEF Whole, IsPlain
  <2>2. FlatMap(Whole, ls) \in Seq(Dumb)
    <3> HIDE DEF Dumb
    <3> QED BY Zenon, <2>1, FlatMapInto
  <2> QED BY <2>2, WholeIs
<1>2. ws \in Seq(TranscriptLine)
  BY <1>1
<1>3. \A i \in 1 .. Len(ws) : Shown(s)[ws[i]] \in Seq(Quiet)
  <2> TAKE i \in 1 .. Len(ws)
  <2> DEFINE l == ws[i]
  <2>1. l \in Dumb
    BY <1>1
  <2>2. l \in TranscriptLine /\ IsPlain(l) /\ Silent(query, l)
    BY <2>1
  <2> HIDE DEF l, Dumb
  <2>3. Shown(s)[l] = Blocks(l) /\ \A b \in 1 .. Len(l.blocks) : Blocks(l)[b] = l.blocks[b]
    <3>1. Shown(s)[l] = EntriesOf(s, l) /\ EntriesOf(s, l) = Blocks(l)
      BY <2>2 DEF Shown, EntriesOf, IsPlain
    <3>2. \A b \in 1 .. Len(l.blocks) : Blocks(l)[b] = Text(l.kind, l.blocks[b])
      BY <2>2, BlocksOf
    <3> QED BY <2>2, <3>1, <3>2 DEF Text, IsPlain
  <2>4. Blocks(l) \in Seq(Seq(Alphabet)) /\ Len(Blocks(l)) = Len(l.blocks)
    BY <2>2, BlocksOf
  <2>5. l.blocks \in Seq(Seq(Alphabet))
    BY <2>2 DEF TranscriptLine
  <2>6. \A b \in 1 .. Len(Blocks(l)) : Blocks(l)[b] \in Quiet
    BY <2>2, <2>3, <2>4, <2>5 DEF Silent, Quiet
  <2>7. Blocks(l) \in Seq(Quiet)
    BY Zenon, <2>4, <2>6, SeqInto
  <2> QED BY <2>3, <2>7 DEF l
<1>4. FlatMap(Shown(s), ws) \in Seq(Quiet)
  <2> HIDE DEF ws
  <2> QED BY Zenon, <1>2, <1>3, FlatMapInto
<1> QED BY <1>2, <1>4, EntriesInIs

\* The whole text lines of every file.
WholeFiles(fs) == [f \in DOMAIN fs |-> WholeText(fs[f])]

LEMMA WholeFilesType ==
    ASSUME NEW fs \in Seq(Seq(TranscriptLine))
    PROVE  /\ WholeFiles(fs) \in Seq(Seq(TranscriptLine)) /\ Len(WholeFiles(fs)) = Len(fs)
           /\ \A f \in 1 .. Len(fs) : WholeFiles(fs)[f] = WholeText(fs[f])
<1>1. \A f \in 1 .. Len(fs) : WholeText(fs[f]) \in Seq(TranscriptLine)
  <2> TAKE f \in 1 .. Len(fs)
  <2>1. fs[f] \in Seq(TranscriptLine)
    OBVIOUS
  <2>2. FlatMap(Whole, fs[f]) \in Seq(TranscriptLine)
    BY Zenon, <2>1, WholeType, FlatMapType
  <2>3. WholeText(fs[f]) = FlatMap(Whole, fs[f])
    BY <2>1, WholeIs
  <2> QED BY Zenon, <2>2, <2>3
<1> DEFINE ws == [f \in 1 .. Len(fs) |-> WholeText(fs[f])]
<1>2. ws \in Seq(Seq(TranscriptLine)) /\ Len(ws) = Len(fs)
         /\ \A f \in 1 .. Len(fs) : ws[f] = WholeText(fs[f])
  <2>1. Len(fs) \in Nat
    OBVIOUS
  <2> QED BY <1>1, <2>1
<1>3. WholeFiles(fs) = ws
  <2>1. DOMAIN fs = 1 .. Len(fs)
    OBVIOUS
  <2> QED BY Zenon, <2>1 DEF WholeFiles
<1> HIDE DEF ws
<1> QED BY Zenon, <1>2, <1>3

\* and files without such lines show none.
LEMMA NothingPlain ==
    ASSUME NEW s, NEW fs \in Seq(Seq(TranscriptLine)), \A f \in 1 .. Len(fs) : Clean(query, fs[f])
    PROVE  Holding(query, Entries(s, WholeFiles(fs))) = {}
<1> DEFINE ws == WholeFiles(fs)
           es == Entries(s, ws)
<1>1. ws \in Seq(Seq(TranscriptLine)) /\ Len(ws) = Len(fs)
  BY WholeFilesType
<1>2. \A f \in 1 .. Len(ws) : Filed(s)[ws[f]] \in Seq(Quiet)
  <2> TAKE f \in 1 .. Len(ws)
  <2>1. /\ ws[f] = WholeText(fs[f]) /\ ws[f] \in Seq(TranscriptLine) /\ fs[f] \in Seq(TranscriptLine)
        /\ Clean(query, fs[f])
    BY <1>1, WholeFilesType
  <2>2. EntriesIn(s, ws[f]) \in Seq(Quiet)
    BY <2>1, PlainQuiet
  <2> QED BY <2>1, <2>2 DEF Filed
<1>3. es \in Seq(Quiet)
  <2>1. FlatMap(Filed(s), ws) \in Seq(Quiet)
    <3> HIDE DEF ws
    <3> QED BY Zenon, <1>1, <1>2, FlatMapInto
  <2> QED BY <1>1, <2>1, EntriesIs
<1> HIDE DEF es
<1>4. \A i \in DOMAIN es : ~Occurs(query, es[i])
  BY <1>3 DEF Quiet
<1> QED BY <1>4 DEF Holding, es

\* What the whole text lines of a file, and of the files of a session, show is
\* shown.
LEMMA WholeShown ==
    ASSUME NEW s, NEW ls \in Seq(TranscriptLine)
    PROVE  Emb(EntriesIn(s, WholeText(ls)), EntriesIn(s, ls))
<1> DEFINE F == Shown(s)
           A(r) == FlatMap(F, FlatMap(Whole, r))
           B(r) == FlatMap(F, r)
           G == {r \in Seq(TranscriptLine) : Emb(A(r), B(r))}
<1>1. Gives(F, TranscriptLine, Seq(Alphabet)) /\ Joins(F, TranscriptLine)
         /\ Gives(Whole, TranscriptLine, TranscriptLine)
         /\ Adds(F, TranscriptLine) /\ Adds(Whole, TranscriptLine)
  BY Zenon, ShownType, WholeType, FlatMapJoins, FlatMapAdds
<1> HIDE DEF F
<1>2. <<>> \in G
  <2>1. A(<<>>) = <<>>
    BY Zenon, FlatMapNone
  <2>2. <<>> \in Seq(TranscriptLine)
    OBVIOUS
  <2> QED BY Zenon, <2>1, <2>2, EmbNone
<1>3. \A r \in Seq(TranscriptLine), x \in TranscriptLine : r \in G => Append(r, x) \in G
  <2> TAKE r \in Seq(TranscriptLine), x \in TranscriptLine
  <2> HAVE r \in G
  <2> DEFINE w == FlatMap(Whole, r)
             v == Whole[x]
  <2>1. w \in Seq(TranscriptLine) /\ v \in Seq(TranscriptLine) /\ Append(r, x) \in Seq(TranscriptLine)
    <3>1. w \in Seq(TranscriptLine)
      BY Zenon, <1>1, FlatMapType
    <3>2. Append(r, x) \in Seq(TranscriptLine)
      BY Zenon, Appended
    <3>3. v \in Seq(TranscriptLine)
      BY <1>1 DEF Gives
    <3> QED BY Zenon, <3>1, <3>2, <3>3
  <2>2. FlatMap(Whole, Append(r, x)) = w \o v
    BY Zenon, <1>1 DEF Adds
  <2>3. v = <<x>> \/ v = <<>>
    BY DEF Whole
  <2>4. F[x] \in Seq(Seq(Alphabet))
    BY <1>1 DEF Gives
  <2>5. Emb(A(r), B(r))
    OBVIOUS
  <2> HIDE DEF w, v
  <2>6. FlatMap(F, w \o v) = FlatMap(F, w) \o FlatMap(F, v)
    BY Zenon, <1>1, <2>1 DEF Joins
  <2>7. FlatMap(F, Append(r, x)) = FlatMap(F, r) \o F[x]
    BY Zenon, <1>1 DEF Adds
  <2>8. Emb(FlatMap(F, v), F[x])
    <3>1. CASE v = <<>>
      BY Zenon, <3>1, FlatMapNone, EmbNone
    <3>2. CASE v = <<x>>
      <4>1. FlatMap(F, v) = F[x]
        BY Zenon, <1>1, <3>2, FlatMapOne
      <4> QED BY Zenon, <2>4, <4>1, EmbRefl
    <3> QED BY <2>3, <3>1, <3>2
  <2>9. \A c \in Seq(TranscriptLine) : FlatMap(F, c) \in Seq(Seq(Alphabet))
    BY Zenon, <1>1, FlatMapType
  <2> DEFINE p == FlatMap(F, w)
             q == FlatMap(F, r)
             m == FlatMap(F, v)
             n == F[x]
             T == Seq(Alphabet)
  <2>10. p \in Seq(T) /\ q \in Seq(T) /\ m \in Seq(T) /\ n \in Seq(T)
    BY Zenon, <2>1, <2>4, <2>9
  <2>11. Emb(p, q) /\ Emb(m, n)
    BY Zenon, <2>5, <2>8 DEF w
  <2>12. Emb(p \o m, q \o n)
    <3> HIDE DEF p, q, m, n, T
    <3> QED BY Zenon, <2>10, <2>11, EmbConcat
  <2>13. A(Append(r, x)) = p \o m /\ B(Append(r, x)) = q \o n
    BY Zenon, <2>2, <2>6, <2>7
  <2>14. Emb(A(Append(r, x)), B(Append(r, x)))
    <3> HIDE DEF p, q, m, n
    <3> QED BY Zenon, <2>12, <2>13
  <2> QED BY Zenon, <2>1, <2>14
<1>4. Emb(A(ls), B(ls))
  <2>1. ls \in G
    <3> HIDE DEF G
    <3> QED BY Zenon, <1>2, <1>3, SeqInduct
  <2> QED BY Zenon, <2>1
<1>5. WholeText(ls) = FlatMap(Whole, ls) /\ FlatMap(Whole, ls) \in Seq(TranscriptLine)
  BY Zenon, WholeIs, WholeType, FlatMapType
<1>6. EntriesIn(s, WholeText(ls)) = A(ls) /\ EntriesIn(s, ls) = B(ls)
  BY Zenon, <1>5, EntriesInIs DEF F
<1> QED BY Zenon, <1>4, <1>6

LEMMA WholeFilesShown ==
    ASSUME NEW s, NEW fs \in Seq(Seq(TranscriptLine))
    PROVE  Emb(Entries(s, WholeFiles(fs)), Entries(s, fs))
<1> DEFINE ws == WholeFiles(fs)
           F == Filed(s)
           S == Seq(TranscriptLine)
           T == Seq(Alphabet)
<1>1. ws \in Seq(S) /\ Len(ws) = Len(fs) /\ \A f \in 1 .. Len(fs) : ws[f] = WholeText(fs[f])
  BY Zenon, WholeFilesType
<1>2. Within(F, ws, fs)
  <2>1. \A f \in 1 .. Len(ws) : Emb(F[ws[f]], F[fs[f]])
    <3> TAKE f \in 1 .. Len(ws)
    <3>1. f \in 1 .. Len(fs) /\ ws[f] = WholeText(fs[f])
      BY Zenon, <1>1
    <3>2. ws[f] \in S /\ fs[f] \in S
      <4> HIDE DEF ws, S
      <4>1. fs \in Seq(S)
        BY DEF S
      <4> QED BY <1>1, <3>1, <4>1
    <3>3. F[ws[f]] = EntriesIn(s, ws[f]) /\ F[fs[f]] = EntriesIn(s, fs[f])
      <4> HIDE DEF ws
      <4> QED BY <3>2 DEF Filed
    <3> QED BY Zenon, <3>1, <3>2, <3>3, WholeShown
  <2>2. Len(ws) <= Len(fs)
    <3>1. Len(fs) \in Nat
      OBVIOUS
    <3> HIDE DEF ws
    <3> QED BY <1>1, <3>1
  <2> HIDE DEF F, ws
  <2> QED BY Zenon, <2>1, <2>2 DEF Within
<1>3. Gives(F, S, T)
  BY Zenon, FiledType
<1>4. Emb(FlatMap(F, ws), FlatMap(F, fs))
  <2> HIDE DEF F, ws, S, T
  <2>1. fs \in Seq(S)
    BY DEF S
  <2> QED BY Zenon, <1>1, <1>2, <1>3, <2>1, EmbFlat
<1>5. Entries(s, ws) = FlatMap(F, ws) /\ Entries(s, fs) = FlatMap(F, fs)
  BY Zenon, <1>1, EntriesIs
<1> QED BY Zenon, <1>4, <1>5

\* The entries are texts.
LEMMA EntriesType ==
    ASSUME NEW s, NEW fs \in Seq(Seq(TranscriptLine))
    PROVE  Entries(s, fs) \in Seq(Seq(Alphabet))
<1>1. Gives(Filed(s), Seq(TranscriptLine), Seq(Alphabet))
  BY Zenon, FiledType
<1>2. FlatMap(Filed(s), fs) \in Seq(Seq(Alphabet))
  BY Zenon, <1>1, FlatMapType
<1> QED BY Zenon, <1>2, EntriesIs

\* The plain entries of a while ago are among the entries of now.
LEMMA PlainCount ==
    ASSUME NEW q, NEW s, NEW x \in Seq(Seq(TranscriptLine)), NEW y \in Seq(Seq(TranscriptLine)), FilesGrew(x, y)
    PROVE  Cardinality(Holding(q, Entries(s, WholeFiles(x)))) <= Cardinality(Holding(q, Entries(s, y)))
<1> DEFINE a == Entries(s, WholeFiles(x))
           b == Entries(s, x)
           c == Entries(s, y)
           T == Seq(Alphabet)
<1>1. WholeFiles(x) \in Seq(Seq(TranscriptLine))
  BY Zenon, WholeFilesType
<1>2. a \in Seq(T) /\ b \in Seq(T) /\ c \in Seq(T)
  BY Zenon, <1>1, EntriesType
<1>3. Emb(a, b)
  BY Zenon, WholeFilesShown
<1>4. Emb(b, c)
  BY Zenon, FilesGrewShown
<1> HIDE DEF a, b, c, T
<1>5. Emb(a, c)
  BY Zenon, <1>2, <1>3, <1>4, EmbTrans
<1>6. Cardinality(Holding(q, a)) <= Cardinality(Holding(q, c))
  BY Zenon, <1>2, <1>5, EmbCount
<1> QED BY <1>6 DEF a, c

\* Nor does a transcript lose entries with the text as it grows.
LEMMA EntriesCount ==
    ASSUME NEW q, NEW s, NEW x \in Seq(Seq(TranscriptLine)), NEW y \in Seq(Seq(TranscriptLine)), FilesGrew(x, y)
    PROVE  Cardinality(Holding(q, Entries(s, x))) <= Cardinality(Holding(q, Entries(s, y)))
<1> DEFINE b == Entries(s, x)
           c == Entries(s, y)
           T == Seq(Alphabet)
<1>2. b \in Seq(T) /\ c \in Seq(T)
  BY Zenon, EntriesType
<1>4. Emb(b, c)
  BY Zenon, FilesGrewShown
<1> HIDE DEF b, c, T
<1>6. Cardinality(Holding(q, b)) <= Cardinality(Holding(q, c))
  BY Zenon, <1>2, <1>4, EmbCount
<1> QED BY <1>6 DEF b, c

(***************************************************************************)
(* The hits of a transcript.                                               *)
(***************************************************************************)
\* The position of an entry, if the entry holds the text.
Picked(x, n) == IF Occurs(query, x) THEN <<n>> ELSE <<>>

\* The hits of one entry more.
LEMMA MatchingAppend ==
    ASSUME NEW T, NEW es \in Seq(T), NEW x \in T
    PROVE  /\ Matching(es) \in Seq(Nat)
           /\ Matching(Append(es, x)) = Matching(es) \o Picked(x, Len(es))
<1> DEFINE n == Len(es)
           an == Append(es, x)
           P(u) == [i \in 1 .. Len(u) |-> Picked(u[i], i - 1)]
<1>1. an \in Seq(T) /\ Len(an) = n + 1 /\ an[n + 1] = x /\ (\A i \in 1 .. n : an[i] = es[i])
         /\ n \in Nat
  <2>1. an \in Seq(T) /\ Longer(an, es, x)
    BY Zenon, Appended
  <2>2. n \in Nat
    OBVIOUS
  <2> HIDE DEF an
  <2> QED BY <2>1, <2>2 DEF Longer
<1>2. \A u \in Seq(T) : P(u) \in Seq(Seq(Nat)) /\ Len(P(u)) = Len(u) /\ Matching(u) = FlattenSeq(P(u))
  <2> TAKE u \in Seq(T)
  <2>1. Len(u) \in Nat /\ DOMAIN u = 1 .. Len(u)
    OBVIOUS
  <2>2. \A i \in 1 .. Len(u) : Picked(u[i], i - 1) \in Seq(Nat)
    <3> TAKE i \in 1 .. Len(u)
    <3>1. i - 1 \in Nat
      BY <2>1
    <3>2. <<i - 1>> \in Seq(Nat) /\ <<>> \in Seq(Nat)
      BY <3>1
    <3> QED BY Zenon, <3>2 DEF Picked
  <2>3. P(u) \in Seq(Seq(Nat)) /\ Len(P(u)) = Len(u)
    BY <2>1, <2>2
  <2>4. Matching(u) = FlattenSeq(P(u))
    BY Zenon, <2>1 DEF Matching, Picked
  <2> QED BY Zenon, <2>3, <2>4
<1> DEFINE p == P(es)
           k == Picked(x, n)
           r == P(an)
<1>3. p \in Seq(Seq(Nat)) /\ r \in Seq(Seq(Nat)) /\ Len(p) = n /\ Len(r) = n + 1
         /\ Matching(es) = FlattenSeq(p) /\ Matching(an) = FlattenSeq(r)
  BY Zenon, <1>1, <1>2
<1>4. k \in Seq(Nat)
  <2>1. <<n>> \in Seq(Nat) /\ <<>> \in Seq(Nat)
    BY <1>1
  <2> QED BY Zenon, <2>1 DEF Picked
<1>5. \A i \in 1 .. n : r[i] = p[i]
  <2> TAKE i \in 1 .. n
  <2>1. i \in 1 .. Len(an) /\ i \in 1 .. Len(es) /\ an[i] = es[i]
    <3> HIDE DEF an
    <3> QED BY <1>1
  <2> HIDE DEF an
  <2> QED BY <2>1
<1>6. r[n + 1] = k
  <2> DEFINE m == n + 1
  <2>1. m \in 1 .. Len(an) /\ an[m] = x /\ m - 1 = n
    <3> HIDE DEF an
    <3> QED BY <1>1
  <2>2. r[m] = Picked(an[m], m - 1)
    <3> HIDE DEF an, m
    <3> QED BY <2>1
  <2> HIDE DEF r
  <2> QED BY <2>1, <2>2
<1> HIDE DEF p, k, r, n
<1>7. r = Append(p, k)
  <2>1. Append(p, k) \in Seq(Seq(Nat)) /\ Longer(Append(p, k), p, k)
    BY Zenon, <1>3, <1>4, Appended
  <2> DEFINE w == Append(p, k)
  <2>2. w \in Seq(Seq(Nat)) /\ Len(w) = n + 1 /\ w[n + 1] = k /\ \A i \in 1 .. n : w[i] = p[i]
    BY <1>3, <2>1 DEF Longer
  <2> HIDE DEF w
  <2>3. Len(r) = Len(w) /\ \A i \in 1 .. Len(r) : r[i] = w[i]
    <3>1. n \in Nat
      BY <1>1
    <3>2. Len(r) = n + 1 /\ Len(w) = n + 1
      BY Zenon, <1>3, <2>2
    <3>3. \A i \in 1 .. n + 1 : r[i] = w[i]
      <4> TAKE i \in 1 .. n + 1
      <4>1. i \in 1 .. n \/ i = n + 1
        BY <3>1
      <4> QED BY Zenon, <1>5, <1>6, <2>2, <4>1
    <3> QED BY Zenon, <3>2, <3>3
  <2>4. r = w
    BY <1>3, <2>2, <2>3, SameSeq
  <2> QED BY <2>4 DEF w
<1>8. FlattenSeq(p) \in Seq(Nat) /\ FlattenSeq(Append(p, k)) = FlattenSeq(p) \o k
  BY <1>3, <1>4, FlattenAppend
<1> QED BY Zenon, <1>3, <1>7, <1>8 DEF k, n

\* Each is the position of an entry that holds the text, and there is one for each.
Landing(q, es, hits) == \A k \in 1 .. Len(hits) : hits[k] < Len(es) /\ Occurs(q, es[hits[k] + 1])

\* Matching finds every entry that holds the text, once.
Found(es) ==
    /\ Matching(es) \in Seq(Nat)
    /\ Len(Matching(es)) = Cardinality(Holding(query, es))
    /\ Landing(query, es, Matching(es))

\* By induction over the entries.
LEMMA FoundNone == Found(<<>>)
<1>1. Matching(<<>>) = <<>>
  <2>1. [i \in DOMAIN <<>> |-> IF Occurs(query, <<>>[i]) THEN <<i - 1>> ELSE <<>>] = <<>>
    OBVIOUS
  <2> QED BY Zenon, <2>1, FlattenNone DEF Matching
<1>2. Holding(query, <<>>) = {}
  BY DEF Holding
<1>3. Cardinality({}) = 0
  BY FS_EmptySet
<1>4. <<>> \in Seq(Nat) /\ Len(<<>>) = 0
  OBVIOUS
<1>5. Landing(query, <<>>, <<>>)
  BY DEF Landing
<1> QED BY Zenon, <1>1, <1>2, <1>3, <1>4, <1>5 DEF Found

LEMMA HoldingAppend ==
    ASSUME NEW T, NEW es \in Seq(T), NEW x \in T
    PROVE  /\ Occurs(query, x) => Cardinality(Holding(query, Append(es, x))) = Cardinality(Holding(query, es)) + 1
           /\ ~Occurs(query, x) => Cardinality(Holding(query, Append(es, x))) = Cardinality(Holding(query, es))
<1> DEFINE n == Len(es)
           an == Append(es, x)
           H == Holding(query, es)
           K == Holding(query, an)
<1>1. an \in Seq(T) /\ Len(an) = n + 1 /\ an[n + 1] = x /\ \A i \in 1 .. n : an[i] = es[i]
  <2>1. an \in Seq(T) /\ Longer(an, es, x)
    BY Zenon, Appended
  <2> HIDE DEF an
  <2> QED BY <2>1 DEF Longer
<1>2. n \in Nat
  OBVIOUS
<1>3. IsFiniteSet(H) /\ Cardinality(H) \in Nat
  BY Zenon, HoldingFinite
<1>4. \A i : i \in H <=> i \in 1 .. n /\ Occurs(query, es[i])
  BY DEF Holding
<1>5. \A i : i \in K <=> i \in 1 .. n + 1 /\ Occurs(query, an[i])
  <2> HIDE DEF an
  <2> QED BY <1>1 DEF Holding
<1> HIDE DEF an, H, K, n
<1>6. \A i \in 1 .. n : i \in K <=> i \in H
  <2> TAKE i \in 1 .. n
  <2>1. i \in 1 .. n + 1
    BY <1>2
  <2> QED BY Zenon, <1>1, <1>4, <1>5, <2>1
<1>7. n + 1 \in 1 .. n + 1 /\ n + 1 \notin H
  BY <1>2, <1>4
<1>8. \A i \in 1 .. n + 1 : i \in 1 .. n \/ i = n + 1
  BY <1>2
<1>9. CASE Occurs(query, x)
  <2>1. K = H \cup {n + 1}
    <3>1. n + 1 \in K
      BY Zenon, <1>1, <1>5, <1>7, <1>9
    <3>2. K \subseteq H \cup {n + 1}
      BY Zenon, <1>5, <1>6, <1>8
    <3>3. H \subseteq K
      BY Zenon, <1>4, <1>6
    <3> QED BY Zenon, <3>1, <3>2, <3>3
  <2>2. Cardinality(H \cup {n + 1}) = Cardinality(H) + 1
    BY <1>3, <1>7, FS_AddElement
  <2> QED BY <1>9, <2>1, <2>2 DEF K, H, an
<1>10. CASE ~Occurs(query, x)
  <2>1. K = H
    <3>1. n + 1 \notin K
      BY Zenon, <1>1, <1>5, <1>10
    <3>2. K \subseteq H
      BY Zenon, <1>5, <1>6, <1>8, <3>1
    <3>3. H \subseteq K
      BY Zenon, <1>4, <1>6
    <3> QED BY Zenon, <3>2, <3>3
  <2> QED BY <1>10, <2>1 DEF K, H, an
<1> QED BY Zenon, <1>9, <1>10

LEMMA FoundAppend ==
    ASSUME NEW T, NEW es \in Seq(T), NEW x \in T, Found(es)
    PROVE  Found(Append(es, x))
<1> DEFINE n == Len(es)
           an == Append(es, x)
           m == Matching(es)
           k == Picked(x, n)
           w == Matching(an)
           C == Cardinality(Holding(query, es))
           D == Cardinality(Holding(query, an))
<1>1. an \in Seq(T) /\ Len(an) = n + 1 /\ an[n + 1] = x /\ \A i \in 1 .. n : an[i] = es[i]
  <2>1. an \in Seq(T) /\ Longer(an, es, x)
    BY Zenon, Appended
  <2> HIDE DEF an
  <2> QED BY <2>1 DEF Longer
<1>2. n \in Nat
  OBVIOUS
<1>3. w = m \o k
  BY Zenon, MatchingAppend
<1>4. m \in Seq(Nat) /\ Len(m) = C /\ \A j \in 1 .. Len(m) : m[j] < n /\ Occurs(query, es[m[j] + 1])
  BY Zenon DEF Found, Landing
<1>5. /\ Occurs(query, x) => D = C + 1 /\ k = <<n>>
      /\ ~Occurs(query, x) => D = C /\ k = <<>>
  BY Zenon, HoldingAppend DEF Picked
<1> SUFFICES w \in Seq(Nat) /\ Len(w) = D /\ \A j \in 1 .. Len(w) : w[j] < n + 1 /\ Occurs(query, an[w[j] + 1])
  <2> HIDE DEF w, n
  <2> QED BY Zenon, <1>1 DEF Found, Landing, w, n
<1> HIDE DEF n, an, m, k, w, C, D
<1>6. \A j \in 1 .. Len(m) : m[j] < n + 1 /\ Occurs(query, an[m[j] + 1])
  <2> TAKE j \in 1 .. Len(m)
  <2>1. m[j] \in Nat /\ m[j] < n /\ Occurs(query, es[m[j] + 1])
    BY <1>4
  <2>2. m[j] + 1 \in 1 .. n /\ m[j] < n + 1
    BY <1>2, <2>1
  <2> QED BY Zenon, <1>1, <2>1, <2>2
<1>7. CASE ~Occurs(query, x)
  <2>1. w = m
    BY <1>3, <1>4, <1>5, <1>7
  <2> QED BY Zenon, <1>4, <1>5, <1>6, <1>7, <2>1
<1>8. CASE Occurs(query, x)
  <2>1. k = <<n>> /\ D = C + 1
    BY Zenon, <1>5, <1>8
  <2>2. w = Append(m, n)
    BY <1>2, <1>3, <1>4, <2>1
  <2>3. w \in Seq(Nat) /\ Longer(w, m, n)
    BY Zenon, <1>2, <1>4, <2>2, Appended
  <2>4. Len(w) = Len(m) + 1 /\ w[Len(m) + 1] = n /\ \A j \in 1 .. Len(m) : w[j] = m[j]
    BY Zenon, <2>3 DEF Longer
  <2>5. n < n + 1 /\ Occurs(query, an[n + 1])
    BY <1>1, <1>2, <1>8
  <2>6. \A j \in 1 .. Len(w) : j \in 1 .. Len(m) \/ j = Len(m) + 1
    <3>1. Len(m) \in Nat
      BY <1>4
    <3> QED BY <2>4, <3>1
  <2>7. \A j \in 1 .. Len(w) : w[j] < n + 1 /\ Occurs(query, an[w[j] + 1])
    <3> TAKE j \in 1 .. Len(w)
    <3>1. CASE j \in 1 .. Len(m)
      BY Zenon, <1>6, <2>4, <3>1
    <3>2. CASE j = Len(m) + 1
      BY Zenon, <2>4, <2>5, <3>2
    <3> QED BY Zenon, <2>6, <3>1, <3>2
  <2> QED BY Zenon, <1>4, <2>1, <2>3, <2>4, <2>7
<1> QED BY Zenon, <1>7, <1>8

LEMMA MatchingOf == ASSUME NEW T, NEW es \in Seq(T) PROVE Found(es)
<1> DEFINE G == {r \in Seq(T) : Found(r)}
<1>1. <<>> \in G
  <2>1. <<>> \in Seq(T)
    OBVIOUS
  <2> QED BY Zenon, <2>1, FoundNone
<1>2. \A r \in Seq(T), x \in T : r \in G => Append(r, x) \in G
  <2> TAKE r \in Seq(T), x \in T
  <2> HAVE r \in G
  <2>1. Append(r, x) \in Seq(T)
    BY Zenon, Appended
  <2> QED BY Zenon, <2>1, FoundAppend
<1>3. es \in G
  <2> HIDE DEF G
  <2> QED BY Zenon, <1>1, <1>2, SeqInduct
<1> QED BY Zenon, <1>3

\* A transcript that is only appended to keeps its entries where they are.
Extends(a, b, T) == \E u \in Seq(T) : b = a \o u

\* So a hit leads where it led.
LEMMA LandingKept ==
    ASSUME NEW q, NEW T, NEW es \in Seq(T), NEW fs, Extends(es, fs, T), NEW hits \in Seq(Nat), Landing(q, es, hits)
    PROVE  Landing(q, fs, hits)
<1>1. PICK u \in Seq(T) : fs = es \o u
  BY DEF Extends
<1>2. fs \in Seq(T) /\ Len(fs) = Len(es) + Len(u) /\ \A i \in 1 .. Len(es) : fs[i] = es[i]
  BY Zenon, <1>1, ConcatSeq
<1>3. Len(es) \in Nat /\ Len(u) \in Nat
  OBVIOUS
<1> SUFFICES ASSUME NEW k \in 1 .. Len(hits)
             PROVE  hits[k] < Len(fs) /\ Occurs(q, fs[hits[k] + 1])
  BY DEF Landing
<1>4. hits[k] \in Nat /\ hits[k] < Len(es) /\ Occurs(q, es[hits[k] + 1])
  BY DEF Landing
<1>5. hits[k] + 1 \in 1 .. Len(es)
  BY <1>3, <1>4
<1> QED BY <1>2, <1>3, <1>4, <1>5

(***************************************************************************)
(* What a write makes of the bytes and of the entries of a file.           *)
(***************************************************************************)
\* The types of the bytes and of the entries of a file.
LEMMA BytesType == ASSUME NEW ls \in Seq(TranscriptLine) PROVE Bytes(ls) \in Seq(Alphabet)
<1>1. FlatMap(Stretch, ls) \in Seq(Alphabet)
  BY Zenon, StretchType, FlatMapType
<1> QED BY Zenon, <1>1, BytesIs

LEMMA EntriesInType ==
    ASSUME NEW s, NEW ls \in Seq(TranscriptLine)
    PROVE  EntriesIn(s, ls) \in Seq(Seq(Alphabet))
<1>1. FlatMap(Shown(s), ls) \in Seq(Seq(Alphabet))
  BY Zenon, ShownType, FlatMapType
<1> QED BY Zenon, <1>1, EntriesInIs

\* What a write makes of a file.
Further(s, a, b) ==
    /\ b \in Seq(TranscriptLine)
    /\ FileGrew(a, b)
    /\ Source[s] = "claude_code" =>
          /\ HalfLast(b)
          /\ Extends(Bytes(a), Bytes(b), Alphabet)
          /\ Extends(EntriesIn(s, a), EntriesIn(s, b), Seq(Alphabet))

\* No write, and a line more at the end of a file.
LEMMA ExtendsSame == ASSUME NEW T, NEW a \in Seq(T) PROVE Extends(a, a, T)
<1>1. <<>> \in Seq(T) /\ a = a \o <<>>
  OBVIOUS
<1> QED BY Zenon, <1>1 DEF Extends

LEMMA FileSame ==
    ASSUME NEW s, NEW a \in Seq(TranscriptLine), Source[s] = "claude_code" => HalfLast(a)
    PROVE  Further(s, a, a)
<1>1. FileGrew(a, a)
  <2>1. Len(a) <= Len(a)
    OBVIOUS
  <2>2. \A i \in 1 .. Len(a) : Grew(a[i], a[i])
    <3> TAKE i \in 1 .. Len(a)
    <3>1. a[i] \in TranscriptLine
      OBVIOUS
    <3> QED BY Zenon, <3>1, GrewRefl
  <2> QED BY Zenon, <2>1, <2>2 DEF FileGrew
<1>2. Extends(Bytes(a), Bytes(a), Alphabet) /\ Extends(EntriesIn(s, a), EntriesIn(s, a), Seq(Alphabet))
  BY Zenon, BytesType, EntriesInType, ExtendsSame
<1> QED BY Zenon, <1>1, <1>2 DEF Further

LEMMA FileAppend ==
    ASSUME NEW s, NEW a \in Seq(TranscriptLine), NEW x \in TranscriptLine
    PROVE  /\ Append(a, x) \in Seq(TranscriptLine)
           /\ Bytes(Append(a, x)) = Bytes(a) \o Stretch[x] /\ Stretch[x] \in Seq(Alphabet)
           /\ EntriesIn(s, Append(a, x)) = EntriesIn(s, a) \o Shown(s)[x]
           /\ Shown(s)[x] \in Seq(Seq(Alphabet))
<1>1. Append(a, x) \in Seq(TranscriptLine)
  BY Zenon, Appended
<1>2. Adds(Stretch, TranscriptLine) /\ Adds(Shown(s), TranscriptLine)
  BY Zenon, StretchType, ShownType, FlatMapAdds
<1>3. Bytes(Append(a, x)) = Bytes(a) \o Stretch[x]
  BY Zenon, <1>1, <1>2, BytesIs DEF Adds
<1>4. EntriesIn(s, Append(a, x)) = EntriesIn(s, a) \o Shown(s)[x]
  BY Zenon, <1>1, <1>2, EntriesInIs DEF Adds
<1>5. Stretch[x] \in Seq(Alphabet)
  BY StretchType DEF Gives
<1>6. Shown(s)[x] \in Seq(Seq(Alphabet))
  BY ShownType DEF Gives
<1> QED BY Zenon, <1>1, <1>3, <1>4, <1>5, <1>6

\* A line at the end of a file is a write that keeps what is there.
LEMMA LineAdded ==
    ASSUME NEW s, NEW a \in Seq(TranscriptLine), NEW x \in TranscriptLine,
           Source[s] = "claude_code" => HalfLast(a) /\ (a # <<>> => ~Last(a).half)
    PROVE  Further(s, a, Append(a, x))
<1> DEFINE b == Append(a, x)
           n == Len(a)
<1>1. b \in Seq(TranscriptLine) /\ Len(b) = n + 1 /\ b[n + 1] = x /\ \A i \in 1 .. n : b[i] = a[i]
  <2>1. b \in Seq(TranscriptLine) /\ Longer(b, a, x)
    BY Zenon, Appended
  <2> HIDE DEF b
  <2> QED BY <2>1 DEF Longer
<1>2. n \in Nat
  OBVIOUS
<1>3. FileGrew(a, b)
  <2>1. \A i \in 1 .. Len(a) : Grew(a[i], b[i])
    <3> TAKE i \in 1 .. Len(a)
    <3>1. a[i] \in TranscriptLine
      OBVIOUS
    <3> QED BY Zenon, <1>1, <3>1, GrewRefl
  <2>2. Len(a) <= Len(b)
    <3> HIDE DEF b
    <3> QED BY <1>1, <1>2
  <2> QED BY Zenon, <2>1, <2>2 DEF FileGrew
<1>4. Extends(Bytes(a), Bytes(b), Alphabet) /\ Extends(EntriesIn(s, a), EntriesIn(s, b), Seq(Alphabet))
  <2>1. /\ Bytes(b) = Bytes(a) \o Stretch[x] /\ Stretch[x] \in Seq(Alphabet)
        /\ EntriesIn(s, b) = EntriesIn(s, a) \o Shown(s)[x] /\ Shown(s)[x] \in Seq(Seq(Alphabet))
    BY Zenon, FileAppend
  <2>2. Extends(Bytes(a), Bytes(b), Alphabet)
    BY Zenon, <2>1 DEF Extends
  <2>3. Extends(EntriesIn(s, a), EntriesIn(s, b), Seq(Alphabet))
    BY Zenon, <2>1 DEF Extends
  <2> QED BY Zenon, <2>2, <2>3
<1>5. Source[s] = "claude_code" => HalfLast(b)
  <2> SUFFICES ASSUME HalfLast(a), a # <<>> => ~Last(a).half, NEW i \in DOMAIN b, b[i].half
               PROVE  i = Len(b)
    BY Zenon DEF HalfLast
  <2>1. SUFFICES ASSUME i # n + 1 PROVE FALSE
    BY Zenon, <1>1
  <2>2. i \in 1 .. n
    <3> HIDE DEF b
    <3> QED BY <1>1, <1>2, <2>1
  <2>3. b[i] = a[i] /\ i \in DOMAIN a
    BY <1>1, <2>2
  <2>4. i = n /\ a # <<>>
    BY <2>2, <2>3 DEF HalfLast
  <2> QED BY Zenon, <2>3, <2>4 DEF Last
<1> HIDE DEF b, n
<1>6. Further(s, a, b)
  BY Zenon, <1>1, <1>3, <1>4, <1>5 DEF Further
<1> QED BY <1>6 DEF b

\* The rest of a line.
Finished(l, x) == [l EXCEPT !.half = FALSE, !.blocks = @ \o x.blocks]

\* A line that is finished grows, in the file and on the screen.
LEMMA FinishedLine ==
    ASSUME NEW l \in TranscriptLine, NEW x \in TranscriptLine, l.half
    PROVE  /\ Finished(l, x) \in TranscriptLine /\ ~Finished(l, x).half
           /\ Grew(l, Finished(l, x))
           /\ Stretch[l] = Raw(l) /\ Raw(l) \in Seq(Alphabet)
           /\ Extends(Stretch[l], Stretch[Finished(l, x)], Alphabet)
<1> DEFINE T == Seq(Alphabet)
           u == l.blocks
           v == x.blocks
           m == Finished(l, x)
<1>1. u \in Seq(T) /\ v \in Seq(T) /\ l.kind \in {"text", "composed", "none"} /\ DOMAIN l = {"kind", "blocks", "half"}
  BY DEF TranscriptLine
<1>2. u \o v \in Seq(T)
  BY Zenon, <1>1, ConcatJoint
<1>3. m = [kind |-> l.kind, blocks |-> u \o v, half |-> FALSE]
  <2> DEFINE B == Seq(T)
             e == u \o v
  <2>1. l \in [kind : {"text", "composed", "none"}, blocks : B, half : BOOLEAN]
    BY DEF TranscriptLine
  <2>2. m = [l EXCEPT !.half = FALSE, !.blocks = e]
    BY DEF Finished
  <2> HIDE DEF B, e, m
  <2>3. m = [kind |-> l.kind, blocks |-> e, half |-> FALSE]
    BY <2>1, <2>2
  <2> QED BY Zenon, <2>3 DEF e
<1> HIDE DEF u, v, m, T
<1>4. m.kind = l.kind /\ m.blocks = u \o v /\ m.half = FALSE
  BY <1>3
<1>5. m \in TranscriptLine
  BY <1>1, <1>2, <1>3 DEF TranscriptLine, T
<1>6. Grew(l, m)
  BY Zenon, <1>1, <1>4 DEF Grew, T, u
<1>7. Stretch[l] = Raw(l) /\ Stretch[m] = Raw(m) \o <<"newline">>
  BY <1>4, <1>5 DEF Stretch
<1>8. Raw(l) = FlatMap(Block, u) /\ Raw(m) = FlatMap(Block, u \o v)
  BY Zenon, <1>4, <1>5, RawIs DEF u
<1>9. Gives(Block, T, Alphabet) /\ Joins(Block, T)
  BY Zenon, BlockType, FlatMapJoins DEF T
<1>10. Raw(m) = Raw(l) \o FlatMap(Block, v)
  <2>1. FlatMap(Block, u \o v) = FlatMap(Block, u) \o FlatMap(Block, v)
    BY Zenon, <1>1, <1>9 DEF Joins
  <2> QED BY Zenon, <1>8, <2>1
<1> DEFINE A == Raw(l)
           B == FlatMap(Block, v)
<1>11. A \in Seq(Alphabet) /\ B \in Seq(Alphabet) /\ <<"newline">> \in Seq(Alphabet)
  <2>1. FlatMap(Block, u) \in Seq(Alphabet) /\ FlatMap(Block, v) \in Seq(Alphabet)
    BY Zenon, <1>1, <1>9, FlatMapType
  <2>2. <<"newline">> \in Seq(Alphabet)
    BY InAlphabet
  <2> QED BY Zenon, <1>8, <2>1, <2>2
<1> HIDE DEF A, B
<1>12. (A \o B) \o <<"newline">> = A \o (B \o <<"newline">>) /\ B \o <<"newline">> \in Seq(Alphabet)
  BY <1>11, ThenThen
<1>13. Stretch[m] = A \o (B \o <<"newline">>)
  BY Zenon, <1>7, <1>10, <1>12 DEF A, B
<1>14. Extends(Stretch[l], Stretch[m], Alphabet)
  BY Zenon, <1>7, <1>12, <1>13 DEF Extends, A
<1> QED BY Zenon, <1>4, <1>5, <1>6, <1>7, <1>11, <1>14 DEF m, A

\* Only the last line of a file of Claude Code is half there, so that finishing it
\* adds at the end.
LEMMA LineFinished ==
    ASSUME NEW s, NEW a \in Seq(TranscriptLine), NEW i \in 1 .. Len(a), a[i].half,
           NEW x \in TranscriptLine, Source[s] = "claude_code" => HalfLast(a)
    PROVE  Further(s, a, [a EXCEPT ![i] = Finished(a[i], x)])
<1> DEFINE l == a[i]
           m == Finished(l, x)
           b == [a EXCEPT ![i] = m]
<1>1. l \in TranscriptLine /\ l.half
  OBVIOUS
<1>2. m \in TranscriptLine /\ ~m.half /\ Grew(l, m) /\ Extends(Stretch[l], Stretch[m], Alphabet)
  <2> HIDE DEF l
  <2> QED BY Zenon, <1>1, FinishedLine
<1> HIDE DEF m
<1>3. b \in Seq(TranscriptLine) /\ Len(b) = Len(a) /\ b[i] = m /\ \A j \in 1 .. Len(a) : j # i => b[j] = a[j]
  BY <1>2
<1> HIDE DEF b
<1>4. FileGrew(a, b)
  <2>1. Len(a) <= Len(b)
    BY <1>3
  <2>2. \A j \in 1 .. Len(a) : Grew(a[j], b[j])
    <3> TAKE j \in 1 .. Len(a)
    <3>1. a[j] \in TranscriptLine
      OBVIOUS
    <3>2. CASE j = i
      BY Zenon, <1>2, <1>3, <3>2
    <3>3. CASE j # i
      BY Zenon, <1>3, <3>1, <3>3, GrewRefl
    <3> QED BY Zenon, <3>2, <3>3
  <2> QED BY Zenon, <2>1, <2>2 DEF FileGrew
<1>5. ASSUME Source[s] = "claude_code"
      PROVE  /\ HalfLast(b) /\ Extends(Bytes(a), Bytes(b), Alphabet)
             /\ Extends(EntriesIn(s, a), EntriesIn(s, b), Seq(Alphabet))
  <2>1. HalfLast(a)
    BY <1>5
  <2>2. i = Len(a)
    BY <2>1 DEF HalfLast
  <2>3. HalfLast(b)
    <3> SUFFICES ASSUME NEW j \in DOMAIN b, b[j].half PROVE j = Len(b)
      BY Zenon DEF HalfLast
    <3>1. j \in 1 .. Len(a)
      BY <1>3
    <3>2. CASE j = i
      BY Zenon, <1>2, <1>3, <3>2
    <3>3. CASE j # i
      <4>1. a[j].half /\ j \in DOMAIN a
        BY <1>3, <3>1, <3>3
      <4> QED BY Zenon, <1>3, <2>1, <4>1 DEF HalfLast
    <3> QED BY Zenon, <3>2, <3>3
  <2> DEFINE f == SubSeq(a, 1, i - 1)
  <2>4. f \in Seq(TranscriptLine) /\ Len(f) = i - 1 /\ a = Append(f, l)
    BY <2>2
  <2>5. b = Append(f, m)
    <3>1. \A j \in 1 .. i - 1 : f[j] = a[j]
      BY <2>2
    <3> HIDE DEF f
    <3> DEFINE w == Append(f, m)
    <3>2. w \in Seq(TranscriptLine) /\ Longer(w, f, m)
      BY Zenon, <1>2, <2>4, Appended
    <3> HIDE DEF w
    <3>3. Len(w) = Len(b) /\ i \in Nat /\ i = Len(f) + 1
      BY <1>3, <2>2, <2>4, <3>2 DEF Longer
    <3>4. \A j \in 1 .. Len(b) : b[j] = w[j]
      <4> TAKE j \in 1 .. Len(b)
      <4>1. CASE j = i
        BY Zenon, <1>3, <3>2, <3>3, <4>1 DEF Longer
      <4>2. CASE j # i
        <5>1. j \in 1 .. i - 1 /\ j \in 1 .. Len(a) /\ j \in 1 .. Len(f)
          BY <1>3, <2>2, <2>4, <4>2
        <5> QED BY Zenon, <1>3, <3>1, <3>2, <4>2, <5>1 DEF Longer
      <4> QED BY Zenon, <4>1, <4>2
    <3>5. b = w
      <4>1. b \in Seq(TranscriptLine) /\ w \in Seq(TranscriptLine) /\ Len(b) = Len(w)
        BY Zenon, <1>3, <3>2, <3>3
      <4> QED BY <3>4, <4>1, SameSeq
    <3> QED BY <3>5 DEF w
  <2> HIDE DEF f, l
  <2>6. /\ Bytes(a) = Bytes(f) \o Stretch[l] /\ Bytes(b) = Bytes(f) \o Stretch[m]
        /\ EntriesIn(s, a) = EntriesIn(s, f) \o Shown(s)[l] /\ EntriesIn(s, b) = EntriesIn(s, f) \o Shown(s)[m]
        /\ Stretch[l] \in Seq(Alphabet) /\ Stretch[m] \in Seq(Alphabet)
        /\ Shown(s)[l] \in Seq(Seq(Alphabet)) /\ Shown(s)[m] \in Seq(Seq(Alphabet))
    BY Zenon, <1>1, <1>2, <2>4, <2>5, FileAppend
  <2>7. Bytes(f) \in Seq(Alphabet) /\ EntriesIn(s, f) \in Seq(Seq(Alphabet))
    BY Zenon, <2>4, BytesType, EntriesInType
  <2>8. Extends(Bytes(a), Bytes(b), Alphabet)
    <3>1. PICK u \in Seq(Alphabet) : Stretch[m] = Stretch[l] \o u
      BY Zenon, <1>2 DEF Extends
    <3> DEFINE p == Bytes(f)
               q == Stretch[l]
    <3>2. p \in Seq(Alphabet) /\ q \in Seq(Alphabet)
      BY Zenon, <2>6, <2>7
    <3> HIDE DEF p, q
    <3>3. (p \o q) \o u = p \o (q \o u)
      BY <3>2, ConcatAssoc
    <3>4. Bytes(a) = p \o q /\ Bytes(b) = p \o (q \o u)
      BY Zenon, <2>6, <3>1 DEF p, q
    <3> QED BY Zenon, <3>3, <3>4 DEF Extends
  <2>9. Extends(EntriesIn(s, a), EntriesIn(s, b), Seq(Alphabet))
    <3>1. Shown(s)[l] = <<>>
      BY <1>1, <1>5 DEF Shown, EntriesOf
    <3>2. EntriesIn(s, a) = EntriesIn(s, f)
      <4> DEFINE p == EntriesIn(s, f)
      <4>1. p \in Seq(Seq(Alphabet)) /\ EntriesIn(s, a) = p \o <<>>
        BY Zenon, <2>6, <2>7, <3>1
      <4> HIDE DEF p
      <4>2. p \o <<>> = p
        BY <4>1
      <4> QED BY Zenon, <4>1, <4>2 DEF p
    <3> QED BY Zenon, <2>6, <3>2 DEF Extends
  <2> QED BY Zenon, <2>3, <2>8, <2>9
<1> QED BY Zenon, <1>3, <1>4, <1>5 DEF Further, b, m, l

(***************************************************************************)
(* A search that is right about what it has passed over.                   *)
(***************************************************************************)
\* The files of a session, and the states of a search.
Shelf == Seq(Seq(TranscriptLine))

SearchPC == {"off", "queued", "start", "open", "scan", "rows", "load", "done", "failed"}

SearchState ==
    [pc : SearchPC, file : Nat, read : Nat, buf : Seq(Alphabet), matches : Nat, hits : Seq(Nat)]

\* fastPathOK of a query.
FastQuery(q) == \A i \in DOMAIN q : q[i] # "quote"

\* The first n files, as they were, hold no plain text with the query.
Scanned(q, ws, n) == \A f \in 1 .. n : Clean(q, ws[f])

\* The raw pass over a file: what was read does not hold the query, and the end
\* of it that could start a match is in the buffer.
Reading(q, c, fs, ws) ==
    /\ c.file \in 1 .. Len(fs) /\ Scanned(q, ws, c.file - 1)
    /\ c.read \in 0 .. Len(Bytes(fs[c.file]))
    /\ BufferOf(q, Bytes(fs[c.file]), c.read, c.buf)
    /\ ~Occurs(q, SubSeq(Bytes(fs[c.file]), 1, c.read))

\* A search is right so far: nothing it has passed over holds plain text with the
\* query.
Underway(s, q, c, fs, ws) ==
    /\ c.pc # "off" => q # <<>>
    /\ c.pc \in {"start", "open", "scan", "rows"} => FastQuery(q)
    /\ c.pc \in {"open", "scan"} => Source[s] = "claude_code"
    /\ c.pc \in {"queued", "start"} => c.file = 0
    /\ c.pc = "open" => c.file \in 0 .. Len(fs) /\ Scanned(q, ws, c.file)
    /\ c.pc = "scan" => Reading(q, c, fs, ws)
    /\ c.pc # "done" => c.matches = 0 /\ c.hits = <<>>

\* What a search found, against what there was and what there is.
Outcome(s, q, c, fs, ws, g) ==
    /\ c.pc = "done" => g \/ Cardinality(Holding(q, Entries(s, WholeFiles(ws)))) <= c.matches
    /\ c.matches <= Cardinality(Holding(q, Entries(s, fs)))
    /\ Source[s] = "claude_code" /\ Len(fs) = 1 => Landing(q, Entries(s, fs), c.hits)

\* Only the last line of a Claude Code file may be half there.
HalvesLast(s, fs) == Source[s] = "claude_code" => \A f \in 1 .. Len(fs) : HalfLast(fs[f])

\* The pages so far are the beginning of the transcript.
Gathered(p, es) ==
    /\ p.first <= p.total /\ p.total <= Len(es)
    /\ p.got = SubSeq(es, 1, IF p.offset < p.total THEN p.offset ELSE p.total)

(***************************************************************************)
(* Writing keeps all of it.                                                *)
(***************************************************************************)
\* The files of a session before and after a write.
FilesFurther(s, x, y) ==
    /\ x \in Shelf /\ y \in Shelf /\ Len(y) = Len(x)
    /\ \A f \in 1 .. Len(x) : Further(s, x[f], y[f])

\* A write lets files grow, growing twice is growing, and so is standing still.
LEMMA FurtherGrew == ASSUME NEW s, NEW x, NEW y, FilesFurther(s, x, y) PROVE FilesGrew(x, y)
BY Zenon DEF FilesFurther, Further, FilesGrew

LEMMA FilesGrewTrans ==
    ASSUME NEW x \in Shelf, NEW y \in Shelf, NEW z \in Shelf, FilesGrew(x, y), FilesGrew(y, z)
    PROVE  FilesGrew(x, z)
<1> SUFFICES ASSUME NEW f \in 1 .. Len(x) PROVE FileGrew(x[f], z[f])
  <2>1. Len(x) = Len(z)
    BY Zenon DEF FilesGrew
  <2> QED BY Zenon, <2>1 DEF FilesGrew
<1> DEFINE a == x[f]
           b == y[f]
           c == z[f]
<1>1. f \in 1 .. Len(y) /\ f \in 1 .. Len(z)
  BY Zenon DEF FilesGrew
<1>2. a \in Seq(TranscriptLine) /\ b \in Seq(TranscriptLine) /\ c \in Seq(TranscriptLine)
  BY <1>1 DEF Shelf
<1>3. FileGrew(a, b) /\ FileGrew(b, c)
  BY Zenon, <1>1 DEF FilesGrew
<1> HIDE DEF a, b, c
<1>4. Len(a) \in Nat /\ Len(b) \in Nat /\ Len(c) \in Nat /\ Len(a) <= Len(b) /\ Len(b) <= Len(c)
  BY <1>2, <1>3 DEF FileGrew
<1>5. \A i \in 1 .. Len(a) : Grew(a[i], c[i])
  <2> TAKE i \in 1 .. Len(a)
  <2>1. i \in 1 .. Len(b) /\ i \in 1 .. Len(c)
    BY <1>4
  <2>2. a[i] \in TranscriptLine /\ b[i] \in TranscriptLine /\ c[i] \in TranscriptLine
    BY <1>2, <2>1
  <2>3. Grew(a[i], b[i]) /\ Grew(b[i], c[i])
    BY Zenon, <1>3, <2>1 DEF FileGrew
  <2> QED BY Zenon, <2>2, <2>3, GrewTrans
<1>6. Len(a) <= Len(c)
  BY <1>4
<1>7. FileGrew(a, c)
  BY Zenon, <1>5, <1>6 DEF FileGrew
<1> QED BY <1>7 DEF a, c

LEMMA FilesGrewRefl == ASSUME NEW x \in Shelf PROVE FilesGrew(x, x)
<1>1. \A f \in 1 .. Len(x) : FileGrew(x[f], x[f])
  <2> TAKE f \in 1 .. Len(x)
  <2> DEFINE a == x[f]
  <2>1. a \in Seq(TranscriptLine)
    BY DEF Shelf
  <2> HIDE DEF a
  <2>2. \A i \in 1 .. Len(a) : Grew(a[i], a[i])
    <3> TAKE i \in 1 .. Len(a)
    <3>1. a[i] \in TranscriptLine
      BY <2>1
    <3> QED BY Zenon, <3>1, GrewRefl
  <2>3. Len(a) <= Len(a)
    BY <2>1
  <2>4. FileGrew(a, a)
    BY Zenon, <2>2, <2>3 DEF FileGrew
  <2> QED BY <2>4 DEF a
<1> QED BY Zenon, <1>1 DEF FilesGrew

\* A session of one file shows what the file shows, and writes add at the end of it.
LEMMA OneFile ==
    ASSUME NEW s, NEW x \in Shelf, Len(x) = 1
    PROVE  Entries(s, x) = EntriesIn(s, x[1]) /\ x[1] \in Seq(TranscriptLine)
<1> DEFINE a == x[1]
<1>1. a \in Seq(TranscriptLine) /\ x = <<a>>
  BY DEF Shelf
<1> HIDE DEF a
<1>2. Entries(s, x) = FlatMap(Filed(s), <<a>>)
  BY Zenon, <1>1, EntriesIs DEF Shelf
<1>3. FlatMap(Filed(s), <<a>>) = Filed(s)[a]
  BY Zenon, <1>1, FiledType, FlatMapOne
<1>4. Filed(s)[a] = EntriesIn(s, a)
  BY <1>1 DEF Filed
<1> QED BY <1>1, <1>2, <1>3, <1>4 DEF a

LEMMA OneFileExtends ==
    ASSUME NEW s, NEW x, NEW y, FilesFurther(s, x, y), Source[s] = "claude_code", Len(x) = 1
    PROVE  /\ Entries(s, x) \in Seq(Seq(Alphabet))
           /\ Extends(Entries(s, x), Entries(s, y), Seq(Alphabet))
<1>1. x \in Shelf /\ y \in Shelf /\ Len(y) = 1
  BY Zenon DEF FilesFurther
<1>2. Further(s, x[1], y[1])
  <2>1. 1 \in 1 .. Len(x)
    OBVIOUS
  <2> QED BY Zenon, <2>1 DEF FilesFurther
<1>3. Extends(EntriesIn(s, x[1]), EntriesIn(s, y[1]), Seq(Alphabet))
  BY Zenon, <1>2 DEF Further
<1>4. Entries(s, x) = EntriesIn(s, x[1]) /\ Entries(s, y) = EntriesIn(s, y[1])
  BY Zenon, <1>1, OneFile
<1>5. Entries(s, x) \in Seq(Seq(Alphabet))
  BY Zenon, <1>1, EntriesType DEF Shelf
<1> QED BY Zenon, <1>3, <1>4, <1>5

\* The pass over a file is right about the file after a write,
LEMMA ReadingKept ==
    ASSUME NEW s, NEW q \in Seq(Alphabet), NEW c \in SearchState, NEW ws, NEW x, NEW y,
           FilesFurther(s, x, y), Source[s] = "claude_code", Reading(q, c, x, ws)
    PROVE  Reading(q, c, y, ws)
<1> DEFINE f == c.file
           a == Bytes(x[f])
           b == Bytes(y[f])
           r == c.read
<1>1. f \in 1 .. Len(x) /\ f \in 1 .. Len(y) /\ Scanned(q, ws, f - 1)
  BY Zenon DEF Reading, FilesFurther
<1>2. r \in 0 .. Len(a) /\ BufferOf(q, a, r, c.buf) /\ ~Occurs(q, SubSeq(a, 1, r))
  BY Zenon DEF Reading
<1>3. Extends(a, b, Alphabet)
  BY Zenon, <1>1 DEF FilesFurther, Further
<1>4. PICK u \in Seq(Alphabet) : b = a \o u
  BY Zenon, <1>3 DEF Extends
<1>5. a \in Seq(Alphabet)
  <2>1. x[f] \in Seq(TranscriptLine)
    <3> HIDE DEF f
    <3> QED BY <1>1 DEF FilesFurther, Shelf
  <2> QED BY Zenon, <2>1, BytesType
<1> HIDE DEF f, a, b, r
<1>6. BufferOf(q, b, r, c.buf)
  BY Zenon, <1>2, <1>4, <1>5, BufferKept
<1>7. SubSeq(b, 1, r) = SubSeq(a, 1, r)
  <2>1. 0 \in Nat /\ r \in 0 .. Len(a)
    BY <1>2
  <2>2. SubSeq(a \o u, 0 + 1, r) = SubSeq(a, 0 + 1, r)
    BY Zenon, <1>5, <2>1, StretchKept
  <2>3. 0 + 1 = 1
    OBVIOUS
  <2> QED BY Zenon, <1>4, <2>2, <2>3
<1>8. r \in 0 .. Len(b)
  <2>1. Len(b) = Len(a) + Len(u) /\ Len(a) \in Nat /\ Len(u) \in Nat
    BY <1>4, <1>5
  <2> QED BY <1>2, <2>1
<1> QED BY Zenon, <1>1, <1>2, <1>6, <1>7, <1>8 DEF Reading, f, a, b, r

\* and so is the search as a whole,
LEMMA UnderwayKept ==
    ASSUME NEW s, NEW q \in Seq(Alphabet), NEW c \in SearchState, NEW ws, NEW x, NEW y,
           FilesFurther(s, x, y), Underway(s, q, c, x, ws)
    PROVE  Underway(s, q, c, y, ws)
<1>1. c.pc = "scan" => Reading(q, c, y, ws)
  BY Zenon, ReadingKept DEF Underway
<1>2. Len(y) = Len(x)
  BY Zenon DEF FilesFurther
<1> QED BY Zenon, <1>1, <1>2 DEF Underway

\* what it has found,
LEMMA OutcomeKept ==
    ASSUME NEW s, NEW q \in Seq(Alphabet), NEW c \in SearchState, NEW ws, NEW g, NEW x, NEW y,
           FilesFurther(s, x, y), Outcome(s, q, c, x, ws, g)
    PROVE  Outcome(s, q, c, y, ws, g)
<1> DEFINE m == Cardinality(Holding(q, Entries(s, x)))
           n == Cardinality(Holding(q, Entries(s, y)))
           T == Seq(Alphabet)
           a == Entries(s, x)
           b == Entries(s, y)
<1>1. x \in Shelf /\ y \in Shelf /\ FilesGrew(x, y) /\ Len(y) = Len(x)
  BY Zenon, FurtherGrew DEF FilesFurther
<1>2. m <= n
  BY Zenon, <1>1, EntriesCount DEF Shelf
<1>3. m \in Nat /\ n \in Nat
  <2>1. a \in Seq(T) /\ b \in Seq(T)
    BY Zenon, <1>1, EntriesType DEF Shelf
  <2> HIDE DEF a, b, T
  <2>2. Cardinality(Holding(q, a)) \in Nat /\ Cardinality(Holding(q, b)) \in Nat
    BY Zenon, <2>1, HoldingFinite
  <2> QED BY Zenon, <2>2 DEF a, b
<1>4. c.matches <= n
  <2>1. c.matches <= m /\ c.matches \in Nat
    BY DEF Outcome, SearchState
  <2> HIDE DEF m, n
  <2> QED BY <1>2, <1>3, <2>1
<1>5. Source[s] = "claude_code" /\ Len(y) = 1 => Landing(q, b, c.hits)
  <2> SUFFICES ASSUME Source[s] = "claude_code", Len(y) = 1 PROVE Landing(q, b, c.hits)
    OBVIOUS
  <2>1. a \in Seq(T) /\ Extends(a, b, T)
    BY Zenon, <1>1, OneFileExtends
  <2>2. Landing(q, a, c.hits)
    BY Zenon, <1>1 DEF Outcome
  <2>3. c.hits \in Seq(Nat)
    BY DEF SearchState
  <2> HIDE DEF a, b, T
  <2> QED BY Zenon, <2>1, <2>2, <2>3, LandingKept
<1> QED BY Zenon, <1>4, <1>5 DEF Outcome

\* and what a reader has got.
LEMMA GatheredKept ==
    ASSUME NEW T, NEW a \in Seq(T), NEW b, Extends(a, b, T), NEW p,
           p.first \in Nat, p.total \in Nat, p.offset \in Nat, Gathered(p, a)
    PROVE  Gathered(p, b)
<1>1. PICK u \in Seq(T) : b = a \o u
  BY Zenon DEF Extends
<1>2. Len(b) = Len(a) + Len(u) /\ Len(a) \in Nat /\ Len(u) \in Nat
  BY <1>1
<1> DEFINE n == IF p.offset < p.total THEN p.offset ELSE p.total
<1>3. p.first <= p.total /\ p.total <= Len(a) /\ p.got = SubSeq(a, 1, n)
  BY DEF Gathered
<1>4. n \in 0 .. Len(a)
  BY <1>2, <1>3
<1> HIDE DEF n
<1>5. SubSeq(b, 1, n) = SubSeq(a, 1, n)
  <2>1. 0 \in Nat /\ n \in 0 .. Len(a)
    BY <1>4
  <2>2. SubSeq(a \o u, 0 + 1, n) = SubSeq(a, 0 + 1, n)
    BY Zenon, <2>1, StretchKept
  <2>3. 0 + 1 = 1
    OBVIOUS
  <2> QED BY Zenon, <1>1, <2>2, <2>3
<1>6. p.total <= Len(b)
  BY <1>2, <1>3
<1> QED BY <1>3, <1>5, <1>6 DEF Gathered, n

\* A page more is the beginning of the transcript again.
LEMMA GatheredMore ==
    ASSUME NEW T, NEW a \in Seq(T), NEW p, NEW r, NEW size \in Nat,
           p.first \in Nat, p.total \in Nat, p.offset \in Nat, p.offset <= p.total, Gathered(p, a),
           r.first \in {p.first, p.total, Len(a)}, r.offset = p.offset + size, r.total = Len(a),
           r.got = p.got \o Page(a, p.offset, size)
    PROVE  Gathered(r, a)
<1> DEFINE o == p.offset
           m == r.offset
           n == IF Len(a) < m THEN Len(a) ELSE m
<1>1. Len(a) \in Nat
  OBVIOUS
<1>2. p.first <= p.total /\ p.total <= Len(a)
  BY DEF Gathered
<1>3. o \in Nat /\ o <= Len(a) /\ m = o + size
  BY <1>1, <1>2
<1>4. p.got = SubSeq(a, 1, o)
  BY DEF Gathered
<1>5. Page(a, o, size) = SubSeq(a, o + 1, n)
  BY Zenon DEF Page
<1>6. n \in o .. Len(a) /\ o \in 0 .. Len(a)
  BY <1>1, <1>3
<1> HIDE DEF o, n, m
<1>7. SubSeq(a, 1, o) \o SubSeq(a, o + 1, n) = SubSeq(a, 1, n)
  <2>1. 0 \in Nat
    OBVIOUS
  <2>2. SubSeq(a, 0 + 1, o) \o SubSeq(a, o + 1, n) = SubSeq(a, 0 + 1, n)
    BY Zenon, <1>6, <2>1, StretchJoin
  <2>3. 0 + 1 = 1
    OBVIOUS
  <2> QED BY Zenon, <2>2, <2>3
<1>8. r.got = SubSeq(a, 1, n)
  BY Zenon, <1>4, <1>5, <1>7 DEF o
<1>9. n = IF m < Len(a) THEN m ELSE Len(a)
  BY <1>1, <1>3 DEF n
<1>10. r.first <= r.total /\ r.total <= Len(a)
  BY <1>1, <1>2
<1>11. n = IF r.offset < r.total THEN r.offset ELSE r.total
  BY Zenon, <1>9 DEF m
<1> QED BY Zenon, <1>8, <1>10, <1>11 DEF Gathered

(***************************************************************************)
(* The steps of a search, one by one.                                      *)
(***************************************************************************)
\* The search of a session stands in a right state.
Good(s, c) ==
    /\ c \in SearchState
    /\ Underway(s, query, c, files[s], was[s])
    /\ Outcome(s, query, c, files[s], was[s], s \in gone)

\* One step takes it to another right one.
Advance(s) == \E c : Good(s, c) /\ scan' = [scan EXCEPT ![s] = c]

\* What the steps of a search rely on.
Searchable(s) ==
    /\ s \in Sessions /\ query \in Seq(Alphabet)
    /\ files[s] \in Shelf /\ was[s] \in Shelf
    /\ FilesGrew(was[s], files[s])
    /\ scan \in [Sessions -> SearchState]
    /\ Good(s, scan[s])

\* A search that found nothing is right when there is nothing to find, or nothing
\* yet.
LEMMA CountNat ==
    ASSUME NEW s, NEW q, NEW fs \in Shelf
    PROVE  Cardinality(Holding(q, Entries(s, fs))) \in Nat
<1> DEFINE a == Entries(s, fs)
           T == Seq(Alphabet)
<1>1. a \in Seq(T)
  BY Zenon, EntriesType DEF Shelf
<1> HIDE DEF a, T
<1>2. Cardinality(Holding(q, a)) \in Nat
  BY Zenon, <1>1, HoldingFinite
<1> QED BY <1>2 DEF a

LEMMA OutcomeNone ==
    ASSUME NEW s, NEW q, NEW c, NEW fs \in Shelf, NEW ws, NEW g, c.matches = 0, c.hits = <<>>,
           c.pc = "done" => g \/ Cardinality(Holding(q, Entries(s, WholeFiles(ws)))) = 0
    PROVE  Outcome(s, q, c, fs, ws, g)
<1> DEFINE n == Cardinality(Holding(q, Entries(s, fs)))
           m == Cardinality(Holding(q, Entries(s, WholeFiles(ws))))
<1>1. n \in Nat
  BY Zenon, CountNat
<1>2. Landing(q, Entries(s, fs), c.hits)
  <2>1. Len(<<>>) = 0
    OBVIOUS
  <2> QED BY <2>1 DEF Landing
<1> HIDE DEF n, m
<1>3. c.matches <= n
  BY <1>1
<1>4. c.pc = "done" => g \/ m <= c.matches
  BY DEF m
<1> QED BY Zenon, <1>2, <1>3, <1>4 DEF Outcome, m, n

\* Files that were all passed over have no plain entry with the text.
LEMMA NonePlain ==
    ASSUME NEW s, NEW ws \in Shelf, Scanned(query, ws, Len(ws))
    PROVE  Cardinality(Holding(query, Entries(s, WholeFiles(ws)))) = 0
<1>1. Holding(query, Entries(s, WholeFiles(ws))) = {}
  BY Zenon, NothingPlain DEF Scanned, Shelf
<1> QED BY Zenon, <1>1, FS_EmptySet

\* A step to another place of the program.
Moved(c, p) == [c EXCEPT !.pc = p]

LEMMA MovedIs ==
    ASSUME NEW c \in SearchState, NEW p \in SearchPC
    PROVE  /\ Moved(c, p) \in SearchState /\ Moved(c, p).pc = p /\ Moved(c, p).file = c.file
           /\ Moved(c, p).matches = c.matches /\ Moved(c, p).hits = c.hits
           /\ Moved(c, p).read = c.read /\ Moved(c, p).buf = c.buf
BY DEF Moved, SearchState

LEMMA GotoIs ==
    ASSUME NEW s \in Sessions, scan \in [Sessions -> SearchState], NEW p, Goto(s, p)
    PROVE  scan' = [scan EXCEPT ![s] = Moved(scan[s], p)]
BY DEF Goto, Moved

LEMMA GotoMoves ==
    ASSUME NEW s, Searchable(s), NEW p, Goto(s, p)
    PROVE  scan' = [scan EXCEPT ![s] = Moved(scan[s], p)]
BY Zenon, GotoIs DEF Searchable

\* A step that only moves on, and not into a file.
LEMMA MoveOn ==
    ASSUME NEW s, Searchable(s), NEW p \in SearchPC, scan' = [scan EXCEPT ![s] = Moved(scan[s], p)],
           scan[s].pc \notin {"off", "done"}, p \notin {"off", "open", "scan"},
           p \in {"start", "rows"} => FastQuery(query),
           p \in {"queued", "start"} => scan[s].file = 0,
           p = "done" => s \in gone \/ Scanned(query, was[s], Len(was[s]))
    PROVE  Advance(s)
<1> DEFINE c == scan[s]
           d == Moved(c, p)
           fs == files[s]
           ws == was[s]
           g == s \in gone
<1>1. s \in Sessions /\ fs \in Shelf /\ ws \in Shelf /\ scan \in [Sessions -> SearchState] /\ Good(s, c)
  BY Zenon DEF Searchable
<1>2. c \in SearchState
  BY Zenon, <1>1 DEF Good
<1>3. scan' = [scan EXCEPT ![s] = d]
  OBVIOUS
<1>4. d \in SearchState /\ d.pc = p /\ d.file = c.file /\ d.matches = c.matches /\ d.hits = c.hits
  BY Zenon, <1>2, MovedIs
<1>5. Underway(s, query, c, fs, ws)
  BY Zenon, <1>1 DEF Good
<1>6. c.matches = 0 /\ c.hits = <<>> /\ query # <<>>
  BY Zenon, <1>5 DEF Underway
<1>7. p = "done" => g \/ Cardinality(Holding(query, Entries(s, WholeFiles(ws)))) = 0
  BY Zenon, <1>1, NonePlain
<1>8. Outcome(s, query, d, fs, ws, g)
  <2> HIDE DEF d, fs, ws, g
  <2> QED BY Zenon, <1>1, <1>4, <1>6, <1>7, OutcomeNone
<1>9. Underway(s, query, d, fs, ws)
  <2> HIDE DEF d, fs, ws, g
  <2> QED BY <1>4, <1>6 DEF Underway
<1> QED BY Zenon, <1>3, <1>4, <1>8, <1>9 DEF Advance, Good

\* And one that moves on to something of its own.
LEMMA MoveTo ==
    ASSUME NEW s, Searchable(s), scan[s].pc \notin {"off", "done"},
           NEW d \in SearchState, scan' = [scan EXCEPT ![s] = d],
           d.matches = 0, d.hits = <<>>, d.pc \in {"open", "scan", "load"},
           d.pc # "load" => FastQuery(query) /\ Source[s] = "claude_code",
           d.pc = "open" => d.file \in 0 .. Len(files[s]) /\ Scanned(query, was[s], d.file),
           d.pc = "scan" => Reading(query, d, files[s], was[s])
    PROVE  Advance(s)
<1> DEFINE c == scan[s]
           fs == files[s]
           ws == was[s]
           g == s \in gone
<1>1. fs \in Shelf /\ Good(s, c)
  BY Zenon DEF Searchable
<1>2. query # <<>>
  <2>1. Underway(s, query, c, fs, ws)
    BY Zenon, <1>1 DEF Good
  <2> QED BY Zenon, <2>1 DEF Underway
<1>3. Outcome(s, query, d, fs, ws, g)
  <2>1. d.pc # "done"
    OBVIOUS
  <2> HIDE DEF fs, ws, g
  <2> QED BY Zenon, <1>1, <2>1, OutcomeNone
<1>4. Underway(s, query, d, fs, ws)
  BY <1>2 DEF Underway
<1> QED BY Zenon, <1>3, <1>4 DEF Advance, Good

\* The query tells whether the raw pass is run.
LEMMA SearchAdvances == ASSUME NEW s, Searchable(s), Search(s) PROVE Advance(s)
<1> DEFINE p == IF fastPathOK THEN "start" ELSE "load"
<1>1. scan[s].pc = "queued" /\ Goto(s, p)
  BY Zenon DEF Search
<1>2. p \in SearchPC /\ p \in {"start", "load"} /\ (p = "start" => FastQuery(query))
  BY DEF SearchPC, FastQuery, fastPathOK
<1>3. scan[s].file = 0
  BY Zenon, <1>1 DEF Searchable, Good, Underway
<1>5. scan' = [scan EXCEPT ![s] = Moved(scan[s], p)]
  BY Zenon, <1>1, GotoMoves
<1> HIDE DEF p
<1>4. /\ scan[s].pc \notin {"off", "done"} /\ p \notin {"off", "open", "scan"}
      /\ p \in {"start", "rows"} => FastQuery(query)
      /\ p # "done"
  BY <1>1, <1>2
<1> QED BY Zenon, <1>1, <1>2, <1>3, <1>4, <1>5, MoveOn

\* A session that is gone fails; one in files starts with the first of them.
LEMMA RawMatchAdvances == ASSUME NEW s, Searchable(s), rawMatch(s) PROVE Advance(s)
<1> DEFINE p == IF ~Locate(s) THEN "failed" ELSE IF Source[s] = "claude_code" THEN "open" ELSE "rows"
           c == scan[s]
<1>1. c.pc = "start" /\ Goto(s, p)
  BY Zenon DEF rawMatch
<1>2. p \in {"failed", "open", "rows"} /\ (p = "open" => Source[s] = "claude_code")
  OBVIOUS
<1>3. FastQuery(query) /\ c.file = 0 /\ c.matches = 0 /\ c.hits = <<>> /\ c \in SearchState
  BY <1>1 DEF Searchable, Good, Underway
<1>6. scan' = [scan EXCEPT ![s] = Moved(c, p)]
  BY Zenon, <1>1, GotoMoves
<1> HIDE DEF p
<1>4. CASE p # "open"
  <2>1. /\ p \in SearchPC /\ scan[s].pc \notin {"off", "done"} /\ p \notin {"off", "open", "scan"}
        /\ p # "done" /\ p \notin {"queued", "start"}
    BY <1>1, <1>2, <1>4 DEF SearchPC
  <2> QED BY Zenon, <1>1, <1>3, <1>6, <2>1, MoveOn
<1>5. CASE p = "open"
  <2> DEFINE d == Moved(c, p)
  <2>1. p \in SearchPC
    BY <1>5 DEF SearchPC
  <2>2. d \in SearchState /\ d.pc = "open" /\ d.file = 0 /\ d.matches = 0 /\ d.hits = <<>>
    BY Zenon, <1>3, <1>5, <2>1, MovedIs
  <2>3. scan' = [scan EXCEPT ![s] = d]
    BY Zenon, <1>6
  <2>4. 0 \in 0 .. Len(files[s]) /\ Scanned(query, was[s], 0)
    <3>1. files[s] \in Shelf
      BY Zenon DEF Searchable
    <3> QED BY <3>1 DEF Scanned, Shelf
  <2>5. c.pc \notin {"off", "done"}
    BY <1>1
  <2> HIDE DEF d
  <2>6. d.pc \in {"open", "scan", "load"} /\ d.pc # "scan"
    BY <2>2
  <2> QED BY Zenon, <1>2, <1>3, <1>5, <2>2, <2>3, <2>4, <2>5, <2>6, MoveTo
<1> QED BY Zenon, <1>4, <1>5

\* One field at a time.
PutFile(c, f) == [c EXCEPT !.file = f]
PutRead(c, r) == [c EXCEPT !.read = r]
PutBuf(c, u) == [c EXCEPT !.buf = u]

Same(d, c) == d.matches = c.matches /\ d.hits = c.hits

LEMMA PutFileIs ==
    ASSUME NEW c \in SearchState, NEW f \in Nat
    PROVE  /\ PutFile(c, f) \in SearchState /\ PutFile(c, f).file = f
           /\ PutFile(c, f).pc = c.pc /\ PutFile(c, f).read = c.read /\ PutFile(c, f).buf = c.buf
           /\ Same(PutFile(c, f), c)
BY DEF PutFile, SearchState, Same

LEMMA PutReadIs ==
    ASSUME NEW c \in SearchState, NEW r \in Nat
    PROVE  /\ PutRead(c, r) \in SearchState /\ PutRead(c, r).read = r
           /\ PutRead(c, r).pc = c.pc /\ PutRead(c, r).file = c.file /\ PutRead(c, r).buf = c.buf
           /\ Same(PutRead(c, r), c)
BY DEF PutRead, SearchState, Same

LEMMA PutBufIs ==
    ASSUME NEW c \in SearchState, NEW u \in Seq(Alphabet)
    PROVE  /\ PutBuf(c, u) \in SearchState /\ PutBuf(c, u).buf = u
           /\ PutBuf(c, u).pc = c.pc /\ PutBuf(c, u).file = c.file /\ PutBuf(c, u).read = c.read
           /\ Same(PutBuf(c, u), c)
BY DEF PutBuf, SearchState, Same

\* The end of a file, or of the raw pass.
Stopped(c, p) == PutRead(PutBuf(Moved(c, p), <<>>), 0)

LEMMA StoppedIs ==
    ASSUME NEW c \in SearchState, NEW p \in SearchPC
    PROVE  /\ Stopped(c, p) \in SearchState /\ Stopped(c, p).pc = p
           /\ Stopped(c, p).file = c.file /\ Same(Stopped(c, p), c)
<1> DEFINE x == Moved(c, p)
           y == PutBuf(x, <<>>)
           z == PutRead(y, 0)
<1>1. x \in SearchState /\ x.pc = p /\ x.file = c.file /\ Same(x, c)
  BY Zenon, MovedIs DEF Same
<1>2. <<>> \in Seq(Alphabet) /\ 0 \in Nat
  OBVIOUS
<1> HIDE DEF x
<1>3. y \in SearchState /\ y.pc = p /\ y.file = c.file /\ Same(y, x)
  BY Zenon, <1>1, <1>2, PutBufIs
<1> HIDE DEF y
<1>4. z \in SearchState /\ z.pc = p /\ z.file = c.file /\ Same(z, y)
  BY Zenon, <1>2, <1>3, PutReadIs
<1> HIDE DEF z
<1>5. Same(z, c)
  BY Zenon, <1>1, <1>3, <1>4 DEF Same
<1> QED BY Zenon, <1>4, <1>5 DEF x, y, z, Stopped

\* The pass over a file ends, and has found nothing in it, before the next is
\* opened.
LEMMA OpenFileAdvances == ASSUME NEW s, Searchable(s), OpenFile(s) PROVE Advance(s)
<1> DEFINE c == scan[s]
           fs == files[s]
           ws == was[s]
           E(x) == IF x.file = Len(fs) THEN Moved(x, "done")
                   ELSE IF s \in gone THEN Moved(x, "failed")
                   ELSE [x EXCEPT !.pc = "scan", !.file = scan[s].file + 1, !.read = 0, !.buf = <<>>]
<1>1. c.pc = "open" /\ s \in Sessions /\ scan \in [Sessions -> SearchState]
  BY Zenon DEF OpenFile, Searchable
<1>2. scan' = [scan EXCEPT ![s] = E(c)]
  <2>1. scan' = [scan EXCEPT ![s] = E(@)]
    BY Zenon DEF OpenFile, Moved
  <2> HIDE DEF E
  <2> QED BY <1>1, <2>1
<1>3. /\ c \in SearchState /\ c.file \in 0 .. Len(fs) /\ Scanned(query, ws, c.file)
      /\ FastQuery(query) /\ Source[s] = "claude_code" /\ query # <<>> /\ c.matches = 0 /\ c.hits = <<>>
  <2>1. c \in SearchState /\ Underway(s, query, c, fs, ws)
    BY Zenon DEF Searchable, Good
  <2>2. /\ c.pc = "open" /\ c.pc # "off" /\ c.pc # "done" /\ c.pc \in {"open", "scan"}
        /\ c.pc \in {"start", "open", "scan", "rows"}
    BY <1>1
  <2> QED BY Zenon, <2>1, <2>2 DEF Underway
<1>4. fs \in Shelf /\ ws \in Shelf /\ Len(ws) = Len(fs) /\ query \in Seq(Alphabet)
  BY Zenon DEF Searchable, FilesGrew
<1>5. CASE c.file = Len(fs)
  <2>1. scan' = [scan EXCEPT ![s] = Moved(c, "done")]
    BY Zenon, <1>2, <1>5
  <2>2. Scanned(query, ws, Len(ws))
    BY Zenon, <1>3, <1>4, <1>5
  <2>3. /\ "done" \in SearchPC /\ c.pc \notin {"off", "done"}
        /\ "done" \notin {"off", "open", "scan"} /\ "done" \notin {"start", "rows"} /\ "done" \notin {"queued", "start"}
    BY <1>1 DEF SearchPC
  <2> QED BY Zenon, <2>1, <2>2, <2>3, MoveOn
<1>6. CASE c.file # Len(fs) /\ s \in gone
  <2>1. scan' = [scan EXCEPT ![s] = Moved(c, "failed")]
    BY Zenon, <1>2, <1>6
  <2>3. /\ "failed" \in SearchPC /\ c.pc \notin {"off", "done"}
        /\ "failed" \notin {"off", "open", "scan"} /\ "failed" \notin {"start", "rows"}
        /\ "failed" \notin {"queued", "start"} /\ "failed" # "done"
    BY <1>1 DEF SearchPC
  <2> QED BY Zenon, <2>1, <2>3, MoveOn
<1>7. CASE c.file # Len(fs) /\ s \notin gone
  <2> DEFINE k == c.file + 1
             d == [c EXCEPT !.pc = "scan", !.file = k, !.read = 0, !.buf = <<>>]
  <2>1. scan' = [scan EXCEPT ![s] = d]
    BY Zenon, <1>2, <1>7
  <2>2. /\ d \in SearchState /\ d.pc = "scan" /\ d.file = c.file + 1 /\ d.read = 0 /\ d.buf = <<>>
        /\ d.matches = 0 /\ d.hits = <<>>
    <3>1. "scan" \in SearchPC /\ <<>> \in Seq(Alphabet) /\ 0 \in Nat
      BY DEF SearchPC
    <3>2. k \in Nat
      <4>1. Len(fs) \in Nat
        BY <1>4 DEF Shelf
      <4> QED BY <1>3, <4>1
    <3> DEFINE x == Moved(c, "scan")
               y == PutFile(x, k)
               z == PutRead(y, 0)
               w == PutBuf(z, <<>>)
    <3>3. d = w
      BY Zenon DEF Moved, PutFile, PutRead, PutBuf
    <3> HIDE DEF d, k
    <3>5. x \in SearchState /\ x.pc = "scan" /\ x.matches = 0 /\ x.hits = <<>>
      BY Zenon, <1>3, <3>1, MovedIs
    <3> HIDE DEF x
    <3>6. y \in SearchState /\ y.pc = "scan" /\ y.file = k /\ y.matches = 0 /\ y.hits = <<>>
      BY Zenon, <3>2, <3>5, PutFileIs DEF Same
    <3> HIDE DEF y
    <3>7. z \in SearchState /\ z.pc = "scan" /\ z.file = k /\ z.read = 0 /\ z.matches = 0 /\ z.hits = <<>>
      BY Zenon, <3>1, <3>6, PutReadIs DEF Same
    <3> HIDE DEF z
    <3>4. /\ w \in SearchState /\ w.pc = "scan" /\ w.file = k /\ w.read = 0 /\ w.buf = <<>>
          /\ w.matches = 0 /\ w.hits = <<>>
      BY Zenon, <3>1, <3>7, PutBufIs DEF Same
    <3> HIDE DEF w
    <3> QED BY Zenon, <3>3, <3>4 DEF k
  <2> HIDE DEF d
  <2>3. Reading(query, d, fs, ws)
    <3>1. Len(fs) \in Nat
      BY <1>4 DEF Shelf
    <3>2. d.file \in 1 .. Len(fs) /\ d.file - 1 = c.file
      BY <1>3, <1>7, <2>2, <3>1
    <3> DEFINE b == Bytes(fs[d.file])
    <3>3. b \in Seq(Alphabet)
      <4>1. fs[d.file] \in Seq(TranscriptLine)
        BY <1>4, <3>2 DEF Shelf
      <4> QED BY Zenon, <4>1, BytesType
    <3> HIDE DEF b
    <3>4. SubSeq(b, 1, 0) = <<>> /\ 0 \in 0 .. Len(b) /\ 0 \in 0 .. 0 /\ 0 + 1 = 1
      BY <3>3
    <3>5. BufferOf(query, b, 0, <<>>)
      BY Zenon, <3>4 DEF BufferOf
    <3>6. ~Occurs(query, <<>>)
      <4>1. Len(query) \in Nat \ {0}
        BY <1>3, <1>4
      <4> QED BY <4>1 DEF Occurs
    <3> QED BY Zenon, <1>3, <2>2, <3>2, <3>4, <3>5, <3>6 DEF Reading, b
  <2>4. c.pc \notin {"off", "done"} /\ d.pc \in {"open", "scan", "load"} /\ d.pc # "open"
    BY <1>1, <2>2
  <2> QED BY Zenon, <1>3, <2>1, <2>2, <2>3, <2>4, MoveTo
<1> QED BY Zenon, <1>5, <1>6, <1>7

\* What the pass over a file relies on.
LEMMA SearchingFile ==
    ASSUME NEW s, Searchable(s), scan[s].pc = "scan"
    PROVE  /\ scan[s] \in SearchState /\ Reading(query, scan[s], files[s], was[s])
           /\ FastQuery(query) /\ Source[s] = "claude_code" /\ query # <<>>
           /\ scan[s].matches = 0 /\ scan[s].hits = <<>>
           /\ Bytes(files[s][scan[s].file]) \in Seq(Alphabet)
           /\ File(s, scan[s].file) = Bytes(files[s][scan[s].file])
<1> DEFINE c == scan[s]
<1>1. c \in SearchState /\ Underway(s, query, c, files[s], was[s])
  BY Zenon DEF Searchable, Good
<1>2. c.pc # "off" /\ c.pc # "done" /\ c.pc \in {"open", "scan"} /\ c.pc \in {"start", "open", "scan", "rows"}
  OBVIOUS
<1>3. /\ Reading(query, c, files[s], was[s]) /\ FastQuery(query) /\ Source[s] = "claude_code"
      /\ query # <<>> /\ c.matches = 0 /\ c.hits = <<>>
  BY Zenon, <1>1, <1>2 DEF Underway
<1> HIDE DEF c
<1>4. files[s] \in Shelf /\ c.file \in 1 .. Len(files[s])
  BY Zenon, <1>3 DEF Searchable, Reading
<1>5. files[s][c.file] \in Seq(TranscriptLine)
  BY <1>4 DEF Shelf
<1>6. Bytes(files[s][c.file]) \in Seq(Alphabet)
  BY Zenon, <1>5, BytesType
<1> QED BY Zenon, <1>1, <1>3, <1>6 DEF c, File

\* A read moves on without missing a match that straddles it.
LEMMA ReadChunkAdvances == ASSUME NEW s, Searchable(s), ReadChunk(s) PROVE Advance(s)
<1> DEFINE c == scan[s]
           fs == files[s]
           ws == was[s]
           b == Bytes(fs[c.file])
           r == c.read
<1>1. c.pc = "scan" /\ s \in Sessions /\ scan \in [Sessions -> SearchState]
  BY Zenon DEF ReadChunk, Searchable
<1>2. /\ c \in SearchState /\ Reading(query, c, fs, ws) /\ FastQuery(query) /\ Source[s] = "claude_code"
      /\ c.matches = 0 /\ c.hits = <<>> /\ b \in Seq(Alphabet) /\ File(s, c.file) = b
  BY Zenon, <1>1, SearchingFile
<1>3. PICK n \in 1 .. Room(s) :
        /\ r + n <= Len(b)
        /\ scan' = [scan EXCEPT ![s] =
              IF Occurs(query, c.buf \o SubSeq(b, r + 1, r + n))
              THEN [@ EXCEPT !.pc = "load", !.buf = <<>>, !.read = 0]
              ELSE [@ EXCEPT !.buf = Carry(c.buf \o SubSeq(b, r + 1, r + n)), !.read = r + n]]
  BY Zenon, <1>2 DEF ReadChunk
<1> DEFINE k == c.buf \o SubSeq(b, r + 1, r + n)
<1>4. CASE Occurs(query, k)
  <2> DEFINE d == [c EXCEPT !.pc = "load", !.buf = <<>>, !.read = 0]
  <2>1. scan' = [scan EXCEPT ![s] = d]
    <3>1. scan' = [scan EXCEPT ![s] = [@ EXCEPT !.pc = "load", !.buf = <<>>, !.read = 0]]
      BY Zenon, <1>3, <1>4
    <3> QED BY <1>1, <3>1
  <2>2. d \in SearchState /\ d.pc = "load" /\ d.matches = 0 /\ d.hits = <<>>
    <3>1. "load" \in SearchPC /\ <<>> \in Seq(Alphabet) /\ 0 \in Nat /\ c.file \in Nat
      BY <1>2 DEF SearchPC, SearchState
    <3>2. d = Stopped(c, "load")
      BY Zenon DEF Stopped, Moved, PutBuf, PutRead
    <3> HIDE DEF d
    <3>3. d \in SearchState /\ d.pc = "load" /\ Same(d, c)
      BY Zenon, <1>2, <3>1, <3>2, StoppedIs
    <3> QED BY Zenon, <1>2, <3>3 DEF Same
  <2> HIDE DEF d
  <2>3. c.pc \notin {"off", "done"} /\ d.pc \in {"open", "scan", "load"} /\ d.pc # "open" /\ d.pc # "scan"
    BY <1>1, <2>2
  <2> QED BY Zenon, <2>1, <2>2, <2>3, MoveTo
<1>5. CASE ~Occurs(query, k)
  <2> DEFINE kk == Carry(k)
             d == [c EXCEPT !.buf = kk, !.read = r + n]
  <2>1. scan' = [scan EXCEPT ![s] = d]
    <3>1. scan' = [scan EXCEPT ![s] = [@ EXCEPT !.buf = kk, !.read = r + n]]
      BY Zenon, <1>3, <1>5
    <3> HIDE DEF kk
    <3> QED BY <1>1, <3>1
  <2>2. r \in Nat /\ n \in Nat /\ r + n \in 0 .. Len(b) /\ r + n <= Len(b)
    <3>1. r \in Nat /\ Room(s) \in Int
      <4>1. Chunk \in Nat /\ Len(query) \in Nat /\ Len(c.buf) \in Nat
        BY <1>2, SearchAssumption DEF Searchable, SearchState
      <4> QED BY <1>2, <4>1 DEF Room, Keep, SearchState
    <3>2. Len(b) \in Nat
      BY <1>2
    <3> HIDE DEF b, r
    <3> QED BY <1>3, <3>1, <3>2
  <2>3. /\ BufferOf(query, b, r, c.buf) /\ ~Occurs(query, SubSeq(b, 1, r))
        /\ c.file \in 1 .. Len(fs) /\ Scanned(query, ws, c.file - 1)
    BY Zenon, <1>2 DEF Reading
  <2>4. query \in Seq(Alphabet)
    BY Zenon DEF Searchable
  <2>5. BufferOf(query, b, r + n, kk)
    <3> HIDE DEF b, r
    <3> QED BY Zenon, <1>2, <2>2, <2>3, <2>4, CarryKeeps
  <2>6. ~Occurs(query, SubSeq(b, 1, r + n))
    <3> HIDE DEF b, r
    <3> QED BY Zenon, <1>2, <1>5, <2>2, <2>3, <2>4, ReadOn
  <2>7. kk \in Seq(Alphabet)
    <3>1. PICK a \in 0 .. r + n : kk = SubSeq(b, a + 1, r + n)
      BY Zenon, <2>5 DEF BufferOf
    <3> HIDE DEF b, r, kk
    <3>2. a \in Nat /\ r + n \in a .. Len(b)
      BY <2>2
    <3>3. SubSeq(b, a + 1, r + n) \in Seq(Alphabet)
      BY Zenon, <1>2, <3>2, StretchOf
    <3> QED BY Zenon, <3>1, <3>3
  <2>8. /\ d \in SearchState /\ d.pc = "scan" /\ d.matches = 0 /\ d.hits = <<>> /\ d.file = c.file
        /\ d.read = r + n /\ d.buf = kk
    <3> DEFINE m == r + n
    <3>1. "scan" \in SearchPC /\ c.file \in Nat /\ m \in Nat
      BY <1>2, <2>2 DEF SearchPC, SearchState
    <3> DEFINE x == PutBuf(c, kk)
               y == PutRead(x, m)
    <3>2. d = y
      BY Zenon DEF PutBuf, PutRead
    <3> HIDE DEF d, kk, m
    <3>3. x \in SearchState /\ x.pc = c.pc /\ x.file = c.file /\ x.buf = kk /\ Same(x, c)
      BY Zenon, <1>2, <2>7, PutBufIs
    <3> HIDE DEF x
    <3>4. y \in SearchState /\ y.pc = c.pc /\ y.file = c.file /\ y.buf = kk /\ y.read = m /\ Same(y, x)
      BY Zenon, <3>1, <3>3, PutReadIs
    <3> HIDE DEF y
    <3>5. y.matches = 0 /\ y.hits = <<>> /\ y.pc = "scan"
      BY Zenon, <1>1, <1>2, <3>3, <3>4 DEF Same
    <3> QED BY Zenon, <3>2, <3>4, <3>5 DEF m
  <2> HIDE DEF d, kk
  <2>9. Reading(query, d, fs, ws)
    BY Zenon, <2>2, <2>3, <2>5, <2>6, <2>8 DEF Reading
  <2>10. c.pc \notin {"off", "done"} /\ d.pc \in {"open", "scan", "load"} /\ d.pc # "open"
    BY <1>1, <2>8
  <2> QED BY Zenon, <1>2, <2>1, <2>8, <2>9, <2>10, MoveTo
<1> QED BY Zenon, <1>4, <1>5

\* At the end of a file, none of its plain lines has the text.
LEMMA EndOfFileAdvances == ASSUME NEW s, Searchable(s), EndOfFile(s) PROVE Advance(s)
<1> DEFINE c == scan[s]
           fs == files[s]
           ws == was[s]
           b == Bytes(fs[c.file])
           d == [c EXCEPT !.pc = "open", !.buf = <<>>, !.read = 0]
<1>1. c.pc = "scan" /\ s \in Sessions /\ scan \in [Sessions -> SearchState] /\ c.read = Len(File(s, c.file))
  BY Zenon DEF EndOfFile, Searchable
<1>2. /\ c \in SearchState /\ Reading(query, c, fs, ws) /\ FastQuery(query) /\ Source[s] = "claude_code"
      /\ c.matches = 0 /\ c.hits = <<>> /\ b \in Seq(Alphabet) /\ File(s, c.file) = b
  BY Zenon, <1>1, SearchingFile
<1>3. scan' = [scan EXCEPT ![s] = d]
  <2>1. scan' = [scan EXCEPT ![s].pc = "open", ![s].buf = <<>>, ![s].read = 0]
    BY Zenon DEF EndOfFile
  <2> QED BY <1>1, <2>1
<1>4. d \in SearchState /\ d.pc = "open" /\ d.file = c.file /\ d.matches = 0 /\ d.hits = <<>>
  <2>1. "open" \in SearchPC /\ <<>> \in Seq(Alphabet) /\ 0 \in Nat /\ c.file \in Nat
    BY <1>2 DEF SearchPC, SearchState
  <2>2. d = Stopped(c, "open")
    BY Zenon DEF Stopped, Moved, PutBuf, PutRead
  <2> HIDE DEF d
  <2>3. d \in SearchState /\ d.pc = "open" /\ d.file = c.file /\ Same(d, c)
    BY Zenon, <1>2, <2>1, <2>2, StoppedIs
  <2> QED BY Zenon, <1>2, <2>3 DEF Same
<1>5. c.file \in 1 .. Len(fs) /\ Scanned(query, ws, c.file - 1) /\ ~Occurs(query, SubSeq(b, 1, c.read))
  BY Zenon, <1>2 DEF Reading
<1>6. ~Occurs(query, b)
  <2>1. SubSeq(b, 1, Len(b)) = b
    BY <1>2
  <2> QED BY Zenon, <1>1, <1>2, <1>5, <2>1
<1>7. /\ fs \in Shelf /\ ws \in Shelf /\ FilesGrew(ws, fs) /\ query \in Seq(Alphabet)
  BY Zenon DEF Searchable
<1>8. fs[c.file] \in Seq(TranscriptLine) /\ ws[c.file] \in Seq(TranscriptLine) /\ FileGrew(ws[c.file], fs[c.file])
  <2>1. c.file \in 1 .. Len(ws) /\ FileGrew(ws[c.file], fs[c.file])
    BY Zenon, <1>5, <1>7 DEF FilesGrew
  <2> QED BY <1>5, <1>7, <2>1 DEF Shelf
<1>9. Clean(query, fs[c.file])
  BY Zenon, <1>2, <1>6, <1>7, <1>8, BytesClean DEF fastPathOK, FastQuery
<1>10. Clean(query, ws[c.file])
  BY Zenon, <1>8, <1>9, CleanBefore
<1> HIDE DEF d, b
<1>11. Scanned(query, ws, d.file)
  <2>1. Len(fs) \in Nat
    BY <1>7 DEF Shelf
  <2>2. \A f \in 1 .. c.file : f \in 1 .. c.file - 1 \/ f = c.file
    BY <1>5, <2>1
  <2> QED BY Zenon, <1>4, <1>5, <1>10, <2>2 DEF Scanned
<1>12. d.file \in 0 .. Len(fs)
  BY <1>4, <1>5
<1>13. c.pc \notin {"off", "done"} /\ d.pc \in {"open", "scan", "load"} /\ d.pc # "scan" /\ d.pc # "load"
  BY <1>1, <1>4
<1> QED BY Zenon, <1>2, <1>3, <1>4, <1>11, <1>12, <1>13, MoveTo

\* A database whose parts do not have the text in JSON has no plain entry with it.
LEMMA LinesSilent ==
    ASSUME NEW s, Searchable(s), FastQuery(query),
           \A f \in DOMAIN files[s] : \A i \in DOMAIN files[s][f] : ~Occurs(query, Raw(files[s][f][i]))
    PROVE  Scanned(query, was[s], Len(was[s]))
<1> DEFINE fs == files[s]
           ws == was[s]
<1>1. fs \in Shelf /\ ws \in Shelf /\ FilesGrew(ws, fs) /\ query \in Seq(Alphabet)
  BY Zenon DEF Searchable
<1> SUFFICES ASSUME NEW f \in 1 .. Len(ws) PROVE Clean(query, ws[f])
  BY Zenon DEF Scanned
<1>2. f \in 1 .. Len(fs) /\ FileGrew(ws[f], fs[f])
  BY Zenon, <1>1 DEF FilesGrew
<1> DEFINE a == ws[f]
           b == fs[f]
<1>3. a \in Seq(TranscriptLine) /\ b \in Seq(TranscriptLine) /\ f \in DOMAIN fs
  BY <1>1, <1>2 DEF Shelf
<1>4. \A i \in DOMAIN b : ~Occurs(query, Raw(b[i]))
  BY Zenon, <1>3
<1>5. FileGrew(a, b)
  BY <1>2
<1> HIDE DEF a, b
<1>6. Clean(query, b)
  <2> SUFFICES ASSUME NEW i \in DOMAIN b PROVE Silent(query, b[i])
    BY Zenon DEF Clean
  <2>1. b[i] \in TranscriptLine
    BY <1>3
  <2> QED BY Zenon, <1>1, <1>4, <2>1, RawSilent DEF fastPathOK, FastQuery
<1>7. Clean(query, a)
  BY Zenon, <1>3, <1>5, <1>6, CleanBefore
<1> QED BY <1>7 DEF a

\* The query over the database.
LEMMA RawMatchRowsAdvances == ASSUME NEW s, Searchable(s), rawMatchOpenCodeDB(s) PROVE Advance(s)
<1> DEFINE H == s \notin gone /\ \E f \in DOMAIN files[s] : \E i \in DOMAIN files[s][f] :
                   Occurs(query, Raw(files[s][f][i]))
           p == IF H THEN "load" ELSE "done"
<1>1. scan[s].pc = "rows" /\ Goto(s, p)
  BY Zenon DEF rawMatchOpenCodeDB
<1>2. FastQuery(query)
  <2>1. Underway(s, query, scan[s], files[s], was[s])
    BY Zenon DEF Searchable, Good
  <2> QED BY <1>1, <2>1 DEF Underway
<1>3. p = "done" => s \in gone \/ Scanned(query, was[s], Len(was[s]))
  <2> SUFFICES ASSUME ~H, s \notin gone PROVE Scanned(query, was[s], Len(was[s]))
    OBVIOUS
  <2>1. \A f \in DOMAIN files[s] : \A i \in DOMAIN files[s][f] : ~Occurs(query, Raw(files[s][f][i]))
    BY Zenon
  <2> QED BY Zenon, <1>2, <2>1, LinesSilent
<1>4. scan' = [scan EXCEPT ![s] = Moved(scan[s], p)]
  BY Zenon, <1>1, GotoMoves
<1>5. p \in {"load", "done"}
  OBVIOUS
<1> HIDE DEF p, H
<1>6. /\ p \in SearchPC /\ scan[s].pc \notin {"off", "done"} /\ p \notin {"off", "open", "scan"}
      /\ p \notin {"queued", "start"}
  BY <1>1, <1>5 DEF SearchPC
<1> QED BY Zenon, <1>2, <1>3, <1>4, <1>6, MoveOn

\* The result of a search.
Loaded(c, m, h) == [c EXCEPT !.pc = "done", !.matches = m, !.hits = h]

LEMMA LoadedIs ==
    ASSUME NEW c \in SearchState, NEW m \in Nat, NEW h \in Seq(Nat)
    PROVE  /\ Loaded(c, m, h) \in SearchState /\ Loaded(c, m, h).pc = "done"
           /\ Loaded(c, m, h).matches = m /\ Loaded(c, m, h).hits = h
<1> DEFINE x == [c EXCEPT !.pc = "done"]
           y == [x EXCEPT !.matches = m]
           z == [y EXCEPT !.hits = h]
<1>1. x \in SearchState /\ x.pc = "done"
  BY DEF SearchState, SearchPC
<1> HIDE DEF x
<1>2. y \in SearchState /\ y.pc = "done" /\ y.matches = m
  BY <1>1 DEF SearchState
<1> HIDE DEF y
<1>3. z \in SearchState /\ z.pc = "done" /\ z.matches = m /\ z.hits = h
  BY <1>2 DEF SearchState
<1> HIDE DEF z
<1> QED BY Zenon, <1>3 DEF x, y, z, Loaded

\* The first hits are hits.
LEMMA LandingFirst ==
    ASSUME NEW q, NEW es, NEW h \in Seq(Nat), NEW n \in 0 .. Len(h), Landing(q, es, h)
    PROVE  SubSeq(h, 1, n) \in Seq(Nat) /\ Landing(q, es, SubSeq(h, 1, n))
<1> DEFINE w == SubSeq(h, 1, n)
<1>1. w \in Seq(Nat) /\ Len(w) = n /\ \A k \in 1 .. n : w[k] = h[k] /\ k \in 1 .. Len(h)
  OBVIOUS
<1> HIDE DEF w
<1>2. Landing(q, es, w)
  BY Zenon, <1>1 DEF Landing
<1> QED BY Zenon, <1>1, <1>2 DEF w

\* The entries that are found are those of now, and more than those of then.
LEMMA LoadAdvances == ASSUME NEW s, Searchable(s), LoadEntries(s) PROVE Advance(s)
<1> DEFINE c == scan[s]
           fs == files[s]
           ws == was[s]
           g == s \in gone
           es == Entries(s, fs)
           found == Matching(es)
           n == IF Len(found) < maxHits THEN Len(found) ELSE maxHits
           h == SubSeq(found, 1, n)
           d == Loaded(c, Len(found), h)
<1>1. c.pc = "load" /\ s \in Sessions /\ scan \in [Sessions -> SearchState] /\ Good(s, c)
  BY Zenon DEF LoadEntries, Searchable
<1>2. fs \in Shelf /\ ws \in Shelf /\ FilesGrew(ws, fs) /\ query \in Seq(Alphabet)
  BY Zenon DEF Searchable
<1>3. CASE ~Locate(s)
  <2>1. Goto(s, "failed")
    BY Zenon, <1>3 DEF LoadEntries
  <2>2. scan' = [scan EXCEPT ![s] = Moved(scan[s], "failed")]
    BY Zenon, <2>1, GotoMoves
  <2>3. /\ "failed" \in SearchPC /\ c.pc \notin {"off", "done"}
        /\ "failed" \notin {"off", "open", "scan"} /\ "failed" \notin {"start", "rows"}
        /\ "failed" \notin {"queued", "start"} /\ "failed" # "done"
    BY <1>1 DEF SearchPC
  <2> QED BY Zenon, <2>2, <2>3, MoveOn
<1>4. CASE Locate(s)
  <2>1. scan' = [scan EXCEPT ![s] = d]
    <3>1. scan' = [scan EXCEPT ![s].pc = "done", ![s].matches = Len(found), ![s].hits = h]
      BY Zenon, <1>4 DEF LoadEntries
    <3> HIDE DEF found, h
    <3> QED BY <1>1, <3>1 DEF Loaded
  <2>2. es \in Seq(Seq(Alphabet))
    BY Zenon, <1>2, EntriesType DEF Shelf
  <2>3. found \in Seq(Nat) /\ Len(found) = Cardinality(Holding(query, es)) /\ Landing(query, es, found)
    <3> HIDE DEF es
    <3>1. Found(es)
      BY Zenon, <2>2, MatchingOf
    <3> QED BY Zenon, <3>1 DEF Found
  <2> HIDE DEF found
  <2>4. n \in 0 .. Len(found) /\ Len(found) \in Nat
    BY <2>3, SearchAssumption
  <2>5. h \in Seq(Nat) /\ Landing(query, es, h)
    <3> HIDE DEF n, es
    <3> QED BY Zenon, <2>3, <2>4, LandingFirst
  <2> DEFINE m == Len(found)
  <2> HIDE DEF h
  <2>6. d \in SearchState /\ d.pc = "done" /\ d.matches = m /\ d.hits = h
    <3>1. c \in SearchState
      BY Zenon, <1>1 DEF Good
    <3>2. m \in Nat /\ h \in Seq(Nat)
      BY Zenon, <2>4, <2>5
    <3> HIDE DEF c, m
    <3>3. /\ Loaded(c, m, h) \in SearchState /\ Loaded(c, m, h).pc = "done"
          /\ Loaded(c, m, h).matches = m /\ Loaded(c, m, h).hits = h
      BY <3>1, <3>2, LoadedIs
    <3> QED BY Zenon, <3>3 DEF m
  <2>7. query # <<>>
    <3>1. Underway(s, query, c, fs, ws) /\ c.pc # "off"
      BY <1>1 DEF Good
    <3> QED BY Zenon, <3>1 DEF Underway
  <2> HIDE DEF d
  <2>8. Underway(s, query, d, fs, ws)
    BY <2>6, <2>7 DEF Underway
  <2>9. Cardinality(Holding(query, Entries(s, WholeFiles(ws)))) <= m
    BY Zenon, <1>2, <2>3, PlainCount DEF Shelf
  <2>10. m <= Cardinality(Holding(query, Entries(s, fs)))
    <3>1. m = Cardinality(Holding(query, es)) /\ m \in Nat
      BY Zenon, <2>3, <2>4
    <3> HIDE DEF m, es
    <3>2. Cardinality(Holding(query, es)) <= Cardinality(Holding(query, es))
      BY <3>1
    <3> QED BY Zenon, <3>1, <3>2 DEF es
  <2> HIDE DEF m
  <2>11. Outcome(s, query, d, fs, ws, g)
    BY Zenon, <2>5, <2>6, <2>9, <2>10 DEF Outcome
  <2> QED BY Zenon, <2>1, <2>6, <2>8, <2>11 DEF Advance, Good
<1> QED BY Zenon, <1>3, <1>4

\* Every step of a search takes it from a right state to a right one.
LEMMA SearchStepAdvances == ASSUME NEW s, Searchable(s), SearchStep(s) PROVE Advance(s)
BY Zenon, SearchAdvances, RawMatchAdvances, OpenFileAdvances, ReadChunkAdvances, EndOfFileAdvances,
   RawMatchRowsAdvances, LoadAdvances DEF SearchStep

\* And leaves the transcripts and the query alone.
LEMMA SearchStepKeeps == ASSUME NEW s, SearchStep(s) PROVE UNCHANGED <<files, gone, query>>
BY Zenon DEF SearchStep, Search, rawMatch, OpenFile, ReadChunk, EndOfFile, rawMatchOpenCodeDB, LoadEntries

(***************************************************************************)
(* The browser as a whole.                                                 *)
(***************************************************************************)
\* The types of the variables.
ViewType ==
    /\ files \in [Sessions -> Shelf] /\ was \in [Sessions -> Shelf]
    /\ query \in Seq(Alphabet) /\ ask.limit \in Nat
    /\ scan \in [Sessions -> SearchState]
    /\ list \in Seq(Sessions)
    /\ page.offset \in Nat /\ page.total \in Nat /\ page.first \in Nat

\* What holds of one session: its files only grew since the request, and its search
\* is right.
Fine(s, q, c, fs, ws, g) ==
    /\ HalvesLast(s, fs) /\ FilesGrew(ws, fs)
    /\ c \in SearchState
    /\ Underway(s, q, c, fs, ws)
    /\ Outcome(s, q, c, fs, ws, g)

SessionInv(s) == Fine(s, query, scan[s], files[s], was[s], s \in gone)

\* The rows say what the searches found, and none is missing.
RowsInv ==
    /\ pc # "done" => rows = <<>>
    /\ \A i \in DOMAIN rows :
          rows[i].key \in Sessions /\ rows[i].hits = scan[rows[i].key].hits
    /\ pc = "done" /\ query # <<>> =>
          \A j \in DOMAIN list : scan[list[j]].matches > 0 => \E i \in DOMAIN rows : rows[i].key = list[j]

\* What the reader has got is the beginning of the transcript it comes from.
PageInv ==
    /\ page.key = "none" => page = Unread
    /\ page.key # "none" =>
          /\ page.key \in Sessions
          /\ Source[page.key] = "claude_code" /\ Len(files[page.key]) = 1 /\ page.key \notin gone =>
                Gathered(page, Entries(page.key, files[page.key]))

\* Before a request nothing is listed or searched.
IdleInv == pc = "idle" => scan = [s \in Sessions |-> Unsearched] /\ list = <<>>

\* The inductive invariant.
ViewInv == ViewType /\ (\A s \in Sessions : SessionInv(s)) /\ RowsInv /\ PageInv /\ IdleInv

(***************************************************************************)
(* What the harness writes.                                                *)
(***************************************************************************)
\* A write to one file is a write to the files of the session.
LEMMA OneFurther ==
    ASSUME NEW s, NEW x \in Shelf, NEW f \in 1 .. Len(x), NEW b, Further(s, x[f], b), HalvesLast(s, x)
    PROVE  FilesFurther(s, x, [x EXCEPT ![f] = b]) /\ HalvesLast(s, [x EXCEPT ![f] = b])
<1> DEFINE y == [x EXCEPT ![f] = b]
<1>1. b \in Seq(TranscriptLine) /\ (Source[s] = "claude_code" => HalfLast(b))
  BY Zenon DEF Further
<1>2. /\ y \in Shelf /\ Len(y) = Len(x) /\ y[f] = b
      /\ \A j \in 1 .. Len(x) : j # f => y[j] = x[j]
  BY <1>1 DEF Shelf
<1> HIDE DEF y
<1>3. \A j \in 1 .. Len(x) : Further(s, x[j], y[j])
  <2> TAKE j \in 1 .. Len(x)
  <2>1. CASE j = f
    BY Zenon, <1>2, <2>1
  <2>2. CASE j # f
    <3> DEFINE a == x[j]
    <3>1. a \in Seq(TranscriptLine)
      BY DEF Shelf
    <3>2. Source[s] = "claude_code" => HalfLast(a)
      BY Zenon DEF HalvesLast
    <3>3. y[j] = a
      BY Zenon, <1>2, <2>2
    <3> HIDE DEF a
    <3>4. Further(s, a, a)
      BY Zenon, <3>1, <3>2, FileSame
    <3> QED BY Zenon, <3>3, <3>4 DEF a
  <2> QED BY Zenon, <2>1, <2>2
<1>4. FilesFurther(s, x, y)
  BY Zenon, <1>2, <1>3 DEF FilesFurther
<1>5. HalvesLast(s, y)
  BY Zenon, <1>2, <1>3 DEF HalvesLast, Further
<1> QED BY Zenon, <1>4, <1>5 DEF y

\* A write of the harness into the files of one session.
Written(s) ==
    \E y : FilesFurther(s, files[s], y) /\ HalvesLast(s, y) /\ files' = [files EXCEPT ![s] = y]

\* A line, and the rest of a line.
LEMMA WriteFurther ==
    ASSUME NEW s \in Sessions, files \in [Sessions -> Shelf], HalvesLast(s, files[s]), Write(s)
    PROVE  Written(s)
<1> DEFINE x == files[s]
<1>1. PICK f \in DOMAIN x, line \in NewLines :
          /\ Source[s] = "claude_code" /\ x[f] # <<>> => ~Last(x[f]).half
          /\ files' = [files EXCEPT ![s][f] = Append(@, line)]
  BY Zenon DEF Write
<1>2. x \in Shelf /\ f \in 1 .. Len(x) /\ line \in TranscriptLine
  BY <1>1, TranscriptAssumption DEF Shelf
<1> DEFINE a == x[f]
           y == [x EXCEPT ![f] = Append(a, line)]
<1>3. a \in Seq(TranscriptLine)
  BY <1>2 DEF Shelf
<1>4. Source[s] = "claude_code" => HalfLast(a) /\ (a # <<>> => ~Last(a).half)
  BY Zenon, <1>1, <1>2 DEF HalvesLast
<1>5. files' = [files EXCEPT ![s] = y]
  BY <1>1
<1>6. Further(s, a, Append(a, line))
  <2> HIDE DEF a
  <2> QED BY Zenon, <1>2, <1>3, <1>4, LineAdded
<1>7. FilesFurther(s, x, y) /\ HalvesLast(s, y)
  <2>1. HalvesLast(s, x)
    OBVIOUS
  <2> HIDE DEF x
  <2> QED BY Zenon, <1>2, <1>6, <2>1, OneFurther
<1> QED BY Zenon, <1>5, <1>7 DEF Written

LEMMA FinishFurther ==
    ASSUME NEW s \in Sessions, files \in [Sessions -> Shelf], HalvesLast(s, files[s]), Finish(s)
    PROVE  Written(s)
<1> DEFINE x == files[s]
<1>1. PICK f \in DOMAIN x : \E i \in DOMAIN x[f], line \in NewLines :
          /\ x[f][i].half
          /\ files' = [files EXCEPT ![s][f][i].half = FALSE, ![s][f][i].blocks = @ \o line.blocks]
  BY Zenon DEF Finish
<1>2. PICK i \in DOMAIN x[f], line \in NewLines :
          /\ x[f][i].half
          /\ files' = [files EXCEPT ![s][f][i].half = FALSE, ![s][f][i].blocks = @ \o line.blocks]
  BY Zenon, <1>1
<1>3. x \in Shelf /\ f \in 1 .. Len(x) /\ line \in TranscriptLine
  BY <1>1, <1>2, TranscriptAssumption DEF Shelf
<1> DEFINE a == x[f]
           b == [a EXCEPT ![i] = Finished(a[i], line)]
           y == [x EXCEPT ![f] = b]
<1>4. a \in Seq(TranscriptLine)
  BY <1>3 DEF Shelf
<1>5. i \in 1 .. Len(a) /\ a[i].half /\ a[i] \in TranscriptLine
  BY <1>2, <1>4
<1>6. files' = [files EXCEPT ![s] = y]
  <2> DEFINE m == [files EXCEPT ![s][f][i].half = FALSE]
  <2>1. files' = [m EXCEPT ![s][f][i].blocks = @ \o line.blocks]
    BY <1>2
  <2>2. m[s][f][i].blocks = a[i].blocks
    BY <1>3, <1>4, <1>5 DEF TranscriptLine, Shelf
  <2> QED BY <1>2, <1>3, <1>4, <1>5 DEF Finished
<1>7. Source[s] = "claude_code" => HalfLast(a)
  BY Zenon, <1>3 DEF HalvesLast
<1>8. Further(s, a, b)
  <2> HIDE DEF a
  <2> QED BY Zenon, <1>3, <1>4, <1>5, <1>7, LineFinished
<1>9. FilesFurther(s, x, y) /\ HalvesLast(s, y)
  <2>1. HalvesLast(s, x)
    OBVIOUS
  <2> HIDE DEF x, b
  <2> QED BY Zenon, <1>3, <1>8, <2>1, OneFurther
<1> QED BY Zenon, <1>6, <1>9 DEF Written

\* A search that is right stays right when the harness writes.
LEMMA FineKept ==
    ASSUME NEW s, NEW q \in Seq(Alphabet), NEW c, NEW x, NEW ws \in Shelf, NEW g, NEW y,
           Fine(s, q, c, x, ws, g), FilesFurther(s, x, y), HalvesLast(s, y)
    PROVE  Fine(s, q, c, y, ws, g)
<1>1. x \in Shelf /\ y \in Shelf /\ FilesGrew(x, y) /\ FilesGrew(ws, x) /\ c \in SearchState
  BY Zenon, FurtherGrew DEF FilesFurther, Fine
<1>2. FilesGrew(ws, y)
  BY Zenon, <1>1, FilesGrewTrans
<1>3. Underway(s, q, c, y, ws)
  BY Zenon, <1>1, UnderwayKept DEF Fine
<1>4. Outcome(s, q, c, y, ws, g)
  BY Zenon, <1>1, OutcomeKept DEF Fine
<1> QED BY Zenon, <1>1, <1>2, <1>3, <1>4 DEF Fine

\* Writes keep the invariant; so does the removal of a transcript, which excuses its
\* search,
LEMMA WrittenKeeps ==
    ASSUME ViewInv, NEW s \in Sessions, Written(s),
           UNCHANGED <<gone, query, scan, ask, list, was, rows, pc, page>>
    PROVE  ViewInv'
<1>1. PICK y : FilesFurther(s, files[s], y) /\ HalvesLast(s, y) /\ files' = [files EXCEPT ![s] = y]
  BY Zenon DEF Written
<1>2. ViewType
  BY Zenon DEF ViewInv
<1>3. y \in Shelf
  BY Zenon, <1>1 DEF FilesFurther
<1>4. files' \in [Sessions -> Shelf] /\ files'[s] = y /\ \A t \in Sessions : t # s => files'[t] = files[t]
  BY <1>1, <1>2, <1>3 DEF ViewType
<1>5. ViewType'
  BY Zenon, <1>2, <1>4 DEF ViewType
<1>6. ASSUME NEW t \in Sessions PROVE SessionInv(t)'
  <2>1. SessionInv(t)
    BY Zenon DEF ViewInv
  <2>2. CASE t # s
    <3>1. files'[t] = files[t]
      BY Zenon, <1>4, <2>2
    <3> QED BY Zenon, <2>1, <3>1 DEF SessionInv
  <2>3. CASE t = s
    <3>1. Fine(s, query, scan[s], files[s], was[s], s \in gone)
      BY Zenon, <2>1, <2>3 DEF SessionInv
    <3>2. query \in Seq(Alphabet) /\ was[s] \in Shelf
      BY <1>2 DEF ViewType
    <3>3. Fine(s, query, scan[s], y, was[s], s \in gone)
      BY Zenon, <1>1, <3>1, <3>2, FineKept
    <3> QED BY Zenon, <1>4, <2>3, <3>3 DEF SessionInv
  <2> QED BY Zenon, <2>2, <2>3
<1>7. RowsInv' /\ IdleInv'
  BY Zenon DEF ViewInv, RowsInv, IdleInv
<1>8. PageInv'
  <2>1. PageInv
    BY Zenon DEF ViewInv
  <2>2. CASE page.key # s \/ page.key = "none"
    <3>1. page.key # "none" => files'[page.key] = files[page.key]
      BY Zenon, <1>4, <2>1, <2>2 DEF PageInv
    <3> QED BY Zenon, <2>1, <3>1 DEF PageInv, Unread
  <2>3. CASE page.key = s /\ page.key # "none"
    <3> SUFFICES ASSUME Source[s] = "claude_code", Len(y) = 1, s \notin gone
                 PROVE  Gathered(page, Entries(s, y))
      BY Zenon, <1>4, <2>1, <2>3 DEF PageInv
    <3> DEFINE a == Entries(s, files[s])
               b == Entries(s, y)
               T == Seq(Alphabet)
    <3>1. Len(files[s]) = 1
      BY <1>1 DEF FilesFurther
    <3>2. Gathered(page, a)
      BY Zenon, <2>1, <2>3, <3>1 DEF PageInv
    <3>3. a \in Seq(T) /\ Extends(a, b, T)
      BY Zenon, <1>1, <3>1, OneFileExtends
    <3>4. page.first \in Nat /\ page.total \in Nat /\ page.offset \in Nat
      BY Zenon, <1>2 DEF ViewType
    <3> HIDE DEF a, b, T
    <3>5. Gathered(page, b)
      BY Zenon, <3>2, <3>3, <3>4, GatheredKept
    <3> QED BY <3>5 DEF b
  <2> QED BY Zenon, <2>2, <2>3
<1> QED BY Zenon, <1>5, <1>6, <1>7, <1>8 DEF ViewInv

LEMMA CleanupKeeps ==
    ASSUME ViewInv, NEW s \in Sessions, Cleanup(s)
    PROVE  ViewInv'
<1> USE DEF Cleanup
<1>1. gone \subseteq gone'
  BY Zenon
<1>2. ViewType'
  BY Zenon DEF ViewInv, ViewType
<1>3. ASSUME NEW t \in Sessions PROVE SessionInv(t)'
  <2> DEFINE g == t \in gone
             h == t \in gone'
  <2>1. Fine(t, query, scan[t], files[t], was[t], g)
    BY Zenon DEF ViewInv, SessionInv
  <2>2. g => h
    BY Zenon, <1>1
  <2> HIDE DEF g, h
  <2>3. Fine(t, query, scan[t], files[t], was[t], h)
    BY Zenon, <2>1, <2>2 DEF Fine, Outcome
  <2> QED BY Zenon, <2>3 DEF SessionInv, h
<1>4. RowsInv' /\ IdleInv'
  BY Zenon DEF ViewInv, RowsInv, IdleInv
<1>5. PageInv'
  BY Zenon, <1>1 DEF ViewInv, PageInv, Unread
<1> QED BY Zenon, <1>2, <1>3, <1>4, <1>5 DEF ViewInv

\* and a step of a search, which changes the state of its own session only.
LEMMA StepKeeps ==
    ASSUME ViewInv, NEW s \in Sessions, Step(s)
    PROVE  ViewInv'
<1>1. pc = "search" /\ SearchStep(s) /\ UNCHANGED <<ask, writes, list, was, rows, pc, page>>
  BY Zenon DEF Step
<1>2. UNCHANGED <<files, gone, query>>
  BY Zenon, <1>1, SearchStepKeeps
<1>3. ViewType
  BY Zenon DEF ViewInv
<1>4. Searchable(s)
  <2>1. SessionInv(s)
    BY Zenon DEF ViewInv
  <2>2. files[s] \in Shelf /\ was[s] \in Shelf
    BY <1>3 DEF ViewType
  <2> QED BY Zenon, <1>3, <2>1, <2>2 DEF ViewType, SessionInv, Fine, Searchable, Good
<1>5. PICK c : Good(s, c) /\ scan' = [scan EXCEPT ![s] = c]
  BY Zenon, <1>1, <1>4, SearchStepAdvances DEF Advance
<1>6. c \in SearchState
  BY Zenon, <1>5 DEF Good
<1>7. scan' \in [Sessions -> SearchState] /\ scan'[s] = c /\ \A t \in Sessions : t # s => scan'[t] = scan[t]
  BY <1>3, <1>5, <1>6 DEF ViewType
<1>8. ViewType'
  BY Zenon, <1>1, <1>2, <1>3, <1>7 DEF ViewType
<1>9. ASSUME NEW t \in Sessions PROVE SessionInv(t)'
  <2>1. SessionInv(t)
    BY Zenon DEF ViewInv
  <2>2. CASE t # s
    <3>1. scan'[t] = scan[t]
      BY Zenon, <1>7, <2>2
    <3> QED BY Zenon, <1>1, <1>2, <2>1, <3>1 DEF SessionInv
  <2>3. CASE t = s
    <3>1. Fine(s, query, c, files[s], was[s], s \in gone)
      BY Zenon, <1>5, <2>1, <2>3 DEF SessionInv, Fine, Good
    <3> QED BY Zenon, <1>1, <1>2, <1>7, <2>3, <3>1 DEF SessionInv
  <2> QED BY Zenon, <2>2, <2>3
<1>10. pc' # "done" /\ pc' # "idle"
  BY <1>1
<1>11. RowsInv'
  <2>1. rows = <<>>
    BY <1>1 DEF ViewInv, RowsInv
  <2>2. rows' = <<>>
    BY Zenon, <1>1, <2>1
  <2>3. DOMAIN rows' = {}
    BY <2>2
  <2> QED BY Zenon, <1>10, <2>2, <2>3 DEF RowsInv
<1>12. IdleInv'
  BY Zenon, <1>10 DEF IdleInv
<1>13. PageInv'
  BY Zenon, <1>1, <1>2 DEF ViewInv, PageInv, Unread
<1> QED BY Zenon, <1>8, <1>9, <1>11, <1>12, <1>13 DEF ViewInv

\* A page of sessions lists sessions.
LEMMA ListType == ASSUME NEW limit \in Nat PROVE SessionList(limit) \subseteq Seq(Sessions)
<1> DEFINE found == {s \in Sessions : ask.project \in {"", Catalog[s].project} /\ Catalog[s].last >= ask.since}
           n == IF Cardinality(found) < limit THEN Cardinality(found) ELSE limit
<1>1. Cardinality(found) \in Nat
  <2>1. IsFiniteSet(found)
    BY ViewerAssumption, FS_Subset
  <2> HIDE DEF found
  <2> QED BY Zenon, <2>1, FS_CardinalityType
<1>2. n \in Nat
  <2> HIDE DEF found
  <2> QED BY <1>1
<1>3. SessionList(limit) \subseteq [1 .. n -> found]
  BY Zenon DEF SessionList
<1> SUFFICES ASSUME NEW l \in [1 .. n -> found] PROVE l \in Seq(Sessions)
  BY Zenon, <1>3
<1>4. found \subseteq Sessions
  BY Zenon
<1> HIDE DEF n, found
<1> QED BY <1>2, <1>4

\* The limit of a request, and the default without one.
LEMMA LimitType == ASSUME ViewType, NEW n \in Nat PROVE Limit(n) \in Nat
BY DEF Limit, ViewType

\* The state of a search at its start.
LEMMA FreshIs ==
    /\ Unsearched \in SearchState /\ Unsearched.pc = "off" /\ Unsearched.file = 0
    /\ Unsearched.matches = 0 /\ Unsearched.hits = <<>>
    /\ Queued \in SearchState /\ Queued.pc = "queued" /\ Queued.file = 0
    /\ Queued.matches = 0 /\ Queued.hits = <<>>
<1>1. /\ Unsearched \in SearchState /\ Unsearched.pc = "off" /\ Unsearched.file = 0
      /\ Unsearched.matches = 0 /\ Unsearched.hits = <<>>
  BY DEF Unsearched, SearchState, SearchPC
<1>2. "queued" \in SearchPC
  BY DEF SearchPC
<1>3. Queued = Moved(Unsearched, "queued")
  BY Zenon DEF Queued, Moved
<1> QED BY Zenon, <1>1, <1>2, <1>3, MovedIs

\* A search that has not begun is right about any transcript.
LEMMA FreshFine ==
    ASSUME NEW s, NEW q, NEW fs \in Shelf, NEW g, HalvesLast(s, fs)
    PROVE  /\ Fine(s, q, Unsearched, fs, fs, g)
           /\ q # <<>> => Fine(s, q, Queued, fs, fs, g)
<1>1. FilesGrew(fs, fs)
  BY Zenon, FilesGrewRefl
<1>2. ASSUME NEW c, c \in {Unsearched, Queued}, c # Unsearched => q # <<>>
      PROVE  Fine(s, q, c, fs, fs, g)
  <2>1. /\ c \in SearchState /\ c.pc \in {"off", "queued"} /\ c.matches = 0 /\ c.hits = <<>> /\ c.file = 0
        /\ (c.pc # "off" => q # <<>>)
    <3>1. CASE c = Unsearched
      BY <3>1, FreshIs
    <3>2. CASE c = Queued /\ c # Unsearched
      BY <1>2, <3>2, FreshIs
    <3> QED BY Zenon, <1>2, <3>1, <3>2
  <2>2. Outcome(s, q, c, fs, fs, g)
    <3>1. c.pc # "done"
      BY <2>1
    <3> QED BY Zenon, <2>1, <3>1, OutcomeNone
  <2>3. Underway(s, q, c, fs, fs)
    BY <2>1 DEF Underway
  <2> QED BY Zenon, <1>1, <2>1, <2>2, <2>3 DEF Fine
<1> QED BY Zenon, <1>2

\* The scenarios the browser starts in.
LEMMA InitKeeps == ViewInit => ViewInv
<1> SUFFICES ASSUME ViewInit PROVE ViewInv
  OBVIOUS
<1>1. PICK c \in Scenarios :
        files = c.files /\ query = c.ask.query /\ writes = c.writes
        /\ ask = [project |-> c.ask.project, since |-> c.ask.since, limit |-> c.ask.limit]
  BY Zenon DEF ViewInit
<1>2. /\ gone = {} /\ scan = [s \in Sessions |-> Unsearched]
      /\ list = <<>> /\ was = files /\ rows = <<>> /\ pc = "idle" /\ page = Unread
  BY Zenon DEF ViewInit
<1>3. files \in [Sessions -> Shelf] /\ query \in Seq(Alphabet) /\ ask.limit \in Nat
  BY <1>1, TranscriptAssumption DEF Shelf
<1>4. \A s \in Sessions : Source[s] = "claude_code" => \A f \in DOMAIN files[s] : HalfLast(files[s][f])
  BY Zenon, <1>1, TranscriptAssumption
<1>5. Unsearched \in SearchState
  BY Zenon, FreshIs
<1>6. ViewType
  BY <1>2, <1>3, <1>5 DEF ViewType, Unread
<1>7. ASSUME NEW s \in Sessions PROVE SessionInv(s)
  <2>1. files[s] \in Shelf /\ was[s] = files[s] /\ scan[s] = Unsearched
    BY <1>2, <1>3
  <2>2. HalvesLast(s, files[s])
    <3>1. DOMAIN files[s] = 1 .. Len(files[s])
      BY <2>1 DEF Shelf
    <3> QED BY Zenon, <1>4, <3>1 DEF HalvesLast
  <2> QED BY Zenon, <2>1, <2>2, FreshFine DEF SessionInv
<1>8. RowsInv /\ PageInv /\ IdleInv
  BY <1>2 DEF RowsInv, PageInv, IdleInv, Unread
<1> QED BY Zenon, <1>6, <1>7, <1>8 DEF ViewInv

\* The newest sessions as they are; none was searched.
LEMMA BrowseKeeps == ASSUME ViewInv, Browse PROVE ViewInv'
<1>1. /\ pc = "idle" /\ query = <<>>
      /\ list' \in SessionList(Limit(listLimit))
      /\ rows' = [i \in DOMAIN list' |-> Row(list'[i])]
      /\ pc' = "done" /\ was' = files
      /\ UNCHANGED <<searchVars, ask, writes, page>>
  BY Zenon DEF Browse
<1>2. UNCHANGED <<files, gone, query, scan>>
  BY Zenon, <1>1 DEF searchVars
<1>3. ViewType
  BY Zenon DEF ViewInv
<1>4. scan = [s \in Sessions |-> Unsearched]
  BY Zenon, <1>1 DEF ViewInv, IdleInv
<1>5. list' \in Seq(Sessions)
  <2>1. listLimit \in Nat
    BY ViewerAssumption
  <2> QED BY Zenon, <1>1, <1>3, <2>1, LimitType, ListType
<1>6. ViewType'
  BY Zenon, <1>1, <1>2, <1>3, <1>5 DEF ViewType
<1>7. ASSUME NEW s \in Sessions PROVE SessionInv(s)'
  <2>1. scan[s] = Unsearched
    BY <1>4
  <2>2. files[s] \in Shelf /\ HalvesLast(s, files[s])
    BY <1>3 DEF ViewType, ViewInv, SessionInv, Fine
  <2> QED BY Zenon, <1>1, <1>2, <2>1, <2>2, FreshFine DEF SessionInv
<1>8. RowsInv'
  <2>1. ASSUME NEW i \in DOMAIN rows' PROVE rows'[i].key \in Sessions /\ rows'[i].hits = scan'[rows'[i].key].hits
    <3>1. i \in DOMAIN list' /\ rows'[i] = Row(list'[i])
      BY <1>1, <2>1
    <3>2. list'[i] \in Sessions
      BY <1>5, <3>1
    <3>3. rows'[i].key = list'[i] /\ rows'[i].hits = scan[list'[i]].hits
      BY <3>1 DEF Row
    <3> QED BY Zenon, <1>2, <3>2, <3>3
  <2> QED BY Zenon, <1>1, <1>2, <2>1 DEF RowsInv
<1>9. PageInv'
  BY Zenon, <1>1, <1>2 DEF ViewInv, PageInv, Unread
<1>10. IdleInv'
  <2>1. pc' # "idle"
    BY <1>1
  <2> QED BY Zenon, <2>1 DEF IdleInv
<1> QED BY Zenon, <1>6, <1>7, <1>8, <1>9, <1>10 DEF ViewInv

\* All that are listed are queued.
LEMMA BuildKeeps == ASSUME ViewInv, buildIndex PROVE ViewInv'
<1>1. /\ pc = "idle" /\ query # <<>>
      /\ list' \in SessionList(Limit(scanLimit))
      /\ scan' = [s \in Sessions |-> IF s \in ToSet(list') THEN Queued ELSE Unsearched]
      /\ pc' = "search" /\ was' = files
      /\ UNCHANGED <<files, gone, query, ask, writes, rows, page>>
  BY Zenon DEF buildIndex
<1>2. UNCHANGED <<files, gone, query>>
  BY Zenon, <1>1
<1>3. ViewType
  BY Zenon DEF ViewInv
<1>4. \A s \in Sessions : scan'[s] \in {Queued, Unsearched}
  BY <1>1
<1>5. list' \in Seq(Sessions)
  <2>1. scanLimit \in Nat
    BY ViewerAssumption
  <2> QED BY Zenon, <1>1, <1>3, <2>1, LimitType, ListType
<1>6. ViewType'
  <2>1. Queued \in SearchState /\ Unsearched \in SearchState
    BY Zenon, FreshIs
  <2>2. scan' \in [Sessions -> SearchState]
    BY <1>1, <2>1
  <2> QED BY Zenon, <1>1, <1>3, <1>5, <2>2 DEF ViewType
<1>7. ASSUME NEW s \in Sessions PROVE SessionInv(s)'
  <2>1. files[s] \in Shelf /\ HalvesLast(s, files[s])
    BY <1>3 DEF ViewType, ViewInv, SessionInv, Fine
  <2>2. /\ Fine(s, query, Queued, files[s], files[s], s \in gone)
        /\ Fine(s, query, Unsearched, files[s], files[s], s \in gone)
    BY Zenon, <1>1, <2>1, FreshFine
  <2>3. scan'[s] = Queued \/ scan'[s] = Unsearched
    BY <1>4
  <2> QED BY Zenon, <1>1, <1>2, <2>2, <2>3 DEF SessionInv
<1>8. RowsInv'
  <2>1. rows = <<>>
    BY <1>1 DEF ViewInv, RowsInv
  <2>2. rows' = <<>>
    BY Zenon, <1>1, <2>1
  <2>3. DOMAIN rows' = {} /\ pc' # "done"
    BY <1>1, <2>2
  <2> QED BY Zenon, <2>2, <2>3 DEF RowsInv
<1>9. PageInv'
  BY Zenon, <1>1 DEF ViewInv, PageInv, Unread
<1>10. IdleInv'
  <2>1. pc' # "idle"
    BY <1>1
  <2> QED BY Zenon, <2>1 DEF IdleInv
<1> QED BY Zenon, <1>6, <1>7, <1>8, <1>9, <1>10 DEF ViewInv

\* The row of a session that is kept.
KeptRow == [s \in Sessions |-> IF scan[s].matches > 0 \/ Catalog[s].title THEN <<s>> ELSE <<>>]

\* The sessions kept, as a flat map.
LEMMA KeptIs ==
    ASSUME list \in Seq(Sessions)
    PROVE  /\ Gives(KeptRow, Sessions, Sessions) /\ Kept = FlatMap(KeptRow, list)
           /\ Kept \in Seq(Sessions)
<1>1. Gives(KeptRow, Sessions, Sessions)
  BY DEF Gives, KeptRow
<1>2. Kept = FlatMap(KeptRow, list)
  <2> DEFINE p == [i \in DOMAIN list |->
                      IF scan[list[i]].matches > 0 \/ Catalog[list[i]].title THEN <<list[i]>> ELSE <<>>]
  <2>1. p = Mapped(KeptRow, list)
    BY DEF Mapped, KeptRow
  <2> HIDE DEF p
  <2>2. Kept = FlattenSeq(p)
    BY Zenon DEF Kept, p
  <2> QED BY Zenon, <2>1, <2>2 DEF FlatMap
<1> QED BY Zenon, <1>1, <1>2, FlatMapType

\* The rows: a session that matches is among them.
LEMMA SessionsKeeps == ASSUME ViewInv, searchSessions PROVE ViewInv'
<1> DEFINE kept == Kept
<1>1. /\ pc = "search" /\ pc' = "done"
      /\ rows' = [i \in DOMAIN kept |-> Row(kept[i])]
      /\ UNCHANGED <<searchVars, ask, writes, list, was, page>>
  BY Zenon DEF searchSessions
<1>2. UNCHANGED <<files, gone, query, scan>>
  BY Zenon, <1>1 DEF searchVars
<1>3. ViewType
  BY Zenon DEF ViewInv
<1>4. list \in Seq(Sessions)
  BY Zenon, <1>3 DEF ViewType
<1>5. kept \in Seq(Sessions) /\ kept = FlatMap(KeptRow, list) /\ Gives(KeptRow, Sessions, Sessions)
  BY Zenon, <1>4, KeptIs
<1> HIDE DEF kept
<1>6. \A i \in DOMAIN kept : i \in DOMAIN rows' /\ rows'[i].key = kept[i] /\ rows'[i].hits = scan[kept[i]].hits
  BY <1>1 DEF Row
<1>7. DOMAIN rows' = DOMAIN kept
  BY <1>1
<1>8. RowsInv'
  <2>1. ASSUME NEW i \in DOMAIN rows' PROVE rows'[i].key \in Sessions /\ rows'[i].hits = scan'[rows'[i].key].hits
    <3>1. kept[i] \in Sessions /\ i \in DOMAIN kept
      BY <1>5, <1>7, <2>1
    <3> QED BY Zenon, <1>2, <1>6, <3>1
  <2>2. ASSUME NEW j \in DOMAIN list, scan[list[j]].matches > 0 PROVE \E i \in DOMAIN rows' : rows'[i].key = list[j]
    <3>1. j \in 1 .. Len(list) /\ list[j] \in Sessions
      BY <1>4, <2>2
    <3>2. KeptRow[list[j]] = <<list[j]>>
      BY <2>2, <3>1 DEF KeptRow
    <3>3. 1 \in 1 .. Len(KeptRow[list[j]]) /\ KeptRow[list[j]][1] = list[j]
      BY <3>2
    <3>4. PICK i \in 1 .. Len(kept) : kept[i] = list[j]
      <4>1. \E i \in 1 .. Len(FlatMap(KeptRow, list)) : FlatMap(KeptRow, list)[i] = KeptRow[list[j]][1]
        BY SMTT(40), <1>4, <1>5, <3>1, <3>3, FlatMapHas
      <4> QED BY Zenon, <1>5, <3>3, <4>1
    <3>5. i \in DOMAIN kept
      BY <1>5, <3>4
    <3> QED BY Zenon, <1>6, <3>4, <3>5
  <2>3. pc' = "done"
    BY <1>1
  <2> QED BY Zenon, <1>1, <1>2, <2>1, <2>2, <2>3 DEF RowsInv
<1>9. ViewType' /\ (\A s \in Sessions : SessionInv(s)')
  BY Zenon, <1>1, <1>2 DEF ViewInv, ViewType, SessionInv
<1>10. PageInv'
  BY Zenon, <1>1, <1>2 DEF ViewInv, PageInv, Unread
<1>11. IdleInv'
  <2>1. pc' # "idle"
    BY <1>1
  <2> QED BY Zenon, <2>1 DEF IdleInv
<1> QED BY Zenon, <1>8, <1>9, <1>10, <1>11 DEF ViewInv

\* The next page of a transcript.
LEMMA TranscriptKeeps ==
    ASSUME ViewInv, NEW s \in Sessions, NEW limit \in Limits, apiTranscript(s, limit)
    PROVE  ViewInv'
<1> DEFINE size == IF limit = 0 THEN defaultTranscriptPage ELSE limit
           es == loadTranscript(s)
           first == IF page.key = "none" THEN Len(es) ELSE page.first
<1>1. /\ \/ page.key = "none"
         \/ page.key = s /\ page.limit = size /\ page.offset < page.total
      /\ page' = [key |-> s, limit |-> size, offset |-> page.offset + size, total |-> Len(es),
                  first |-> first, got |-> page.got \o Page(es, page.offset, size)]
      /\ UNCHANGED <<searchVars, ask, writes, list, was, rows, pc>>
  BY Zenon DEF apiTranscript
<1>2. UNCHANGED <<files, gone, query, scan>>
  BY Zenon, <1>1 DEF searchVars
<1>3. ViewType /\ PageInv
  BY Zenon DEF ViewInv
<1>4. files[s] \in Shelf
  BY <1>3 DEF ViewType
<1>5. es \in Seq(Seq(Alphabet)) /\ (s \notin gone => es = Entries(s, files[s]))
  <2>1. Entries(s, files[s]) \in Seq(Seq(Alphabet))
    BY Zenon, <1>4, EntriesType DEF Shelf
  <2>2. <<>> \in Seq(Seq(Alphabet))
    OBVIOUS
  <2> QED BY Zenon, <2>1, <2>2 DEF loadTranscript, Locate
<1> HIDE DEF es
<1>6. size \in Nat /\ Len(es) \in Nat
  BY <1>5, ViewerAssumption
<1> HIDE DEF size
<1>7. /\ page'.key = s /\ page'.offset = page.offset + size /\ page'.total = Len(es)
      /\ page'.first = first /\ page'.got = page.got \o Page(es, page.offset, size)
  BY <1>1
<1>8. page.offset \in Nat /\ page.total \in Nat /\ page.first \in Nat
  BY Zenon, <1>3 DEF ViewType
<1>9. page'.offset \in Nat /\ page'.total \in Nat /\ page'.first \in Nat
  BY <1>6, <1>7, <1>8
<1>10. ViewType'
  BY Zenon, <1>1, <1>2, <1>3, <1>9 DEF ViewType
<1>11. RowsInv' /\ IdleInv' /\ \A t \in Sessions : SessionInv(t)'
  BY Zenon, <1>1, <1>2 DEF ViewInv, RowsInv, IdleInv, SessionInv
<1>12. PageInv'
  <2>1. s # "none"
    BY ViewerAssumption
  <2> SUFFICES ASSUME Source[s] = "claude_code", Len(files[s]) = 1, s \notin gone
               PROVE  Gathered(page', es)
    BY Zenon, <1>2, <1>5, <1>7, <2>1 DEF PageInv
  <2>2. Gathered(page, es) /\ page.offset <= page.total
    <3>1. CASE page.key = "none"
      <4>1. page.first = 0 /\ page.total = 0 /\ page.offset = 0 /\ page.got = <<>>
        BY <1>3, <3>1 DEF PageInv, Unread
      <4>2. SubSeq(es, 1, 0) = <<>>
        BY <1>5
      <4> QED BY <1>6, <4>1, <4>2 DEF Gathered
    <3>2. CASE page.key # "none"
      <4>1. page.key = s /\ page.offset < page.total
        BY Zenon, <1>1, <3>2
      <4>2. Gathered(page, es)
        BY Zenon, <1>3, <1>5, <3>2, <4>1 DEF PageInv
      <4>3. page.offset <= page.total
        BY <1>8, <4>1
      <4> QED BY Zenon, <4>2, <4>3
    <3> QED BY Zenon, <3>1, <3>2
  <2>3. page'.first \in {page.first, page.total, Len(es)}
    BY Zenon, <1>7
  <2> DEFINE p == page
             r == page'
             T == Seq(Alphabet)
  <2>4. /\ p.first \in Nat /\ p.total \in Nat /\ p.offset \in Nat /\ p.offset <= p.total /\ Gathered(p, es)
        /\ r.first \in {p.first, p.total, Len(es)} /\ r.offset = p.offset + size /\ r.total = Len(es)
        /\ r.got = p.got \o Page(es, p.offset, size) /\ es \in Seq(T)
    BY Zenon, <1>5, <1>7, <1>8, <2>2, <2>3
  <2> HIDE DEF p, r, T
  <2>5. Gathered(r, es)
    BY Zenon, <1>6, <2>4, GatheredMore
  <2> QED BY Zenon, <2>5 DEF r
<1> QED BY Zenon, <1>10, <1>11, <1>12 DEF ViewInv

\* Every step keeps the invariant.
LEMMA ViewKeeps == ViewInv /\ [ViewNext]_viewVars => ViewInv'
<1> SUFFICES ASSUME ViewInv, [ViewNext]_viewVars PROVE ViewInv'
  OBVIOUS
<1>1. CASE Browse
  BY Zenon, <1>1, BrowseKeeps
<1>2. CASE buildIndex
  BY Zenon, <1>2, BuildKeeps
<1>3. CASE searchSessions
  BY Zenon, <1>3, SessionsKeeps
<1>4. ASSUME NEW s \in Sessions, Step(s) PROVE ViewInv'
  BY Zenon, <1>4, StepKeeps
<1>5. ASSUME NEW s \in Sessions, Write(s) PROVE ViewInv'
  <2>1. Written(s)
    BY Zenon, <1>5, WriteFurther DEF ViewInv, ViewType, SessionInv, Fine
  <2> QED BY Zenon, <1>5, <2>1, WrittenKeeps DEF Write
<1>6. ASSUME NEW s \in Sessions, Finish(s) PROVE ViewInv'
  <2>1. Written(s)
    BY Zenon, <1>6, FinishFurther DEF ViewInv, ViewType, SessionInv, Fine
  <2> QED BY Zenon, <1>6, <2>1, WrittenKeeps DEF Finish
<1>7. ASSUME NEW s \in Sessions, Cleanup(s) PROVE ViewInv'
  BY Zenon, <1>7, CleanupKeeps
<1>8. ASSUME NEW s \in Sessions, NEW limit \in Limits, apiTranscript(s, limit) PROVE ViewInv'
  BY Zenon, <1>8, TranscriptKeeps
<1>9. CASE UNCHANGED viewVars
  <2>1. UNCHANGED <<files, gone, query, scan, ask, list, was, rows, pc, page>>
    BY Zenon, <1>9 DEF viewVars, searchVars
  <2> QED BY Zenon, <2>1 DEF ViewInv, ViewType, SessionInv, RowsInv, PageInv, IdleInv, Unread
<1> QED BY Zenon, <1>1, <1>2, <1>3, <1>4, <1>5, <1>6, <1>7, <1>8, <1>9 DEF ViewNext

\* In every state the browser can get into, the searches underway are right.
THEOREM ViewInvHolds == ViewSpec => []ViewInv
BY InitKeeps, ViewKeeps, PTL DEF ViewSpec

\* The three properties follow from it.
LEMMA SearchIsComplete == ViewInv => SearchComplete
<1> SUFFICES ASSUME ViewInv, pc = "done", query # <<>>, NEW s \in ToSet(list), scan[s].pc = "done"
             PROVE  /\ scan[s].matches <= Cardinality(With(Entries(s, files[s])))
                    /\ s \notin gone => Cardinality(Plain(s)) <= scan[s].matches
                    /\ s \notin gone /\ Plain(s) # {} => \E i \in DOMAIN rows : rows[i].key = s
  BY Zenon DEF SearchComplete
<1>1. ViewType /\ RowsInv
  BY Zenon DEF ViewInv
<1>2. PICK j \in DOMAIN list : list[j] = s
  BY Zenon DEF ToSet
<1>3. s \in Sessions
  BY <1>1, <1>2 DEF ViewType
<1>4. files[s] \in Shelf /\ was[s] \in Shelf /\ scan[s] \in SearchState
  BY <1>1, <1>3 DEF ViewType
<1>5. Outcome(s, query, scan[s], files[s], was[s], s \in gone)
  BY Zenon, <1>3 DEF ViewInv, SessionInv, Fine
<1> DEFINE es == Entries(s, files[s])
           ps == Entries(s, WholeFiles(was[s]))
<1>6. With(es) = Holding(query, es)
  BY Zenon DEF With, Holding
<1>7. Plain(s) = Holding(query, ps)
  BY Zenon DEF Plain, With, Holding, WholeFiles
<1>8. scan[s].matches <= Cardinality(Holding(query, es))
  BY Zenon, <1>5 DEF Outcome
<1>9. s \notin gone => Cardinality(Holding(query, ps)) <= scan[s].matches
  BY Zenon, <1>5 DEF Outcome
<1>10. ASSUME s \notin gone, Plain(s) # {} PROVE \E i \in DOMAIN rows : rows[i].key = s
  <2> DEFINE H == Holding(query, ps)
             n == Cardinality(H)
  <2>1. ps \in Seq(Seq(Alphabet))
    BY Zenon, <1>4, WholeFilesType, EntriesType DEF Shelf
  <2>2. IsFiniteSet(H) /\ n \in Nat
    <3> HIDE DEF ps
    <3> QED BY Zenon, <2>1, HoldingFinite
  <2>3. H # {}
    BY Zenon, <1>7, <1>10
  <2> HIDE DEF H
  <2>4. n # 0
    BY Zenon, <2>2, <2>3, FS_EmptySet
  <2>5. n <= scan[s].matches /\ scan[s].matches \in Nat
    BY <1>4, <1>9, <1>10 DEF H, SearchState
  <2> HIDE DEF n
  <2>6. scan[s].matches > 0
    BY <2>2, <2>4, <2>5
  <2> QED BY Zenon, <1>1, <1>2, <2>6 DEF RowsInv
<1> QED BY Zenon, <1>6, <1>7, <1>8, <1>9, <1>10

LEMMA AnchorLands == ViewInv => AnchorLandsOnHit
<1> SUFFICES ASSUME ViewInv, NEW i \in DOMAIN rows, AppendOnly(rows[i].key), NEW a \in ToSet(rows[i].hits)
             PROVE  /\ a < Len(Entries(rows[i].key, files[rows[i].key]))
                    /\ Occurs(query, Entries(rows[i].key, files[rows[i].key])[a + 1])
  BY Zenon DEF AnchorLandsOnHit
<1> DEFINE s == rows[i].key
<1>1. s \in Sessions /\ rows[i].hits = scan[s].hits
  BY Zenon DEF ViewInv, RowsInv
<1> HIDE DEF s
<1>2. scan[s].hits \in Seq(Nat)
  BY <1>1 DEF ViewInv, ViewType, SearchState
<1>3. PICK k \in DOMAIN scan[s].hits : scan[s].hits[k] = a
  BY Zenon, <1>1 DEF ToSet
<1>4. k \in 1 .. Len(scan[s].hits)
  BY <1>2, <1>3
<1>5. Source[s] = "claude_code" /\ Len(files[s]) = 1
  BY Zenon DEF AppendOnly, s
<1>6. Landing(query, Entries(s, files[s]), scan[s].hits)
  BY Zenon, <1>1, <1>5 DEF ViewInv, SessionInv, Fine, Outcome
<1>7. a < Len(Entries(s, files[s])) /\ Occurs(query, Entries(s, files[s])[a + 1])
  BY Zenon, <1>3, <1>4, <1>6 DEF Landing
<1> QED BY Zenon, <1>7 DEF s

LEMMA PagesAreWhole == ViewInv => PagesWhole
<1> SUFFICES ASSUME ViewInv, page.key # "none", AppendOnly(page.key), page.offset >= page.total
             PROVE  /\ IsPrefix(page.got, Entries(page.key, files[page.key]))
                    /\ Len(page.got) >= page.first
  BY Zenon DEF PagesWhole
<1> DEFINE es == Entries(page.key, files[page.key])
<1>1. page.key \in Sessions /\ Gathered(page, es)
  BY Zenon DEF ViewInv, PageInv, AppendOnly
<1>2. page.offset \in Nat /\ page.total \in Nat /\ page.first \in Nat
  BY Zenon DEF ViewInv, ViewType
<1>3. es \in Seq(Seq(Alphabet))
  <2>1. files[page.key] \in Shelf
    BY <1>1 DEF ViewInv, ViewType
  <2> QED BY Zenon, <2>1, EntriesType DEF Shelf
<1> HIDE DEF es
<1>4. page.first <= page.total /\ page.total <= Len(es) /\ page.got = SubSeq(es, 1, page.total)
  BY <1>1, <1>2 DEF Gathered
<1>5. Len(page.got) = page.total /\ SubSeq(es, 1, Len(page.got)) = page.got
  BY <1>2, <1>3, <1>4
<1>6. IsPrefix(page.got, es) /\ Len(page.got) >= page.first
  BY <1>2, <1>3, <1>4, <1>5 DEF IsPrefix
<1> QED BY <1>6 DEF es

\* A search that the raw bytes decide (search.go, fastPathOK and fileContains)
\* misses no plain entry that was there when it was asked for, whatever the size of
\* the reads and however the harness writes; it counts no entry without the text,
\* and a session that holds one has a row.
THEOREM SearchCompleteHolds == ViewSpec => []SearchComplete
BY ViewInvHolds, SearchIsComplete, PTL

\* The position in a hit (search.go, EntryIdx) still leads to an entry with the
\* text, in a transcript of one file that has grown since.
THEOREM AnchorLandsOnHitHolds == ViewSpec => []AnchorLandsOnHit
BY ViewInvHolds, AnchorLands, PTL

\* The pages of a transcript that grows while it is read (api.go, apiTranscript)
\* make one text, in which nothing comes twice or is left out.
THEOREM PagesWholeHolds == ViewSpec => []PagesWhole
BY ViewInvHolds, PagesAreWhole, PTL
=============================================================================

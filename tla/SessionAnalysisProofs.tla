------------------------ MODULE SessionAnalysisProofs -------------------------
(***************************************************************************)
(* What is proved of the reports about sessions, for every history, every  *)
(* window and every setting of the analyzers.                              *)
(***************************************************************************)
EXTENDS SessionAnalysis, FiniteSums

BlockRows == [session : Nat \ {0}, at : Nat, kind : Kinds, tokens : Nat,
              tool : STRING, mcp : STRING, file : STRING]

ReqRows == [session : Nat \ {0}, at : Nat, input : Nat, cread : Nat, cwrite : Nat,
            model : {shape.model : shape \in Shapes}, short : {shape.short : shape \in Shapes},
            chain : {shape.chain : shape \in Shapes}]

StateOK ==
    /\ session \in Nat \ {0} /\ now \in Nat
    /\ blocks \in Seq(BlockRows) /\ reqs \in Seq(ReqRows)
    /\ compactions \in [Sessions -> SUBSET Nat]
    /\ \A s \in Sessions : IsFiniteSet(compactions[s])
    /\ carried \in Seq(Nat) /\ Len(carried) = Len(blocks)
    /\ context \subseteq DOMAIN blocks

\* The clock of a session runs, and one session follows another.
StampsOK ==
    /\ \A i \in DOMAIN blocks :
          /\ blocks[i].session <= session
          /\ blocks[i].session = session => blocks[i].at <= now
    /\ \A i \in DOMAIN reqs :
          /\ reqs[i].session <= session
          /\ reqs[i].session = session => reqs[i].at <= now
    /\ \A c \in compactions[session] : c <= now

\* By session and time.
Sorted ==
    \A i, j \in DOMAIN reqs : i < j =>
        \/ reqs[i].session < reqs[j].session
        \/ reqs[i].session = reqs[j].session /\ reqs[i].at <= reqs[j].at

\* A block is in the context as long as nothing that came after it ends its stay.
ContextOK ==
    \A i \in DOMAIN blocks :
        i \in context <=> blocks[i].session = session /\ End(blocks[i], blocks, compactions) = Never

CarriedOK ==
    \A i \in DOMAIN blocks : carried[i] = Resident(blocks[i], blocks, reqs, compactions)

IInv == StateOK /\ StampsOK /\ Sorted /\ ContextOK /\ CarriedOK
-----------------------------------------------------------------------------
LEMMA ByInduction ==
    ASSUME NEW n \in Nat, NEW Good, 0 \in Good,
           \A k \in Nat : k < n /\ k \in Good => k + 1 \in Good
    PROVE  \A k \in 0 .. n : k \in Good
<1> DEFINE Bad == {k \in 0 .. n : k \notin Good}
<1> SUFFICES ASSUME Bad # {} PROVE FALSE
  OBVIOUS
<1>1. PICK k \in Bad : \A j \in Bad : k <= j
  <2>1. Bad \in SUBSET Nat
    OBVIOUS
  <2> HIDE DEF Bad
  <2> QED BY <2>1, LeastOf
<1>2. k \in 0 .. n /\ k # 0
  BY <1>1
<1>3. k - 1 \in Nat /\ k - 1 < n /\ k - 1 \notin Bad
  BY <1>1, <1>2
<1>4. k - 1 \in Good
  BY <1>2, <1>3
<1>5. (k - 1) + 1 \in Good
  BY <1>3, <1>4
<1>6. (k - 1) + 1 = k
  BY <1>2
<1> QED BY <1>1, <1>5, <1>6
-----------------------------------------------------------------------------
(***************************************************************************)
(* Times.                                                                  *)
(***************************************************************************)
LEMMA MinOf ==
    ASSUME NEW S \in SUBSET Nat, S # {}
    PROVE  Min(S) \in S /\ \A j \in S : Min(S) <= j
BY LeastOf DEF Min

LEMMA FirstAfterIs ==
    ASSUME NEW T \in SUBSET Nat, NEW t \in Nat
    PROVE  \/ firstAfter(T, t) = Never /\ \A u \in T : u <= t
           \/ /\ firstAfter(T, t) \in T /\ t < firstAfter(T, t)
              /\ \A u \in T : t < u => firstAfter(T, t) <= u
<1> DEFINE later == {u \in T : u > t}
<1>1. firstAfter(T, t) = IF later = {} THEN Never ELSE Min(later)
  BY DEF firstAfter
<1>2. CASE later = {}
  BY <1>1, <1>2
<1>3. CASE later # {}
  <2>1. later \in SUBSET Nat
    OBVIOUS
  <2> HIDE DEF later
  <2>2. Min(later) \in later /\ \A j \in later : Min(later) <= j
    BY <1>3, <2>1, MinOf
  <2> USE DEF later
  <2> QED BY <1>1, <1>3, <2>2
<1> QED BY <1>2, <1>3

\* A time that is no earlier than the ones there are is the first after one only
\* where there was none.
LEMMA FirstAfterAdd ==
    ASSUME NEW T \in SUBSET Nat, NEW t \in Nat, NEW n \in Nat, \A u \in T : u <= n
    PROVE  firstAfter(T \cup {n}, t)
             = IF firstAfter(T, t) # Never THEN firstAfter(T, t) ELSE IF t < n THEN n ELSE Never
<1> DEFINE T2 == T \cup {n}
<1>1. PICK a, b : a = firstAfter(T, t) /\ b = firstAfter(T2, t)
  OBVIOUS
<1>2. \/ a = Never /\ \A u \in T : u <= t
      \/ a \in T /\ t < a /\ \A u \in T : t < u => a <= u
  BY <1>1, FirstAfterIs
<1>3. \/ b = Never /\ \A u \in T2 : u <= t
      \/ b \in T2 /\ t < b /\ \A u \in T2 : t < u => b <= u
  <2>1. T2 \in SUBSET Nat
    OBVIOUS
  <2> HIDE DEF T2
  <2> QED BY <1>1, <2>1, FirstAfterIs
<1>4. b = IF a # Never THEN a ELSE IF t < n THEN n ELSE Never
  <2>1. \A u \in T2 : u \in Nat /\ u <= n
    OBVIOUS
  <2>2. T \subseteq T2 /\ n \in T2 /\ \A u \in T2 : u \in T \/ u = n
    OBVIOUS
  <2> HIDE DEF T2
  <2> USE DEF Never
  <2>3. CASE a # Never
    <3>1. a \in T2 /\ t < a
      BY <1>2, <2>2, <2>3
    <3>2. b \in T2 /\ t < b /\ b <= a
      BY <1>3, <2>1, <3>1
    <3>3. a <= b
      BY <1>2, <2>1, <2>2, <2>3, <3>1, <3>2
    <3> QED BY <2>1, <2>3, <3>1, <3>2, <3>3
  <2>4. CASE a = Never /\ t < n
    <3>1. b \in T2 /\ t < b
      BY <1>3, <2>2, <2>4
    <3>2. b \notin T
      BY <1>2, <2>1, <2>2, <2>4, <3>1
    <3> QED BY <2>2, <2>4, <3>1, <3>2
  <2>5. CASE a = Never /\ ~(t < n)
    <3>1. ASSUME b \in T2, t < b PROVE FALSE
      BY <1>2, <2>1, <2>2, <2>5, <3>1
    <3> QED BY <1>3, <2>5, <3>1
  <2> QED BY <2>3, <2>4, <2>5
<1> QED BY <1>1, <1>4
-----------------------------------------------------------------------------
(***************************************************************************)
(* The requests of a window.                                               *)
(***************************************************************************)
Counted(rows, s, lo, hi) ==
    {i \in DOMAIN rows : rows[i].session = s /\ rows[i].at > lo /\ (hi # Never => rows[i].at < hi)}

LEMMA CountedFinite ==
    ASSUME NEW rows, Len(rows) \in Nat, DOMAIN rows = 1 .. Len(rows), NEW s, NEW lo, NEW hi
    PROVE  /\ IsFiniteSet(Counted(rows, s, lo, hi))
           /\ countBetween(rows, s, lo, hi) = Cardinality(Counted(rows, s, lo, hi))
           /\ countBetween(rows, s, lo, hi) \in Nat
<1>1. IsFiniteSet(DOMAIN rows)
  BY FS_Interval
<1>2. IsFiniteSet(Counted(rows, s, lo, hi))
  BY <1>1, FS_Subset DEF Counted
<1> QED BY <1>2, FS_CardinalityType DEF countBetween, Counted

LEMMA CountAppended ==
    ASSUME NEW S, NEW rows \in Seq(S), NEW r \in S, NEW s, NEW lo, NEW hi
    PROVE  countBetween(Append(rows, r), s, lo, hi)
             = countBetween(rows, s, lo, hi)
                 + (IF r.session = s /\ r.at > lo /\ (hi # Never => r.at < hi) THEN 1 ELSE 0)
<1> DEFINE more == Append(rows, r)
           C == Counted(rows, s, lo, hi)
           here == r.session = s /\ r.at > lo /\ (hi # Never => r.at < hi)
<1>1. /\ Len(rows) \in Nat /\ DOMAIN rows = 1 .. Len(rows)
      /\ Len(more) = Len(rows) + 1 /\ DOMAIN more = 1 .. Len(rows) + 1
      /\ (\A i \in DOMAIN rows : more[i] = rows[i]) /\ more[Len(rows) + 1] = r
  OBVIOUS
<1>2. Counted(more, s, lo, hi) = IF here THEN C \cup {Len(rows) + 1} ELSE C
  <2> HIDE DEF more
  <2> QED BY <1>1 DEF Counted
<1>3. Len(rows) + 1 \notin C
  BY <1>1 DEF Counted
<1>4. IsFiniteSet(C) /\ countBetween(rows, s, lo, hi) = Cardinality(C) /\ Cardinality(C) \in Nat
  BY <1>1, CountedFinite, FS_CardinalityType
<1>5. countBetween(more, s, lo, hi) = Cardinality(Counted(more, s, lo, hi))
  <2> HIDE DEF more
  <2> QED BY <1>1, CountedFinite
<1>6. Cardinality(C \cup {Len(rows) + 1}) = Cardinality(C) + 1
  <2> HIDE DEF C
  <2> QED BY <1>3, <1>4, FS_AddElement
<1> QED
  <2> HIDE DEF more, C, here
  <2>1. countBetween(more, s, lo, hi) = countBetween(rows, s, lo, hi) + (IF here THEN 1 ELSE 0)
    BY <1>2, <1>4, <1>5, <1>6
  <2> QED BY <2>1 DEF more, here

\* A window that ends after all the requests of its session is one without an end.
LEMMA CountClosed ==
    ASSUME NEW rows, NEW s, NEW lo, NEW n \in Nat,
           \A i \in DOMAIN rows : rows[i].session = s => rows[i].at < n
    PROVE  countBetween(rows, s, lo, n) = countBetween(rows, s, lo, Never)
<1>1. Counted(rows, s, lo, n) = Counted(rows, s, lo, Never)
  BY DEF Counted, Never
<1> QED BY <1>1 DEF countBetween, Counted
-----------------------------------------------------------------------------
(***************************************************************************)
(* The end of a stay.                                                      *)
(***************************************************************************)
LEMMA UserTimes ==
    ASSUME NEW rows \in Seq(BlockRows), NEW s
    PROVE  /\ userTS(rows, s) \in SUBSET Nat
           /\ \A n \in Nat : (\A i \in DOMAIN rows : rows[i].session = s => rows[i].at <= n)
                                => \A u \in userTS(rows, s) : u <= n
           /\ \A x \in BlockRows :
                 userTS(Append(rows, x), s)
                   = userTS(rows, s) \cup (IF x.session = s /\ x.kind = "user_text" THEN {x.at} ELSE {})
<1>1. \A i \in DOMAIN rows : rows[i].at \in Nat
  <2>1. \A i \in DOMAIN rows : rows[i] \in BlockRows
    OBVIOUS
  <2> QED BY <2>1 DEF BlockRows
<1>2. userTS(rows, s) \in SUBSET Nat
  BY <1>1 DEF userTS
<1>3. ASSUME NEW n \in Nat, \A i \in DOMAIN rows : rows[i].session = s => rows[i].at <= n
      PROVE  \A u \in userTS(rows, s) : u <= n
  BY <1>3 DEF userTS
<1>4. ASSUME NEW x \in BlockRows
      PROVE  userTS(Append(rows, x), s)
               = userTS(rows, s) \cup (IF x.session = s /\ x.kind = "user_text" THEN {x.at} ELSE {})
  <2> DEFINE more == Append(rows, x)
  <2>1. /\ Len(rows) \in Nat /\ DOMAIN rows = 1 .. Len(rows) /\ DOMAIN more = 1 .. Len(rows) + 1
        /\ (\A i \in DOMAIN rows : more[i] = rows[i]) /\ more[Len(rows) + 1] = x
    OBVIOUS
  <2> HIDE DEF more
  <2> QED BY <2>1 DEF userTS
<1> QED BY <1>2, <1>3, <1>4

\* The end of a stay, from the first boundary and the first user text after it.
EndOf(thinking, e, u) ==
    IF thinking /\ u # Never /\ (e = Never \/ u < e) THEN u ELSE e

LEMMA EndIs ==
    ASSUME NEW rows, NEW comps, NEW b
    PROVE  End(b, rows, comps) = EndOf(b.kind = "thinking", firstAfter(comps[b.session], b.at),
                                       firstAfter(userTS(rows, b.session), b.at))
BY DEF End, EndOf

LEMMA EndAppended ==
    ASSUME NEW rows \in Seq(BlockRows), NEW x \in BlockRows, NEW comps, NEW b \in BlockRows,
           comps[b.session] \in SUBSET Nat,
           b.session = x.session =>
               /\ \A i \in DOMAIN rows : rows[i].session = x.session => rows[i].at <= x.at
               /\ \A c \in comps[x.session] : c <= x.at
    PROVE  End(b, Append(rows, x), comps)
             = IF End(b, rows, comps) # Never THEN End(b, rows, comps)
               ELSE IF /\ b.session = x.session /\ b.at < x.at
                       /\ b.kind = "thinking" /\ x.kind = "user_text"
                    THEN x.at ELSE Never
<1> DEFINE U == userTS(rows, b.session)
           V == userTS(Append(rows, x), b.session)
<1>1. b.at \in Nat /\ x.at \in Nat
  BY DEF BlockRows
<1>2. PICK th, e, u, v, w :
          /\ th = (b.kind = "thinking") /\ e = firstAfter(comps[b.session], b.at)
          /\ u = firstAfter(U, b.at) /\ v = firstAfter(V, b.at)
          /\ w = (b.session = x.session /\ x.kind = "user_text")
  OBVIOUS
<1>3. U \in SUBSET Nat /\ V = U \cup (IF w THEN {x.at} ELSE {})
  BY <1>2, UserTimes
<1>4. e = Never \/ (e \in comps[b.session] /\ b.at < e /\ e \in Nat)
  BY <1>1, <1>2, FirstAfterIs
<1>5. u = Never \/ (u \in U /\ b.at < u /\ u \in Nat)
  BY <1>1, <1>2, <1>3, FirstAfterIs
<1>6. w => v = IF u # Never THEN u ELSE IF b.at < x.at THEN x.at ELSE Never
  <2> SUFFICES ASSUME w PROVE v = IF u # Never THEN u ELSE IF b.at < x.at THEN x.at ELSE Never
    OBVIOUS
  <2>1. \A i \in DOMAIN rows : rows[i].session = b.session => rows[i].at <= x.at
    BY <1>2
  <2>2. \A t \in U : t <= x.at
    BY <1>1, <2>1, UserTimes
  <2>3. V = U \cup {x.at}
    BY <1>3
  <2>4. firstAfter(U \cup {x.at}, b.at)
          = IF firstAfter(U, b.at) # Never THEN firstAfter(U, b.at)
            ELSE IF b.at < x.at THEN x.at ELSE Never
    <3> HIDE DEF U
    <3> QED BY <1>1, <1>3, <2>2, FirstAfterAdd
  <2> HIDE DEF U, V
  <2> QED BY <1>2, <2>3, <2>4
<1>7. ~w => v = u
  BY <1>2, <1>3
<1>8. w /\ e # Never => e <= x.at
  BY <1>2, <1>4
<1>9. End(b, rows, comps) = EndOf(th, e, u) /\ End(b, Append(rows, x), comps) = EndOf(th, e, v)
  BY <1>2, EndIs
<1>10. EndOf(th, e, v) = IF EndOf(th, e, u) # Never THEN EndOf(th, e, u)
                         ELSE IF w /\ b.at < x.at /\ th THEN x.at ELSE Never
  <2> HIDE DEF U, V
  <2> QED BY <1>1, <1>4, <1>5, <1>6, <1>7, <1>8 DEF EndOf, Never
<1> QED BY <1>2, <1>9, <1>10

EndAfter(b, e, s, n) == IF e # Never THEN e ELSE IF b.session = s /\ b.at < n THEN n ELSE Never

\* Session s has a boundary at n now, after everything else of it.
Compacted(z, rows, comps, more, s, n) ==
    /\ comps[z] \in SUBSET Nat /\ n \in Nat
    /\ z # s => more[z] = comps[z]
    /\ z = s => /\ more[z] = comps[z] \cup {n}
                /\ \A c \in comps[z] : c <= n
                /\ \A i \in DOMAIN rows : rows[i].session = s => rows[i].at <= n

LEMMA EndCompacted ==
    ASSUME NEW rows \in Seq(BlockRows), NEW b \in BlockRows, NEW comps, NEW more, NEW s, NEW n,
           Compacted(b.session, rows, comps, more, s, n)
    PROVE  End(b, rows, more) = EndAfter(b, End(b, rows, comps), s, n)
<1> DEFINE U == userTS(rows, b.session)
<1>1. b.at \in Nat /\ U \in SUBSET Nat /\ comps[b.session] \in SUBSET Nat /\ n \in Nat
  BY UserTimes DEF BlockRows, Compacted
<1>2. PICK th, e, f, u :
          /\ th = (b.kind = "thinking") /\ u = firstAfter(U, b.at)
          /\ e = firstAfter(comps[b.session], b.at) /\ f = firstAfter(more[b.session], b.at)
  OBVIOUS
<1>3. /\ e = Never \/ (e \in comps[b.session] /\ b.at < e /\ e \in Nat)
      /\ u = Never \/ (u \in U /\ b.at < u /\ u \in Nat)
  <2> HIDE DEF U
  <2> QED BY <1>1, <1>2, FirstAfterIs
<1>4. b.session # s => f = e
  BY <1>2 DEF Compacted
<1>5. b.session = s => f = IF e # Never THEN e ELSE IF b.at < n THEN n ELSE Never
  <2> SUFFICES ASSUME b.session = s PROVE f = IF e # Never THEN e ELSE IF b.at < n THEN n ELSE Never
    OBVIOUS
  <2>0. more[s] = comps[s] \cup {n} /\ (\A c \in comps[s] : c <= n) /\ comps[s] \in SUBSET Nat
    BY DEF Compacted
  <2>1. firstAfter(comps[s] \cup {n}, b.at)
          = IF firstAfter(comps[s], b.at) # Never THEN firstAfter(comps[s], b.at)
            ELSE IF b.at < n THEN n ELSE Never
    BY <1>1, <2>0, FirstAfterAdd
  <2> QED BY <1>2, <2>0, <2>1
<1>6. b.session = s /\ u # Never => u <= n
  <2>1. b.session = s => \A t \in U : t <= n
    BY UserTimes DEF Compacted
  <2> QED BY <1>3, <2>1
<1>7. End(b, rows, comps) = EndOf(th, e, u) /\ End(b, rows, more) = EndOf(th, f, u)
  BY <1>2, EndIs
<1>8. EndOf(th, f, u) = IF EndOf(th, e, u) # Never THEN EndOf(th, e, u)
                        ELSE IF b.session = s /\ b.at < n THEN n ELSE Never
  <2> HIDE DEF U
  <2> QED BY <1>1, <1>3, <1>4, <1>5, <1>6 DEF EndOf, Never
<1> QED BY <1>7, <1>8 DEF EndAfter

LEMMA EndIsTime ==
    ASSUME NEW rows \in Seq(BlockRows), NEW comps, NEW b \in BlockRows, comps[b.session] \in SUBSET Nat
    PROVE  \/ End(b, rows, comps) = Never
           \/ /\ End(b, rows, comps) \in Nat /\ b.at < End(b, rows, comps)
              /\ \/ End(b, rows, comps) \in comps[b.session]
                 \/ End(b, rows, comps) \in userTS(rows, b.session)
<1>1. b.at \in Nat /\ userTS(rows, b.session) \in SUBSET Nat
  BY UserTimes DEF BlockRows
<1> QED BY <1>1, EndIs, FirstAfterIs DEF EndOf

LEMMA NoneAfter ==
    ASSUME NEW T \in SUBSET Nat, NEW t \in Nat, \A u \in T : u <= t
    PROVE  firstAfter(T, t) = Never
<1>1. PICK a : a = firstAfter(T, t)
  OBVIOUS
<1>2. a = Never \/ (a \in T /\ t < a)
  BY <1>1, FirstAfterIs
<1>3. ASSUME a \in T PROVE ~(t < a)
  <2>1. a \in Nat /\ a <= t
    BY <1>3, Zenon
  <2>2. \A u, v \in Nat : u <= v => ~(v < u)
    OBVIOUS
  <2> QED BY <2>1, <2>2
<1> QED BY <1>1, <1>2, <1>3

\* Nothing that was there ends the stay of a block that comes last.
LEMMA EndFresh ==
    ASSUME NEW rows \in Seq(BlockRows), NEW comps, NEW b \in BlockRows, comps[b.session] \in SUBSET Nat,
           \A i \in DOMAIN rows : rows[i].session = b.session => rows[i].at <= b.at,
           \A c \in comps[b.session] : c <= b.at
    PROVE  End(b, Append(rows, b), comps) = Never
<1>1. b.at \in Nat /\ userTS(rows, b.session) \in SUBSET Nat
  BY UserTimes DEF BlockRows
<1>2. \A u \in userTS(rows, b.session) : u <= b.at
  BY <1>1, UserTimes
<1>3. firstAfter(comps[b.session], b.at) = Never
  BY <1>1, NoneAfter
<1>4. firstAfter(userTS(rows, b.session), b.at) = Never
  BY <1>1, <1>2, NoneAfter
<1>5. End(b, rows, comps) = Never
  BY <1>3, <1>4, EndIs DEF EndOf
<1> QED BY <1>1, <1>5, EndAppended
-----------------------------------------------------------------------------
(***************************************************************************)
(* The history of the sessions.                                            *)
(***************************************************************************)
LEMMA EntryTimes == ASSUME StateOK, Entry PROVE now' \in Nat /\ now <= now'
BY SessionAssumption DEF Entry, StateOK

LEMMA BodyOK ==
    ASSUME StateOK, NEW kind \in Kinds
    PROVE  Body(kind) \in Attributes
<1>1. Bodies[kind] \in Seq(Attributes) /\ Bodies[kind] # <<>>
  BY SessionAssumption
<1>2. PICK seq : seq = Bodies[kind]
  OBVIOUS
<1>3. Len(seq) \in Nat /\ Len(seq) # 0 /\ DOMAIN seq = 1 .. Len(seq) /\ \A i \in DOMAIN seq : seq[i] \in Attributes
  <2>1. seq \in Seq(Attributes) /\ seq # <<>>
    BY <1>1, <1>2
  <2> QED BY <2>1
<1>4. PICK m, n : m = Len(blocks) /\ n = Len(seq)
  OBVIOUS
<1>5. m \in Nat /\ n \in Nat \ {0}
  BY <1>3, <1>4 DEF StateOK
<1>6. 1 + (m % n) \in 1 .. n
  BY <1>5
<1> QED BY <1>2, <1>3, <1>4, <1>6 DEF Body

LEMMA IInvInit == Init => IInv
<1> SUFFICES ASSUME Init PROVE IInv
  OBVIOUS
<1>1. /\ session = 1 /\ now = 0 /\ reqs = <<>> /\ blocks = <<>> /\ context = {} /\ carried = <<>>
      /\ Sessions = {1} /\ compactions = [s \in {1} |-> {}]
  BY DEF Init, Sessions
<1>2. DOMAIN reqs = {} /\ DOMAIN blocks = {}
  BY <1>1
<1>3. StateOK
  <2>1. blocks \in Seq(BlockRows) /\ reqs \in Seq(ReqRows) /\ carried \in Seq(Nat) /\ Len(carried) = Len(blocks)
    BY <1>1
  <2>2. \A s \in Sessions : compactions[s] = {}
    BY <1>1
  <2>3. \A s \in Sessions : IsFiniteSet(compactions[s])
    BY <2>2, FS_EmptySet
  <2>4. compactions \in [Sessions -> SUBSET Nat]
    BY <1>1
  <2> QED BY <1>1, <2>1, <2>3, <2>4 DEF StateOK
<1>4. StampsOK /\ Sorted /\ ContextOK /\ CarriedOK
  BY <1>1, <1>2 DEF StampsOK, Sorted, ContextOK, CarriedOK
<1> QED BY <1>3, <1>4 DEF IInv

\* What the end of a stay is in a state of the history.
LEMMA EndInState ==
    ASSUME IInv, NEW i \in DOMAIN blocks
    PROVE  LET e == End(blocks[i], blocks, compactions)
           IN  /\ blocks[i] \in BlockRows /\ blocks[i].session \in Sessions
               /\ compactions[blocks[i].session] \in SUBSET Nat
               /\ e # Never => /\ e \in Nat
                               /\ blocks[i].session = session => e <= now
<1> DEFINE b == blocks[i]
           e == End(b, blocks, compactions)
<1>1. b \in BlockRows /\ b.session \in Nat \ {0}
  <2>1. b \in BlockRows
    BY DEF IInv, StateOK
  <2> QED BY <2>1 DEF BlockRows
<1>2. b.session \in Sessions /\ compactions[b.session] \in SUBSET Nat
  <2>1. b.session \in Sessions
    BY <1>1 DEF IInv, StateOK, StampsOK, Sessions
  <2> QED BY <2>1 DEF IInv, StateOK
<1>3. \/ e = Never
      \/ e \in Nat /\ (e \in compactions[b.session] \/ e \in userTS(blocks, b.session))
  BY <1>1, <1>2, EndIsTime DEF IInv, StateOK
<1>4. b.session = session => /\ \A c \in compactions[b.session] : c <= now
                             /\ \A u \in userTS(blocks, b.session) : u <= now
  BY UserTimes DEF IInv, StateOK, StampsOK
<1> QED BY <1>1, <1>2, <1>3, <1>4

LEMMA RequestStep == ASSUME IInv, Request PROVE IInv'
<1>1. /\ session' = session /\ blocks' = blocks /\ compactions' = compactions /\ context' = context
      /\ Sessions' = Sessions /\ now' \in Nat /\ now <= now'
  BY EntryTimes DEF Request, IInv, Sessions
<1>2. PICK shape \in Shapes :
          reqs' = Append(reqs, [session |-> session, at |-> now', input |-> shape.input,
                                cread |-> shape.cread, cwrite |-> shape.cwrite, model |-> shape.model,
                                short |-> shape.short, chain |-> shape.chain])
  BY DEF Request
<1>3. PICK r : /\ r = [session |-> session, at |-> now', input |-> shape.input,
                       cread |-> shape.cread, cwrite |-> shape.cwrite, model |-> shape.model,
                       short |-> shape.short, chain |-> shape.chain]
               /\ reqs' = Append(reqs, r)
  BY <1>2
<1>4. r \in ReqRows /\ r.session = session /\ r.at = now'
  <2>1. shape.input \in Nat /\ shape.cread \in Nat /\ shape.cwrite \in Nat
    BY SessionAssumption
  <2> QED BY <1>1, <1>3, <2>1 DEF ReqRows, IInv, StateOK
<1>5. /\ reqs \in Seq(ReqRows) /\ Len(reqs) \in Nat /\ DOMAIN reqs = 1 .. Len(reqs)
      /\ reqs' \in Seq(ReqRows) /\ DOMAIN reqs' = 1 .. Len(reqs) + 1
      /\ (\A i \in DOMAIN reqs : reqs'[i] = reqs[i]) /\ reqs'[Len(reqs) + 1] = r
  <2>1. reqs \in Seq(ReqRows)
    BY DEF IInv, StateOK
  <2> QED BY <1>3, <1>4, <2>1
<1>6. /\ carried' = [i \in DOMAIN blocks |->
                       carried[i] + (IF i \in context /\ blocks[i].at < now' THEN 1 ELSE 0)]
      /\ carried \in Seq(Nat) /\ Len(carried) = Len(blocks) /\ blocks \in Seq(BlockRows)
  BY DEF Request, IInv, StateOK
<1>7. StateOK'
  <2>1. DOMAIN blocks = 1 .. Len(blocks) /\ Len(blocks) \in Nat /\ \A i \in DOMAIN blocks : carried[i] \in Nat
    BY <1>6
  <2>2. carried' \in [1 .. Len(blocks) -> Nat]
    BY <1>6, <2>1
  <2>3. carried' \in Seq(Nat) /\ Len(carried') = Len(blocks)
    BY <2>1, <2>2
  <2> QED BY <1>1, <1>5, <2>3 DEF IInv, StateOK
<1>8. StampsOK'
  <2>1. \A i \in DOMAIN reqs' : i \in DOMAIN reqs \/ (i = Len(reqs) + 1 /\ reqs'[i] = r)
    BY <1>5
  <2>2. \A i \in DOMAIN reqs : /\ reqs[i].session <= session
                               /\ reqs[i].session = session => reqs[i].at <= now
                               /\ reqs[i].at \in Nat /\ reqs[i].session \in Nat
    <3>1. \A i \in DOMAIN reqs : reqs[i] \in ReqRows
      BY <1>5
    <3> QED BY <3>1 DEF IInv, StampsOK, ReqRows
  <2>3. \A i \in DOMAIN blocks : /\ blocks[i].session <= session
                                 /\ blocks[i].session = session => blocks[i].at <= now
                                 /\ blocks[i].at \in Nat
    <3>1. \A i \in DOMAIN blocks : blocks[i] \in BlockRows
      BY <1>6
    <3> QED BY <3>1 DEF IInv, StampsOK, BlockRows
  <2>4. \A i \in DOMAIN reqs' : /\ reqs'[i].session <= session
                                /\ reqs'[i].session = session => reqs'[i].at <= now'
    <3> TAKE i \in DOMAIN reqs'
    <3>1. CASE i \in DOMAIN reqs
      <4>1. PICK q : q = reqs[i] /\ q = reqs'[i]
        BY <1>5, <3>1
      <4>2. q.session <= session /\ (q.session = session => q.at <= now) /\ q.at \in Nat
        BY <2>2, <3>1, <4>1
      <4> QED BY <1>1, <4>1, <4>2 DEF IInv, StateOK
    <3>2. CASE i = Len(reqs) + 1 /\ reqs'[i] = r
      BY <1>1, <1>4, <3>2 DEF IInv, StateOK
    <3> QED BY <2>1, <3>1, <3>2
  <2>5. \A i \in DOMAIN blocks : blocks[i].session = session => blocks[i].at <= now'
    <3> TAKE i \in DOMAIN blocks
    <3>1. PICK t \in Nat : t = blocks[i].at
      BY <2>3
    <3> QED BY <1>1, <2>3, <3>1 DEF IInv, StateOK
  <2>6. \A c \in compactions[session] : c <= now'
    <3>1. compactions[session] \in SUBSET Nat
      BY DEF IInv, StateOK, Sessions
    <3>2. \A c \in compactions[session] : c <= now /\ c \in Nat
      BY <3>1 DEF IInv, StampsOK
    <3> QED BY <1>1, <3>2 DEF IInv, StateOK
  <2> QED BY <1>1, <2>3, <2>4, <2>5, <2>6 DEF StampsOK
<1>9. Sorted'
  <2>1. \A i \in DOMAIN reqs : /\ reqs[i].session <= session
                               /\ reqs[i].session = session => reqs[i].at <= now
                               /\ reqs[i].at \in Nat /\ reqs[i].session \in Nat
    <3>1. \A i \in DOMAIN reqs : reqs[i] \in ReqRows
      BY <1>5
    <3> QED BY <3>1 DEF IInv, StampsOK, ReqRows
  <2> SUFFICES ASSUME NEW i \in DOMAIN reqs', NEW j \in DOMAIN reqs', i < j
               PROVE  \/ reqs'[i].session < reqs'[j].session
                      \/ reqs'[i].session = reqs'[j].session /\ reqs'[i].at <= reqs'[j].at
    BY Zenon DEF Sorted
  <2>2. i \in DOMAIN reqs /\ reqs'[i] = reqs[i]
    BY <1>5
  <2>3. CASE j \in DOMAIN reqs
    BY <1>5, <2>2, <2>3 DEF IInv, Sorted
  <2>4. CASE j = Len(reqs) + 1
    <3>1. PICK q, t, u : q = reqs[i] /\ t = q.session /\ u = q.at
      OBVIOUS
    <3>2. t \in Nat /\ u \in Nat /\ t <= session /\ (t = session => u <= now)
      BY <2>1, <2>2, <3>1
    <3>3. reqs'[j].session = session /\ reqs'[j].at = now'
      BY <1>4, <1>5, <2>4
    <3>4. t < session \/ (t = session /\ u <= now')
      BY <1>1, <3>2 DEF IInv, StateOK
    <3> QED BY <2>2, <3>1, <3>3, <3>4
  <2> QED BY <1>5, <2>3, <2>4
<1>10. ContextOK'
  BY <1>1 DEF IInv, ContextOK
<1>11. CarriedOK'
  <2> SUFFICES ASSUME NEW i \in DOMAIN blocks
               PROVE  carried'[i] = Resident(blocks[i], blocks, reqs', compactions)
    BY <1>1 DEF CarriedOK
  <2>1. PICK b, e : b = blocks[i] /\ e = End(b, blocks, compactions)
    OBVIOUS
  <2>2. b \in BlockRows /\ b.session \in Sessions /\ b.at \in Nat
    BY <2>1, EndInState DEF BlockRows
  <2>3. countBetween(reqs', b.session, b.at, e)
          = countBetween(reqs, b.session, b.at, e)
              + (IF r.session = b.session /\ r.at > b.at /\ (e # Never => r.at < e) THEN 1 ELSE 0)
    BY <1>3, <1>4, <1>5, CountAppended
  <2>4. i \in context <=> b.session = session /\ e = Never
    BY <2>1 DEF IInv, ContextOK
  <2>5. e # Never => e \in Nat /\ (b.session = session => e <= now)
    BY <2>1, EndInState
  <2>6. (r.session = b.session /\ r.at > b.at /\ (e # Never => r.at < e))
          <=> (i \in context /\ b.at < now')
    BY <1>1, <1>4, <2>2, <2>4, <2>5 DEF IInv, StateOK
  <2>7. carried'[i] = carried[i] + (IF i \in context /\ b.at < now' THEN 1 ELSE 0)
    BY <1>6, <2>1
  <2>8. carried[i] = countBetween(reqs, b.session, b.at, e)
    BY <2>1 DEF IInv, CarriedOK, Resident
  <2> QED BY <2>1, <2>3, <2>6, <2>7, <2>8 DEF Resident
<1> QED BY <1>7, <1>8, <1>9, <1>10, <1>11 DEF IInv

LEMMA EnterStep ==
    ASSUME IInv, NEW kind \in Kinds, NEW left, Entry, Enter(kind, left),
           \/ kind # "user_text" /\ left = {}
           \/ kind = "user_text" /\ BeforeRequests /\ left = Earlier({"thinking"})
    PROVE  IInv'
<1>1. /\ session' = session /\ reqs' = reqs /\ compactions' = compactions
      /\ Sessions' = Sessions /\ now' \in Nat /\ now <= now' /\ now \in Nat
      /\ session \in Nat \ {0} /\ session \in Sessions
  BY EntryTimes DEF Enter, IInv, StateOK, Sessions
<1>2. PICK x : /\ x = [session |-> session, at |-> now', kind |-> kind, tokens |-> Body(kind).tokens,
                       tool |-> Body(kind).tool, mcp |-> Body(kind).mcp, file |-> Body(kind).file]
               /\ blocks' = Append(blocks, x)
  BY DEF Enter
<1>3. x \in BlockRows /\ x.session = session /\ x.at = now' /\ x.kind = kind
  <2>1. PICK body : body = Body(kind) /\ body \in Attributes
    BY BodyOK DEF IInv
  <2> QED BY <1>1, <1>2, <2>1 DEF BlockRows, Attributes
<1>4. /\ blocks \in Seq(BlockRows) /\ Len(blocks) \in Nat /\ DOMAIN blocks = 1 .. Len(blocks)
      /\ blocks' \in Seq(BlockRows) /\ DOMAIN blocks' = 1 .. Len(blocks) + 1
      /\ Len(blocks') = Len(blocks) + 1
      /\ (\A i \in DOMAIN blocks : blocks'[i] = blocks[i]) /\ blocks'[Len(blocks) + 1] = x
  <2>1. blocks \in Seq(BlockRows)
    BY DEF IInv, StateOK
  <2> QED BY <1>2, <1>3, <2>1
<1>5. /\ context' = (context \ left) \cup {Len(blocks) + 1}
      /\ carried' = Append(carried, 0)
      /\ carried \in Seq(Nat) /\ Len(carried) = Len(blocks) /\ context \subseteq DOMAIN blocks
  BY DEF Enter, IInv, StateOK
<1>6. /\ carried' \in Seq(Nat) /\ Len(carried') = Len(blocks) + 1
      /\ (\A i \in DOMAIN blocks : carried'[i] = carried[i]) /\ carried'[Len(blocks) + 1] = 0
  BY <1>4, <1>5
<1>7. StateOK'
  <2>1. context' \subseteq DOMAIN blocks'
    BY <1>4, <1>5
  <2> QED BY <1>1, <1>4, <1>6, <2>1 DEF IInv, StateOK
<1>8. \A i \in DOMAIN blocks : /\ blocks[i] \in BlockRows /\ blocks[i].at \in Nat
                               /\ blocks[i].session <= session
                               /\ blocks[i].session = session => blocks[i].at <= now
  <2>1. \A i \in DOMAIN blocks : blocks[i] \in BlockRows
    BY <1>4
  <2> QED BY <2>1 DEF BlockRows, IInv, StampsOK
<1>9. \A i \in DOMAIN reqs : /\ reqs[i].at \in Nat
                             /\ reqs[i].session <= session
                             /\ reqs[i].session = session => reqs[i].at <= now
  <2>1. \A i \in DOMAIN reqs : reqs[i] \in ReqRows
    BY DEF IInv, StateOK
  <2> QED BY <2>1 DEF ReqRows, IInv, StampsOK
<1>10. compactions[session] \in SUBSET Nat /\ \A c \in compactions[session] : c <= now'
  <2>1. compactions[session] \in SUBSET Nat
    BY <1>1 DEF IInv, StateOK
  <2>2. \A c \in compactions[session] : c <= now /\ c \in Nat
    BY <2>1 DEF IInv, StampsOK
  <2> QED BY <1>1, <2>1, <2>2
<1>11. \A i \in DOMAIN blocks : blocks[i].session = session => blocks[i].at <= now'
  <2> TAKE i \in DOMAIN blocks
  <2>1. PICK t \in Nat : t = blocks[i].at
    BY <1>8
  <2> QED BY <1>1, <1>8, <2>1
<1>12. \A i \in DOMAIN reqs : reqs[i].session = session => reqs[i].at <= now'
  <2> TAKE i \in DOMAIN reqs
  <2>1. PICK t \in Nat : t = reqs[i].at
    BY <1>9
  <2> QED BY <1>1, <1>9, <2>1
<1>13. StampsOK'
  <2>1. \A i \in DOMAIN blocks' : /\ blocks'[i].session <= session
                                  /\ blocks'[i].session = session => blocks'[i].at <= now'
    <3> TAKE i \in DOMAIN blocks'
    <3>1. CASE i \in DOMAIN blocks
      <4>1. blocks'[i] = blocks[i]
        BY <1>4, <3>1
      <4> QED BY <1>8, <1>11, <3>1, <4>1
    <3>2. CASE i = Len(blocks) + 1
      BY <1>1, <1>3, <1>4, <3>2
    <3> QED BY <1>4, <3>1, <3>2
  <2> QED BY <1>1, <1>9, <1>10, <1>12, <2>1 DEF StampsOK
<1>14. Sorted'
  BY <1>1 DEF IInv, Sorted
<1>15. ASSUME NEW i \in DOMAIN blocks
       PROVE  End(blocks[i], blocks', compactions)
                = IF End(blocks[i], blocks, compactions) # Never THEN End(blocks[i], blocks, compactions)
                  ELSE IF /\ blocks[i].session = session /\ blocks[i].at < now'
                          /\ blocks[i].kind = "thinking" /\ kind = "user_text"
                       THEN now' ELSE Never
  <2>1. PICK b : b = blocks[i] /\ b \in BlockRows /\ compactions[b.session] \in SUBSET Nat
    BY EndInState
  <2>2. b.session = x.session =>
               /\ \A j \in DOMAIN blocks : blocks[j].session = x.session => blocks[j].at <= x.at
               /\ \A c \in compactions[x.session] : c <= x.at
    BY <1>3, <1>10, <1>11
  <2>3. End(b, Append(blocks, x), compactions)
             = IF End(b, blocks, compactions) # Never THEN End(b, blocks, compactions)
               ELSE IF /\ b.session = x.session /\ b.at < x.at
                       /\ b.kind = "thinking" /\ x.kind = "user_text"
                    THEN x.at ELSE Never
    BY <1>3, <1>4, <2>1, <2>2, EndAppended
  <2> QED BY <1>2, <1>3, <2>1, <2>3
<1>16. End(x, blocks', compactions) = Never
  <2>1. \A i \in DOMAIN blocks : blocks[i].session = x.session => blocks[i].at <= x.at
    BY <1>3, <1>11
  <2>2. compactions[x.session] \in SUBSET Nat /\ \A c \in compactions[x.session] : c <= x.at
    BY <1>3, <1>10
  <2> QED BY <1>2, <1>3, <1>4, <2>1, <2>2, EndFresh
<1>17. ContextOK'
  <2> SUFFICES ASSUME NEW i \in DOMAIN blocks'
               PROVE  i \in context' <=> /\ blocks'[i].session = session
                                         /\ End(blocks'[i], blocks', compactions) = Never
    BY <1>1, Zenon DEF ContextOK
  <2>1. CASE i = Len(blocks) + 1
    BY <1>3, <1>4, <1>5, <1>16, <2>1
  <2>2. CASE i \in DOMAIN blocks
    <3>1. blocks'[i] = blocks[i] /\ i # Len(blocks) + 1
      BY <1>4, <2>2
    <3>2. i \in context <=> blocks[i].session = session /\ End(blocks[i], blocks, compactions) = Never
      BY <2>2 DEF IInv, ContextOK
    <3>3. i \in context' <=> i \in context /\ i \notin left
      BY <1>5, <3>1
    <3>4. i \in context => (i \in left <=> /\ blocks[i].at < now' /\ blocks[i].kind = "thinking"
                                           /\ kind = "user_text")
      BY <1>1 DEF Earlier
    <3>5. now' # Never
      BY <1>1 DEF Never
    <3> QED BY <1>15, <2>2, <3>1, <3>2, <3>3, <3>4, <3>5
  <2> QED BY <1>4, <2>1, <2>2
<1>18. CarriedOK'
  <2> SUFFICES ASSUME NEW i \in DOMAIN blocks'
               PROVE  carried'[i] = Resident(blocks'[i], blocks', reqs, compactions)
    BY <1>1, Zenon DEF CarriedOK
  <2>1. CASE i = Len(blocks) + 1
    <3>1. Counted(reqs, session, now', Never) = {}
      <4>1. ASSUME NEW j \in DOMAIN reqs, reqs[j].session = session PROVE ~(reqs[j].at > now')
        <5>1. PICK t \in Nat : t = reqs[j].at
          BY <1>9
        <5> QED BY <1>1, <1>12, <4>1, <5>1
      <4> QED BY <4>1 DEF Counted
    <3>2. countBetween(reqs, session, now', Never) = 0
      BY <3>1, FS_EmptySet DEF countBetween, Counted
    <3> QED BY <1>3, <1>4, <1>6, <1>16, <2>1, <3>2 DEF Resident
  <2>2. CASE i \in DOMAIN blocks
    <3>1. PICK b : b = blocks[i]
      OBVIOUS
    <3>2. PICK e, f : e = End(b, blocks, compactions) /\ f = End(b, blocks', compactions)
      OBVIOUS
    <3>3. blocks'[i] = b /\ carried'[i] = carried[i]
      BY <1>4, <1>6, <2>2, <3>1
    <3>4. carried[i] = countBetween(reqs, b.session, b.at, e)
      BY <2>2, <3>1, <3>2 DEF IInv, CarriedOK, Resident
    <3>5. f = e \/ (e = Never /\ f = now' /\ b.session = session /\ kind = "user_text")
      BY <1>15, <2>2, <3>1, <3>2
    <3>6. countBetween(reqs, b.session, b.at, f) = countBetween(reqs, b.session, b.at, e)
      <4>1. CASE e = Never /\ f = now' /\ b.session = session /\ kind = "user_text"
        <5>1. \A j \in DOMAIN reqs : reqs[j].session = b.session => reqs[j].at < now'
          BY <4>1 DEF BeforeRequests
        <5> QED BY <1>1, <4>1, <5>1, CountClosed
      <4> QED BY <3>5, <4>1
    <3> QED BY <3>2, <3>3, <3>4, <3>6 DEF Resident
  <2> QED BY <1>4, <2>1, <2>2
<1> QED BY <1>7, <1>13, <1>14, <1>17, <1>18 DEF IInv

LEMMA CompactStep == ASSUME IInv, Compact PROVE IInv'
<1>1. /\ session' = session /\ reqs' = reqs /\ blocks' = blocks /\ carried' = carried
      /\ Sessions' = Sessions /\ now' \in Nat /\ now <= now' /\ now \in Nat
      /\ session \in Nat \ {0} /\ session \in Sessions
  BY EntryTimes DEF Compact, IInv, StateOK, Sessions
<1>2. /\ BeforeRequests /\ context' = context \ Earlier(Kinds)
      /\ compactions' = [compactions EXCEPT ![session] = @ \cup {now'}]
      /\ compactions \in [Sessions -> SUBSET Nat] /\ context \subseteq DOMAIN blocks
  BY DEF Compact, IInv, StateOK
<1>3. /\ \A s \in Sessions : s # session => compactions'[s] = compactions[s]
      /\ compactions'[session] = compactions[session] \cup {now'}
      /\ compactions' \in [Sessions -> SUBSET Nat]
  BY <1>1, <1>2
<1>4. StateOK'
  <2>1. \A s \in Sessions : IsFiniteSet(compactions'[s])
    <3> TAKE s \in Sessions
    <3>1. IsFiniteSet(compactions[s])
      BY DEF IInv, StateOK
    <3>2. IsFiniteSet(compactions[session] \cup {now'})
      BY <1>1, FS_AddElement DEF IInv, StateOK
    <3> QED BY <1>3, <3>1, <3>2
  <2> QED BY <1>1, <1>2, <1>3, <2>1 DEF IInv, StateOK
<1>5. \A i \in DOMAIN blocks : /\ blocks[i] \in BlockRows /\ blocks[i].at \in Nat
                               /\ blocks[i].kind \in Kinds
                               /\ blocks[i].session <= session
                               /\ blocks[i].session = session => blocks[i].at <= now
  <2>1. \A i \in DOMAIN blocks : blocks[i] \in BlockRows
    BY DEF IInv, StateOK
  <2> QED BY <2>1 DEF BlockRows, IInv, StampsOK
<1>6. \A i \in DOMAIN blocks : blocks[i].session = session => blocks[i].at <= now'
  <2> TAKE i \in DOMAIN blocks
  <2>1. PICK t \in Nat : t = blocks[i].at
    BY <1>5
  <2> QED BY <1>1, <1>5, <2>1
<1>7. \A c \in compactions[session] : c \in Nat /\ c <= now'
  <2>1. \A c \in compactions[session] : c <= now /\ c \in Nat
    BY <1>1, <1>2 DEF IInv, StampsOK
  <2> QED BY <1>1, <2>1
<1>8. StampsOK'
  <2>1. \A i \in DOMAIN reqs : /\ reqs[i].session <= session
                               /\ reqs[i].session = session => reqs[i].at <= now'
    <3>1. \A i \in DOMAIN reqs : reqs[i] \in ReqRows
      BY DEF IInv, StateOK
    <3> TAKE i \in DOMAIN reqs
    <3>2. PICK t \in Nat : t = reqs[i].at
      BY <3>1 DEF ReqRows
    <3> QED BY <1>1, <3>2 DEF IInv, StampsOK
  <2>2. \A c \in compactions'[session] : c <= now'
    BY <1>1, <1>3, <1>7
  <2> QED BY <1>1, <1>5, <1>6, <2>1, <2>2 DEF StampsOK
<1>9. Sorted'
  BY <1>1 DEF IInv, Sorted
<1>10. ASSUME NEW i \in DOMAIN blocks
       PROVE  End(blocks[i], blocks, compactions')
                = IF End(blocks[i], blocks, compactions) # Never THEN End(blocks[i], blocks, compactions)
                  ELSE IF blocks[i].session = session /\ blocks[i].at < now' THEN now' ELSE Never
  <2>1. PICK b : b = blocks[i] /\ b \in BlockRows /\ b.session \in Sessions
    BY EndInState
  <2>2. blocks \in Seq(BlockRows)
    BY DEF IInv, StateOK
  <2>3. PICK rows, comps, more, n, s :
           rows = blocks /\ comps = compactions /\ more = compactions' /\ n = now' /\ s = session
    OBVIOUS
  <2>4. Compacted(b.session, rows, comps, more, s, n)
    <3>1. comps[b.session] \in SUBSET Nat /\ n \in Nat
      BY <1>1, <1>2, <2>1, <2>3
    <3>2. b.session # s => more[b.session] = comps[b.session]
      BY <1>3, <2>1, <2>3
    <3>3. more[s] = comps[s] \cup {n}
      BY <1>3, <2>3
    <3>4. (\A c \in comps[s] : c <= n) /\ \A j \in DOMAIN rows : rows[j].session = s => rows[j].at <= n
      BY <1>6, <1>7, <2>3
    <3> QED BY <3>1, <3>2, <3>3, <3>4 DEF Compacted
  <2>5. End(b, rows, more) = EndAfter(b, End(b, rows, comps), s, n)
    BY <2>1, <2>2, <2>3, <2>4, EndCompacted
  <2> QED BY <2>1, <2>3, <2>5 DEF EndAfter
<1>11. ContextOK'
  <2> SUFFICES ASSUME NEW i \in DOMAIN blocks
               PROVE  i \in context' <=> /\ blocks[i].session = session
                                         /\ End(blocks[i], blocks, compactions') = Never
    BY <1>1 DEF ContextOK
  <2>1. i \in context <=> blocks[i].session = session /\ End(blocks[i], blocks, compactions) = Never
    BY DEF IInv, ContextOK
  <2>2. i \in context' <=> i \in context /\ ~(blocks[i].at < now')
    BY <1>2, <1>5 DEF Earlier
  <2>3. now' # Never
    BY <1>1 DEF Never
  <2> QED BY <1>10, <2>1, <2>2, <2>3
<1>12. CarriedOK'
  <2> SUFFICES ASSUME NEW i \in DOMAIN blocks
               PROVE  carried[i] = Resident(blocks[i], blocks, reqs, compactions')
    BY <1>1 DEF CarriedOK
  <2>1. PICK b, e, f : b = blocks[i] /\ e = End(b, blocks, compactions) /\ f = End(b, blocks, compactions')
    OBVIOUS
  <2>2. carried[i] = countBetween(reqs, b.session, b.at, e)
    BY <2>1 DEF IInv, CarriedOK, Resident
  <2>3. f = e \/ (e = Never /\ f = now' /\ b.session = session)
    BY <1>10, <2>1
  <2>4. countBetween(reqs, b.session, b.at, f) = countBetween(reqs, b.session, b.at, e)
    <3>1. CASE e = Never /\ f = now' /\ b.session = session
      <4>1. \A j \in DOMAIN reqs : reqs[j].session = b.session => reqs[j].at < now'
        BY <1>2, <3>1 DEF BeforeRequests
      <4> QED BY <1>1, <3>1, <4>1, CountClosed
    <3> QED BY <2>3, <3>1
  <2> QED BY <2>1, <2>2, <2>4 DEF Resident
<1> QED BY <1>4, <1>8, <1>9, <1>11, <1>12 DEF IInv

LEMMA NextSessionStep == ASSUME IInv, NextSession PROVE IInv'
<1>1. /\ session' = session + 1 /\ now' = 0 /\ reqs' = reqs /\ blocks' = blocks /\ carried' = carried
      /\ context' = {} /\ session \in Nat \ {0} /\ Sessions = 1 .. session /\ Sessions' = 1 .. session + 1
      /\ compactions' = [s \in 1 .. session + 1 |-> IF s \in Sessions THEN compactions[s] ELSE {}]
  BY DEF NextSession, IInv, StateOK, Sessions
<1>2. \A s \in Sessions : compactions'[s] = compactions[s]
  BY <1>1
<1>3. compactions'[session + 1] = {}
  BY <1>1
<1>4. StateOK'
  <2>1. \A s \in Sessions' : s \in Sessions \/ s = session + 1
    BY <1>1
  <2>2. \A s \in Sessions' : IsFiniteSet(compactions'[s])
    BY <1>2, <1>3, <2>1, FS_EmptySet DEF IInv, StateOK
  <2>3. \A s \in Sessions' : compactions'[s] \in SUBSET Nat
    BY <1>2, <1>3, <2>1 DEF IInv, StateOK
  <2>4. compactions' \in [Sessions' -> SUBSET Nat]
    BY <1>1, <2>3
  <2> QED BY <1>1, <2>2, <2>4 DEF IInv, StateOK
<1>5. \A i \in DOMAIN blocks : blocks[i].session \in Nat /\ blocks[i].session <= session
  <2>1. \A i \in DOMAIN blocks : blocks[i] \in BlockRows
    BY DEF IInv, StateOK
  <2> QED BY <2>1 DEF BlockRows, IInv, StampsOK
<1>6. \A i \in DOMAIN reqs : reqs[i].session \in Nat /\ reqs[i].session <= session
  <2>1. \A i \in DOMAIN reqs : reqs[i] \in ReqRows
    BY DEF IInv, StateOK
  <2> QED BY <2>1 DEF ReqRows, IInv, StampsOK
<1>7. StampsOK'
  <2>1. \A i \in DOMAIN blocks : blocks[i].session <= session + 1 /\ blocks[i].session # session + 1
    BY <1>1, <1>5
  <2>2. \A i \in DOMAIN reqs : reqs[i].session <= session + 1 /\ reqs[i].session # session + 1
    BY <1>1, <1>6
  <2> QED BY <1>1, <1>3, <2>1, <2>2 DEF StampsOK
<1>8. Sorted'
  BY <1>1 DEF IInv, Sorted
<1>9. ASSUME NEW i \in DOMAIN blocks
      PROVE  End(blocks[i], blocks, compactions') = End(blocks[i], blocks, compactions)
  BY <1>2, EndInState DEF End
<1>10. ContextOK'
  <2>1. \A i \in DOMAIN blocks : blocks[i].session # session + 1
    BY <1>1, <1>5
  <2> QED BY <1>1, <2>1 DEF ContextOK
<1>11. CarriedOK'
  BY <1>1, <1>9 DEF IInv, CarriedOK, Resident
<1> QED BY <1>4, <1>7, <1>8, <1>10, <1>11 DEF IInv

\* The clock, the order of the stamps, what the context holds and what was carried
\* (Residency counts against it), in every reachable state.
THEOREM HistoryInvariant == Spec => []IInv
<1>1. Init => IInv
  BY IInvInit
<1>2. IInv /\ [Next]_vars => IInv'
  <2> SUFFICES ASSUME IInv, [Next]_vars PROVE IInv'
    OBVIOUS
  <2>1. CASE Request
    BY <2>1, RequestStep
  <2>2. CASE Block
    BY <2>2, EnterStep DEF Block
  <2>3. CASE UserText
    BY <2>3, EnterStep DEF UserText, Kinds
  <2>4. CASE Compact
    BY <2>4, CompactStep
  <2>5. CASE NextSession
    BY <2>5, NextSessionStep
  <2>6. CASE UNCHANGED vars
    <3>1. /\ session' = session /\ now' = now /\ reqs' = reqs /\ blocks' = blocks
          /\ compactions' = compactions /\ context' = context /\ carried' = carried
      BY <2>6 DEF vars
    <3> QED BY <3>1 DEF IInv, StateOK, StampsOK, Sorted, ContextOK, CarriedOK, Sessions
  <2> QED BY <2>1, <2>2, <2>3, <2>4, <2>5, <2>6 DEF Next
<1> QED BY <1>1, <1>2, PTL DEF Spec

\* The windows between timestamps count the requests that carried each block
\* (Residency), in every history: the property the run checks.
THEOREM ResidencyOfEveryHistory == Spec => []ResidencyIsContext
<1>1. IInv => ResidencyIsContext
  <2> SUFFICES ASSUME IInv PROVE ResidencyIsContext
    OBVIOUS
  <2>1. \A i \in DOMAIN blocks : Resident(blocks[i], blocks, reqs, compactions) = carried[i]
    BY DEF IInv, CarriedOK
  <2>2. [i \in DOMAIN blocks |-> ResTokens(blocks[i], blocks, reqs, compactions)] = CarriedTokens
    BY <2>1 DEF ResTokens, CarriedTokens
  <2>3. ExtractedRes(blocks, reqs, compactions) = SumFunction(CarriedTokens)
    BY <2>2 DEF ExtractedRes
  <2> QED BY <2>1, <2>3 DEF ResidencyIsContext
<1> QED BY <1>1, HistoryInvariant, PTL
-----------------------------------------------------------------------------
(***************************************************************************)
(* Rows by their numbers.                                                  *)
(***************************************************************************)
Taken(first, rows, numbers, n) ==
    first = [k \in 0 .. n |->
               IF k = 0 THEN <<>>
               ELSE IF k \in numbers THEN Append(first[k - 1], rows[k]) ELSE first[k - 1]]

Taking(rows, numbers) == CHOOSE first : Taken(first, rows, numbers, Len(rows))

LEMMA RowsAtIs == ASSUME NEW rows, NEW numbers PROVE RowsAt(rows, numbers) = Taking(rows, numbers)[Len(rows)]
BY Zenon DEF RowsAt, Taking, Taken

LEMMA TakingExists ==
    ASSUME NEW rows, NEW numbers, NEW n \in Nat
    PROVE  \E first : Taken(first, rows, numbers, n)
<1> DEFINE Good == {m \in Nat : \E first : Taken(first, rows, numbers, m)}
<1>1. 0 \in Good
  <2>1. Taken([k \in 0 .. 0 |-> <<>>], rows, numbers, 0)
    BY DEF Taken
  <2> QED BY <2>1
<1>2. ASSUME NEW m \in Nat, m \in Good PROVE m + 1 \in Good
  <2>1. PICK first : Taken(first, rows, numbers, m)
    BY <1>2
  <2> DEFINE next == IF m + 1 \in numbers THEN Append(first[m], rows[m + 1]) ELSE first[m]
             more == [k \in 0 .. m + 1 |-> IF k = m + 1 THEN next ELSE first[k]]
  <2>2. more[m + 1] = next /\ \A k \in 0 .. m : more[k] = first[k]
    OBVIOUS
  <2>3. more = [k \in 0 .. m + 1 |-> more[k]]
    OBVIOUS
  <2> HIDE DEF more
  <2>4. \A k \in 0 .. m + 1 : more[k] = IF k = 0 THEN <<>>
                                        ELSE IF k \in numbers THEN Append(more[k - 1], rows[k]) ELSE more[k - 1]
    <3> TAKE k \in 0 .. m + 1
    <3>1. CASE k = 0
      BY <2>1, <2>2, <3>1 DEF Taken
    <3>2. CASE k = m + 1
      <4>1. k - 1 = m /\ k # 0
        BY <3>2
      <4> QED BY <2>2, <3>2, <4>1
    <3>3. CASE k \in 1 .. m
      <4>1. k \in 0 .. m /\ k # 0 /\ more[k] = first[k] /\ more[k - 1] = first[k - 1]
        BY <2>2, <3>3
      <4>2. first[k] = IF k \in numbers THEN Append(first[k - 1], rows[k]) ELSE first[k - 1]
        BY <2>1, <4>1, Zenon DEF Taken
      <4> QED BY <4>1, <4>2
    <3> QED BY <3>1, <3>2, <3>3
  <2>5. Taken(more, rows, numbers, m + 1)
    BY <2>3, <2>4 DEF Taken
  <2> QED BY <2>5
<1>3. \A m \in 0 .. n : m \in Good
  <2> HIDE DEF Good
  <2> QED BY <1>1, <1>2, ByInduction
<1> QED BY <1>3

\* Row by row.
LEMMA TakingStep ==
    ASSUME NEW rows, NEW numbers, Len(rows) \in Nat
    PROVE  LET first == Taking(rows, numbers)
           IN  /\ first[0] = <<>>
               /\ \A n \in 1 .. Len(rows) :
                     first[n] = IF n \in numbers THEN Append(first[n - 1], rows[n]) ELSE first[n - 1]
<1> DEFINE first == Taking(rows, numbers)
<1>1. Taken(first, rows, numbers, Len(rows))
  BY TakingExists DEF Taking
<1> HIDE DEF first
<1>2. first = [k \in 0 .. Len(rows) |->
               IF k = 0 THEN <<>>
               ELSE IF k \in numbers THEN Append(first[k - 1], rows[k]) ELSE first[k - 1]]
  BY <1>1 DEF Taken
<1>3. first[0] = <<>>
  BY <1>2
<1>4. ASSUME NEW n \in 1 .. Len(rows)
      PROVE  first[n] = IF n \in numbers THEN Append(first[n - 1], rows[n]) ELSE first[n - 1]
  <2>1. n \in 0 .. Len(rows) /\ n # 0
    OBVIOUS
  <2> QED BY <1>2, <2>1, Zenon
<1> USE DEF first
<1> QED BY <1>3, <1>4

\* What is taken from a prefix rests on the prefix alone.
SameUpTo(rows, numbers, others, places, n) ==
    /\ n \in Nat /\ Len(rows) \in Nat /\ Len(others) \in Nat /\ n <= Len(rows) /\ n <= Len(others)
    /\ \A k \in 1 .. n : rows[k] = others[k] /\ (k \in numbers <=> k \in places)

LEMMA TakingAgree ==
    ASSUME NEW rows, NEW others, NEW numbers, NEW places, NEW n,
           SameUpTo(rows, numbers, others, places, n)
    PROVE  Taking(rows, numbers)[n] = Taking(others, places)[n]
<1>0. /\ n \in Nat /\ Len(rows) \in Nat /\ Len(others) \in Nat /\ n <= Len(rows) /\ n <= Len(others)
      /\ \A k \in 1 .. n : rows[k] = others[k] /\ (k \in numbers <=> k \in places)
  BY DEF SameUpTo
<1> DEFINE f == Taking(rows, numbers)
           g == Taking(others, places)
           Good == {m \in Nat : f[m] = g[m]}
<1>1. /\ f[0] = <<>>
      /\ \A m \in 1 .. Len(rows) : f[m] = IF m \in numbers THEN Append(f[m - 1], rows[m]) ELSE f[m - 1]
  BY <1>0, TakingStep
<1>2. /\ g[0] = <<>>
      /\ \A m \in 1 .. Len(others) : g[m] = IF m \in places THEN Append(g[m - 1], others[m]) ELSE g[m - 1]
  BY <1>0, TakingStep
<1> HIDE DEF f, g
<1>3. 0 \in Good
  BY <1>1, <1>2
<1>4. ASSUME NEW m \in Nat, m < n, m \in Good PROVE m + 1 \in Good
  <2>1. m + 1 \in 1 .. n /\ m + 1 \in 1 .. Len(rows) /\ m + 1 \in 1 .. Len(others) /\ (m + 1) - 1 = m
    BY <1>0, <1>4
  <2>2. /\ f[m + 1] = IF m + 1 \in numbers THEN Append(f[m], rows[m + 1]) ELSE f[m]
        /\ g[m + 1] = IF m + 1 \in places THEN Append(g[m], others[m + 1]) ELSE g[m]
    BY <1>1, <1>2, <2>1
  <2>3. f[m] = g[m] /\ rows[m + 1] = others[m + 1] /\ (m + 1 \in numbers <=> m + 1 \in places)
    BY <1>0, <1>4, <2>1
  <2> QED BY <2>2, <2>3
<1>5. \A m \in 0 .. n : m \in Good
  <2> HIDE DEF Good
  <2> QED BY <1>0, <1>3, <1>4, ByInduction
<1> USE DEF f, g
<1> QED BY <1>0, <1>5

LEMMA RowsAtEmpty == ASSUME NEW numbers PROVE RowsAt(<<>>, numbers) = <<>>
<1>1. Len(<<>>) = 0
  OBVIOUS
<1> QED BY <1>1, RowsAtIs, TakingStep

\* Only the numbers of rows matter.
LEMMA RowsAtSame ==
    ASSUME NEW S, NEW rows \in Seq(S), NEW numbers, NEW places,
           \A k \in DOMAIN rows : k \in numbers <=> k \in places
    PROVE  RowsAt(rows, numbers) = RowsAt(rows, places)
<1>1. Len(rows) \in Nat /\ DOMAIN rows = 1 .. Len(rows)
  OBVIOUS
<1>2. PICK n : n = Len(rows)
  OBVIOUS
<1>3. \A k \in 1 .. n : rows[k] = rows[k] /\ (k \in numbers <=> k \in places)
  BY <1>1, <1>2
<1>4. n \in Nat /\ n <= Len(rows)
  BY <1>1, <1>2
<1>5. Taking(rows, numbers)[n] = Taking(rows, places)[n]
  <2>1. SameUpTo(rows, numbers, rows, places, n)
    BY <1>1, <1>3, <1>4 DEF SameUpTo
  <2> QED BY <2>1, TakingAgree
<1> QED BY <1>2, <1>5, RowsAtIs

LEMMA RowsAtAppend ==
    ASSUME NEW S, NEW rows \in Seq(S), NEW x \in S, NEW numbers
    PROVE  RowsAt(Append(rows, x), numbers)
             = IF Len(rows) + 1 \in numbers THEN Append(RowsAt(rows, numbers), x) ELSE RowsAt(rows, numbers)
<1>1. PICK more, n : more = Append(rows, x) /\ n = Len(rows)
  OBVIOUS
<1>2. /\ n \in Nat /\ Len(more) \in Nat /\ Len(more) = n + 1 /\ more[n + 1] = x
      /\ n <= Len(rows) /\ n <= Len(more)
  BY <1>1
<1>3. \A k \in 1 .. n : more[k] = rows[k]
  BY <1>1
<1>4. Taking(more, numbers)[n] = Taking(rows, numbers)[n]
  <2>1. Len(rows) \in Nat
    OBVIOUS
  <2>2. SameUpTo(more, numbers, rows, numbers, n)
    BY <1>2, <1>3, <2>1 DEF SameUpTo
  <2> QED BY <2>2, TakingAgree
<1>5. n + 1 \in 1 .. Len(more) /\ (n + 1) - 1 = n
  BY <1>2
<1>6. Taking(more, numbers)[n + 1] = IF n + 1 \in numbers THEN Append(Taking(more, numbers)[n], more[n + 1])
                                     ELSE Taking(more, numbers)[n]
  <2>1. PICK F : F = Taking(more, numbers)
    OBVIOUS
  <2>2. \A m \in 1 .. Len(more) : F[m] = IF m \in numbers THEN Append(F[m - 1], more[m]) ELSE F[m - 1]
    BY <1>2, <2>1, TakingStep
  <2>3. PICK m : m = n + 1 /\ m \in 1 .. Len(more) /\ m - 1 = n
    BY <1>5
  <2>4. F[m] = IF m \in numbers THEN Append(F[m - 1], more[m]) ELSE F[m - 1]
    BY <2>2, <2>3, Zenon
  <2> QED BY <2>1, <2>3, <2>4
<1>7. RowsAt(more, numbers) = Taking(more, numbers)[n + 1] /\ RowsAt(rows, numbers) = Taking(rows, numbers)[n]
  BY <1>1, <1>2, RowsAtIs
<1> QED BY <1>1, <1>2, <1>4, <1>6, <1>7

\* The places the rows come from.
PlacedAt(h, out, rows, numbers, n) ==
    /\ \A j \in 1 .. Len(out) : h[j] \in 1 .. n /\ h[j] \in numbers /\ out[j] = rows[h[j]]
    /\ \A i, j \in 1 .. Len(out) : i < j => h[i] < h[j]
    /\ \A k \in 1 .. n : k \in numbers => \E j \in 1 .. Len(out) : h[j] = k

LEMMA RowsAtPlaces ==
    ASSUME NEW S, NEW rows \in Seq(S), NEW numbers
    PROVE  /\ RowsAt(rows, numbers) \in Seq(S)
           /\ \E h : PlacedAt(h, RowsAt(rows, numbers), rows, numbers, Len(rows))
<1> DEFINE f == Taking(rows, numbers)
           Good == {n \in Nat : f[n] \in Seq(S) /\ \E h : PlacedAt(h, f[n], rows, numbers, n)}
<1>1. Len(rows) \in Nat /\ DOMAIN rows = 1 .. Len(rows) /\ \A k \in 1 .. Len(rows) : rows[k] \in S
  OBVIOUS
<1>2. /\ f[0] = <<>>
      /\ \A m \in 1 .. Len(rows) : f[m] = IF m \in numbers THEN Append(f[m - 1], rows[m]) ELSE f[m - 1]
  BY <1>1, TakingStep
<1> HIDE DEF f
<1>3. 0 \in Good
  <2>1. <<>> \in Seq(S) /\ Len(<<>>) = 0
    OBVIOUS
  <2>2. PlacedAt(<<>>, <<>>, rows, numbers, 0)
    BY <2>1 DEF PlacedAt
  <2> QED BY <1>2, <2>1, <2>2
<1>4. ASSUME NEW m \in Nat, m < Len(rows), m \in Good PROVE m + 1 \in Good
  <2>1. PICK out, h : out = f[m] /\ out \in Seq(S) /\ PlacedAt(h, out, rows, numbers, m)
    BY <1>4
  <2>2. m + 1 \in 1 .. Len(rows) /\ (m + 1) - 1 = m
    BY <1>1, <1>4
  <2>3. f[m + 1] = IF m + 1 \in numbers THEN Append(out, rows[m + 1]) ELSE out
    BY <1>2, <2>1, <2>2
  <2>4. PICK n \in Nat : n = Len(out)
    BY <2>1
  <2>5. /\ \A j \in 1 .. n : h[j] \in 1 .. m /\ h[j] \in numbers /\ out[j] = rows[h[j]]
        /\ \A i, j \in 1 .. n : i < j => h[i] < h[j]
        /\ \A k \in 1 .. m : k \in numbers => \E j \in 1 .. n : h[j] = k
    BY <2>1, <2>4 DEF PlacedAt
  <2>6. CASE m + 1 \notin numbers
    <3>1. \A j \in 1 .. n : h[j] \in 1 .. m + 1
      BY <2>5
    <3>2. \A k \in 1 .. m + 1 : k \in numbers => k \in 1 .. m
      BY <2>6
    <3>3. PlacedAt(h, out, rows, numbers, m + 1)
      BY <2>4, <2>5, <3>1, <3>2 DEF PlacedAt
    <3> QED BY <2>1, <2>3, <2>6, <3>3
  <2>7. CASE m + 1 \in numbers
    <3>1. PICK x : x = rows[m + 1] /\ x \in S
      BY <1>1, <2>2
    <3>2. PICK more : more = Append(out, x)
      OBVIOUS
    <3>3. /\ more \in Seq(S) /\ Len(more) = n + 1 /\ more[n + 1] = x
          /\ \A j \in 1 .. n : more[j] = out[j]
      BY <2>1, <2>4, <3>1, <3>2
    <3>4. PICK g : g = [j \in 1 .. n + 1 |-> IF j = n + 1 THEN m + 1 ELSE h[j]]
      OBVIOUS
    <3>5. g[n + 1] = m + 1 /\ \A j \in 1 .. n : g[j] = h[j]
      BY <3>4
    <3>6. \A j \in 1 .. n + 1 : j \in 1 .. n \/ j = n + 1
      OBVIOUS
    <3>7. \A j \in 1 .. n + 1 : g[j] \in 1 .. m + 1 /\ g[j] \in numbers /\ more[j] = rows[g[j]]
      <4> TAKE j \in 1 .. n + 1
      <4>1. CASE j \in 1 .. n
        BY <2>5, <3>3, <3>5, <4>1
      <4>2. CASE j = n + 1
        BY <2>7, <3>1, <3>3, <3>5, <4>2
      <4> QED BY <3>6, <4>1, <4>2
    <3>8. \A i, j \in 1 .. n + 1 : i < j => g[i] < g[j]
      <4> SUFFICES ASSUME NEW i \in 1 .. n + 1, NEW j \in 1 .. n + 1, i < j PROVE g[i] < g[j]
        OBVIOUS
      <4>1. i \in 1 .. n
        OBVIOUS
      <4>2. CASE j \in 1 .. n
        BY <2>5, <3>5, <4>1, <4>2
      <4>3. CASE j = n + 1
        <5>1. PICK a : a = h[i] /\ a \in 1 .. m
          BY <2>5, <4>1
        <5> QED BY <3>5, <4>1, <4>3, <5>1
      <4> QED BY <3>6, <4>2, <4>3
    <3>9. \A k \in 1 .. m + 1 : k \in numbers => \E j \in 1 .. n + 1 : g[j] = k
      <4> SUFFICES ASSUME NEW k \in 1 .. m + 1, k \in numbers PROVE \E j \in 1 .. n + 1 : g[j] = k
        OBVIOUS
      <4>1. CASE k \in 1 .. m
        <5>1. PICK j \in 1 .. n : h[j] = k
          BY <2>5, <4>1
        <5> QED BY <3>5, <5>1
      <4>2. CASE k = m + 1
        BY <3>5, <4>2
      <4> QED BY <4>1, <4>2
    <3>10. PlacedAt(g, more, rows, numbers, m + 1)
      BY <3>3, <3>7, <3>8, <3>9 DEF PlacedAt
    <3>11. f[m + 1] = more
      BY <2>3, <2>7, <3>1, <3>2
    <3> QED BY <3>3, <3>10, <3>11
  <2> QED BY <2>6, <2>7
<1>5. \A m \in 0 .. Len(rows) : m \in Good
  <2> HIDE DEF Good
  <2> QED BY <1>1, <1>3, <1>4, ByInduction
<1>6. Len(rows) \in Good /\ RowsAt(rows, numbers) = f[Len(rows)]
  BY <1>1, <1>5, RowsAtIs DEF f
<1> QED BY <1>6

LEMMA RowsAtRange ==
    ASSUME NEW S, NEW rows \in Seq(S), NEW numbers
    PROVE  /\ \A j \in DOMAIN RowsAt(rows, numbers) :
                 \E k \in DOMAIN rows : k \in numbers /\ RowsAt(rows, numbers)[j] = rows[k]
           /\ \A k \in DOMAIN rows : k \in numbers =>
                 \E j \in DOMAIN RowsAt(rows, numbers) : RowsAt(rows, numbers)[j] = rows[k]
<1>1. PICK out, h : out = RowsAt(rows, numbers) /\ out \in Seq(S) /\ PlacedAt(h, out, rows, numbers, Len(rows))
  BY RowsAtPlaces
<1>2. DOMAIN out = 1 .. Len(out) /\ DOMAIN rows = 1 .. Len(rows)
  BY <1>1
<1>3. \A j \in 1 .. Len(out) : h[j] \in 1 .. Len(rows) /\ h[j] \in numbers /\ out[j] = rows[h[j]]
  BY <1>1 DEF PlacedAt
<1>4. \A k \in 1 .. Len(rows) : k \in numbers => \E j \in 1 .. Len(out) : h[j] = k
  BY <1>1 DEF PlacedAt
<1>5. ASSUME NEW j \in DOMAIN out
      PROVE  \E k \in DOMAIN rows : k \in numbers /\ out[j] = rows[k]
  BY <1>2, <1>3
<1>6. ASSUME NEW k \in DOMAIN rows, k \in numbers
      PROVE  \E j \in DOMAIN out : out[j] = rows[k]
  <2>1. PICK j \in 1 .. Len(out) : h[j] = k
    BY <1>2, <1>4, <1>6
  <2> QED BY <1>2, <1>3, <2>1
<1> QED BY <1>1, <1>5, <1>6
-----------------------------------------------------------------------------
(***************************************************************************)
(* The roll-ups.                                                           *)
(***************************************************************************)
LEMMA PickIsGroup ==
    ASSUME NEW by \in {"tool", "mcp", "file", "kind"}, NEW b, b.kind # ""
    PROVE  Pick(by, b) = {AttrGroup(by, b)} \ {""}
<1>1. CASE by = "tool"
  BY <1>1 DEF Pick, AttrGroup
<1>2. CASE by = "mcp"
  BY <1>2 DEF Pick, AttrGroup
<1>3. CASE by = "file"
  BY <1>3 DEF Pick, AttrGroup
<1>4. CASE by = "kind"
  BY <1>4 DEF Pick, AttrGroup
<1> QED BY <1>1, <1>2, <1>3, <1>4

InGroup(rows, by, g) == {i \in DOMAIN rows : g \in Pick(by, rows[i])}

Since(rows, numbers, since) == {i \in numbers : rows[i].at >= since}

Groups(rows, by, numbers) == UNION {Pick(by, rows[i]) : i \in numbers}

\* What the flow counts of the rows no older than since.
LEMMA FlowIs ==
    ASSUME NEW by \in {"tool", "mcp", "file", "kind"}, NEW rows \in Seq(BlockRows), NEW since,
           NEW flow, flow = AttrRollup(rows, by, since, EverySession)
    PROVE  /\ DOMAIN flow = Groups(rows, by, Since(rows, DOMAIN rows, since))
           /\ \A g \in DOMAIN flow :
                 /\ flow[g].blocks = Cardinality(Since(rows, InGroup(rows, by, g), since))
                 /\ flow[g].flow = Tokens(rows, Since(rows, InGroup(rows, by, g), since))
<1> DEFINE Of(g) == Since(rows, InGroup(rows, by, g), since)
           where == {i \in DOMAIN rows : /\ AttrGroup(by, rows[i]) # ""
                                         /\ rows[i].at >= since
                                         /\ EverySession \in {EverySession, rows[i].session}}
           of(g) == {i \in where : AttrGroup(by, rows[i]) = g}
           groups == {AttrGroup(by, rows[i]) : i \in where}
<1>1. flow = [g \in groups |-> [blocks |-> Cardinality(of(g)), flow |-> Tokens(rows, of(g))]]
  BY DEF AttrRollup
<1>2. \A i \in DOMAIN rows : Pick(by, rows[i]) = {AttrGroup(by, rows[i])} \ {""}
  <2>1. \A i \in DOMAIN rows : rows[i] \in BlockRows
    OBVIOUS
  <2>2. \A i \in DOMAIN rows : rows[i].kind # ""
    BY <2>1 DEF BlockRows, Kinds
  <2> QED BY <2>2, PickIsGroup
<1>3. groups = Groups(rows, by, Since(rows, DOMAIN rows, since))
  <2>1. ASSUME NEW g \in groups PROVE \E i \in DOMAIN rows : rows[i].at >= since /\ g \in Pick(by, rows[i])
    BY <1>2, <2>1
  <2>2. ASSUME NEW i \in DOMAIN rows, rows[i].at >= since, NEW g \in Pick(by, rows[i]) PROVE g \in groups
    BY <1>2, <2>2
  <2> HIDE DEF groups
  <2> QED BY <2>1, <2>2 DEF Groups, Since
<1>4. ASSUME NEW g \in groups PROVE of(g) = Of(g)
  <2>1. g # ""
    OBVIOUS
  <2>2. \A i \in DOMAIN rows : g \in Pick(by, rows[i]) <=> AttrGroup(by, rows[i]) = g
    BY <1>2, <2>1
  <2> QED BY <2>1, <2>2 DEF InGroup, Since
<1>5. DOMAIN flow = groups /\ \A g \in groups : /\ flow[g].blocks = Cardinality(of(g))
                                               /\ flow[g].flow = Tokens(rows, of(g))
  <2> HIDE DEF groups, of
  <2> QED BY <1>1
<1> HIDE DEF groups, of, Of
<1>6. \A g \in DOMAIN flow : flow[g].blocks = Cardinality(Of(g)) /\ flow[g].flow = Tokens(rows, Of(g))
  BY <1>4, <1>5
<1> USE DEF Of
<1> QED BY <1>3, <1>5, <1>6

LEMMA ResidencyRollupIs ==
    ASSUME NEW by, NEW rows, NEW stamps, NEW comps,
           NEW all, all = RollupResidency(rows, by, stamps, comps)
    PROVE  /\ DOMAIN all = Groups(rows, by, DOMAIN rows)
           /\ \A g \in DOMAIN all : /\ all[g].blocks = Cardinality(InGroup(rows, by, g))
                                    /\ all[g].flow = Tokens(rows, InGroup(rows, by, g))
BY DEF RollupResidency, InGroup, Groups, Tokens

\* Of own, which is picked out of rows, S are the ones that are T among rows.
SameRows(own, S, rows, N, T) ==
    /\ own = RowsAt(rows, N) /\ S \subseteq DOMAIN own
    /\ T \subseteq DOMAIN rows /\ T \subseteq N
    /\ \A j \in DOMAIN own, i \in DOMAIN rows : own[j] = rows[i] /\ i \in N => (j \in S <=> i \in T)

\* Rows picked out of others come to the tokens they have there.
LEMMA TokensPlaced ==
    ASSUME NEW rows \in Seq(BlockRows), NEW N, NEW own, NEW S, NEW T, SameRows(own, S, rows, N, T)
    PROVE  own \in Seq(BlockRows) /\ Tokens(own, S) = Tokens(rows, T)
<1>1. PICK h : own \in Seq(BlockRows) /\ PlacedAt(h, own, rows, N, Len(rows))
  BY RowsAtPlaces DEF SameRows
<1>2. DOMAIN own = 1 .. Len(own) /\ Len(own) \in Nat /\ DOMAIN rows = 1 .. Len(rows) /\ Len(rows) \in Nat
  BY <1>1
<1>3. PICK e, f, g : /\ e = [j \in DOMAIN own |-> own[j].tokens] /\ f = [i \in DOMAIN rows |-> rows[i].tokens]
                     /\ g = [j \in S |-> h[j]]
  OBVIOUS
<1>4. \A j \in DOMAIN own : h[j] \in DOMAIN rows /\ h[j] \in N /\ own[j] = rows[h[j]]
  BY <1>1, <1>2 DEF PlacedAt
<1>5. \A j \in S : g[j] \in T /\ own[j] = rows[g[j]]
  BY <1>3, <1>4 DEF SameRows
<1>6. \A i \in T : \E j \in S : g[j] = i
  <2> TAKE i \in T
  <2>1. PICK j \in DOMAIN own : h[j] = i
    BY <1>1, <1>2 DEF PlacedAt, SameRows
  <2> QED BY <1>3, <1>4, <2>1 DEF SameRows
<1>7. ASSUME NEW i \in S, NEW j \in S, i # j PROVE g[i] # g[j]
  <2>1. i \in DOMAIN own /\ j \in DOMAIN own
    BY DEF SameRows
  <2>2. i < j \/ j < i
    BY <1>2, <1>7, <2>1
  <2>3. h[i] < h[j] \/ h[j] < h[i]
    BY <1>1, <1>2, <2>1, <2>2 DEF PlacedAt
  <2>4. PICK a, b : a = h[i] /\ b = h[j] /\ a \in Nat /\ b \in Nat
    BY <1>2, <1>4, <2>1
  <2> QED BY <1>3, <2>3, <2>4
<1>8. g \in Bijection(S, T)
  <2>1. g \in [S -> T]
    BY <1>3, <1>5
  <2>2. g \in Injection(S, T)
    BY <1>7, <2>1 DEF Injection, IsInjective
  <2>3. g \in Surjection(S, T)
    BY <1>6, <2>1 DEF Surjection
  <2> QED BY <2>2, <2>3 DEF Bijection
<1>9. IsFiniteSet(S)
  <2>1. IsFiniteSet(DOMAIN own)
    BY <1>2, FS_Interval
  <2> QED BY <2>1, FS_Subset DEF SameRows
<1>10. \A i \in DOMAIN rows : f[i] \in Nat /\ f[i] = rows[i].tokens
  <2>1. \A i \in DOMAIN rows : rows[i] \in BlockRows
    OBVIOUS
  <2> QED BY <1>3, <2>1 DEF BlockRows
<1>11. (\A i \in T : f[i] \in Nat) /\ \A j \in S : e[j] = f[g[j]]
  BY <1>3, <1>5, <1>10 DEF SameRows
<1>12. SumFunctionOnSet(e, S) = SumFunctionOnSet(f, T)
  BY <1>8, <1>9, <1>11, SumAlong
<1> QED BY <1>1, <1>3, <1>12 DEF Tokens

\* A group a roll-up has no row of has no tokens.
LEMMA FlowOfGroup ==
    ASSUME NEW rollup, NEW g, NEW rows, NEW S,
           g \in DOMAIN rollup => rollup[g].flow = Tokens(rows, S),
           g \notin DOMAIN rollup => S = {}
    PROVE  FlowOf(rollup, g) = Tokens(rows, S)
BY SumEmpty DEF FlowOf, Tokens

\* Groups, counts and tokens are those of the flow, and a window's flow over all
\* sessions is within what the residency of the window's sessions reports and the
\* blocks of the other sessions in it (RollupResidency, AttrRollup).
THEOREM RollupsOfEveryHistory == Spec => []RollupsAgree
<1>1. IInv => RollupsAgree
  <2> SUFFICES ASSUME IInv, NEW by \in {"tool", "mcp", "file", "kind"}
               PROVE  LET all  == RollupResidency(blocks, by, reqs, compactions)
                          flow == AttrRollup(blocks, by, Everything, EverySession)
                      IN  /\ DOMAIN all = DOMAIN flow
                          /\ \A g \in DOMAIN all : all[g].blocks = flow[g].blocks /\ all[g].flow = flow[g].flow
                          /\ \A since \in {reqs[i].at : i \in DOMAIN reqs} :
                                LET part   == RollupResidency(BlocksForResidency(since), by,
                                                              RequestStamps(since), compactions)
                                    cut    == AttrRollup(blocks, by, since, EverySession)
                                    strays == AttrRollup(OfSessions(blocks, Sessions \ Recent(since)),
                                                         by, since, EverySession)
                                IN  \A g \in DOMAIN cut : /\ g \in DOMAIN part \cup DOMAIN strays
                                                           /\ cut[g].flow <= FlowOf(part, g) + FlowOf(strays, g)
    BY DEF RollupsAgree
  <2>0. PICK all, flow : /\ all = RollupResidency(blocks, by, reqs, compactions)
                         /\ flow = AttrRollup(blocks, by, Everything, EverySession)
    OBVIOUS
  <2>1. blocks \in Seq(BlockRows) /\ \A i \in DOMAIN blocks : blocks[i].at \in Nat
    <3>1. blocks \in Seq(BlockRows)
      BY DEF IInv, StateOK
    <3>2. \A i \in DOMAIN blocks : blocks[i] \in BlockRows
      BY <3>1
    <3> QED BY <3>1, <3>2 DEF BlockRows
  <2>2. /\ DOMAIN all = Groups(blocks, by, DOMAIN blocks)
        /\ \A g \in DOMAIN all : /\ all[g].blocks = Cardinality(InGroup(blocks, by, g))
                                 /\ all[g].flow = Tokens(blocks, InGroup(blocks, by, g))
    BY <2>0, ResidencyRollupIs
  <2>3. /\ DOMAIN flow = Groups(blocks, by, Since(blocks, DOMAIN blocks, Everything))
        /\ \A g \in DOMAIN flow :
              /\ flow[g].blocks = Cardinality(Since(blocks, InGroup(blocks, by, g), Everything))
              /\ flow[g].flow = Tokens(blocks, Since(blocks, InGroup(blocks, by, g), Everything))
    BY <2>0, <2>1, FlowIs
  <2>4. /\ Since(blocks, DOMAIN blocks, Everything) = DOMAIN blocks
        /\ \A g : Since(blocks, InGroup(blocks, by, g), Everything) = InGroup(blocks, by, g)
    <3>1. \A i \in DOMAIN blocks : blocks[i].at >= Everything
      BY <2>1 DEF Everything
    <3> QED BY <3>1 DEF InGroup, Since
  <2>5. DOMAIN all = DOMAIN flow
    BY <2>2, <2>3, <2>4
  <2>6. \A g \in DOMAIN all : all[g].blocks = flow[g].blocks /\ all[g].flow = flow[g].flow
    BY <2>2, <2>3, <2>4, <2>5
  <2>7. ASSUME NEW since
        PROVE  LET part   == RollupResidency(BlocksForResidency(since), by, RequestStamps(since), compactions)
                   cut    == AttrRollup(blocks, by, since, EverySession)
                   strays == AttrRollup(OfSessions(blocks, Sessions \ Recent(since)), by, since, EverySession)
               IN  \A g \in DOMAIN cut : /\ g \in DOMAIN part \cup DOMAIN strays
                                          /\ cut[g].flow <= FlowOf(part, g) + FlowOf(strays, g)
    <3>0. PICK part, cut, strays :
             /\ part = RollupResidency(BlocksForResidency(since), by, RequestStamps(since), compactions)
             /\ cut = AttrRollup(blocks, by, since, EverySession)
             /\ strays = AttrRollup(OfSessions(blocks, Sessions \ Recent(since)), by, since, EverySession)
      OBVIOUS
    <3>1. PICK in, off, M, N :
             /\ M = {i \in DOMAIN blocks : blocks[i].session \in Recent(since)}
             /\ N = {i \in DOMAIN blocks : blocks[i].session \in Sessions \ Recent(since)}
             /\ in = BlocksForResidency(since) /\ off = OfSessions(blocks, Sessions \ Recent(since))
             /\ in = RowsAt(blocks, M) /\ off = RowsAt(blocks, N)
      BY DEF BlocksForResidency, OfSessions
    <3>2. in \in Seq(BlockRows) /\ off \in Seq(BlockRows)
      BY <2>1, <3>1, RowsAtPlaces
    <3>3. /\ DOMAIN part = Groups(in, by, DOMAIN in)
          /\ \A g \in DOMAIN part : part[g].flow = Tokens(in, InGroup(in, by, g))
      BY <3>0, <3>1, ResidencyRollupIs
    <3>4. /\ DOMAIN cut = Groups(blocks, by, Since(blocks, DOMAIN blocks, since))
          /\ \A g \in DOMAIN cut : cut[g].flow = Tokens(blocks, Since(blocks, InGroup(blocks, by, g), since))
      BY <2>1, <3>0, FlowIs
    <3>5. /\ DOMAIN strays = Groups(off, by, Since(off, DOMAIN off, since))
          /\ \A g \in DOMAIN strays : strays[g].flow = Tokens(off, Since(off, InGroup(off, by, g), since))
      <4>1. strays = AttrRollup(off, by, since, EverySession) /\ off \in Seq(BlockRows)
        BY <3>0, <3>1, <3>2
      <4> QED BY <4>1, FlowIs
    <3>6. \A i \in DOMAIN blocks : i \in M \/ i \in N
      <4>1. \A i \in DOMAIN blocks : blocks[i].session \in Sessions
        <5>1. session \in Nat \ {0} /\ \A i \in DOMAIN blocks : blocks[i].session <= session
          BY DEF IInv, StateOK, StampsOK
        <5>2. \A i \in DOMAIN blocks : blocks[i].session \in Nat \ {0}
          <6>1. \A i \in DOMAIN blocks : blocks[i] \in BlockRows
            BY <2>1
          <6> QED BY <6>1 DEF BlockRows
        <5> QED BY <5>1, <5>2 DEF Sessions
      <4> QED BY <3>1, <4>1
    <3>7. ASSUME NEW g \in DOMAIN cut
          PROVE  g \in DOMAIN part \cup DOMAIN strays /\ cut[g].flow <= FlowOf(part, g) + FlowOf(strays, g)
      <4>1. PICK U, V, W, S, T :
               /\ U = Since(blocks, InGroup(blocks, by, g), since)
               /\ V = InGroup(blocks, by, g) \cap M /\ W = U \cap N
               /\ S = InGroup(in, by, g) /\ T = Since(off, InGroup(off, by, g), since)
        OBVIOUS
      <4>2. U \subseteq DOMAIN blocks /\ V \subseteq DOMAIN blocks /\ W \subseteq DOMAIN blocks
        BY <4>1 DEF InGroup, Since
      <4>3. U \subseteq V \cup W /\ V \cap W = {}
        <5>1. M \cap N = {}
          BY <3>1
        <5> QED BY <3>6, <4>1, <4>2, <5>1 DEF Since
      <4>4. Tokens(in, S) = Tokens(blocks, V)
        <5>1. S \subseteq DOMAIN in /\ V \subseteq M
          BY <4>1 DEF InGroup
        <5>2. ASSUME NEW j \in DOMAIN in, NEW i \in DOMAIN blocks, in[j] = blocks[i], i \in M
              PROVE  j \in S <=> i \in V
          BY <4>1, <5>2 DEF InGroup
        <5>3. SameRows(in, S, blocks, M, V)
          BY <3>1, <4>2, <5>1, <5>2 DEF SameRows
        <5> QED BY <2>1, <5>3, TokensPlaced
      <4>5. Tokens(off, T) = Tokens(blocks, W)
        <5>1. T \subseteq DOMAIN off /\ W \subseteq N
          BY <4>1 DEF InGroup, Since
        <5>2. ASSUME NEW j \in DOMAIN off, NEW i \in DOMAIN blocks, off[j] = blocks[i], i \in N
              PROVE  j \in T <=> i \in W
          BY <4>1, <5>2 DEF InGroup, Since
        <5>3. SameRows(off, T, blocks, N, W)
          BY <3>1, <4>2, <5>1, <5>2 DEF SameRows
        <5> QED BY <2>1, <5>3, TokensPlaced
      <4>6. FlowOf(part, g) = Tokens(in, S)
        <5>1. g \notin DOMAIN part => S = {}
          BY <3>3, <4>1 DEF Groups, InGroup
        <5> QED BY <3>3, <4>1, <5>1, FlowOfGroup
      <4>7. FlowOf(strays, g) = Tokens(off, T)
        <5>1. g \notin DOMAIN strays => T = {}
          BY <3>5, <4>1 DEF Groups, InGroup, Since
        <5> QED BY <3>5, <4>1, <5>1, FlowOfGroup
      <4>8. PICK f : f = [i \in DOMAIN blocks |-> blocks[i].tokens] /\ \A i \in DOMAIN blocks : f[i] \in Nat
        <5>0. PICK f : f = [i \in DOMAIN blocks |-> blocks[i].tokens]
          OBVIOUS
        <5>1. \A i \in DOMAIN blocks : blocks[i] \in BlockRows
          BY <2>1
        <5>2. \A i \in DOMAIN blocks : f[i] \in Nat
          BY <5>0, <5>1 DEF BlockRows
        <5> QED BY <5>0, <5>2
      <4>9. IsFiniteSet(V) /\ IsFiniteSet(W) /\ IsFiniteSet(V \cup W)
        <5>1. DOMAIN blocks = 1 .. Len(blocks) /\ Len(blocks) \in Nat
          BY <2>1
        <5>2. IsFiniteSet(DOMAIN blocks)
          BY <5>1, FS_Interval
        <5>3. V \cup W \subseteq DOMAIN blocks
          BY <4>2
        <5> QED BY <4>2, <5>2, <5>3, FS_Subset
      <4>10. SumFunctionOnSet(f, U) <= SumFunctionOnSet(f, V \cup W)
        BY <4>2, <4>3, <4>8, <4>9, SumMonotone
      <4>11. SumFunctionOnSet(f, V \cup W) = SumFunctionOnSet(f, V) + SumFunctionOnSet(f, W)
        BY <4>2, <4>3, <4>8, <4>9, SumUnion
      <4>12. cut[g].flow <= FlowOf(part, g) + FlowOf(strays, g)
        <5>1. cut[g].flow = SumFunctionOnSet(f, U)
          BY <3>4, <4>1, <4>8 DEF Tokens
        <5>2. FlowOf(part, g) = SumFunctionOnSet(f, V) /\ FlowOf(strays, g) = SumFunctionOnSet(f, W)
          BY <4>4, <4>5, <4>6, <4>7, <4>8 DEF Tokens
        <5> QED BY <4>10, <4>11, <5>1, <5>2
      <4>13. g \in DOMAIN part \cup DOMAIN strays
        <5>1. PICK i \in DOMAIN blocks : blocks[i].at >= since /\ g \in Pick(by, blocks[i])
          BY <3>4 DEF Groups, Since
        <5>2. CASE i \in M
          <6>1. in = RowsAt(blocks, M) /\ blocks \in Seq(BlockRows)
            BY <2>1, <3>1
          <6>2. PICK j \in DOMAIN in : in[j] = blocks[i]
            BY <5>2, <6>1, RowsAtRange
          <6> QED BY <3>3, <5>1, <6>2 DEF Groups
        <5>3. CASE i \in N
          <6>1. off = RowsAt(blocks, N) /\ blocks \in Seq(BlockRows)
            BY <2>1, <3>1
          <6>2. PICK j \in DOMAIN off : off[j] = blocks[i]
            BY <5>3, <6>1, RowsAtRange
          <6> QED BY <3>5, <5>1, <6>2 DEF Groups, Since
        <5> QED BY <3>6, <5>2, <5>3
      <4> QED BY <4>12, <4>13
    <3> QED BY <3>0, <3>7
  <2> QED BY <2>0, <2>5, <2>6, <2>7
<1> QED BY <1>1, HistoryInvariant, PTL
-----------------------------------------------------------------------------
(***************************************************************************)
(* The runs of the doctors.                                                *)
(***************************************************************************)
CacheRunOf(after, rows, comps, n) ==
    after = [k \in 0 .. n |-> IF k = 0 THEN Start ELSE CacheStep(after[k - 1], rows[k], comps)]

LEMMA CacheRunExists ==
    ASSUME NEW rows, NEW comps, NEW n \in Nat
    PROVE  \E after : CacheRunOf(after, rows, comps, n)
<1> DEFINE Good == {m \in Nat : \E after : CacheRunOf(after, rows, comps, m)}
<1>1. 0 \in Good
  <2>1. CacheRunOf([k \in 0 .. 0 |-> Start], rows, comps, 0)
    BY DEF CacheRunOf
  <2> QED BY <2>1
<1>2. ASSUME NEW m \in Nat, m \in Good PROVE m + 1 \in Good
  <2>1. PICK after : CacheRunOf(after, rows, comps, m)
    BY <1>2
  <2>2. PICK next : next = CacheStep(after[m], rows[m + 1], comps)
    OBVIOUS
  <2>3. PICK more : more = [k \in 0 .. m + 1 |-> IF k = m + 1 THEN next ELSE after[k]]
    OBVIOUS
  <2>4. more[m + 1] = next /\ \A k \in 0 .. m : more[k] = after[k]
    BY <2>3
  <2>5. \A k \in 0 .. m + 1 : more[k] = IF k = 0 THEN Start ELSE CacheStep(more[k - 1], rows[k], comps)
    <3> TAKE k \in 0 .. m + 1
    <3>1. CASE k = 0
      BY <2>1, <2>4, <3>1 DEF CacheRunOf
    <3>2. CASE k = m + 1
      <4>1. k - 1 = m /\ k # 0
        BY <3>2
      <4> QED BY <2>2, <2>4, <3>2, <4>1
    <3>3. CASE k \in 1 .. m
      <4>1. k \in 0 .. m /\ k # 0 /\ more[k] = after[k] /\ more[k - 1] = after[k - 1]
        BY <2>4, <3>3
      <4>2. after[k] = CacheStep(after[k - 1], rows[k], comps)
        BY <2>1, <4>1, Zenon DEF CacheRunOf
      <4> QED BY <4>1, <4>2
    <3> QED BY <3>1, <3>2, <3>3
  <2>6. CacheRunOf(more, rows, comps, m + 1)
    <3>1. more = [k \in 0 .. m + 1 |-> more[k]]
      BY <2>3
    <3> QED BY <2>5, <3>1, Zenon DEF CacheRunOf
  <2> QED BY <2>6
<1>3. \A m \in 0 .. n : m \in Good
  <2> HIDE DEF Good
  <2> QED BY <1>1, <1>2, ByInduction
<1> QED BY <1>3

\* Request by request.
LEMMA CacheRunStep ==
    ASSUME NEW rows, NEW comps, Len(rows) \in Nat
    PROVE  /\ CacheRun(rows, comps)[0] = Start
           /\ \A n \in 1 .. Len(rows) :
                 CacheRun(rows, comps)[n] = CacheStep(CacheRun(rows, comps)[n - 1], rows[n], comps)
<1>1. PICK run : run = CacheRun(rows, comps)
  OBVIOUS
<1>2. CacheRun(rows, comps) = CHOOSE after : CacheRunOf(after, rows, comps, Len(rows))
  BY Zenon DEF CacheRun, CacheRunOf
<1>3. CacheRunOf(run, rows, comps, Len(rows))
  BY <1>1, <1>2, CacheRunExists
<1>4. run[0] = Start
  BY <1>3 DEF CacheRunOf
<1>5. ASSUME NEW n \in 1 .. Len(rows)
      PROVE  run[n] = CacheStep(run[n - 1], rows[n], comps)
  <2>1. n \in 0 .. Len(rows) /\ n # 0
    OBVIOUS
  <2> QED BY <1>3, <2>1, Zenon DEF CacheRunOf
<1> QED BY <1>1, <1>4, <1>5

WireRunOf(after, rows, comps, n) ==
    after = [k \in 0 .. n |-> IF k = 0 THEN Start ELSE WireStep(after[k - 1], rows[k], comps)]

LEMMA WireRunExists ==
    ASSUME NEW rows, NEW comps, NEW n \in Nat
    PROVE  \E after : WireRunOf(after, rows, comps, n)
<1> DEFINE Good == {m \in Nat : \E after : WireRunOf(after, rows, comps, m)}
<1>1. 0 \in Good
  <2>1. WireRunOf([k \in 0 .. 0 |-> Start], rows, comps, 0)
    BY DEF WireRunOf
  <2> QED BY <2>1
<1>2. ASSUME NEW m \in Nat, m \in Good PROVE m + 1 \in Good
  <2>1. PICK after : WireRunOf(after, rows, comps, m)
    BY <1>2
  <2>2. PICK next : next = WireStep(after[m], rows[m + 1], comps)
    OBVIOUS
  <2>3. PICK more : more = [k \in 0 .. m + 1 |-> IF k = m + 1 THEN next ELSE after[k]]
    OBVIOUS
  <2>4. more[m + 1] = next /\ \A k \in 0 .. m : more[k] = after[k]
    BY <2>3
  <2>5. \A k \in 0 .. m + 1 : more[k] = IF k = 0 THEN Start ELSE WireStep(more[k - 1], rows[k], comps)
    <3> TAKE k \in 0 .. m + 1
    <3>1. CASE k = 0
      BY <2>1, <2>4, <3>1 DEF WireRunOf
    <3>2. CASE k = m + 1
      <4>1. k - 1 = m /\ k # 0
        BY <3>2
      <4> QED BY <2>2, <2>4, <3>2, <4>1
    <3>3. CASE k \in 1 .. m
      <4>1. k \in 0 .. m /\ k # 0 /\ more[k] = after[k] /\ more[k - 1] = after[k - 1]
        BY <2>4, <3>3
      <4>2. after[k] = WireStep(after[k - 1], rows[k], comps)
        BY <2>1, <4>1, Zenon DEF WireRunOf
      <4> QED BY <4>1, <4>2
    <3> QED BY <3>1, <3>2, <3>3
  <2>6. WireRunOf(more, rows, comps, m + 1)
    <3>1. more = [k \in 0 .. m + 1 |-> more[k]]
      BY <2>3
    <3> QED BY <2>5, <3>1, Zenon DEF WireRunOf
  <2> QED BY <2>6
<1>3. \A m \in 0 .. n : m \in Good
  <2> HIDE DEF Good
  <2> QED BY <1>1, <1>2, ByInduction
<1> QED BY <1>3

\* Request by request.
LEMMA WireRunStep ==
    ASSUME NEW rows, NEW comps, Len(rows) \in Nat
    PROVE  /\ WireRun(rows, comps)[0] = Start
           /\ \A n \in 1 .. Len(rows) :
                 WireRun(rows, comps)[n] = WireStep(WireRun(rows, comps)[n - 1], rows[n], comps)
<1>1. PICK run : run = WireRun(rows, comps)
  OBVIOUS
<1>2. WireRun(rows, comps) = CHOOSE after : WireRunOf(after, rows, comps, Len(rows))
  BY Zenon DEF WireRun, WireRunOf
<1>3. WireRunOf(run, rows, comps, Len(rows))
  BY <1>1, <1>2, WireRunExists
<1>4. run[0] = Start
  BY <1>3 DEF WireRunOf
<1>5. ASSUME NEW n \in 1 .. Len(rows)
      PROVE  run[n] = WireStep(run[n - 1], rows[n], comps)
  <2>1. n \in 0 .. Len(rows) /\ n # 0
    OBVIOUS
  <2> QED BY <1>3, <2>1, Zenon DEF WireRunOf
<1> QED BY <1>1, <1>4, <1>5

\* The rows that are of a set.
Having(rows, K) == RowsAt(rows, {i \in DOMAIN rows : rows[i] \in K})

LEMMA HavingEmpty == ASSUME NEW K PROVE Having(<<>>, K) = <<>>
BY RowsAtEmpty DEF Having

LEMMA HavingAppend ==
    ASSUME NEW S, NEW rows \in Seq(S), NEW x \in S, NEW K
    PROVE  Having(Append(rows, x), K) = IF x \in K THEN Append(Having(rows, K), x) ELSE Having(rows, K)
<1>1. PICK more, n : more = Append(rows, x) /\ n = Len(rows)
  OBVIOUS
<1>2. PICK N, M : N = {i \in DOMAIN rows : rows[i] \in K} /\ M = {i \in DOMAIN more : more[i] \in K}
  OBVIOUS
<1>3. /\ n \in Nat /\ DOMAIN rows = 1 .. n /\ DOMAIN more = 1 .. n + 1 /\ more[n + 1] = x
      /\ \A i \in 1 .. n : more[i] = rows[i]
  BY <1>1
<1>4. n + 1 \in M <=> x \in K
  BY <1>2, <1>3
<1>5. \A i \in DOMAIN rows : i \in M <=> i \in N
  BY <1>2, <1>3
<1>6. RowsAt(rows, M) = RowsAt(rows, N)
  BY <1>5, RowsAtSame
<1>7. RowsAt(more, M) = IF n + 1 \in M THEN Append(RowsAt(rows, M), x) ELSE RowsAt(rows, M)
  BY <1>1, RowsAtAppend
<1> QED BY <1>1, <1>2, <1>4, <1>6, <1>7 DEF Having

LEMMA HavingIs ==
    ASSUME NEW S, NEW rows \in Seq(S), NEW K
    PROVE  /\ Having(rows, K) \in Seq(S)
           /\ \A j \in DOMAIN Having(rows, K) : \E k \in DOMAIN rows : rows[k] \in K /\ Having(rows, K)[j] = rows[k]
           /\ \A k \in DOMAIN rows : rows[k] \in K => \E j \in DOMAIN Having(rows, K) : Having(rows, K)[j] = rows[k]
<1>1. PICK N : N = {i \in DOMAIN rows : rows[i] \in K}
  OBVIOUS
<1>2. PICK out : out = RowsAt(rows, N)
  OBVIOUS
<1>3. out \in Seq(S)
  BY <1>2, RowsAtPlaces
<1>4. \A j \in DOMAIN out : \E k \in DOMAIN rows : k \in N /\ out[j] = rows[k]
  BY <1>2, RowsAtRange
<1>5. \A k \in DOMAIN rows : k \in N => \E j \in DOMAIN out : out[j] = rows[k]
  BY <1>2, RowsAtRange
<1>6. out = Having(rows, K)
  BY <1>1, <1>2 DEF Having
<1> QED BY <1>1, <1>3, <1>4, <1>5, <1>6

LEMMA OfSessionsIs ==
    ASSUME NEW S, NEW rows \in Seq(S), NEW ss, NEW K, \A x \in S : x \in K <=> x.session \in ss
    PROVE  OfSessions(rows, ss) = Having(rows, K)
<1>1. \A i \in DOMAIN rows : rows[i] \in S
  OBVIOUS
<1>2. {i \in DOMAIN rows : rows[i].session \in ss} = {i \in DOMAIN rows : rows[i] \in K}
  BY <1>1
<1> QED BY <1>2 DEF OfSessions, Having
-----------------------------------------------------------------------------
(***************************************************************************)
(* What the doctors keep.                                                  *)
(***************************************************************************)
ModelNames == {shape.model : shape \in Shapes}

Scores == [session : Nat, requests : Nat, events : Nat, expected : Nat, read : Nat, shortfall : Nat]

Causes == {"compaction", "ttl_expiry", "history_edit"}

ChainClasses == {"identical", "append", "truncated", "marker_rotation", "tools_changed",
                 "system_changed", "compaction", "history_edit"}

Classes == ChainClasses \cup {"ttl_expiry", "unexplained_miss"}

EventRows == [session : Nat \ {0}, at : Nat, model : ModelNames, cause : Causes, shortfall : Nat]

TransitionRows == [session : Nat \ {0}, at : Nat, model : ModelNames, event : BOOLEAN,
                   class : Classes, shortfall : Nat]

PrevOK(prev, s) ==
    /\ DOMAIN prev \subseteq ModelNames
    /\ \A m \in DOMAIN prev : prev[m] \in ReqRows /\ prev[m].session = s

AccOK(acc, E) ==
    /\ acc.score \in Scores /\ acc.sessions \subseteq Scores /\ acc.events \in Seq(E)
    /\ PrevOK(acc.prev, acc.score.session)

LEMMA Prompts ==
    ASSUME NEW prev \in ReqRows, NEW cur \in ReqRows
    PROVE  /\ Prompt(prev) \in Nat /\ cur.cread \in Nat /\ Shortfall(prev, cur) \in Int
           /\ Least(cur.cread, Prompt(prev)) \in Nat
           /\ Costs(prev, cur) => Shortfall(prev, cur) \in Nat \ {0}
           /\ (WireAccrues(prev, cur) <=> Accrues(prev, cur)) /\ (WireCosts(prev, cur) <=> Costs(prev, cur))
<1>1. /\ prev.input \in Nat /\ prev.cread \in Nat /\ prev.cwrite \in Nat
      /\ cur.cread \in Nat /\ cur.cwrite \in Nat
  BY DEF ReqRows
<1>2. Prompt(prev) \in Nat
  BY <1>1 DEF Prompt
<1>3. PICK p, c : p = Prompt(prev) /\ c = cur.cread
  OBVIOUS
<1>4. Shortfall(prev, cur) \in Int /\ Least(c, p) \in Nat
  BY <1>1, <1>2, <1>3 DEF Shortfall, Least
<1>5. Costs(prev, cur) => Shortfall(prev, cur) \in Nat \ {0}
  <2>1. minShortfall \in Nat \ {0}
    BY AnalyzerAssumption
  <2> QED BY <1>4, <2>1 DEF Costs
<1>6. WireAccrues(prev, cur) <=> Accrues(prev, cur)
  BY DEF WireAccrues, Accrues
<1>7. WireCosts(prev, cur) <=> Costs(prev, cur)
  BY <1>6 DEF WireCosts, Costs
<1> QED BY <1>1, <1>2, <1>3, <1>4, <1>5, <1>6, <1>7

LEMMA ScoredOK ==
    ASSUME NEW score \in Scores, NEW accrues, NEW costs, NEW prev, NEW cur,
           Prompt(prev) \in Nat, Least(cur.cread, Prompt(prev)) \in Nat,
           accrues /\ costs => Shortfall(prev, cur) \in Nat
    PROVE  /\ Scored(score, accrues, costs, prev, cur) \in Scores
           /\ Scored(score, accrues, costs, prev, cur).session = score.session
<1>1. PICK p, c, f : p = Prompt(prev) /\ c = Least(cur.cread, Prompt(prev)) /\ f = Shortfall(prev, cur)
  OBVIOUS
<1>2. PICK one : one = [score EXCEPT !.requests = @ + 1]
  OBVIOUS
<1>3. one \in Scores /\ one.session = score.session
  BY <1>2 DEF Scores
<1>4. PICK accrued : accrued = [one EXCEPT !.expected = @ + p, !.read = @ + c]
  OBVIOUS
<1>5. accrued \in Scores /\ accrued.session = score.session
  <2>1. p \in Nat /\ c \in Nat
    BY <1>1
  <2>2. /\ one.session \in Nat /\ one.requests \in Nat /\ one.events \in Nat
        /\ one.expected \in Nat /\ one.read \in Nat /\ one.shortfall \in Nat
        /\ one = [session |-> one.session, requests |-> one.requests, events |-> one.events,
                  expected |-> one.expected, read |-> one.read, shortfall |-> one.shortfall]
    BY <1>3 DEF Scores
  <2>3. accrued = [session |-> one.session, requests |-> one.requests, events |-> one.events,
                   expected |-> one.expected + p, read |-> one.read + c, shortfall |-> one.shortfall]
    BY <1>4, <2>2
  <2> QED BY <1>3, <2>1, <2>2, <2>3 DEF Scores
<1>6. PICK lost : lost = [accrued EXCEPT !.events = @ + 1, !.shortfall = @ + f]
  OBVIOUS
<1>7. accrues /\ costs => lost \in Scores /\ lost.session = score.session
  <2> SUFFICES ASSUME accrues /\ costs PROVE lost \in Scores /\ lost.session = score.session
    OBVIOUS
  <2>1. f \in Nat
    BY <1>1
  <2>2. /\ accrued.session \in Nat /\ accrued.requests \in Nat /\ accrued.events \in Nat
        /\ accrued.expected \in Nat /\ accrued.read \in Nat /\ accrued.shortfall \in Nat
        /\ accrued = [session |-> accrued.session, requests |-> accrued.requests, events |-> accrued.events,
                      expected |-> accrued.expected, read |-> accrued.read, shortfall |-> accrued.shortfall]
    BY <1>5 DEF Scores
  <2>3. lost = [session |-> accrued.session, requests |-> accrued.requests, events |-> accrued.events + 1,
                expected |-> accrued.expected, read |-> accrued.read, shortfall |-> accrued.shortfall + f]
    BY <1>6, <2>2
  <2> QED BY <1>5, <2>1, <2>2, <2>3 DEF Scores
<1>8. Scored(score, accrues, costs, prev, cur)
        = IF ~accrues THEN one ELSE IF ~costs THEN accrued ELSE lost
  BY <1>1, <1>2, <1>4, <1>6 DEF Scored
<1> QED BY <1>3, <1>5, <1>7, <1>8

LEMMA EntersOK ==
    ASSUME NEW E, NEW acc, AccOK(acc, E), NEW cur \in ReqRows
    PROVE  /\ AccOK(Enters(acc, cur), E) /\ Enters(acc, cur).score.session = cur.session
           /\ Enters(acc, cur).events = acc.events
           /\ acc.score.session = cur.session => Enters(acc, cur) = acc
           /\ acc.score.session # cur.session =>
                 /\ Enters(acc, cur).score = NewScore(cur.session) /\ DOMAIN Enters(acc, cur).prev = {}
                 /\ Enters(acc, cur).sessions = Flushed(acc)
<1>1. cur.session \in Nat
  BY DEF ReqRows
<1>2. CASE acc.score.session = cur.session
  BY <1>2 DEF Enters
<1>3. CASE acc.score.session # cur.session
  <2>1. PICK new : new = [score |-> NewScore(cur.session), prev |-> <<>>,
                          sessions |-> Flushed(acc), events |-> acc.events]
    OBVIOUS
  <2>2. Enters(acc, cur) = new
    BY <1>3, <2>1 DEF Enters
  <2>3. NewScore(cur.session) \in Scores /\ NewScore(cur.session).session = cur.session
    BY <1>1 DEF NewScore, Scores
  <2>4. Flushed(acc) \subseteq Scores
    BY DEF Flushed, AccOK
  <2>5. DOMAIN new.prev = {}
    BY <2>1
  <2>6. AccOK(new, E)
    BY <2>1, <2>3, <2>4, <2>5 DEF AccOK, PrevOK
  <2> QED BY <1>3, <2>1, <2>2, <2>3, <2>5, <2>6
<1> QED BY <1>2, <1>3

LEMMA RememberOK ==
    ASSUME NEW prev, NEW cur \in ReqRows, PrevOK(prev, cur.session)
    PROVE  PrevOK(Remember(prev, cur), cur.session)
<1>1. cur.model \in ModelNames
  BY DEF ReqRows, ModelNames
<1> QED BY <1>1 DEF Remember, PrevOK

LEMMA StartOK == ASSUME NEW E PROVE AccOK(Start, E)
<1>1. NewScore(0) \in Scores
  BY DEF NewScore, Scores
<1>2. Start.score = NewScore(0) /\ Start.prev = <<>> /\ Start.sessions = {} /\ Start.events = <<>>
  BY DEF Start
<1>3. DOMAIN Start.prev = {}
  BY <1>2
<1> QED BY <1>1, <1>2, <1>3 DEF AccOK, PrevOK

\* A request beside the one before it of its model, as the doctors report it.
Loss(prev, cur, comps) ==
    [session |-> cur.session, at |-> cur.at, model |-> cur.model,
     cause |-> classify(prev, cur, comps[cur.session]), shortfall |-> Shortfall(prev, cur)]

Transition(prev, cur, comps) ==
    LET class == diffChains(prev, cur, comps[cur.session])
        event == WireCosts(prev, cur)
    IN  [session |-> cur.session, at |-> cur.at, model |-> cur.model, event |-> event,
         class |-> IF event THEN eventCause(class, prev, cur) ELSE class,
         shortfall |-> IF WireAccrues(prev, cur) /\ Shortfall(prev, cur) > 0 THEN Shortfall(prev, cur) ELSE 0]

Known(acc, cur) == cur.model \in DOMAIN acc.prev

Before(acc, cur) == IF Known(acc, cur) THEN acc.prev[cur.model] ELSE cur

CacheStepped(acc, cur, comps, prev, out) ==
    /\ out.prev = Remember(acc.prev, cur) /\ out.sessions = acc.sessions
    /\ ~Known(acc, cur) => /\ out.score = Scored(acc.score, FALSE, FALSE, cur, cur)
                           /\ out.events = acc.events
    /\ Known(acc, cur) =>
          /\ out.score = Scored(acc.score, Accrues(prev, cur), Costs(prev, cur), prev, cur)
          /\ out.events = IF Costs(prev, cur) THEN Append(acc.events, Loss(prev, cur, comps)) ELSE acc.events

LEMMA CacheStepIs ==
    ASSUME NEW acc0, NEW acc, NEW cur, NEW comps, acc = Enters(acc0, cur)
    PROVE  CacheStepped(acc, cur, comps, Before(acc, cur), CacheStep(acc0, cur, comps))
<1>1. PICK out, prev : out = CacheStep(acc0, cur, comps) /\ prev = Before(acc, cur)
  OBVIOUS
<1>2. CASE Known(acc, cur)
  <2>1. /\ out.prev = Remember(acc.prev, cur) /\ out.sessions = acc.sessions
        /\ out.score = Scored(acc.score, Known(acc, cur) /\ Accrues(prev, cur), Costs(prev, cur), prev, cur)
    BY <1>1, <1>2, Zenon DEF CacheStep, Known, Before
  <2>2. out.events = IF Costs(prev, cur) THEN Append(acc.events, Loss(prev, cur, comps)) ELSE acc.events
    BY <1>1, <1>2, Zenon DEF CacheStep, Known, Before, Loss
  <2>3. Scored(acc.score, Known(acc, cur) /\ Accrues(prev, cur), Costs(prev, cur), prev, cur)
          = Scored(acc.score, Accrues(prev, cur), Costs(prev, cur), prev, cur)
    BY <1>2 DEF Scored
  <2> QED BY <1>1, <1>2, <2>1, <2>2, <2>3 DEF CacheStepped
<1>3. CASE ~Known(acc, cur)
  <2>1. /\ out.prev = Remember(acc.prev, cur) /\ out.sessions = acc.sessions /\ out.events = acc.events
    BY <1>1, <1>3 DEF CacheStep, Known
  <2>2. out.score = Scored(acc.score, FALSE, Costs(cur, cur), cur, cur)
    BY <1>1, <1>3 DEF CacheStep, Known
  <2>3. Scored(acc.score, FALSE, Costs(cur, cur), cur, cur) = Scored(acc.score, FALSE, FALSE, cur, cur)
    BY DEF Scored
  <2> QED BY <1>1, <1>3, <2>1, <2>2, <2>3 DEF CacheStepped
<1> QED BY <1>2, <1>3

WireStepped(acc, cur, comps, prev, out) ==
    /\ out.prev = Remember(acc.prev, cur) /\ out.sessions = acc.sessions
    /\ ~Known(acc, cur) => /\ out.score = Scored(acc.score, FALSE, FALSE, cur, cur)
                           /\ out.events = acc.events
    /\ Known(acc, cur) =>
          /\ out.score = Scored(acc.score, WireAccrues(prev, cur), WireCosts(prev, cur), prev, cur)
          /\ out.events = Append(acc.events, Transition(prev, cur, comps))

LEMMA WireStepIs ==
    ASSUME NEW acc0, NEW acc, NEW cur, NEW comps, acc = Enters(acc0, cur)
    PROVE  WireStepped(acc, cur, comps, Before(acc, cur), WireStep(acc0, cur, comps))
<1>1. PICK out, prev : out = WireStep(acc0, cur, comps) /\ prev = Before(acc, cur)
  OBVIOUS
<1>2. CASE Known(acc, cur)
  <2>1. /\ out.prev = Remember(acc.prev, cur) /\ out.sessions = acc.sessions
        /\ out.score = Scored(acc.score, Known(acc, cur) /\ WireAccrues(prev, cur), WireCosts(prev, cur), prev, cur)
    BY <1>1, <1>2, Zenon DEF WireStep, Known, Before
  <2>2. out.events = Append(acc.events, Transition(prev, cur, comps))
    BY <1>1, <1>2, Zenon DEF WireStep, Known, Before, Transition
  <2>3. Scored(acc.score, Known(acc, cur) /\ WireAccrues(prev, cur), WireCosts(prev, cur), prev, cur)
          = Scored(acc.score, WireAccrues(prev, cur), WireCosts(prev, cur), prev, cur)
    BY <1>2 DEF Scored
  <2> QED BY <1>1, <1>2, <2>1, <2>2, <2>3 DEF WireStepped
<1>3. CASE ~Known(acc, cur)
  <2>1. /\ out.prev = Remember(acc.prev, cur) /\ out.sessions = acc.sessions /\ out.events = acc.events
    BY <1>1, <1>3 DEF WireStep, Known
  <2>2. out.score = Scored(acc.score, FALSE, WireCosts(cur, cur), cur, cur)
    BY <1>1, <1>3 DEF WireStep, Known
  <2>3. Scored(acc.score, FALSE, WireCosts(cur, cur), cur, cur) = Scored(acc.score, FALSE, FALSE, cur, cur)
    BY DEF Scored
  <2> QED BY <1>1, <1>3, <2>1, <2>2, <2>3 DEF WireStepped
<1> QED BY <1>2, <1>3

LEMMA LossOK ==
    ASSUME NEW prev \in ReqRows, NEW cur \in ReqRows, NEW comps, Costs(prev, cur)
    PROVE  Loss(prev, cur, comps) \in EventRows
<1>1. cur.session \in Nat \ {0} /\ cur.at \in Nat /\ cur.model \in ModelNames
  BY DEF ReqRows, ModelNames
<1>2. Shortfall(prev, cur) \in Nat
  BY Prompts
<1>3. classify(prev, cur, comps[cur.session]) \in Causes
  BY DEF classify, Causes
<1> QED BY <1>1, <1>2, <1>3 DEF Loss, EventRows

LEMMA ClassOK ==
    ASSUME NEW prev, NEW cur, NEW boundaries
    PROVE  /\ diffChains(prev, cur, boundaries) \in ChainClasses
           /\ diffChains(prev, cur, boundaries) = "compaction" => Boundary(prev, cur, boundaries)
           /\ \A class \in ChainClasses : /\ eventCause(class, prev, cur) \in Classes
                                          /\ eventCause(class, prev, cur) = "compaction" => class = "compaction"
<1>1. PICK common, before, after :
          common = Common(prev.chain, cur.chain) /\ before = Len(prev.chain) /\ after = Len(cur.chain)
  OBVIOUS
<1>2. PICK last : last = IF common = before - 1 /\ before >= 4 THEN "marker_rotation"
                         ELSE IF common = 0 THEN "tools_changed"
                         ELSE IF common = 1 THEN "system_changed"
                         ELSE IF Boundary(prev, cur, boundaries) THEN "compaction" ELSE "history_edit"
  OBVIOUS
<1>3. diffChains(prev, cur, boundaries)
        = CASE common = before /\ common = after -> "identical"
            [] common = before /\ common < after -> "append"
            [] common < before /\ common = after -> "truncated"
            [] OTHER -> last
  BY <1>1, <1>2, Zenon DEF diffChains
<1>4. diffChains(prev, cur, boundaries) \in {"identical", "append", "truncated", last}
  BY <1>3
<1>5. last \in ChainClasses /\ (last = "compaction" => Boundary(prev, cur, boundaries))
  BY <1>2 DEF ChainClasses
<1>6. ASSUME NEW class \in ChainClasses
      PROVE  /\ eventCause(class, prev, cur) \in Classes
             /\ eventCause(class, prev, cur) = "compaction" => class = "compaction"
  <2>1. eventCause(class, prev, cur) \in {class, "ttl_expiry", "unexplained_miss"}
    BY DEF eventCause
  <2> QED BY <2>1 DEF Classes
<1>7. {"identical", "append", "truncated"} \subseteq ChainClasses
  BY DEF ChainClasses
<1> QED BY <1>4, <1>5, <1>6, <1>7

LEMMA TransitionOK ==
    ASSUME NEW prev \in ReqRows, NEW cur \in ReqRows, NEW comps
    PROVE  /\ Transition(prev, cur, comps) \in TransitionRows
           /\ Transition(prev, cur, comps).event = WireCosts(prev, cur)
<1>1. cur.session \in Nat \ {0} /\ cur.at \in Nat /\ cur.model \in ModelNames
  BY DEF ReqRows, ModelNames
<1>2. PICK class, event : /\ class = diffChains(prev, cur, comps[cur.session])
                          /\ event = WireCosts(prev, cur)
  OBVIOUS
<1>3. PICK named, lost : /\ named = IF event THEN eventCause(class, prev, cur) ELSE class
                         /\ lost = IF WireAccrues(prev, cur) /\ Shortfall(prev, cur) > 0
                                   THEN Shortfall(prev, cur) ELSE 0
  OBVIOUS
<1>4. lost \in Nat
  <2>1. Shortfall(prev, cur) \in Int
    BY Prompts
  <2> QED BY <1>3, <2>1
<1>5. named \in Classes
  <2>1. class \in ChainClasses /\ class \in Classes
    BY <1>2, ClassOK DEF Classes
  <2> QED BY <1>3, <2>1, ClassOK
<1>6. event \in BOOLEAN
  BY <1>2 DEF WireCosts
<1>7. Transition(prev, cur, comps)
        = [session |-> cur.session, at |-> cur.at, model |-> cur.model, event |-> event,
           class |-> named, shortfall |-> lost]
  BY <1>2, <1>3 DEF Transition
<1> QED BY <1>1, <1>2, <1>4, <1>5, <1>6, <1>7 DEF TransitionRows

LEMMA CacheStepOK ==
    ASSUME NEW acc0, AccOK(acc0, EventRows), NEW cur \in ReqRows, NEW comps
    PROVE  AccOK(CacheStep(acc0, cur, comps), EventRows) /\ CacheStep(acc0, cur, comps).score.session = cur.session
<1>1. PICK acc, out, prev : /\ acc = Enters(acc0, cur) /\ out = CacheStep(acc0, cur, comps)
                            /\ prev = Before(acc, cur)
  OBVIOUS
<1>2. AccOK(acc, EventRows) /\ acc.score.session = cur.session
  BY <1>1, EntersOK
<1>3. prev \in ReqRows
  BY <1>1, <1>2 DEF AccOK, PrevOK, Known, Before
<1>4. /\ out.prev = Remember(acc.prev, cur) /\ out.sessions = acc.sessions
      /\ ~Known(acc, cur) => out.score = Scored(acc.score, FALSE, FALSE, cur, cur) /\ out.events = acc.events
      /\ Known(acc, cur) =>
            /\ out.score = Scored(acc.score, Accrues(prev, cur), Costs(prev, cur), prev, cur)
            /\ out.events = IF Costs(prev, cur) THEN Append(acc.events, Loss(prev, cur, comps)) ELSE acc.events
  <2>1. CacheStepped(acc, cur, comps, prev, out)
    BY <1>1, CacheStepIs
  <2> QED BY <2>1 DEF CacheStepped
<1>5. PrevOK(out.prev, cur.session)
  BY <1>2, <1>4, RememberOK DEF AccOK
<1>6. out.score \in Scores /\ out.score.session = cur.session
  <2>1. acc.score \in Scores
    BY <1>2 DEF AccOK
  <2>2. Scored(acc.score, FALSE, FALSE, cur, cur) \in Scores /\ Scored(acc.score, FALSE, FALSE, cur, cur).session = cur.session
    <3>1. Prompt(cur) \in Nat /\ Least(cur.cread, Prompt(cur)) \in Nat
      BY Prompts
    <3>2. PICK no : no = FALSE
      OBVIOUS
    <3>3. Scored(acc.score, no, no, cur, cur) \in Scores /\ Scored(acc.score, no, no, cur, cur).session = cur.session
      BY <1>2, <2>1, <3>1, <3>2, ScoredOK
    <3> QED BY <3>2, <3>3
  <2>3. PICK a, c : a = Accrues(prev, cur) /\ c = Costs(prev, cur)
    OBVIOUS
  <2>4. /\ Prompt(prev) \in Nat /\ Least(cur.cread, Prompt(prev)) \in Nat
        /\ a /\ c => Shortfall(prev, cur) \in Nat
    BY <1>3, <2>3, Prompts
  <2>5. Scored(acc.score, a, c, prev, cur) \in Scores /\ Scored(acc.score, a, c, prev, cur).session = cur.session
    BY <1>2, <2>1, <2>4, ScoredOK
  <2> QED BY <1>4, <2>2, <2>3, <2>5
<1>7. out.events \in Seq(EventRows)
  <2>1. acc.events \in Seq(EventRows)
    BY <1>2 DEF AccOK
  <2>2. Costs(prev, cur) => Append(acc.events, Loss(prev, cur, comps)) \in Seq(EventRows)
    BY <1>3, <2>1, LossOK
  <2> QED BY <1>4, <2>1, <2>2
<1>8. out.sessions \subseteq Scores
  BY <1>2, <1>4 DEF AccOK
<1> QED BY <1>1, <1>5, <1>6, <1>7, <1>8 DEF AccOK

LEMMA WireStepOK ==
    ASSUME NEW acc0, AccOK(acc0, TransitionRows), NEW cur \in ReqRows, NEW comps
    PROVE  AccOK(WireStep(acc0, cur, comps), TransitionRows)
<1>1. PICK acc, out, prev : /\ acc = Enters(acc0, cur) /\ out = WireStep(acc0, cur, comps)
                            /\ prev = Before(acc, cur)
  OBVIOUS
<1>2. AccOK(acc, TransitionRows) /\ acc.score.session = cur.session
  BY <1>1, EntersOK
<1>3. prev \in ReqRows
  BY <1>1, <1>2 DEF AccOK, PrevOK, Known, Before
<1>4. /\ out.prev = Remember(acc.prev, cur) /\ out.sessions = acc.sessions
      /\ ~Known(acc, cur) => out.score = Scored(acc.score, FALSE, FALSE, cur, cur) /\ out.events = acc.events
      /\ Known(acc, cur) =>
            /\ out.score = Scored(acc.score, WireAccrues(prev, cur), WireCosts(prev, cur), prev, cur)
            /\ out.events = Append(acc.events, Transition(prev, cur, comps))
  <2>1. WireStepped(acc, cur, comps, prev, out)
    BY <1>1, WireStepIs
  <2> QED BY <2>1 DEF WireStepped
<1>5. PrevOK(out.prev, cur.session)
  BY <1>2, <1>4, RememberOK DEF AccOK
<1>6. out.score \in Scores /\ out.score.session = cur.session
  <2>1. acc.score \in Scores
    BY <1>2 DEF AccOK
  <2>2. Scored(acc.score, FALSE, FALSE, cur, cur) \in Scores /\ Scored(acc.score, FALSE, FALSE, cur, cur).session = cur.session
    <3>1. Prompt(cur) \in Nat /\ Least(cur.cread, Prompt(cur)) \in Nat
      BY Prompts
    <3>2. PICK no : no = FALSE
      OBVIOUS
    <3>3. Scored(acc.score, no, no, cur, cur) \in Scores /\ Scored(acc.score, no, no, cur, cur).session = cur.session
      BY <1>2, <2>1, <3>1, <3>2, ScoredOK
    <3> QED BY <3>2, <3>3
  <2>3. PICK a, c : a = WireAccrues(prev, cur) /\ c = WireCosts(prev, cur)
    OBVIOUS
  <2>4. /\ Prompt(prev) \in Nat /\ Least(cur.cread, Prompt(prev)) \in Nat
        /\ a /\ c => Shortfall(prev, cur) \in Nat
    BY <1>3, <2>3, Prompts
  <2>5. Scored(acc.score, a, c, prev, cur) \in Scores /\ Scored(acc.score, a, c, prev, cur).session = cur.session
    BY <1>2, <2>1, <2>4, ScoredOK
  <2> QED BY <1>4, <2>2, <2>3, <2>5
<1>7. out.events \in Seq(TransitionRows)
  <2>1. acc.events \in Seq(TransitionRows)
    BY <1>2 DEF AccOK
  <2>2. Append(acc.events, Transition(prev, cur, comps)) \in Seq(TransitionRows)
    BY <1>3, <2>1, TransitionOK
  <2> QED BY <1>4, <2>1, <2>2
<1>8. out.sessions \subseteq Scores
  BY <1>2, <1>4 DEF AccOK
<1> QED BY <1>1, <1>5, <1>6, <1>7, <1>8 DEF AccOK

LEMMA CacheRunOK ==
    ASSUME NEW rows \in Seq(ReqRows), NEW comps
    PROVE  \A n \in 0 .. Len(rows) : AccOK(CacheRun(rows, comps)[n], EventRows)
<1> DEFINE run == CacheRun(rows, comps)
           Good == {n \in Nat : AccOK(run[n], EventRows)}
<1>1. Len(rows) \in Nat /\ \A n \in 1 .. Len(rows) : rows[n] \in ReqRows
  OBVIOUS
<1>2. run[0] = Start /\ \A n \in 1 .. Len(rows) : run[n] = CacheStep(run[n - 1], rows[n], comps)
  BY <1>1, CacheRunStep
<1> HIDE DEF run
<1>3. 0 \in Good
  BY <1>2, StartOK
<1>4. ASSUME NEW n \in Nat, n < Len(rows), n \in Good PROVE n + 1 \in Good
  <2>1. n + 1 \in 1 .. Len(rows) /\ (n + 1) - 1 = n
    BY <1>1, <1>4
  <2>2. run[n + 1] = CacheStep(run[n], rows[n + 1], comps) /\ rows[n + 1] \in ReqRows
    BY <1>1, <1>2, <2>1
  <2> QED BY <1>4, <2>2, CacheStepOK
<1>5. \A n \in 0 .. Len(rows) : n \in Good
  <2> HIDE DEF Good
  <2> QED BY <1>1, <1>3, <1>4, ByInduction
<1> USE DEF run
<1> QED BY <1>5
-----------------------------------------------------------------------------
(***************************************************************************)
(* The doctors side by side.                                               *)
(***************************************************************************)
LossRows == {x \in TransitionRows : x.event}

SameLoss(e, x) ==
    /\ e.session = x.session /\ e.at = x.at /\ e.model = x.model /\ e.shortfall = x.shortfall
    /\ x.class = "compaction" => e.cause = "compaction"

SameLosses(events, losses) ==
    Len(events) = Len(losses) /\ \A i \in 1 .. Len(losses) : SameLoss(events[i], losses[i])

Alike(c, w) ==
    /\ AccOK(c, EventRows) /\ AccOK(w, TransitionRows)
    /\ c.score = w.score /\ c.prev = w.prev /\ c.sessions = w.sessions
    /\ SameLosses(c.events, Having(w.events, LossRows))

LEMMA SameLossesAppend ==
    ASSUME NEW events \in Seq(EventRows), NEW losses \in Seq(TransitionRows), SameLosses(events, losses),
           NEW e \in EventRows, NEW x \in TransitionRows, SameLoss(e, x)
    PROVE  SameLosses(Append(events, e), Append(losses, x))
<1>1. PICK n, es, xs : n = Len(events) /\ es = Append(events, e) /\ xs = Append(losses, x)
  OBVIOUS
<1>2. /\ n \in Nat /\ n = Len(losses) /\ Len(es) = n + 1 /\ Len(xs) = n + 1
      /\ es[n + 1] = e /\ xs[n + 1] = x
      /\ \A i \in 1 .. n : es[i] = events[i] /\ xs[i] = losses[i]
  BY <1>1 DEF SameLosses
<1>3. \A i \in 1 .. n : SameLoss(events[i], losses[i])
  BY <1>2 DEF SameLosses
<1>4. \A i \in 1 .. n + 1 : SameLoss(es[i], xs[i])
  <2> TAKE i \in 1 .. n + 1
  <2>1. i \in 1 .. n \/ i = n + 1
    BY <1>2
  <2> QED BY <1>2, <1>3, <2>1
<1> QED BY <1>1, <1>2, <1>4 DEF SameLosses

\* The wire doctor reports the loss the offline doctor does.
LEMMA LossAlike ==
    ASSUME NEW prev \in ReqRows, NEW cur \in ReqRows, NEW comps, Costs(prev, cur)
    PROVE  /\ Transition(prev, cur, comps) \in LossRows
           /\ SameLoss(Loss(prev, cur, comps), Transition(prev, cur, comps))
<1>1. PICK e, x : e = Loss(prev, cur, comps) /\ x = Transition(prev, cur, comps)
  OBVIOUS
<1>2. WireCosts(prev, cur) /\ WireAccrues(prev, cur) /\ Shortfall(prev, cur) \in Nat \ {0}
  <2>1. Accrues(prev, cur)
    BY DEF Costs
  <2> QED BY <2>1, Prompts
<1>3. PICK f, class : f = Shortfall(prev, cur) /\ class = diffChains(prev, cur, comps[cur.session])
  OBVIOUS
<1>4. f \in Nat \ {0}
  BY <1>2, <1>3
<1>5. e.session = cur.session /\ e.at = cur.at /\ e.model = cur.model /\ e.shortfall = f
  BY <1>1, <1>3 DEF Loss
<1>6. /\ x.session = cur.session /\ x.at = cur.at /\ x.model = cur.model
      /\ x.class = eventCause(class, prev, cur)
  BY <1>1, <1>2, <1>3 DEF Transition
<1>7. x.shortfall = f
  <2>1. x.shortfall = IF WireAccrues(prev, cur) /\ Shortfall(prev, cur) > 0 THEN Shortfall(prev, cur) ELSE 0
    BY <1>1 DEF Transition
  <2> QED BY <1>2, <1>3, <1>4, <2>1
<1>8. x.class = "compaction" => e.cause = "compaction"
  <2> SUFFICES ASSUME x.class = "compaction" PROVE e.cause = "compaction"
    OBVIOUS
  <2>1. class \in ChainClasses
    BY <1>3, ClassOK
  <2>2. class = "compaction"
    BY <1>6, <2>1, ClassOK
  <2>3. Boundary(prev, cur, comps[cur.session])
    BY <1>3, <2>2, ClassOK
  <2>4. classify(prev, cur, comps[cur.session]) = "compaction"
    BY <2>3 DEF classify
  <2> QED BY <1>1, <2>4 DEF Loss
<1>9. x \in TransitionRows /\ x.event
  BY <1>1, <1>2, TransitionOK
<1> QED BY <1>1, <1>5, <1>6, <1>7, <1>8, <1>9 DEF LossRows, SameLoss

LEMMA AlikeStep ==
    ASSUME NEW c0, NEW w0, Alike(c0, w0), NEW cur \in ReqRows, NEW comps
    PROVE  Alike(CacheStep(c0, cur, comps), WireStep(w0, cur, comps))
<1>1. PICK c, w : c = Enters(c0, cur) /\ w = Enters(w0, cur)
  OBVIOUS
<1>2. PICK cs, ws : cs = CacheStep(c0, cur, comps) /\ ws = WireStep(w0, cur, comps)
  OBVIOUS
<1>3. AccOK(cs, EventRows) /\ AccOK(ws, TransitionRows)
  BY <1>2, CacheStepOK, WireStepOK DEF Alike
<1>4. AccOK(c, EventRows) /\ AccOK(w, TransitionRows) /\ c.events = c0.events /\ w.events = w0.events
  BY <1>1, EntersOK DEF Alike
<1>5. c.score = w.score /\ c.prev = w.prev /\ c.sessions = w.sessions
  <2>1. c0.score = w0.score /\ c0.prev = w0.prev /\ c0.sessions = w0.sessions
    BY DEF Alike
  <2>2. Flushed(c0) = Flushed(w0)
    BY <2>1 DEF Flushed
  <2> QED BY <1>1, <2>1, <2>2 DEF Enters
<1>6. PICK prev : prev = Before(c, cur) /\ prev = Before(w, cur)
  BY <1>5 DEF Before, Known
<1>7. prev \in ReqRows
  BY <1>4, <1>6 DEF Before, Known, AccOK, PrevOK
<1>8. Known(c, cur) <=> Known(w, cur)
  BY <1>5 DEF Known
<1>9. CacheStepped(c, cur, comps, prev, cs) /\ WireStepped(w, cur, comps, prev, ws)
  BY <1>1, <1>2, <1>6, CacheStepIs, WireStepIs
<1>10. cs.prev = ws.prev /\ cs.sessions = ws.sessions
  BY <1>5, <1>9 DEF CacheStepped, WireStepped
<1>11. cs.score = ws.score
  <2>1. Scored(c.score, Accrues(prev, cur), Costs(prev, cur), prev, cur)
          = Scored(c.score, WireAccrues(prev, cur), WireCosts(prev, cur), prev, cur)
    BY <1>7, Prompts DEF Scored
  <2> QED BY <1>5, <1>8, <1>9, <2>1 DEF CacheStepped, WireStepped
<1>12. SameLosses(cs.events, Having(ws.events, LossRows))
  <2>1. PICK events, ts, losses : events = c.events /\ ts = w.events /\ losses = Having(w.events, LossRows)
    OBVIOUS
  <2>2. events \in Seq(EventRows) /\ ts \in Seq(TransitionRows) /\ SameLosses(events, losses)
    BY <1>4, <2>1 DEF Alike, AccOK
  <2>3. losses \in Seq(TransitionRows)
    BY <2>1, <2>2, HavingIs
  <2>4. CASE ~Known(c, cur)
    BY <1>8, <1>9, <2>1, <2>2, <2>4 DEF CacheStepped, WireStepped
  <2>5. CASE Known(c, cur)
    <3>1. PICK e, x : e = Loss(prev, cur, comps) /\ x = Transition(prev, cur, comps)
      OBVIOUS
    <3>2. ws.events = Append(ts, x) /\ cs.events = IF Costs(prev, cur) THEN Append(events, e) ELSE events
      BY <1>8, <1>9, <2>1, <2>5, <3>1 DEF CacheStepped, WireStepped
    <3>3. x \in TransitionRows /\ x.event = WireCosts(prev, cur)
      BY <1>7, <3>1, TransitionOK
    <3>4. Having(ws.events, LossRows) = IF x \in LossRows THEN Append(losses, x) ELSE losses
      <4>1. PICK K : K = LossRows
        OBVIOUS
      <4>2. Having(Append(ts, x), K) = IF x \in K THEN Append(Having(ts, K), x) ELSE Having(ts, K)
        BY <2>2, <3>3, HavingAppend
      <4> QED BY <2>1, <3>2, <4>1, <4>2
    <3>5. CASE Costs(prev, cur)
      <4>1. x \in LossRows /\ SameLoss(e, x) /\ e \in EventRows
        BY <1>7, <3>1, <3>5, LossAlike, LossOK
      <4> QED BY <2>2, <2>3, <3>2, <3>3, <3>4, <3>5, <4>1, SameLossesAppend
    <3>6. CASE ~Costs(prev, cur)
      <4>1. x \notin LossRows
        BY <1>7, <3>3, <3>6, Prompts DEF LossRows
      <4> QED BY <2>2, <3>2, <3>4, <3>6, <4>1
    <3> QED BY <3>5, <3>6
  <2> QED BY <2>4, <2>5
<1> QED BY <1>2, <1>3, <1>10, <1>11, <1>12 DEF Alike

LEMMA AlikeRuns ==
    ASSUME NEW rows \in Seq(ReqRows), NEW comps
    PROVE  Alike(CacheRun(rows, comps)[Len(rows)], WireRun(rows, comps)[Len(rows)])
<1>1. PICK c, w : c = CacheRun(rows, comps) /\ w = WireRun(rows, comps)
  OBVIOUS
<1> DEFINE Good == {n \in Nat : Alike(c[n], w[n])}
<1>2. Len(rows) \in Nat /\ \A n \in 1 .. Len(rows) : rows[n] \in ReqRows
  OBVIOUS
<1>3. /\ c[0] = Start /\ \A n \in 1 .. Len(rows) : c[n] = CacheStep(c[n - 1], rows[n], comps)
      /\ w[0] = Start /\ \A n \in 1 .. Len(rows) : w[n] = WireStep(w[n - 1], rows[n], comps)
  BY <1>1, <1>2, CacheRunStep, WireRunStep
<1>4. 0 \in Good
  <2>1. Start.events = <<>>
    BY DEF Start
  <2>2. SameLosses(Start.events, Having(Start.events, LossRows))
    BY <2>1, HavingEmpty DEF SameLosses
  <2> QED BY <1>3, <2>2, StartOK DEF Alike
<1>5. ASSUME NEW n \in Nat, n < Len(rows), n \in Good PROVE n + 1 \in Good
  <2>1. n + 1 \in 1 .. Len(rows) /\ (n + 1) - 1 = n
    BY <1>2, <1>5
  <2>2. /\ c[n + 1] = CacheStep(c[n], rows[n + 1], comps) /\ w[n + 1] = WireStep(w[n], rows[n + 1], comps)
        /\ rows[n + 1] \in ReqRows
    BY <1>2, <1>3, <2>1
  <2> QED BY <1>5, <2>2, AlikeStep
<1>6. \A n \in 0 .. Len(rows) : n \in Good
  <2> HIDE DEF Good
  <2> QED BY <1>2, <1>4, <1>5, ByInduction
<1> QED BY <1>1, <1>2, <1>6

\* The two doctors score the sessions alike and report the same losses, and what
\* the wire shows as a compaction the offline doctor has named one (Cache, Wire).
THEOREM DoctorsAgreeOnEveryHistory == Spec => []DoctorsAgree
<1>1. IInv => DoctorsAgree
  <2> SUFFICES ASSUME IInv PROVE DoctorsAgree
    OBVIOUS
  <2>1. reqs \in Seq(ReqRows)
    BY DEF IInv, StateOK
  <2>2. PICK c, w : c = CacheRun(reqs, compactions)[Len(reqs)] /\ w = WireRun(reqs, compactions)[Len(reqs)]
    OBVIOUS
  <2>3. Alike(c, w)
    BY <2>1, <2>2, AlikeRuns
  <2>4. PICK rep, wire, events : /\ rep = Cache(reqs, compactions) /\ wire = Wire(reqs, compactions)
                                 /\ events = RowsAt(wire.transitions, {i \in DOMAIN wire.transitions : wire.transitions[i].event})
    OBVIOUS
  <2>5. rep.sessions = Flushed(c) /\ rep.events = c.events /\ wire.sessions = Flushed(w) /\ wire.transitions = w.events
    BY <2>2, <2>4 DEF Cache, Wire
  <2>6. rep.sessions = wire.sessions
    BY <2>3, <2>5 DEF Alike, Flushed
  <2>7. w.events \in Seq(TransitionRows)
    BY <2>3 DEF Alike, AccOK
  <2>8. events = Having(w.events, LossRows)
    <3>1. \A i \in DOMAIN w.events : w.events[i] \in TransitionRows
      BY <2>7
    <3>2. {i \in DOMAIN w.events : w.events[i].event} = {i \in DOMAIN w.events : w.events[i] \in LossRows}
      BY <3>1 DEF LossRows
    <3> QED BY <2>4, <2>5, <3>2 DEF Having
  <2>9. SameLosses(rep.events, events) /\ events \in Seq(TransitionRows)
    BY <2>3, <2>5, <2>7, <2>8, HavingIs DEF Alike
  <2>10. DOMAIN events = 1 .. Len(events)
    BY <2>9
  <2>11. /\ Len(rep.events) = Len(events)
         /\ \A i \in DOMAIN events :
              /\ <<rep.events[i].session, rep.events[i].at, rep.events[i].model, rep.events[i].shortfall>>
                   = <<events[i].session, events[i].at, events[i].model, events[i].shortfall>>
              /\ events[i].class = "compaction" => rep.events[i].cause = "compaction"
    BY <2>9, <2>10 DEF SameLosses, SameLoss
  <2> QED BY <2>4, <2>6, <2>11 DEF DoctorsAgree
<1> QED BY <1>1, HistoryInvariant, PTL
-----------------------------------------------------------------------------
(***************************************************************************)
(* What is kept comes from the requests walked over.                       *)
(***************************************************************************)
LossAt(e, rows, comps, j, k) ==
    /\ j < k /\ rows[j].session = rows[k].session /\ rows[j].model = rows[k].model
    /\ \A x \in j + 1 .. k - 1 : rows[x].session = rows[k].session => rows[x].model # rows[k].model
    /\ Costs(rows[j], rows[k]) /\ e = Loss(rows[j], rows[k], comps)

\* The last of the first n rows that is of the model and in the session.
LastOf(r, rows, s, m, n) ==
    \E k \in 1 .. n : r = rows[k] /\ \A x \in k + 1 .. n : rows[x].session = s => rows[x].model # m

Past(acc, rows, comps, n) ==
    /\ acc.score.session = IF n = 0 THEN 0 ELSE rows[n].session
    /\ \A m \in DOMAIN acc.prev : /\ acc.prev[m].model = m
                                  /\ LastOf(acc.prev[m], rows, acc.score.session, m, n)
    /\ \A i \in DOMAIN acc.events : \E j, k \in 1 .. n : LossAt(acc.events[i], rows, comps, j, k)

LEMMA PastStep ==
    ASSUME NEW rows \in Seq(ReqRows), NEW comps, NEW n \in Nat, n < Len(rows), NEW acc0,
           AccOK(acc0, EventRows), Past(acc0, rows, comps, n)
    PROVE  Past(CacheStep(acc0, rows[n + 1], comps), rows, comps, n + 1)
<1>1. PICK cur, acc, out, prev : /\ cur = rows[n + 1] /\ acc = Enters(acc0, cur) /\ out = CacheStep(acc0, cur, comps)
                                 /\ prev = Before(acc, cur)
  OBVIOUS
<1>2. cur \in ReqRows
  BY <1>1
<1>3. AccOK(acc, EventRows) /\ acc.score.session = cur.session /\ acc.events = acc0.events
  BY <1>1, <1>2, EntersOK
<1>4. \A m \in DOMAIN acc.prev : acc.prev[m].model = m /\ LastOf(acc.prev[m], rows, cur.session, m, n)
  <2>1. acc = acc0 \/ DOMAIN acc.prev = {}
    BY <1>1, <1>2, EntersOK
  <2>2. CASE acc = acc0
    BY <1>3, <2>2 DEF Past
  <2>3. CASE DOMAIN acc.prev = {}
    BY <2>3
  <2> QED BY <2>1, <2>2, <2>3
<1>5. CacheStepped(acc, cur, comps, prev, out)
  BY <1>1, CacheStepIs
<1>6. out.score.session = rows[n + 1].session
  BY <1>1, <1>2, CacheStepOK
<1>7. n + 1 \in Nat /\ n + 1 # 0 /\ n + 1 \in 1 .. n + 1 /\ \A k \in 1 .. n : k \in 1 .. n + 1 /\ k < n + 1
  OBVIOUS
<1>8. \A m \in DOMAIN out.prev : /\ out.prev[m].model = m
                                 /\ LastOf(out.prev[m], rows, out.score.session, m, n + 1)
  <2> TAKE m \in DOMAIN out.prev
  <2>1. PICK p, q : p = acc.prev /\ q = out.prev
    OBVIOUS
  <2>2. /\ DOMAIN q = DOMAIN p \cup {cur.model} /\ q[cur.model] = cur
        /\ \A x \in DOMAIN p : x # cur.model => q[x] = p[x]
    <3>1. q = Remember(p, cur)
      BY <1>5, <2>1 DEF CacheStepped
    <3> QED BY <3>1 DEF Remember
  <2>3. CASE m = cur.model
    <3>1. \A x \in (n + 1) + 1 .. n + 1 : FALSE
      OBVIOUS
    <3>2. q[m] = cur /\ cur.model = m
      BY <2>2, <2>3
    <3>3. LastOf(cur, rows, out.score.session, m, n + 1)
      BY <1>1, <1>7, <3>1 DEF LastOf
    <3> QED BY <2>1, <3>2, <3>3
  <2>4. CASE m # cur.model
    <3>1. m \in DOMAIN p /\ q[m] = p[m]
      BY <2>1, <2>2, <2>4
    <3>2. PICK k \in 1 .. n : /\ p[m] = rows[k]
                             /\ \A x \in k + 1 .. n : rows[x].session = cur.session => rows[x].model # m
      BY <1>4, <2>1, <3>1 DEF LastOf
    <3>3. ASSUME NEW x \in k + 1 .. n + 1, rows[x].session = cur.session PROVE rows[x].model # m
      <4>1. x \in k + 1 .. n \/ x = n + 1
        OBVIOUS
      <4> QED BY <1>1, <2>4, <3>2, <3>3, <4>1
    <3>4. out.score.session = cur.session /\ k \in 1 .. n + 1
      BY <1>1, <1>6
    <3>5. LastOf(q[m], rows, out.score.session, m, n + 1)
      BY <3>1, <3>2, <3>3, <3>4 DEF LastOf
    <3> QED BY <1>4, <2>1, <3>1, <3>5
  <2> QED BY <2>3, <2>4
<1>9. \A i \in DOMAIN out.events : \E j, k \in 1 .. n + 1 : LossAt(out.events[i], rows, comps, j, k)
  <2> TAKE i \in DOMAIN out.events
  <2>1. PICK events : events = acc.events /\ events \in Seq(EventRows)
    BY <1>3 DEF AccOK
  <2>2. \A x \in DOMAIN events : \E j, k \in 1 .. n + 1 : LossAt(events[x], rows, comps, j, k)
    <3> TAKE x \in DOMAIN events
    <3>1. PICK j \in 1 .. n, k \in 1 .. n : LossAt(events[x], rows, comps, j, k)
      BY <1>3, <2>1 DEF Past
    <3> QED BY <1>7, <3>1
  <2>3. CASE out.events = events
    BY <2>2, <2>3
  <2>4. CASE Known(acc, cur) /\ Costs(prev, cur) /\ out.events = Append(events, Loss(prev, cur, comps))
    <3>1. prev = acc.prev[cur.model] /\ cur.model \in DOMAIN acc.prev
      BY <1>1, <2>4 DEF Before, Known
    <3>2. PICK j \in 1 .. n : /\ prev = rows[j]
                             /\ \A x \in j + 1 .. n : rows[x].session = cur.session => rows[x].model # cur.model
      BY <1>4, <3>1 DEF LastOf
    <3>3. prev.model = cur.model /\ prev.session = cur.session
      BY <1>3, <1>4, <3>1 DEF AccOK, PrevOK
    <3>4. LossAt(Loss(prev, cur, comps), rows, comps, j, n + 1)
      <4>1. (n + 1) - 1 = n
        OBVIOUS
      <4> QED BY <1>1, <1>7, <2>4, <3>2, <3>3, <4>1 DEF LossAt
    <3>5. PICK e : e = Loss(prev, cur, comps)
      OBVIOUS
    <3>6. (i \in DOMAIN events /\ out.events[i] = events[i]) \/ out.events[i] = e
      BY <2>1, <2>4, <3>5
    <3> QED BY <1>7, <2>2, <3>4, <3>5, <3>6
  <2> QED BY <1>5, <2>1, <2>3, <2>4 DEF CacheStepped
<1> QED BY <1>1, <1>6, <1>7, <1>8, <1>9 DEF Past

LEMMA CacheRunPast ==
    ASSUME NEW rows \in Seq(ReqRows), NEW comps
    PROVE  \A n \in 0 .. Len(rows) : Past(CacheRun(rows, comps)[n], rows, comps, n)
<1>1. PICK run : run = CacheRun(rows, comps)
  OBVIOUS
<1> DEFINE Good == {n \in Nat : Past(run[n], rows, comps, n)}
<1>2. Len(rows) \in Nat
  OBVIOUS
<1>3. /\ run[0] = Start /\ \A n \in 1 .. Len(rows) : run[n] = CacheStep(run[n - 1], rows[n], comps)
      /\ \A n \in 0 .. Len(rows) : AccOK(run[n], EventRows)
  BY <1>1, <1>2, CacheRunStep, CacheRunOK
<1>4. 0 \in Good
  <2>1. Start.score.session = 0 /\ DOMAIN Start.prev = {} /\ DOMAIN Start.events = {}
    BY DEF Start, NewScore
  <2> QED BY <1>3, <2>1 DEF Past
<1>5. ASSUME NEW n \in Nat, n < Len(rows), n \in Good PROVE n + 1 \in Good
  <2>1. n + 1 \in 1 .. Len(rows) /\ (n + 1) - 1 = n /\ n \in 0 .. Len(rows)
    BY <1>2, <1>5
  <2>2. run[n + 1] = CacheStep(run[n], rows[n + 1], comps) /\ AccOK(run[n], EventRows)
    BY <1>3, <2>1
  <2>3. Past(CacheStep(run[n], rows[n + 1], comps), rows, comps, n + 1)
    BY <1>5, <2>2, PastStep
  <2> QED BY <2>2, <2>3
<1>6. \A n \in 0 .. Len(rows) : n \in Good
  <2> HIDE DEF Good
  <2> QED BY <1>2, <1>4, <1>5, ByInduction
<1> QED BY <1>1, <1>6
-----------------------------------------------------------------------------
(***************************************************************************)
(* One boundary, one loss.                                                 *)
(***************************************************************************)
SortedRows(rows) ==
    \A i, j \in DOMAIN rows : i < j =>
        \/ rows[i].session < rows[j].session
        \/ rows[i].session = rows[j].session /\ rows[i].at <= rows[j].at

Blamed(events, s, m) ==
    {i \in DOMAIN events : events[i].session = s /\ events[i].model = m /\ events[i].cause = "compaction"}

\* The boundaries of the session that the stream is past.
Passed(acc, comps, s, m) ==
    {c \in comps[s] : \/ s < acc.score.session
                      \/ s = acc.score.session /\ m \in DOMAIN acc.prev /\ c <= acc.prev[m].at}

BlamedOK(acc, comps, s, m) ==
    /\ IsFiniteSet(Blamed(acc.events, s, m))
    /\ Cardinality(Blamed(acc.events, s, m)) <= Cardinality(Passed(acc, comps, s, m))

LEMMA BlamedStep ==
    ASSUME NEW rows \in Seq(ReqRows), SortedRows(rows), NEW comps, NEW n \in Nat, n < Len(rows), NEW acc0,
           AccOK(acc0, EventRows), Past(acc0, rows, comps, n),
           NEW s \in Nat, NEW m, comps[s] \in SUBSET Nat, IsFiniteSet(comps[s]), BlamedOK(acc0, comps, s, m)
    PROVE  BlamedOK(CacheStep(acc0, rows[n + 1], comps), comps, s, m)
<1>1. PICK cur, acc, out, prev : /\ cur = rows[n + 1] /\ acc = Enters(acc0, cur) /\ out = CacheStep(acc0, cur, comps)
                                 /\ prev = Before(acc, cur)
  OBVIOUS
<1>2. cur \in ReqRows /\ cur.session \in Nat /\ cur.at \in Nat
  <2>1. cur \in ReqRows
    BY <1>1
  <2> QED BY <2>1 DEF ReqRows
<1>3. /\ AccOK(acc, EventRows) /\ acc.score.session = cur.session /\ acc.events = acc0.events
      /\ AccOK(out, EventRows) /\ out.score.session = cur.session
  BY <1>1, <1>2, EntersOK, CacheStepOK
<1>4. acc0.score.session \in Nat /\ acc0.score.session <= cur.session
  <2>1. acc0.score.session \in Nat
    BY DEF AccOK, Scores
  <2>2. CASE n = 0
    BY <1>2, <2>1, <2>2 DEF Past
  <2>3. CASE n # 0
    <3>1. n \in DOMAIN rows /\ n + 1 \in DOMAIN rows /\ n < n + 1
      BY <2>3
    <3>2. rows[n].session < rows[n + 1].session \/ rows[n].session = rows[n + 1].session
      BY <3>1 DEF SortedRows
    <3>3. acc0.score.session = rows[n].session
      BY <2>3 DEF Past
    <3> QED BY <1>1, <1>2, <2>1, <3>2, <3>3
  <2> QED BY <2>2, <2>3
<1>5. Passed(acc0, comps, s, m) \subseteq Passed(acc, comps, s, m)
  <2>1. CASE acc = acc0
    BY <2>1
  <2>2. CASE acc0.score.session < cur.session
    <3>1. \A c \in Passed(acc0, comps, s, m) : c \in comps[s] /\ s < acc.score.session
      BY <1>2, <1>3, <1>4, <2>2 DEF Passed
    <3> QED BY <3>1 DEF Passed
  <2>3. acc = acc0 \/ acc0.score.session < cur.session
    <3>1. acc0.score.session = cur.session => acc = acc0
      BY <1>1, <1>2, EntersOK
    <3> QED BY <1>2, <1>4, <3>1
  <2> QED BY <2>1, <2>2, <2>3
<1>6. Known(acc, cur) => /\ prev = acc.prev[cur.model] /\ cur.model \in DOMAIN acc.prev
                         /\ prev.at \in Nat /\ prev.at <= cur.at
  <2> SUFFICES ASSUME Known(acc, cur)
               PROVE  /\ prev = acc.prev[cur.model] /\ cur.model \in DOMAIN acc.prev
                      /\ prev.at \in Nat /\ prev.at <= cur.at
    OBVIOUS
  <2>1. prev = acc.prev[cur.model] /\ cur.model \in DOMAIN acc.prev
    BY <1>1 DEF Before, Known
  <2>2. acc = acc0
    BY <1>1, <1>2, <2>1, EntersOK
  <2>3. PICK k \in 1 .. n : prev = rows[k]
    BY <2>1, <2>2 DEF Past, LastOf
  <2>4. prev.session = cur.session /\ prev \in ReqRows
    BY <1>3, <2>1 DEF AccOK, PrevOK
  <2>5. k \in DOMAIN rows /\ n + 1 \in DOMAIN rows /\ k < n + 1
    BY <2>3
  <2>6. prev.session < cur.session \/ prev.at <= cur.at
    BY <1>1, <2>3, <2>5 DEF SortedRows
  <2>7. prev.session \in Nat /\ prev.at \in Nat
    BY <2>4 DEF ReqRows
  <2> QED BY <2>1, <2>4, <2>6, <2>7
<1>7. CacheStepped(acc, cur, comps, prev, out)
  BY <1>1, CacheStepIs
<1>8. PICK events : events = acc.events /\ events \in Seq(EventRows) /\ events = acc0.events
  BY <1>3 DEF AccOK
<1>9. PICK B, P, Q : /\ B = Blamed(events, s, m) /\ P = Passed(acc, comps, s, m) /\ Q = Passed(out, comps, s, m)
                     /\ IsFiniteSet(B)
  BY <1>8 DEF BlamedOK
<1>10. IsFiniteSet(P) /\ IsFiniteSet(Q) /\ Cardinality(P) \in Nat /\ Cardinality(Q) \in Nat /\ Cardinality(B) \in Nat
  <2>1. P \subseteq comps[s] /\ Q \subseteq comps[s]
    BY <1>9 DEF Passed
  <2>2. IsFiniteSet(P) /\ IsFiniteSet(Q)
    BY <2>1, FS_Subset
  <2> QED BY <1>9, <2>2, FS_CardinalityType
<1>11. Cardinality(B) <= Cardinality(P)
  <2>1. PICK R : R = Passed(acc0, comps, s, m)
    OBVIOUS
  <2>2. R \subseteq P
    BY <1>5, <1>9, <2>1
  <2>3. IsFiniteSet(R) /\ Cardinality(R) \in Nat /\ Cardinality(R) <= Cardinality(P)
    BY <1>10, <2>2, FS_Subset, FS_CardinalityType
  <2>4. Cardinality(B) <= Cardinality(R)
    BY <1>8, <1>9, <2>1 DEF BlamedOK
  <2> QED BY <1>10, <2>3, <2>4
<1>12. P \subseteq Q
  <2>1. PICK p, q : p = acc.prev /\ q = out.prev
    OBVIOUS
  <2>2. /\ DOMAIN q = DOMAIN p \cup {cur.model} /\ q[cur.model] = cur
        /\ \A x \in DOMAIN p : x # cur.model => q[x] = p[x]
    <3>1. q = Remember(p, cur)
      BY <1>7, <2>1 DEF CacheStepped
    <3> QED BY <3>1 DEF Remember
  <2> SUFFICES ASSUME NEW c \in P PROVE c \in Q
    OBVIOUS
  <2>3. c \in comps[s] /\ c \in Nat
    BY <1>9 DEF Passed
  <2>4. CASE s < acc.score.session
    BY <1>3, <1>9, <2>3, <2>4 DEF Passed
  <2>5. CASE s = acc.score.session /\ m \in DOMAIN p /\ c <= p[m].at
    <3>1. CASE m # cur.model
      BY <1>3, <1>9, <2>1, <2>2, <2>3, <2>5, <3>1 DEF Passed
    <3>2. CASE m = cur.model
      <4>1. c <= prev.at /\ prev.at \in Nat /\ prev.at <= cur.at
        BY <1>6, <2>1, <2>5, <3>2 DEF Known
      <4>2. c <= cur.at
        BY <1>2, <2>3, <4>1
      <4> QED BY <1>3, <1>9, <2>1, <2>2, <2>3, <2>5, <3>2, <4>2 DEF Passed
    <3> QED BY <3>1, <3>2
  <2> QED BY <1>9, <2>1, <2>4, <2>5 DEF Passed
<1>13. Cardinality(P) <= Cardinality(Q)
  BY <1>10, <1>12, FS_Subset
<1>14. CASE Blamed(out.events, s, m) = B
  BY <1>1, <1>9, <1>10, <1>11, <1>13, <1>14 DEF BlamedOK
<1>15. CASE Blamed(out.events, s, m) # B
  <2>1. PICK e : e = Loss(prev, cur, comps)
    OBVIOUS
  <2>2. Known(acc, cur) /\ Costs(prev, cur) /\ out.events = Append(events, e)
    BY <1>7, <1>8, <1>9, <1>15, <2>1 DEF CacheStepped
  <2>3. PICK k, more : k = Len(events) /\ more = Append(events, e)
    OBVIOUS
  <2>4. /\ k \in Nat /\ DOMAIN events = 1 .. k /\ DOMAIN more = 1 .. k + 1 /\ more[k + 1] = e
        /\ \A i \in 1 .. k : more[i] = events[i]
    BY <1>8, <2>3
  <2>5. /\ e.session = s /\ e.model = m /\ e.cause = "compaction"
        /\ Blamed(more, s, m) = B \cup {k + 1} /\ k + 1 \notin B
    <3>1. CASE e.session = s /\ e.model = m /\ e.cause = "compaction"
      BY <1>9, <2>4, <3>1 DEF Blamed
    <3>2. CASE ~(e.session = s /\ e.model = m /\ e.cause = "compaction")
      <4>1. Blamed(more, s, m) = B
        BY <1>9, <2>4, <3>2 DEF Blamed
      <4> QED BY <1>15, <2>2, <2>3, <4>1
    <3> QED BY <3>1, <3>2
  <2>6. cur.session = s /\ cur.model = m /\ classify(prev, cur, comps[s]) = "compaction"
    BY <2>1, <2>5 DEF Loss
  <2>7. PICK c \in comps[s] : prev.at < c /\ c <= cur.at
    BY <2>6 DEF classify, Boundary
  <2>8. c \in Nat /\ prev.at \in Nat /\ prev = acc.prev[m] /\ acc.score.session = s
    BY <1>3, <1>6, <2>2, <2>6, <2>7
  <2>9. c \notin P
    BY <1>9, <2>7, <2>8 DEF Passed
  <2>10. c \in Q
    <3>1. PICK p, q : p = acc.prev /\ q = out.prev
      OBVIOUS
    <3>2. q = Remember(p, cur)
      BY <1>7, <3>1 DEF CacheStepped
    <3>3. m \in DOMAIN q /\ q[m] = cur
      BY <2>6, <3>2 DEF Remember
    <3> QED BY <1>3, <1>9, <2>6, <2>7, <3>1, <3>3 DEF Passed
  <2>11. Cardinality(P \cup {c}) = Cardinality(P) + 1 /\ Cardinality(P \cup {c}) <= Cardinality(Q)
    BY <1>10, <1>12, <2>9, <2>10, FS_AddElement, FS_Subset
  <2>12. Cardinality(B \cup {k + 1}) = Cardinality(B) + 1 /\ IsFiniteSet(B \cup {k + 1})
    BY <1>9, <2>5, FS_AddElement
  <2>13. Cardinality(Blamed(out.events, s, m)) <= Cardinality(Q) /\ IsFiniteSet(Blamed(out.events, s, m))
    BY <1>10, <1>11, <2>2, <2>3, <2>5, <2>11, <2>12
  <2> QED BY <1>1, <1>9, <2>13 DEF BlamedOK
<1> QED BY <1>14, <1>15

\* A stream has no more losses put down to a compaction than its session has
\* boundaries (Cache).
THEOREM BoundaryBlamedOnceInEveryHistory == Spec => []BoundaryBlamedOnce
<1>1. IInv => BoundaryBlamedOnce
  <2> SUFFICES ASSUME IInv, NEW s \in Sessions, NEW m \in Models
               PROVE  Cardinality(Blamed(Cache(reqs, compactions).events, s, m)) <= Cardinality(compactions[s])
    BY DEF BoundaryBlamedOnce, Blamed
  <2>1. /\ reqs \in Seq(ReqRows) /\ Len(reqs) \in Nat /\ SortedRows(reqs) /\ s \in Nat
        /\ compactions[s] \in SUBSET Nat /\ IsFiniteSet(compactions[s])
    BY DEF IInv, StateOK, Sorted, SortedRows, Sessions
  <2>2. PICK run : run = CacheRun(reqs, compactions)
    OBVIOUS
  <2>3. /\ run[0] = Start /\ \A n \in 1 .. Len(reqs) : run[n] = CacheStep(run[n - 1], reqs[n], compactions)
        /\ \A n \in 0 .. Len(reqs) : AccOK(run[n], EventRows) /\ Past(run[n], reqs, compactions, n)
    BY <2>1, <2>2, CacheRunStep, CacheRunOK, CacheRunPast
  <2> DEFINE Good == {n \in Nat : BlamedOK(run[n], compactions, s, m)}
  <2>4. 0 \in Good
    <3>1. PICK B, P : B = Blamed(Start.events, s, m) /\ P = Passed(Start, compactions, s, m)
      OBVIOUS
    <3>2. B = {}
      BY <3>1 DEF Blamed, Start
    <3>3. IsFiniteSet(P)
      <4>1. P \subseteq compactions[s]
        BY <3>1 DEF Passed
      <4> QED BY <2>1, <4>1, FS_Subset
    <3>4. Cardinality(B) = 0 /\ IsFiniteSet(B) /\ Cardinality(P) \in Nat
      BY <3>2, <3>3, FS_EmptySet, FS_CardinalityType
    <3>5. Cardinality(B) <= Cardinality(P)
      BY <3>4
    <3> QED BY <2>3, <3>1, <3>4, <3>5 DEF BlamedOK
  <2>5. ASSUME NEW n \in Nat, n < Len(reqs), n \in Good PROVE n + 1 \in Good
    <3>1. n + 1 \in 1 .. Len(reqs) /\ (n + 1) - 1 = n /\ n \in 0 .. Len(reqs)
      BY <2>1, <2>5
    <3>2. PICK acc : acc = run[n]
      OBVIOUS
    <3>3. AccOK(acc, EventRows) /\ Past(acc, reqs, compactions, n) /\ BlamedOK(acc, compactions, s, m)
      BY <2>3, <2>5, <3>1, <3>2
    <3>4. BlamedOK(CacheStep(acc, reqs[n + 1], compactions), compactions, s, m)
      BY <2>1, <2>5, <3>3, BlamedStep
    <3> QED BY <2>3, <3>1, <3>2, <3>4
  <2>6. \A n \in 0 .. Len(reqs) : n \in Good
    <3> HIDE DEF Good
    <3> QED BY <2>1, <2>4, <2>5, ByInduction
  <2>7. PICK acc : acc = run[Len(reqs)]
    OBVIOUS
  <2>8. BlamedOK(acc, compactions, s, m)
    BY <2>1, <2>6, <2>7
  <2>9. PICK P : P = Passed(acc, compactions, s, m)
    OBVIOUS
  <2>10. P \subseteq compactions[s]
    BY <2>9 DEF Passed
  <2>11. Cardinality(P) <= Cardinality(compactions[s]) /\ Cardinality(P) \in Nat /\ Cardinality(compactions[s]) \in Nat
    BY <2>1, <2>10, FS_Subset, FS_CardinalityType
  <2>12. PICK B : B = Blamed(acc.events, s, m) /\ IsFiniteSet(B) /\ Cardinality(B) <= Cardinality(P)
    BY <2>8, <2>9 DEF BlamedOK
  <2>13. Cardinality(B) <= Cardinality(compactions[s])
    BY <2>11, <2>12, FS_CardinalityType
  <2>14. Cache(reqs, compactions).events = acc.events
    BY <2>2, <2>7 DEF Cache
  <2> QED BY <2>12, <2>13, <2>14
<1> QED BY <1>1, HistoryInvariant, PTL
-----------------------------------------------------------------------------
(***************************************************************************)
(* The requests of some of the sessions.                                   *)
(***************************************************************************)
Prefix(rows, n) == [i \in 1 .. n |-> rows[i]]

LEMMA PrefixIs ==
    ASSUME NEW S, NEW rows \in Seq(S)
    PROVE  /\ Prefix(rows, 0) = <<>> /\ Prefix(rows, Len(rows)) = rows
           /\ \A n \in 0 .. Len(rows) : /\ Prefix(rows, n) \in Seq(S) /\ Len(Prefix(rows, n)) = n
                                        /\ \A i \in 1 .. n : Prefix(rows, n)[i] = rows[i]
           /\ \A n \in Nat : n < Len(rows) => Prefix(rows, n + 1) = Append(Prefix(rows, n), rows[n + 1])
<1>1. PICK N \in Nat : N = Len(rows)
  OBVIOUS
<1>2. DOMAIN rows = 1 .. N /\ rows = [i \in 1 .. N |-> rows[i]] /\ \A i \in 1 .. N : rows[i] \in S
  BY <1>1
<1>3. Prefix(rows, Len(rows)) = rows
  BY <1>1, <1>2 DEF Prefix
<1>4. Prefix(rows, 0) = <<>>
  BY DEF Prefix
<1>5. ASSUME NEW n \in 0 .. N
      PROVE  /\ Prefix(rows, n) \in Seq(S) /\ Len(Prefix(rows, n)) = n
             /\ \A i \in 1 .. n : Prefix(rows, n)[i] = rows[i]
  <2>1. PICK p : p = Prefix(rows, n)
    OBVIOUS
  <2>2. p \in [1 .. n -> S] /\ \A i \in 1 .. n : p[i] = rows[i]
    BY <1>2, <2>1 DEF Prefix
  <2>3. n \in Nat
    OBVIOUS
  <2>4. p \in Seq(S) /\ Len(p) = n
    BY <2>2, <2>3
  <2> QED BY <2>1, <2>2, <2>4
<1>6. ASSUME NEW n \in Nat, n < N
      PROVE  Prefix(rows, n + 1) = Append(Prefix(rows, n), rows[n + 1])
  <2>1. PICK p, q, x : p = Prefix(rows, n) /\ q = Prefix(rows, n + 1) /\ x = rows[n + 1]
    OBVIOUS
  <2>2. n \in 0 .. N /\ n + 1 \in 0 .. N /\ n + 1 \in 1 .. N
    BY <1>6
  <2>3. /\ p \in Seq(S) /\ Len(p) = n /\ q \in Seq(S) /\ Len(q) = n + 1 /\ x \in S
        /\ \A i \in 1 .. n : p[i] = rows[i]
        /\ \A i \in 1 .. n + 1 : q[i] = rows[i]
    BY <1>2, <1>5, <2>1, <2>2
  <2>4. PICK r : r = Append(p, x)
    OBVIOUS
  <2>5. r \in Seq(S) /\ Len(r) = n + 1 /\ r[n + 1] = x /\ \A i \in 1 .. n : r[i] = p[i]
    BY <2>3, <2>4
  <2>6. \A i \in 1 .. n + 1 : r[i] = q[i]
    <3> TAKE i \in 1 .. n + 1
    <3>1. i \in 1 .. n \/ i = n + 1
      OBVIOUS
    <3> QED BY <2>1, <2>3, <2>5, <3>1
  <2>7. r = q
    BY <2>3, <2>5, <2>6
  <2> QED BY <2>1, <2>4, <2>7
<1> QED BY <1>1, <1>3, <1>4, <1>5, <1>6

LEMMA ByAppending ==
    ASSUME NEW S, NEW rows \in Seq(S), NEW Good, <<>> \in Good,
           \A n \in Nat : n < Len(rows) /\ Prefix(rows, n) \in Good => Append(Prefix(rows, n), rows[n + 1]) \in Good
    PROVE  rows \in Good
<1> DEFINE Fine == {n \in Nat : Prefix(rows, n) \in Good}
<1>1. Len(rows) \in Nat
  OBVIOUS
<1>2. 0 \in Fine
  BY PrefixIs
<1>3. ASSUME NEW n \in Nat, n < Len(rows), n \in Fine PROVE n + 1 \in Fine
  <2>1. Prefix(rows, n + 1) = Append(Prefix(rows, n), rows[n + 1])
    BY <1>3, PrefixIs
  <2>2. n + 1 \in Nat
    OBVIOUS
  <2> QED BY <1>3, <2>1, <2>2
<1>4. \A n \in 0 .. Len(rows) : n \in Fine
  <2> HIDE DEF Fine
  <2> QED BY <1>1, <1>2, <1>3, ByInduction
<1>5. Prefix(rows, Len(rows)) \in Good
  BY <1>1, <1>4
<1>6. Prefix(rows, Len(rows)) = rows
  BY PrefixIs
<1> QED BY <1>5, <1>6

\* What the offline doctor has at the end of the requests.
Walked(rows, comps) == CacheRun(rows, comps)[Len(rows)]

LEMMA WalkedEmpty == ASSUME NEW comps PROVE Walked(<<>>, comps) = Start
<1>1. Len(<<>>) = 0
  OBVIOUS
<1> QED BY <1>1, CacheRunStep DEF Walked

LEMMA WalkedAppend ==
    ASSUME NEW S, NEW rows \in Seq(S), NEW x \in S, NEW comps
    PROVE  Walked(Append(rows, x), comps) = CacheStep(Walked(rows, comps), x, comps)
<1>1. PICK more, N, a, b : /\ more = Append(rows, x) /\ N = Len(rows)
                           /\ a = CacheRun(rows, comps) /\ b = CacheRun(more, comps)
  OBVIOUS
<1>2. /\ N \in Nat /\ Len(more) = N + 1 /\ more[N + 1] = x
      /\ \A i \in 1 .. N : more[i] = rows[i]
  BY <1>1
<1>3. a[0] = Start /\ \A n \in 1 .. N : a[n] = CacheStep(a[n - 1], rows[n], comps)
  BY <1>1, <1>2, CacheRunStep
<1>4. b[0] = Start /\ \A n \in 1 .. N + 1 : b[n] = CacheStep(b[n - 1], more[n], comps)
  <2>1. Len(more) \in Nat
    BY <1>2
  <2>2. b[0] = Start /\ \A n \in 1 .. Len(more) : b[n] = CacheStep(b[n - 1], more[n], comps)
    BY <1>1, <2>1, CacheRunStep
  <2> QED BY <1>2, <2>2
<1> DEFINE Good == {n \in Nat : a[n] = b[n]}
<1>5. 0 \in Good
  BY <1>3, <1>4
<1>6. ASSUME NEW n \in Nat, n < N, n \in Good PROVE n + 1 \in Good
  <2>1. n + 1 \in 1 .. N /\ n + 1 \in 1 .. N + 1 /\ (n + 1) - 1 = n
    BY <1>2, <1>6
  <2>2. a[n + 1] = CacheStep(a[n], rows[n + 1], comps) /\ b[n + 1] = CacheStep(b[n], rows[n + 1], comps)
    BY <1>2, <1>3, <1>4, <2>1
  <2> QED BY <1>6, <2>2
<1>7. \A n \in 0 .. N : n \in Good
  <2> HIDE DEF Good
  <2> QED BY <1>2, <1>5, <1>6, ByInduction
<1>8. a[N] = b[N]
  BY <1>2, <1>7
<1>9. b[N + 1] = CacheStep(b[N], x, comps)
  <2>1. N + 1 \in 1 .. N + 1 /\ (N + 1) - 1 = N
    BY <1>2
  <2> QED BY <1>2, <1>4, <2>1
<1> QED BY <1>1, <1>2, <1>8, <1>9 DEF Walked

LEMMA WalkedOK ==
    ASSUME NEW rows \in Seq(ReqRows), NEW comps
    PROVE  AccOK(Walked(rows, comps), EventRows) /\ Past(Walked(rows, comps), rows, comps, Len(rows))
<1>1. Len(rows) \in 0 .. Len(rows)
  OBVIOUS
<1> QED BY <1>1, CacheRunOK, CacheRunPast DEF Walked

OfK(K, rows) == {x \in rows : x.session \in K}

\* The walk over the requests of the sessions in K beside the walk over all.
Filtered(a, b, K) ==
    /\ AccOK(a, EventRows) /\ AccOK(b, EventRows)
    /\ b.score.session <= a.score.session
    /\ b.events = Having(a.events, OfK(K, EventRows))
    /\ a.score.session \in K => b.score = a.score /\ b.prev = a.prev /\ b.sessions = OfK(K, a.sessions)
    /\ a.score.session \notin K => Flushed(b) = OfK(K, a.sessions)

LEMMA FilteredFlush ==
    ASSUME NEW K, NEW a, NEW b, Filtered(a, b, K)
    PROVE  Flushed(b) = OfK(K, Flushed(a))
<1>1. CASE a.score.session \in K
  BY <1>1 DEF Filtered, Flushed, OfK
<1>2. CASE a.score.session \notin K
  BY <1>2 DEF Filtered, Flushed, OfK
<1> QED BY <1>1, <1>2

LEMMA FilteredStep ==
    ASSUME NEW K, NEW a0, NEW b0, Filtered(a0, b0, K), NEW cur \in ReqRows, NEW comps,
           a0.score.session <= cur.session
    PROVE  Filtered(CacheStep(a0, cur, comps),
                    IF cur.session \in K THEN CacheStep(b0, cur, comps) ELSE b0, K)
<1>1. PICK a, as, prev : /\ a = Enters(a0, cur) /\ as = CacheStep(a0, cur, comps)
                         /\ prev = Before(a, cur)
  OBVIOUS
<1>2. PICK KE : KE = OfK(K, EventRows)
  OBVIOUS
<1>3. AccOK(a0, EventRows) /\ AccOK(b0, EventRows) /\ b0.events = Having(a0.events, KE)
  BY <1>2 DEF Filtered
<1>4. /\ cur.session \in Nat /\ a0.score.session \in Nat /\ b0.score.session \in Nat
      /\ b0.score.session <= a0.score.session
  BY <1>3 DEF ReqRows, AccOK, Scores, Filtered
<1>5. /\ AccOK(a, EventRows) /\ a.score.session = cur.session /\ a.events = a0.events
      /\ AccOK(as, EventRows) /\ as.score.session = cur.session
      /\ a0.score.session = cur.session => a = a0
      /\ a0.score.session # cur.session => a.sessions = Flushed(a0)
  BY <1>1, <1>3, EntersOK, CacheStepOK
<1>6. CacheStepped(a, cur, comps, prev, as) /\ as.sessions = a.sessions
  <2>1. CacheStepped(a, cur, comps, prev, as)
    BY <1>1, CacheStepIs
  <2> QED BY <2>1 DEF CacheStepped
<1>7. PICK events : events = a0.events /\ events \in Seq(EventRows)
  BY <1>3 DEF AccOK
<1>8. \/ as.events = events
      \/ /\ Known(a, cur) /\ Costs(prev, cur)
         /\ as.events = Append(events, Loss(prev, cur, comps))
  BY <1>5, <1>6, <1>7 DEF CacheStepped
<1>9. Known(a, cur) /\ Costs(prev, cur) =>
          /\ Loss(prev, cur, comps) \in EventRows
          /\ Loss(prev, cur, comps) \in KE <=> cur.session \in K
  <2> SUFFICES ASSUME Known(a, cur), Costs(prev, cur)
               PROVE  /\ Loss(prev, cur, comps) \in EventRows
                      /\ Loss(prev, cur, comps) \in KE <=> cur.session \in K
    OBVIOUS
  <2>1. prev \in ReqRows
    BY <1>1, <1>5 DEF Before, Known, AccOK, PrevOK
  <2>2. Loss(prev, cur, comps) \in EventRows
    BY <2>1, LossOK
  <2>3. Loss(prev, cur, comps).session = cur.session
    BY DEF Loss
  <2> QED BY <1>2, <2>2, <2>3 DEF OfK
<1>10. \A e \in EventRows : Having(Append(events, e), KE) = IF e \in KE THEN Append(Having(events, KE), e)
                                                          ELSE Having(events, KE)
  <2> TAKE e \in EventRows
  <2>1. PICK S, L : S = EventRows /\ L = KE
    OBVIOUS
  <2>2. events \in Seq(S) /\ e \in S
    BY <1>7, <2>1
  <2>3. Having(Append(events, e), L) = IF e \in L THEN Append(Having(events, L), e) ELSE Having(events, L)
    BY <2>2, HavingAppend
  <2> QED BY <2>1, <2>3
<1>11. CASE cur.session \notin K
  <2>1. Having(as.events, KE) = b0.events
    BY <1>3, <1>7, <1>8, <1>9, <1>10, <1>11
  <2>2. Flushed(b0) = OfK(K, as.sessions)
    <3>1. CASE a0.score.session = cur.session
      BY <1>5, <1>6, <1>11, <3>1 DEF Filtered
    <3>2. CASE a0.score.session # cur.session
      BY <1>5, <1>6, <3>2, FilteredFlush
    <3> QED BY <3>1, <3>2
  <2>3. b0.score.session <= as.score.session
    BY <1>4, <1>5
  <2> QED BY <1>1, <1>2, <1>3, <1>5, <1>11, <2>1, <2>2, <2>3 DEF Filtered
<1>12. CASE cur.session \in K
  <2>1. PICK b, bs : b = Enters(b0, cur) /\ bs = CacheStep(b0, cur, comps)
    OBVIOUS
  <2>2. /\ AccOK(b, EventRows) /\ b.score.session = cur.session /\ b.events = b0.events
        /\ AccOK(bs, EventRows) /\ bs.score.session = cur.session
    BY <1>3, <2>1, EntersOK, CacheStepOK
  <2>3. b.score = a.score /\ b.prev = a.prev /\ b.sessions = OfK(K, a.sessions)
    <3>1. CASE a0.score.session = cur.session
      <4>1. b0.score = a0.score /\ b0.prev = a0.prev /\ b0.sessions = OfK(K, a0.sessions)
        BY <1>12, <3>1 DEF Filtered
      <4>2. a = a0 /\ b = b0
        BY <1>1, <2>1, <3>1, <4>1 DEF Enters
      <4> QED BY <4>1, <4>2
    <3>2. CASE a0.score.session # cur.session
      <4>1. b0.score.session # cur.session
        BY <1>4, <3>2
      <4>2. /\ a.score = NewScore(cur.session) /\ a.prev = <<>> /\ a.sessions = Flushed(a0)
            /\ b.score = NewScore(cur.session) /\ b.prev = <<>> /\ b.sessions = Flushed(b0)
        BY <1>1, <2>1, <3>2, <4>1 DEF Enters
      <4> QED BY <4>2, FilteredFlush
    <3> QED BY <3>1, <3>2
  <2>4. prev = Before(b, cur) /\ (Known(b, cur) <=> Known(a, cur))
    BY <1>1, <2>3 DEF Before, Known
  <2>5. CacheStepped(b, cur, comps, prev, bs)
    BY <2>1, <2>4, CacheStepIs
  <2>6. bs.score = as.score /\ bs.prev = as.prev /\ bs.sessions = OfK(K, as.sessions)
    BY <1>6, <2>3, <2>4, <2>5 DEF CacheStepped
  <2>7. bs.events = Having(as.events, KE)
    <3>1. CASE Known(a, cur) /\ Costs(prev, cur)
      <4>1. PICK e : e = Loss(prev, cur, comps) /\ e \in EventRows /\ e \in KE
        BY <1>9, <1>12, <3>1
      <4>2. as.events = Append(events, e) /\ bs.events = Append(b0.events, e)
        BY <1>5, <1>6, <1>7, <2>2, <2>4, <2>5, <3>1, <4>1 DEF CacheStepped
      <4> QED BY <1>3, <1>7, <1>10, <4>1, <4>2
    <3>2. CASE ~(Known(a, cur) /\ Costs(prev, cur))
      <4>1. as.events = events /\ bs.events = b0.events
        BY <1>5, <1>6, <1>7, <2>2, <2>4, <2>5, <3>2 DEF CacheStepped
      <4> QED BY <1>3, <1>7, <4>1
    <3> QED BY <3>1, <3>2
  <2>8. bs.score.session <= as.score.session
    BY <1>4, <1>5, <2>2
  <2> QED BY <1>1, <1>2, <1>5, <1>12, <2>1, <2>2, <2>6, <2>7, <2>8 DEF Filtered
<1> QED BY <1>11, <1>12

\* Sessions are walked over one after another.
LEMMA ReachedSession ==
    ASSUME NEW rows \in Seq(ReqRows), SortedRows(rows), NEW comps, NEW n \in Nat, n < Len(rows)
    PROVE  /\ Prefix(rows, n) \in Seq(ReqRows) /\ rows[n + 1] \in ReqRows
           /\ Walked(Prefix(rows, n), comps).score.session <= rows[n + 1].session
<1>1. PICK p : p = Prefix(rows, n)
  OBVIOUS
<1>2. n \in 0 .. Len(rows) /\ n + 1 \in DOMAIN rows /\ rows[n + 1] \in ReqRows
  OBVIOUS
<1>3. p \in Seq(ReqRows) /\ Len(p) = n /\ \A i \in 1 .. n : p[i] = rows[i]
  BY <1>1, <1>2, PrefixIs
<1>4. rows[n + 1].session \in Nat
  BY <1>2 DEF ReqRows
<1>5. Walked(p, comps).score.session = IF n = 0 THEN 0 ELSE p[n].session
  BY <1>3, WalkedOK DEF Past
<1>6. CASE n = 0
  BY <1>1, <1>2, <1>3, <1>4, <1>5, <1>6
<1>7. CASE n # 0
  <2>1. n \in DOMAIN rows /\ n < n + 1 /\ p[n] = rows[n] /\ rows[n] \in ReqRows
    BY <1>3, <1>7
  <2>2. rows[n].session < rows[n + 1].session \/ rows[n].session = rows[n + 1].session
    BY <1>2, <2>1 DEF SortedRows
  <2>3. rows[n].session \in Nat
    BY <2>1 DEF ReqRows
  <2> QED BY <1>1, <1>2, <1>3, <1>4, <1>5, <1>7, <2>1, <2>2, <2>3
<1> QED BY <1>6, <1>7

LEMMA FilteredRuns ==
    ASSUME NEW K, NEW rows \in Seq(ReqRows), SortedRows(rows), NEW comps
    PROVE  Filtered(Walked(rows, comps), Walked(Having(rows, OfK(K, ReqRows)), comps), K)
<1>1. PICK R : R = OfK(K, ReqRows)
  OBVIOUS
<1> DEFINE Good == {q \in Seq(ReqRows) : Filtered(Walked(q, comps), Walked(Having(q, R), comps), K)}
<1>2. <<>> \in Good
  <2>1. Walked(<<>>, comps) = Start /\ Walked(Having(<<>>, R), comps) = Start
    BY HavingEmpty, WalkedEmpty
  <2>2. Start.score.session = 0 /\ Start.score.expected = 0 /\ Start.sessions = {} /\ Start.events = <<>>
    BY DEF Start, NewScore
  <2>3. Flushed(Start) = {} /\ OfK(K, Start.sessions) = {}
    BY <2>2 DEF Flushed, OfK
  <2>4. Start.events = Having(Start.events, OfK(K, EventRows))
    BY <2>2, HavingEmpty
  <2>5. Filtered(Start, Start, K)
    BY <2>2, <2>3, <2>4, StartOK DEF Filtered
  <2>6. <<>> \in Seq(ReqRows)
    OBVIOUS
  <2> QED BY <2>1, <2>5, <2>6
<1>3. ASSUME NEW n \in Nat, n < Len(rows), Prefix(rows, n) \in Good
      PROVE  Append(Prefix(rows, n), rows[n + 1]) \in Good
  <2>1. PICK p, x : p = Prefix(rows, n) /\ x = rows[n + 1]
    OBVIOUS
  <2>2. p \in Seq(ReqRows) /\ x \in ReqRows /\ Walked(p, comps).score.session <= x.session
    BY <1>3, <2>1, ReachedSession
  <2>3. PICK a, b, H : a = Walked(p, comps) /\ H = Having(p, R) /\ b = Walked(H, comps)
    OBVIOUS
  <2>4. Filtered(a, b, K) /\ H \in Seq(ReqRows)
    BY <1>3, <2>1, <2>2, <2>3, HavingIs
  <2>5. Walked(Append(p, x), comps) = CacheStep(a, x, comps)
    BY <2>2, <2>3, WalkedAppend
  <2>6. Having(Append(p, x), R) = IF x.session \in K THEN Append(H, x) ELSE H
    <3>1. x \in R <=> x.session \in K
      BY <1>1, <2>2 DEF OfK
    <3>2. Having(Append(p, x), R) = IF x \in R THEN Append(Having(p, R), x) ELSE Having(p, R)
      BY <2>2, HavingAppend
    <3> QED BY <2>3, <3>1, <3>2
  <2>7. Walked(Having(Append(p, x), R), comps) = IF x.session \in K THEN CacheStep(b, x, comps) ELSE b
    <3>1. Walked(Append(H, x), comps) = CacheStep(b, x, comps)
      BY <2>2, <2>3, <2>4, WalkedAppend
    <3> QED BY <2>3, <2>6, <3>1
  <2>8. Filtered(Walked(Append(p, x), comps), Walked(Having(Append(p, x), R), comps), K)
    BY <2>2, <2>3, <2>4, <2>5, <2>7, FilteredStep
  <2>9. Append(p, x) \in Seq(ReqRows)
    BY <2>2
  <2> QED BY <2>1, <2>8, <2>9
<1>4. rows \in Good
  <2> HIDE DEF Good
  <2> QED BY <1>2, <1>3, ByAppending
<1> QED BY <1>1, <1>4

\* The report on some of the sessions is what the report on all has of them.
LEMMA CacheOfSessions ==
    ASSUME NEW K, NEW rows \in Seq(ReqRows), SortedRows(rows), NEW comps,
           NEW all, all = Cache(rows, comps), NEW rep, rep = Cache(OfSessions(rows, K), comps)
    PROVE  rep.sessions = OfK(K, all.sessions) /\ rep.events = OfSessions(all.events, K)
<1>1. PICK a, b, mine : /\ mine = Having(rows, OfK(K, ReqRows))
                        /\ a = Walked(rows, comps) /\ b = Walked(mine, comps)
  OBVIOUS
<1>2. Filtered(a, b, K)
  BY <1>1, FilteredRuns
<1>3. OfSessions(rows, K) = mine
  <2>1. PICK R : R = OfK(K, ReqRows)
    OBVIOUS
  <2>2. \A x \in ReqRows : x \in R <=> x.session \in K
    BY <2>1 DEF OfK
  <2>3. OfSessions(rows, K) = Having(rows, R)
    BY <2>2, OfSessionsIs
  <2> QED BY <1>1, <2>1, <2>3
<1>4. OfSessions(a.events, K) = b.events
  <2>1. PICK R, events : R = OfK(K, EventRows) /\ events = a.events
    OBVIOUS
  <2>2. (\A x \in EventRows : x \in R <=> x.session \in K) /\ events \in Seq(EventRows)
    BY <1>2, <2>1 DEF OfK, Filtered, AccOK
  <2>3. OfSessions(events, K) = Having(events, R)
    BY <2>2, OfSessionsIs
  <2> QED BY <1>2, <2>1, <2>3 DEF Filtered
<1>5. Flushed(b) = OfK(K, Flushed(a))
  BY <1>2, FilteredFlush
<1> QED BY <1>1, <1>3, <1>4, <1>5 DEF Cache, Walked

LEMMA CountOfSessions ==
    ASSUME NEW K, NEW rows \in Seq(ReqRows), NEW s \in K, NEW lo, NEW hi
    PROVE  countBetween(Having(rows, OfK(K, ReqRows)), s, lo, hi) = countBetween(rows, s, lo, hi)
<1>1. PICK R : R = OfK(K, ReqRows)
  OBVIOUS
<1> DEFINE Good == {q \in Seq(ReqRows) : countBetween(Having(q, R), s, lo, hi) = countBetween(q, s, lo, hi)}
<1>2. <<>> \in Good
  <2>1. Having(<<>>, R) = <<>> /\ <<>> \in Seq(ReqRows)
    BY HavingEmpty
  <2> QED BY <2>1
<1>3. ASSUME NEW n \in Nat, n < Len(rows), Prefix(rows, n) \in Good
      PROVE  Append(Prefix(rows, n), rows[n + 1]) \in Good
  <2>1. PICK p, x, H : p = Prefix(rows, n) /\ x = rows[n + 1] /\ H = Having(p, R)
    OBVIOUS
  <2>2. p \in Seq(ReqRows) /\ x \in ReqRows /\ H \in Seq(ReqRows)
    <3>1. n \in 0 .. Len(rows) /\ x \in ReqRows
      BY <1>3, <2>1
    <3>2. p \in Seq(ReqRows)
      BY <2>1, <3>1, PrefixIs
    <3> QED BY <2>1, <3>1, <3>2, HavingIs
  <2>3. PICK d : d = IF x.session = s /\ x.at > lo /\ (hi # Never => x.at < hi) THEN 1 ELSE 0
    OBVIOUS
  <2>4. countBetween(Append(p, x), s, lo, hi) = countBetween(p, s, lo, hi) + d
    BY <2>2, <2>3, CountAppended
  <2>5. countBetween(Append(H, x), s, lo, hi) = countBetween(H, s, lo, hi) + d
    BY <2>2, <2>3, CountAppended
  <2>6. Having(Append(p, x), R) = IF x \in R THEN Append(H, x) ELSE H
    <3>1. PICK S, L : S = ReqRows /\ L = R
      OBVIOUS
    <3>2. p \in Seq(S) /\ x \in S
      BY <2>2, <3>1
    <3>3. Having(Append(p, x), L) = IF x \in L THEN Append(Having(p, L), x) ELSE Having(p, L)
      BY <3>2, HavingAppend
    <3> QED BY <2>1, <3>1, <3>3
  <2>7. countBetween(H, s, lo, hi) = countBetween(p, s, lo, hi) /\ countBetween(p, s, lo, hi) \in Nat
    <3>1. Len(p) \in Nat /\ DOMAIN p = 1 .. Len(p)
      BY <2>2
    <3> QED BY <1>3, <2>1, <3>1, CountedFinite
  <2>8. x \notin R => d = 0
    BY <1>1, <2>2, <2>3 DEF OfK
  <2>9. countBetween(Having(Append(p, x), R), s, lo, hi) = countBetween(Append(p, x), s, lo, hi)
    <3>1. CASE x \in R
      BY <2>4, <2>5, <2>6, <2>7, <3>1
    <3>2. CASE x \notin R
      BY <2>4, <2>6, <2>7, <2>8, <3>2
    <3> QED BY <3>1, <3>2
  <2>10. Append(p, x) \in Seq(ReqRows)
    BY <2>2
  <2> QED BY <2>1, <2>9, <2>10
<1>4. rows \in Good
  <2> HIDE DEF Good
  <2> QED BY <1>2, <1>3, ByAppending
<1> QED BY <1>1, <1>4

LEMMA UserOfSessions ==
    ASSUME NEW K, NEW rows \in Seq(BlockRows), NEW s \in K
    PROVE  userTS(Having(rows, OfK(K, BlockRows)), s) = userTS(rows, s)
<1>1. PICK R, out : R = OfK(K, BlockRows) /\ out = Having(rows, R)
  OBVIOUS
<1>2. \A j \in DOMAIN out : \E k \in DOMAIN rows : rows[k] \in R /\ out[j] = rows[k]
  BY <1>1, HavingIs
<1>3. \A k \in DOMAIN rows : rows[k] \in R => \E j \in DOMAIN out : out[j] = rows[k]
  BY <1>1, HavingIs
<1>4. \A k \in DOMAIN rows : rows[k].session = s => rows[k] \in R
  <2>1. \A k \in DOMAIN rows : rows[k] \in BlockRows
    OBVIOUS
  <2> QED BY <1>1, <2>1 DEF OfK
<1>5. ASSUME NEW t \in userTS(out, s) PROVE t \in userTS(rows, s)
  <2>1. PICK j \in DOMAIN out : out[j].session = s /\ out[j].kind = "user_text" /\ t = out[j].at
    BY <1>5 DEF userTS
  <2>2. PICK k \in DOMAIN rows : out[j] = rows[k]
    BY <1>2
  <2> QED BY <2>1, <2>2 DEF userTS
<1>6. ASSUME NEW t \in userTS(rows, s) PROVE t \in userTS(out, s)
  <2>1. PICK k \in DOMAIN rows : rows[k].session = s /\ rows[k].kind = "user_text" /\ t = rows[k].at
    BY <1>6 DEF userTS
  <2>2. PICK j \in DOMAIN out : out[j] = rows[k]
    BY <1>3, <1>4, <2>1
  <2> QED BY <2>1, <2>2 DEF userTS
<1> QED BY <1>1, <1>5, <1>6

LEMMA ResidentOfSessions ==
    ASSUME NEW K, NEW rows \in Seq(BlockRows), NEW stamps \in Seq(ReqRows), NEW comps, NEW b, b.session \in K
    PROVE  Resident(b, Having(rows, OfK(K, BlockRows)), Having(stamps, OfK(K, ReqRows)), comps)
             = Resident(b, rows, stamps, comps)
<1>1. PICK part, mine, s : /\ part = Having(rows, OfK(K, BlockRows)) /\ mine = Having(stamps, OfK(K, ReqRows))
                           /\ s = b.session
  OBVIOUS
<1>2. userTS(part, s) = userTS(rows, s)
  BY <1>1, UserOfSessions
<1>3. End(b, part, comps) = End(b, rows, comps)
  BY <1>1, <1>2 DEF End
<1>4. countBetween(mine, s, b.at, End(b, rows, comps)) = countBetween(stamps, s, b.at, End(b, rows, comps))
  BY <1>1, CountOfSessions
<1> QED BY <1>1, <1>3, <1>4 DEF Resident

\* The residency of the sessions in K is the sum over their blocks.
LEMMA ResidencyOfSessions ==
    ASSUME IInv, NEW K
    PROVE  ExtractedRes(OfSessions(blocks, K), OfSessions(reqs, K), compactions)
             = SumFunctionOnSet(CarriedTokens, {i \in DOMAIN blocks : blocks[i].session \in K})
<1>1. PICK RB, RR : RB = OfK(K, BlockRows) /\ RR = OfK(K, ReqRows)
  OBVIOUS
<1>2. PICK part, mine : part = Having(blocks, RB) /\ mine = Having(reqs, RR)
  OBVIOUS
<1>3. blocks \in Seq(BlockRows) /\ reqs \in Seq(ReqRows)
  BY DEF IInv, StateOK
<1>4. OfSessions(blocks, K) = part /\ OfSessions(reqs, K) = mine
  <2>1. (\A x \in BlockRows : x \in RB <=> x.session \in K) /\ \A x \in ReqRows : x \in RR <=> x.session \in K
    BY <1>1 DEF OfK
  <2>2. OfSessions(blocks, K) = Having(blocks, RB)
    BY <1>3, <2>1, OfSessionsIs
  <2>3. OfSessions(reqs, K) = Having(reqs, RR)
    BY <1>3, <2>1, OfSessionsIs
  <2> QED BY <1>2, <2>2, <2>3
<1>5. PICK N, T : N = {i \in DOMAIN blocks : blocks[i] \in RB} /\ T = {i \in DOMAIN blocks : blocks[i].session \in K}
  OBVIOUS
<1>6. N = T
  <2>1. \A i \in DOMAIN blocks : blocks[i] \in BlockRows
    BY <1>3
  <2> QED BY <1>1, <1>5, <2>1 DEF OfK
<1>7. PICK h : part \in Seq(BlockRows) /\ PlacedAt(h, part, blocks, N, Len(blocks))
  BY <1>2, <1>3, <1>5, RowsAtPlaces DEF Having
<1>8. /\ DOMAIN part = 1 .. Len(part) /\ Len(part) \in Nat /\ DOMAIN blocks = 1 .. Len(blocks) /\ Len(blocks) \in Nat
      /\ IsFiniteSet(DOMAIN part)
  <2>1. DOMAIN part = 1 .. Len(part) /\ Len(part) \in Nat /\ DOMAIN blocks = 1 .. Len(blocks) /\ Len(blocks) \in Nat
    BY <1>3, <1>7
  <2> QED BY <2>1, FS_Interval
<1>9. PICK g : g = [j \in DOMAIN part |-> h[j]]
  OBVIOUS
<1>10. /\ \A j \in DOMAIN part : g[j] \in T /\ part[j] = blocks[g[j]]
       /\ \A k \in T : \E j \in DOMAIN part : g[j] = k
       /\ \A i, j \in DOMAIN part : i # j => g[i] # g[j]
  <2>1. \A j \in DOMAIN part : h[j] \in DOMAIN blocks /\ h[j] \in T /\ part[j] = blocks[h[j]]
    BY <1>6, <1>7, <1>8 DEF PlacedAt
  <2>2. \A k \in T : \E j \in DOMAIN part : h[j] = k
    BY <1>5, <1>6, <1>7, <1>8 DEF PlacedAt
  <2>3. ASSUME NEW i \in DOMAIN part, NEW j \in DOMAIN part, i # j PROVE h[i] # h[j]
    <3>1. i < j \/ j < i
      BY <1>8, <2>3
    <3>2. h[i] < h[j] \/ h[j] < h[i]
      BY <1>7, <1>8, <3>1 DEF PlacedAt
    <3>3. PICK a, b : a = h[i] /\ b = h[j] /\ a \in Nat /\ b \in Nat
      BY <1>8, <2>1
    <3> QED BY <3>2, <3>3
  <2> QED BY <1>9, <2>1, <2>2, <2>3
<1>11. g \in Bijection(DOMAIN part, T)
  <2>1. g \in [DOMAIN part -> T]
    BY <1>9, <1>10
  <2>2. g \in Injection(DOMAIN part, T)
    BY <1>10, <2>1 DEF Injection, IsInjective
  <2>3. g \in Surjection(DOMAIN part, T)
    BY <1>10, <2>1 DEF Surjection
  <2> QED BY <2>2, <2>3 DEF Bijection
<1>12. PICK f : f = [j \in DOMAIN part |-> ResTokens(part[j], part, mine, compactions)]
  OBVIOUS
<1>13. \A i \in DOMAIN blocks : CarriedTokens[i] \in Nat /\ CarriedTokens[i] = blocks[i].tokens * carried[i]
  <2> TAKE i \in DOMAIN blocks
  <2>1. blocks[i] \in BlockRows /\ carried[i] \in Nat
    <3>1. carried \in Seq(Nat) /\ Len(carried) = Len(blocks)
      BY DEF IInv, StateOK
    <3> QED BY <1>3, <1>8, <3>1
  <2>2. PICK t, c : t = blocks[i].tokens /\ c = carried[i] /\ t \in Nat /\ c \in Nat
    BY <2>1 DEF BlockRows
  <2>3. CarriedTokens[i] = t * c
    BY <2>2 DEF CarriedTokens
  <2>4. t * c \in Nat
    BY <2>2
  <2> QED BY <2>2, <2>3, <2>4
<1>14. \A j \in DOMAIN part : f[j] = CarriedTokens[g[j]]
  <2> TAKE j \in DOMAIN part
  <2>1. PICK b, i : i = g[j] /\ b = part[j] /\ b = blocks[i] /\ i \in T /\ i \in DOMAIN blocks /\ b.session \in K
    BY <1>5, <1>10
  <2>2. Resident(b, part, mine, compactions) = Resident(b, blocks, reqs, compactions)
    BY <1>1, <1>2, <1>3, <2>1, ResidentOfSessions
  <2>3. carried[i] = Resident(b, blocks, reqs, compactions)
    BY <2>1 DEF IInv, CarriedOK
  <2>4. f[j] = b.tokens * carried[i]
    BY <1>12, <2>1, <2>2, <2>3 DEF ResTokens
  <2> QED BY <1>13, <2>1, <2>4
<1>15. SumFunctionOnSet(f, DOMAIN part) = SumFunctionOnSet(CarriedTokens, T)
  <2>1. \A i \in T : CarriedTokens[i] \in Nat
    BY <1>5, <1>13
  <2> QED BY <1>8, <1>11, <1>14, <2>1, SumAlong
<1>16. DOMAIN f = DOMAIN part /\ SumFunction(f) = SumFunctionOnSet(f, DOMAIN f)
  BY <1>12, SumWhole
<1>17. ExtractedRes(part, mine, compactions) = SumFunction(f)
  BY <1>12 DEF ExtractedRes
<1> QED BY <1>4, <1>5, <1>15, <1>16, <1>17

\* Whatever the window, what is reported of a session in it is what the whole
\* history reports of it (RequestsForCache, BlocksForResidency).
THEOREM WindowWholeInEveryHistory == Spec => []WindowWhole
<1>1. IInv => WindowWhole
  <2> SUFFICES ASSUME IInv, NEW since \in {reqs[i].at : i \in DOMAIN reqs}
               PROVE  LET all    == Cache(reqs, compactions)
                          rep    == Cache(RequestsForCache(since), compactions)
                          stamps == RequestStamps(since)
                          part   == BlocksForResidency(since)
                      IN  /\ rep.sessions = {x \in all.sessions : x.session \in Recent(since)}
                          /\ rep.events = OfSessions(all.events, Recent(since))
                          /\ ExtractedRes(part, stamps, compactions)
                               = SumFunctionOnSet(CarriedTokens,
                                                  {i \in DOMAIN blocks : blocks[i].session \in Recent(since)})
    BY DEF WindowWhole
  <2>1. PICK K : K = Recent(since)
    OBVIOUS
  <2>2. reqs \in Seq(ReqRows) /\ SortedRows(reqs)
    BY DEF IInv, StateOK, Sorted, SortedRows
  <2>3. PICK all, rep : all = Cache(reqs, compactions) /\ rep = Cache(OfSessions(reqs, K), compactions)
    OBVIOUS
  <2>4. rep.sessions = {x \in all.sessions : x.session \in K} /\ rep.events = OfSessions(all.events, K)
    <3>1. rep.sessions = OfK(K, all.sessions) /\ rep.events = OfSessions(all.events, K)
      BY <2>2, <2>3, CacheOfSessions
    <3> QED BY <3>1 DEF OfK
  <2>5. ExtractedRes(OfSessions(blocks, K), OfSessions(reqs, K), compactions)
          = SumFunctionOnSet(CarriedTokens, {i \in DOMAIN blocks : blocks[i].session \in K})
    BY ResidencyOfSessions
  <2> QED BY <2>1, <2>3, <2>4, <2>5, Zenon DEF RequestsForCache, RequestStamps, BlocksForResidency
<1> QED BY <1>1, HistoryInvariant, PTL
-----------------------------------------------------------------------------
(***************************************************************************)
(* The view of a session.                                                  *)
(***************************************************************************)
InTime(rows) == \A i, j \in DOMAIN rows : i <= j => rows[i].at <= rows[j].at

OneSession(rows, s) == InTime(rows) /\ \A i \in DOMAIN rows : rows[i].session = s

After(points, c) == {i \in DOMAIN points : points[i].at >= c}

FirstPast(rows, i, c) == c <= rows[i].at /\ \A j \in DOMAIN rows : j < i => rows[j].at < c

MarkedAt(point, rows, i, events, B) ==
    /\ point.at = rows[i].at /\ point.model = rows[i].model
    /\ point.compaction <=> \E c \in B : FirstPast(rows, i, c)
    /\ (\E j \in DOMAIN events : events[j].at = rows[i].at /\ events[j].model = rows[i].model) => point.event

PointsOf(points, rows, events, B) ==
    DOMAIN points = DOMAIN rows /\ \A i \in DOMAIN rows : MarkedAt(points[i], rows, i, events, B)

FirstMarked(points, rows, c) ==
    /\ After(points, c) # {} => /\ Min(After(points, c)) \in After(points, c)
                                /\ points[Min(After(points, c))].compaction
                                /\ \A j \in After(points, c) : Min(After(points, c)) <= j
    /\ \A i \in DOMAIN points : FirstPast(rows, i, c) => i = Min(After(points, c))

Shown(e, points) ==
    \E j, i \in DOMAIN points :
        /\ InTurn(points, j, i) /\ points[i].at = e.at /\ points[i].model = e.model
        /\ {x \in DOMAIN points : points[x].compaction} \cap (j + 1 .. i) # {}

LEMMA RowTimes ==
    ASSUME NEW rows \in Seq(ReqRows)
    PROVE  /\ DOMAIN rows = 1 .. Len(rows) /\ Len(rows) \in Nat
           /\ \A i \in DOMAIN rows : rows[i] \in ReqRows /\ rows[i].at \in Nat /\ i \in Nat
<1>1. DOMAIN rows = 1 .. Len(rows) /\ Len(rows) \in Nat
  OBVIOUS
<1>2. \A i \in DOMAIN rows : rows[i] \in ReqRows
  OBVIOUS
<1>3. \A r \in ReqRows : r.at \in Nat
  BY DEF ReqRows
<1> QED BY <1>1, <1>2, <1>3

LEMMA SessionInTime ==
    ASSUME NEW rows \in Seq(ReqRows), SortedRows(rows), NEW s, NEW mine, mine = OfSessions(rows, {s})
    PROVE  mine \in Seq(ReqRows) /\ OneSession(mine, s)
<1>1. PICK N : N = {i \in DOMAIN rows : rows[i].session \in {s}}
  OBVIOUS
<1>2. mine = RowsAt(rows, N)
  BY <1>1 DEF OfSessions
<1>3. PICK h : mine \in Seq(ReqRows) /\ PlacedAt(h, mine, rows, N, Len(rows))
  BY <1>2, RowsAtPlaces
<1>4. DOMAIN mine = 1 .. Len(mine) /\ Len(mine) \in Nat /\ DOMAIN rows = 1 .. Len(rows) /\ Len(rows) \in Nat
  BY <1>3
<1>5. \A i \in DOMAIN mine : h[i] \in DOMAIN rows /\ mine[i] = rows[h[i]] /\ rows[h[i]].session = s
  BY <1>1, <1>3, <1>4 DEF PlacedAt
<1>6. ASSUME NEW i \in DOMAIN mine, NEW j \in DOMAIN mine, i <= j
      PROVE  mine[i].at <= mine[j].at
  <2>1. CASE i = j
    <3>1. mine[i].at \in Nat
      BY <1>3, RowTimes
    <3> QED BY <2>1, <3>1
  <2>2. CASE i # j
    <3>1. i < j
      BY <1>4, <1>6, <2>2
    <3>2. h[i] < h[j]
      BY <1>3, <1>4, <3>1 DEF PlacedAt
    <3>3. PICK a, b : a = h[i] /\ b = h[j] /\ a \in DOMAIN rows /\ b \in DOMAIN rows
      BY <1>5
    <3>4. rows[a].session = s /\ rows[b].session = s /\ a < b
      BY <1>5, <3>2, <3>3
    <3>5. \/ rows[a].session < rows[b].session
          \/ rows[a].at <= rows[b].at
      BY <3>3, <3>4 DEF SortedRows
    <3>6. rows[a] \in ReqRows /\ rows[b] \in ReqRows
      BY <3>3, RowTimes
    <3>7. rows[a].session \in Nat /\ rows[b].session = rows[a].session
      BY <3>4, <3>6 DEF ReqRows
    <3>8. rows[a].at <= rows[b].at
      BY <3>5, <3>7
    <3> QED BY <1>5, <3>3, <3>8
  <2> QED BY <2>1, <2>2
<1> QED BY <1>3, <1>5, <1>6 DEF InTime, OneSession

\* A point is marked where it is the first that follows a boundary.
LEMMA MarkedWhereFirst ==
    ASSUME NEW rows \in Seq(ReqRows), InTime(rows), NEW events, NEW B \in SUBSET Nat,
           NEW points, points = Points(rows, events, B)
    PROVE  PointsOf(points, rows, events, B)
<1>1. DOMAIN points = DOMAIN rows /\ DOMAIN rows = 1 .. Len(rows) /\ Len(rows) \in Nat
  BY RowTimes DEF Points
<1>2. ASSUME NEW i \in DOMAIN rows
      PROVE  /\ points[i].at = rows[i].at /\ points[i].model = rows[i].model
             /\ points[i].compaction = (\E c \in B : PrevTS(rows, i) < c /\ c <= rows[i].at)
             /\ points[i].event = (\E j \in DOMAIN events : /\ events[j].at = rows[i].at
                                                            /\ events[j].model = rows[i].model)
  BY DEF Points
<1>3. ASSUME NEW i \in DOMAIN rows, NEW c \in B
      PROVE  PrevTS(rows, i) < c <=> \A j \in DOMAIN rows : j < i => rows[j].at < c
  <2>1. \A j \in DOMAIN rows : rows[j].at \in Nat
    BY RowTimes
  <2>2. c \in Nat
    OBVIOUS
  <2>3. CASE i = 1
    <3>1. PrevTS(rows, i) < c
      BY <2>2, <2>3 DEF PrevTS, Blank
    <3>2. \A j \in DOMAIN rows : ~(j < i)
      BY <1>1, <2>3
    <3> QED BY <3>1, <3>2
  <2>4. CASE i # 1
    <3>1. PICK p : p = i - 1 /\ p \in DOMAIN rows /\ p < i
      BY <1>1, <2>4
    <3>2. PrevTS(rows, i) = rows[p].at
      BY <2>4, <3>1 DEF PrevTS
    <3>3. \A j \in DOMAIN rows : j < i => rows[j].at <= rows[p].at
      <4> TAKE j \in DOMAIN rows
      <4> HAVE j < i
      <4>1. j <= p
        BY <1>1, <3>1
      <4> QED BY <3>1, <4>1 DEF InTime
    <3> QED BY <2>1, <2>2, <3>1, <3>2, <3>3
  <2> QED BY <2>3, <2>4
<1>4. ASSUME NEW i \in DOMAIN rows
      PROVE  MarkedAt(points[i], rows, i, events, B)
  <2>1. (\E c \in B : PrevTS(rows, i) < c /\ c <= rows[i].at) <=> \E c \in B : FirstPast(rows, i, c)
    BY <1>3 DEF FirstPast
  <2> QED BY <1>2, <2>1 DEF MarkedAt
<1> QED BY <1>1, <1>4 DEF PointsOf

\* The first point after a boundary is marked.
LEMMA FirstAfterMarked ==
    ASSUME NEW rows \in Seq(ReqRows), InTime(rows), NEW events, NEW B \in SUBSET Nat,
           NEW points, PointsOf(points, rows, events, B), NEW c \in B
    PROVE  FirstMarked(points, rows, c)
<1>1. DOMAIN points = DOMAIN rows
  BY DEF PointsOf
<1>2. \A i \in DOMAIN rows : points[i].at = rows[i].at
  BY DEF PointsOf, MarkedAt
<1>3. \A i \in DOMAIN rows : rows[i].at \in Nat /\ i \in Nat
  BY RowTimes
<1>4. PICK after : after = After(points, c)
  OBVIOUS
<1>5. c \in Nat /\ after \in SUBSET Nat /\ \A i : i \in after <=> i \in DOMAIN rows /\ rows[i].at >= c
  BY <1>1, <1>2, <1>3, <1>4 DEF After
<1>6. PICK m : m = Min(after)
  OBVIOUS
<1>7. ASSUME after # {} PROVE m \in after /\ \A j \in after : m <= j
  BY <1>5, <1>6, <1>7, MinOf
<1>8. ASSUME after # {} PROVE points[m].compaction
  <2>1. m \in after /\ (\A j \in after : m <= j) /\ m \in DOMAIN rows /\ c <= rows[m].at
    BY <1>3, <1>5, <1>7, <1>8
  <2>2. ASSUME NEW j \in DOMAIN rows, j < m PROVE rows[j].at < c
    <3>1. j \notin after
      BY <1>3, <2>1, <2>2
    <3> QED BY <1>3, <1>5, <3>1
  <2>3. FirstPast(rows, m, c)
    BY <2>1, <2>2 DEF FirstPast
  <2> QED BY <2>1, <2>3 DEF PointsOf, MarkedAt
<1>9. ASSUME NEW i \in DOMAIN points, FirstPast(rows, i, c)
      PROVE  i = m
  <2>1. i \in DOMAIN rows /\ c <= rows[i].at /\ \A j \in DOMAIN rows : j < i => rows[j].at < c
    BY <1>1, <1>9 DEF FirstPast
  <2>2. i \in after
    BY <1>3, <1>5, <2>1
  <2>3. m \in after /\ m <= i /\ m \in DOMAIN rows /\ rows[m].at >= c
    BY <1>5, <1>7, <2>2
  <2>4. ~(m < i)
    BY <1>3, <1>5, <2>1, <2>3
  <2> QED BY <1>3, <2>1, <2>3, <2>4
<1> QED BY <1>4, <1>6, <1>7, <1>8, <1>9 DEF FirstMarked

\* Where a loss put down to a compaction has its boundary.
LEMMA LossHasMark ==
    ASSUME NEW rows \in Seq(ReqRows), NEW s, OneSession(rows, s), NEW comps, comps[s] \in SUBSET Nat,
           NEW events, NEW points, PointsOf(points, rows, events, comps[s]),
           NEW e, NEW j \in DOMAIN rows, NEW k \in DOMAIN rows, LossAt(e, rows, comps, j, k)
    PROVE  e.at = rows[k].at /\ e.model = rows[k].model /\ (e.cause = "compaction" => Shown(e, points))
<1>1. DOMAIN points = DOMAIN rows /\ \A i \in DOMAIN rows : points[i].at = rows[i].at /\ points[i].model = rows[i].model
  BY DEF PointsOf, MarkedAt
<1>2. InTime(rows) /\ rows[k].session = s
  BY DEF OneSession
<1>3. \A i \in DOMAIN rows : rows[i].at \in Nat /\ i \in Nat /\ i >= 1
  BY RowTimes
<1>4. e.at = rows[k].at /\ e.model = rows[k].model /\ e.cause = classify(rows[j], rows[k], comps[s])
  BY <1>2 DEF LossAt, Loss
<1>5. j < k /\ rows[j].model = rows[k].model
  BY DEF LossAt
<1>6. ASSUME e.cause = "compaction" PROVE Shown(e, points)
  <2>1. Boundary(rows[j], rows[k], comps[s])
    BY <1>4, <1>6 DEF classify
  <2>2. PICK c : c \in comps[s] /\ rows[j].at < c /\ c <= rows[k].at /\ c \in Nat
    BY <2>1 DEF Boundary
  <2>3. FirstMarked(points, rows, c)
    BY <1>2, <2>2, FirstAfterMarked
  <2>4. k \in After(points, c)
    BY <1>1, <1>3, <2>2 DEF After
  <2>5. PICK i : i \in After(points, c) /\ points[i].compaction /\ i <= k
    BY <2>3, <2>4 DEF FirstMarked
  <2>6. i \in DOMAIN rows /\ rows[i].at >= c
    BY <1>1, <2>5 DEF After
  <2>7. j < i
    <3>1. CASE i <= j
      <4>1. rows[i].at <= rows[j].at
        BY <1>2, <2>6, <3>1 DEF InTime
      <4> QED BY <1>3, <2>2, <2>6, <4>1
    <3> QED BY <1>3, <2>6, <3>1
  <2>8. i \in j + 1 .. k
    BY <1>3, <2>5, <2>6, <2>7
  <2>9. InTurn(points, j, k)
    <3>1. \A x \in j + 1 .. k - 1 : x \in DOMAIN rows
      BY RowTimes
    <3>2. \A x \in DOMAIN rows : rows[x].session = rows[k].session
      BY DEF OneSession
    <3>3. \A x \in j + 1 .. k - 1 : rows[x].model # rows[k].model
      BY <3>1, <3>2 DEF LossAt
    <3> QED BY <1>1, <1>5, <3>1, <3>3 DEF InTurn
  <2>10. points[k].at = e.at /\ points[k].model = e.model
    BY <1>1, <1>4
  <2>11. i \in {x \in DOMAIN points : points[x].compaction} \cap (j + 1 .. k)
    BY <1>1, <2>5, <2>6, <2>8
  <2> QED BY <1>1, <2>9, <2>10, <2>11 DEF Shown
<1> QED BY <1>4, <1>6

\* CompactionShown of one session.
CompactionShownOf(points, events, boundaries) ==
    LET marked == {i \in DOMAIN points : points[i].compaction}
    IN  /\ \A c \in boundaries :
              LET after == {i \in DOMAIN points : points[i].at >= c}
              IN  after # {} => Min(after) \in marked
        /\ \A i \in marked : \E c \in boundaries :
              i = Min({j \in DOMAIN points : points[j].at >= c})
        /\ \A k \in DOMAIN events : events[k].cause = "compaction" =>
              \E j, i \in DOMAIN points :
                  /\ InTurn(points, j, i)
                  /\ points[i].at = events[k].at /\ points[i].model = events[k].model
                  /\ marked \cap (j + 1 .. i) # {}
        /\ \A k \in DOMAIN events : \E i \in DOMAIN points :
              points[i].event /\ points[i].at = events[k].at /\ points[i].model = events[k].model

\* The timeline of a session marks each boundary once, at the first request that
\* follows it, and a loss put down to a compaction has its mark between the two
\* requests of its stream (BuildSessionView, Cache).
THEOREM CompactionShownInEveryHistory == Spec => []CompactionShown
<1>1. IInv => CompactionShown
  <2> SUFFICES ASSUME IInv, NEW s \in Sessions
               PROVE  CompactionShownOf(View(s).points, OfSessions(Cache(reqs, compactions).events, {s}),
                                        compactions[s])
    BY DEF CompactionShown, CompactionShownOf
  <2>1. reqs \in Seq(ReqRows) /\ SortedRows(reqs) /\ compactions[s] \in SUBSET Nat
    BY DEF IInv, StateOK, Sorted, SortedRows
  <2>2. PICK mine, B : mine = OfSessions(reqs, {s}) /\ B = compactions[s]
    OBVIOUS
  <2>3. PICK all, rep : all = Cache(reqs, compactions) /\ rep = Cache(mine, compactions)
    OBVIOUS
  <2>4. PICK events : events = rep.events /\ events = OfSessions(all.events, {s})
    BY <2>1, <2>2, <2>3, CacheOfSessions
  <2>5. PICK points : points = Points(mine, events, B) /\ points = View(s).points
    BY <2>2, <2>3, <2>4 DEF View
  <2>6. PICK marked : marked = {i \in DOMAIN points : points[i].compaction}
    OBVIOUS
  <2>7. mine \in Seq(ReqRows) /\ OneSession(mine, s)
    BY <2>1, <2>2, SessionInTime
  <2>8. B \in SUBSET Nat /\ InTime(mine)
    BY <2>1, <2>2, <2>7 DEF OneSession
  <2>9. PointsOf(points, mine, events, B)
    BY <2>5, <2>7, <2>8, MarkedWhereFirst
  <2>10. DOMAIN points = DOMAIN mine /\ \A i \in DOMAIN mine : MarkedAt(points[i], mine, i, events, B)
    BY <2>9 DEF PointsOf
  <2>11. \A c \in B : FirstMarked(points, mine, c)
    BY <2>7, <2>8, <2>9, FirstAfterMarked
  <2>12. \A c \in B : After(points, c) # {} => Min(After(points, c)) \in marked
    BY <2>6, <2>11 DEF FirstMarked, After
  <2>13. \A i \in marked : \E c \in B : i = Min(After(points, c))
    <3> TAKE i \in marked
    <3>1. i \in DOMAIN points /\ points[i].compaction
      BY <2>6
    <3>2. PICK c \in B : FirstPast(mine, i, c)
      BY <2>10, <3>1 DEF MarkedAt
    <3> QED BY <2>11, <3>1, <3>2 DEF FirstMarked
  <2>14. ASSUME NEW k \in DOMAIN events
         PROVE  /\ events[k].cause = "compaction" => Shown(events[k], points)
                /\ \E i \in DOMAIN points :
                     points[i].event /\ points[i].at = events[k].at /\ points[i].model = events[k].model
    <3>1. PICK acc : acc = Walked(mine, compactions) /\ acc.events = events
      BY <2>3, <2>4 DEF Cache, Walked
    <3>2. Past(acc, mine, compactions, Len(mine))
      BY <2>7, <3>1, WalkedOK
    <3>3. PICK i, j \in 1 .. Len(mine) : LossAt(events[k], mine, compactions, i, j)
      BY <3>1, <3>2 DEF Past
    <3>4. PICK e : e = events[k]
      OBVIOUS
    <3>5. i \in DOMAIN mine /\ j \in DOMAIN mine /\ LossAt(e, mine, compactions, i, j)
      BY <2>7, <3>3, <3>4, RowTimes
    <3>6. compactions[s] \in SUBSET Nat /\ PointsOf(points, mine, events, compactions[s])
      BY <2>1, <2>2, <2>9
    <3>7. e.at = mine[j].at /\ e.model = mine[j].model /\ (e.cause = "compaction" => Shown(e, points))
      BY <2>7, <3>5, <3>6, LossHasMark
    <3>8. points[j].event /\ points[j].at = e.at /\ points[j].model = e.model
      BY <2>10, <3>4, <3>5, <3>7 DEF MarkedAt
    <3> QED BY <2>10, <3>4, <3>5, <3>7, <3>8
  <2>15. \A k \in DOMAIN events : events[k].cause = "compaction" =>
             \E j, i \in DOMAIN points :
                 /\ InTurn(points, j, i)
                 /\ points[i].at = events[k].at /\ points[i].model = events[k].model
                 /\ marked \cap (j + 1 .. i) # {}
    BY <2>6, <2>14 DEF Shown
  <2>16. CompactionShownOf(points, events, B)
    BY <2>6, <2>12, <2>13, <2>14, <2>15 DEF CompactionShownOf, After
  <2> QED BY <2>2, <2>3, <2>4, <2>5, <2>16
<1> QED BY <1>1, HistoryInvariant, PTL
-----------------------------------------------------------------------------
(***************************************************************************)
(* The spans of the timeline.                                              *)
(***************************************************************************)
LEMMA LenOf ==
    ASSUME NEW f, NEW n \in Nat, DOMAIN f = 1 .. n, f = [i \in 1 .. n |-> f[i]]
    PROVE  Len(f) = n
<1>1. PICK S : S = {f[i] : i \in 1 .. n}
  OBVIOUS
<1>2. f \in [1 .. n -> S]
  BY <1>1
<1>3. f \in Seq(S)
  BY <1>2
<1> QED BY <1>2, <1>3

LEMMA Division ==
    ASSUME NEW a \in Nat, NEW b \in Nat \ {0}, NEW q, q = a \div b
    PROVE  q \in Nat /\ q * b <= a /\ a < q * b + b
OBVIOUS

LEMMA TimesNext == ASSUME NEW q \in Nat, NEW b \in Nat PROVE (q + 1) * b = q * b + b /\ q * b \in Nat
OBVIOUS

LEMMA TimesMonotone ==
    ASSUME NEW p \in Nat, NEW q \in Nat, NEW b \in Nat, p <= q
    PROVE  p * b <= q * b
OBVIOUS

\* Of a division with the remainders counted, as the code writes it.
LEMMA RoundedUp ==
    ASSUME NEW n \in Nat \ {0}, NEW b \in Nat \ {0}, NEW q, q = (n + b - 1) \div b
    PROVE  q \in Nat \ {0} /\ n <= q * b /\ (q - 1) * b < n
<1>1. q \in Nat /\ q * b <= n + b - 1 /\ n + b - 1 < q * b + b
  <2>1. PICK a : a = n + b - 1 /\ a \in Nat
    OBVIOUS
  <2> QED BY <2>1, Division
<1>2. q # 0
  <2>1. CASE q = 0
    <3>1. q * b = 0
      BY <2>1
    <3> QED BY <1>1, <3>1
  <2> QED BY <2>1
<1>3. PICK p : p \in Nat /\ q = p + 1 /\ q - 1 = p
  BY <1>1, <1>2
<1>4. q * b = p * b + b /\ p * b \in Nat
  BY <1>3, TimesNext
<1> QED BY <1>1, <1>2, <1>3, <1>4

FirstIn(i, span) == (i - 1) * span + 1

LastIn(i, span, n) == Min({FirstIn(i, span) + span - 1, n})

BucketOf(c, span) == ((c - 1) \div span) + 1

\* The spans are the numbers to n in order, each once.
Spans(n, span, last) ==
    /\ last \in 1 .. maxBuckets
    /\ FirstIn(1, span) = 1 /\ LastIn(last, span, n) = n
    /\ \A i \in 1 .. last : FirstIn(i, span) \in Nat /\ LastIn(i, span, n) \in Nat
                              /\ FirstIn(i, span) <= LastIn(i, span, n)
    /\ \A i \in 1 .. last - 1 : FirstIn(i + 1, span) = LastIn(i, span, n) + 1
    /\ \A c \in 1 .. n :
          /\ BucketOf(c, span) \in 1 .. last
          /\ \A i \in 1 .. last : c \in FirstIn(i, span) .. LastIn(i, span, n) <=> i = BucketOf(c, span)

LEMMA SpansAre ==
    ASSUME NEW n \in Nat \ {0}, NEW span, span = Span(n), NEW last, last = (n + span - 1) \div span
    PROVE  Spans(n, span, last)
<1>1. PICK M : M = maxBuckets /\ M \in Nat \ {0}
  BY ViewAssumption
<1>2. span \in Nat \ {0} /\ n <= span * M
  BY <1>1, RoundedUp DEF Span
<1>3. last \in Nat \ {0} /\ n <= last * span /\ (last - 1) * span < n
  BY <1>2, RoundedUp
<1>4. last <= M
  <2>1. CASE M < last
    <3>1. M * span <= (last - 1) * span
      BY <1>1, <1>2, <1>3, <2>1, TimesMonotone
    <3>2. M * span = span * M
      BY <1>1, <1>2
    <3>3. PICK a, b : a = M * span /\ b = (last - 1) * span /\ a \in Nat /\ b \in Nat
      BY <1>1, <1>2, <1>3
    <3> QED BY <1>2, <1>3, <3>1, <3>2, <3>3
  <2> QED BY <1>1, <1>3, <2>1
<1>5. ASSUME NEW i \in 1 .. last
      PROVE  /\ (i - 1) * span \in Nat /\ (i - 1) * span < n /\ i * span = (i - 1) * span + span
             /\ i < last => i * span < n
  <2>1. PICK p : p = i - 1 /\ p \in Nat /\ i = p + 1 /\ p <= last - 1 /\ last - 1 \in Nat
    BY <1>3
  <2>2. i * span = p * span + span /\ p * span \in Nat
    BY <1>2, <2>1, TimesNext
  <2>3. PICK w : w = (last - 1) * span /\ w \in Nat /\ w < n
    BY <1>2, <1>3, <2>1
  <2>4. p * span <= w
    BY <1>2, <2>1, <2>3, TimesMonotone
  <2>5. i < last => i * span <= w
    <3>1. i < last => i <= last - 1 /\ i \in Nat
      BY <1>3
    <3> QED BY <1>2, <2>1, <2>3, <3>1, TimesMonotone
  <2>6. i * span \in Nat
    BY <1>2, <2>2
  <2> QED BY <2>1, <2>2, <2>3, <2>4, <2>5, <2>6
<1>6. ASSUME NEW a \in Nat PROVE Min({a, n}) = IF a <= n THEN a ELSE n
  <2>1. PICK m : m = Min({a, n}) /\ m \in {a, n} /\ m <= a /\ m <= n
    <3>1. {a, n} \in SUBSET Nat /\ {a, n} # {}
      OBVIOUS
    <3> QED BY <3>1, MinOf
  <2> QED BY <2>1
<1>7. ASSUME NEW i \in 1 .. last
      PROVE  /\ FirstIn(i, span) = (i - 1) * span + 1
             /\ LastIn(i, span, n) = IF i * span <= n THEN i * span ELSE n
  <2>1. PICK w : w = (i - 1) * span /\ w \in Nat /\ i * span = w + span
    BY <1>5
  <2>2. FirstIn(i, span) + span - 1 = i * span /\ i * span \in Nat
    BY <1>2, <2>1 DEF FirstIn
  <2> QED BY <1>6, <2>2 DEF FirstIn, LastIn
<1>8. FirstIn(1, span) = 1 /\ LastIn(last, span, n) = n
  <2>1. 1 \in 1 .. last /\ last \in 1 .. last
    BY <1>3
  <2>2. (1 - 1) * span = 0
    BY <1>2
  <2>3. PICK w : w = last * span /\ w \in Nat /\ n <= w
    BY <1>2, <1>3
  <2> QED BY <1>7, <2>1, <2>2, <2>3
<1>9. ASSUME NEW i \in 1 .. last
      PROVE  FirstIn(i, span) \in Nat /\ LastIn(i, span, n) \in Nat /\ FirstIn(i, span) <= LastIn(i, span, n)
  <2>1. PICK w, x : w = (i - 1) * span /\ x = i * span /\ w \in Nat /\ w < n /\ x = w + span
    BY <1>5
  <2> QED BY <1>2, <1>7, <2>1
<1>10. ASSUME NEW i \in 1 .. last - 1
       PROVE  FirstIn(i + 1, span) = LastIn(i, span, n) + 1
  <2>1. i \in 1 .. last /\ i + 1 \in 1 .. last /\ i < last /\ (i + 1) - 1 = i
    BY <1>3
  <2>2. PICK x : x = i * span /\ x \in Nat /\ x < n
    BY <1>2, <1>5, <2>1
  <2> QED BY <1>7, <2>1, <2>2
<1>11. ASSUME NEW c \in 1 .. n
       PROVE  /\ BucketOf(c, span) \in 1 .. last
              /\ \A i \in 1 .. last : c \in FirstIn(i, span) .. LastIn(i, span, n) <=> i = BucketOf(c, span)
  <2>1. PICK q : q = (c - 1) \div span
    OBVIOUS
  <2>2. q \in Nat /\ q * span <= c - 1 /\ c - 1 < q * span + span
    <3>1. PICK a : a = c - 1 /\ a \in Nat
      OBVIOUS
    <3> QED BY <1>2, <2>1, <3>1, Division
  <2>3. BucketOf(c, span) = q + 1
    BY <2>1 DEF BucketOf
  <2>4. q < last
    <3>1. CASE last <= q
      <4>1. last * span <= q * span
        BY <1>2, <1>3, <2>2, <3>1, TimesMonotone
      <4>2. PICK a, b : a = last * span /\ b = q * span /\ a \in Nat /\ b \in Nat
        BY <1>2, <1>3, <2>2
      <4> QED BY <1>3, <2>2, <4>1, <4>2
    <3> QED BY <1>3, <2>2, <3>1
  <2>5. ASSUME NEW i \in 1 .. last, c \in FirstIn(i, span) .. LastIn(i, span, n)
        PROVE  i = q + 1
    <3>1. PICK p, w, x, y : p = i - 1 /\ w = p * span /\ x = i * span /\ y = q * span
                            /\ w \in Nat /\ x \in Nat /\ y \in Nat /\ x = w + span
      BY <1>2, <1>5, <2>2
    <3>2. w + 1 <= c /\ c <= x
      BY <1>7, <2>5, <3>1
    <3>3. CASE i <= q
      <4>1. x <= y
        BY <1>2, <2>2, <3>1, <3>3, TimesMonotone
      <4> QED BY <2>2, <3>1, <3>2, <4>1
    <3>4. CASE q + 1 < i
      <4>1. q + 1 <= p /\ p \in Nat /\ (q + 1) * span = y + span
        BY <1>2, <2>2, <3>1, <3>4, TimesNext
      <4>2. (q + 1) * span <= w
        BY <1>2, <2>2, <3>1, <4>1, TimesMonotone
      <4> QED BY <1>2, <2>2, <3>1, <3>2, <4>1, <4>2
    <3> QED BY <2>2, <3>3, <3>4
  <2>6. ASSUME NEW i \in 1 .. last, i = q + 1
        PROVE  c \in FirstIn(i, span) .. LastIn(i, span, n)
    <3>1. PICK w, x : w = q * span /\ x = i * span /\ w \in Nat /\ x = w + span /\ i - 1 = q
      BY <1>2, <1>5, <2>2, <2>6
    <3> QED BY <1>2, <1>7, <2>2, <3>1
  <2> QED BY <1>3, <2>2, <2>3, <2>4, <2>5, <2>6
<1> QED BY <1>1, <1>3, <1>4, <1>8, <1>9, <1>10, <1>11 DEF Spans
\* The request a block is under is one of the session's.
LEMMA CarrierIs ==
    ASSUME NEW n \in Nat \ {0}, NEW points, DOMAIN points = 1 .. n, Len(points) = n, NEW b
    PROVE  Carrier(points, b) \in 1 .. n
<1>1. PICK reached : reached = {i \in DOMAIN points : points[i].at >= b.at}
  OBVIOUS
<1>2. Carrier(points, b) = IF reached = {} THEN n ELSE Min(reached)
  BY <1>1 DEF Carrier
<1>3. reached \in SUBSET Nat /\ reached \subseteq 1 .. n
  BY <1>1
<1>4. ASSUME reached # {} PROVE Min(reached) \in 1 .. n
  BY <1>3, <1>4, MinOf
<1> QED BY <1>2, <1>4

OfKind(rows, k) == {j \in DOMAIN rows : rows[j].kind = k}

\* What a timeline is: spans of the points, and under each the tokens by kind of
\* the blocks whose requests are in it.
BucketsAre(buckets, points, rows, n, span, last) ==
    /\ DOMAIN buckets = 1 .. last /\ Len(buckets) = last
    /\ \A i \in 1 .. last :
          /\ buckets[i].first = FirstIn(i, span) /\ buckets[i].last = LastIn(i, span, n)
          /\ \A k \in Kinds :
                buckets[i].tokens[k]
                  = Tokens(rows, {j \in OfKind(rows, k) :
                                    Carrier(points, rows[j]) \in FirstIn(i, span) .. LastIn(i, span, n)})

LEMMA Bucketed ==
    ASSUME NEW n \in Nat \ {0}, NEW points, DOMAIN points = 1 .. n, Len(points) = n,
           NEW rows, rows # <<>>, NEW buckets, buckets = BucketBlocks(points, rows, Kinds),
           NEW span, span = Span(n), NEW last \in Nat, last = (n + span - 1) \div span
    PROVE  BucketsAre(buckets, points, rows, n, span, last)
<1> DEFINE under(i) == {j \in DOMAIN rows : Carrier(points, rows[j]) \in FirstIn(i, span) .. LastIn(i, span, n)}
           tokens(i) == [k \in Kinds |-> Tokens(rows, {j \in under(i) : rows[j].kind = k})]
           bucket(i) == [first |-> FirstIn(i, span), last |-> LastIn(i, span, n), tokens |-> tokens(i)]
<1>1. n # 0
  OBVIOUS
<1>2. buckets = [i \in 1 .. last |-> bucket(i)]
  BY <1>1 DEF BucketBlocks, FirstIn, LastIn
<1>3. ASSUME NEW i \in 1 .. last, NEW k \in Kinds
      PROVE  {j \in under(i) : rows[j].kind = k}
               = {j \in OfKind(rows, k) : Carrier(points, rows[j]) \in FirstIn(i, span) .. LastIn(i, span, n)}
  BY DEF OfKind
<1>4. ASSUME NEW i \in 1 .. last, NEW k \in Kinds
      PROVE  tokens(i)[k] = Tokens(rows, {j \in OfKind(rows, k) :
                                    Carrier(points, rows[j]) \in FirstIn(i, span) .. LastIn(i, span, n)})
  <2>1. tokens(i)[k] = Tokens(rows, {j \in under(i) : rows[j].kind = k})
    <3> HIDE DEF under
    <3> QED OBVIOUS
  <2> QED BY <1>3, <2>1
<1> HIDE DEF tokens
<1>5. \A i \in 1 .. last : buckets[i] = bucket(i)
  <2> HIDE DEF bucket
  <2> QED BY <1>2
<1>6. \A i \in 1 .. last : /\ buckets[i].first = FirstIn(i, span) /\ buckets[i].last = LastIn(i, span, n)
                           /\ buckets[i].tokens = tokens(i)
  <2> TAKE i \in 1 .. last
  <2>1. PICK a, b, t : a = FirstIn(i, span) /\ b = LastIn(i, span, n) /\ t = tokens(i)
    OBVIOUS
  <2>2. buckets[i] = [first |-> a, last |-> b, tokens |-> t]
    BY <1>5, <2>1
  <2> QED BY <2>1, <2>2
<1>7. DOMAIN buckets = 1 .. last /\ Len(buckets) = last
  <2> HIDE DEF bucket
  <2>1. DOMAIN buckets = 1 .. last
    BY <1>2
  <2>2. buckets = [i \in 1 .. last |-> buckets[i]]
    BY <1>2
  <2> QED BY <2>1, <2>2, LenOf
<1> QED BY <1>4, <1>6, <1>7 DEF BucketsAre

\* The spans add up to the blocks.
LEMMA BucketsAddUp ==
    ASSUME NEW rows \in Seq(BlockRows), NEW n \in Nat \ {0}, NEW points, DOMAIN points = 1 .. n, Len(points) = n,
           NEW span, NEW last \in Nat, Spans(n, span, last),
           NEW buckets, BucketsAre(buckets, points, rows, n, span, last), NEW k \in Kinds
    PROVE  SumFunction([i \in 1 .. last |-> buckets[i].tokens[k]]) = Tokens(rows, OfKind(rows, k))
<1>1. PICK S, h, g, f : /\ S = OfKind(rows, k)
                        /\ h = [j \in S |-> BucketOf(Carrier(points, rows[j]), span)]
                        /\ g = [i \in 1 .. last |-> buckets[i].tokens[k]]
                        /\ f = [j \in DOMAIN rows |-> rows[j].tokens]
  OBVIOUS
<1>2. IsFiniteSet(S) /\ S \subseteq DOMAIN rows
  <2>1. DOMAIN rows = 1 .. Len(rows) /\ Len(rows) \in Nat
    OBVIOUS
  <2>2. IsFiniteSet(DOMAIN rows)
    BY <2>1, FS_Interval
  <2>3. S \subseteq DOMAIN rows
    BY <1>1 DEF OfKind
  <2> QED BY <2>2, <2>3, FS_Subset
<1>3. \A j \in S : f[j] \in Nat
  <2>1. \A j \in DOMAIN rows : rows[j] \in BlockRows
    OBVIOUS
  <2> QED BY <1>1, <1>2, <2>1 DEF BlockRows
<1>4. \A j \in S : h[j] \in 1 .. last
                   /\ \A i \in 1 .. last : Carrier(points, rows[j]) \in FirstIn(i, span) .. LastIn(i, span, n)
                                             <=> h[j] = i
  <2> TAKE j \in S
  <2>1. PICK c : c = Carrier(points, rows[j]) /\ c \in 1 .. n
    BY CarrierIs
  <2>2. h[j] = BucketOf(c, span)
    BY <1>1, <2>1
  <2>3. /\ BucketOf(c, span) \in 1 .. last
        /\ \A i \in 1 .. last : c \in FirstIn(i, span) .. LastIn(i, span, n) <=> i = BucketOf(c, span)
    BY <2>1 DEF Spans
  <2>4. \A i \in 1 .. last : Carrier(points, rows[j]) \in FirstIn(i, span) .. LastIn(i, span, n) <=> h[j] = i
    BY <2>1, <2>2, <2>3
  <2> QED BY <2>2, <2>3, <2>4
<1>5. ASSUME NEW i \in 1 .. last PROVE g[i] = SumFunctionOnSet(f, OfClass(S, h, i))
  <2>1. PICK T : T = {j \in S : Carrier(points, rows[j]) \in FirstIn(i, span) .. LastIn(i, span, n)}
    OBVIOUS
  <2>2. buckets[i].tokens[k] = Tokens(rows, T)
    BY <1>1, <2>1 DEF BucketsAre
  <2>3. T = OfClass(S, h, i)
    BY <1>4, <2>1 DEF OfClass
  <2> QED BY <1>1, <2>2, <2>3 DEF Tokens
<1>6. PICK K : K = 1 .. last /\ IsFiniteSet(K)
  BY FS_Interval
<1>7. SumFunctionOnSet(g, K) = SumFunctionOnSet(f, S)
  <2>1. ClassSums(g, f, S, h, K)
    BY <1>5, <1>6 DEF ClassSums
  <2>2. Classed(h, S, K)
    BY <1>4, <1>6 DEF Classed
  <2> QED BY <1>2, <1>3, <1>6, <2>1, <2>2, SumByClass
<1>8. SumFunction(g) = SumFunctionOnSet(g, K)
  <2>1. DOMAIN g = K
    BY <1>1, <1>6
  <2> QED BY <2>1, SumWhole
<1> QED BY <1>1, <1>7, <1>8 DEF Tokens

KindOf(rows, s, k) == {i \in DOMAIN rows : rows[i].session = s /\ rows[i].kind = k}

\* The blocks of a session are the ones the table of kinds counts.
LEMMA KindsOfSession ==
    ASSUME NEW rows \in Seq(BlockRows), NEW s, NEW own, own = OfSessions(rows, {s}), NEW k
    PROVE  /\ own \in Seq(BlockRows)
           /\ Tokens(own, OfKind(own, k))
                = Tokens(rows, KindOf(rows, s, k))
<1>1. PICK N, S, T : /\ N = {i \in DOMAIN rows : rows[i].session \in {s}}
                     /\ S = OfKind(own, k) /\ T = KindOf(rows, s, k)
  OBVIOUS
<1>2. own = RowsAt(rows, N)
  BY <1>1 DEF OfSessions
<1>3. S \subseteq DOMAIN own /\ T \subseteq DOMAIN rows /\ T \subseteq N
  BY <1>1 DEF OfKind, KindOf
<1>4. ASSUME NEW j \in DOMAIN own, NEW i \in DOMAIN rows, own[j] = rows[i], i \in N
      PROVE  j \in S <=> i \in T
  BY <1>1, <1>4 DEF OfKind, KindOf
<1>5. SameRows(own, S, rows, N, T)
  BY <1>2, <1>3, <1>4 DEF SameRows
<1>6. own \in Seq(BlockRows) /\ Tokens(own, S) = Tokens(rows, T)
  BY <1>5, TokensPlaced
<1> QED BY <1>1, <1>6

LEMMA KindTable ==
    ASSUME NEW rows \in Seq(BlockRows), NEW s \in Nat \ {0}, NEW k \in Kinds,
           NEW table, table = AttrRollup(rows, "kind", Everything, s)
    PROVE  Tokens(rows, KindOf(rows, s, k))
             = IF k \in DOMAIN table THEN table[k].flow ELSE 0
<1> DEFINE where == {i \in DOMAIN rows : /\ AttrGroup("kind", rows[i]) # ""
                                         /\ rows[i].at >= Everything
                                         /\ s \in {EverySession, rows[i].session}}
           of(g) == {i \in where : AttrGroup("kind", rows[i]) = g}
           groups == {AttrGroup("kind", rows[i]) : i \in where}
<1>1. table = [g \in groups |-> [blocks |-> Cardinality(of(g)), flow |-> Tokens(rows, of(g))]]
  BY DEF AttrRollup
<1>2. PICK T : T = KindOf(rows, s, k)
  OBVIOUS
<1>3. \A i \in DOMAIN rows : rows[i] \in BlockRows
  OBVIOUS
<1>4. \A i \in DOMAIN rows : AttrGroup("kind", rows[i]) = rows[i].kind /\ rows[i].kind # ""
                             /\ rows[i].at >= Everything
  <2>1. \A b : AttrGroup("kind", b) = b.kind
    BY DEF AttrGroup
  <2>2. \A b \in BlockRows : b.kind # "" /\ b.at \in Nat
    BY DEF BlockRows, Kinds
  <2> TAKE i \in DOMAIN rows
  <2>3. PICK b : b = rows[i] /\ b \in BlockRows
    BY <1>3
  <2>4. b.at \in Nat /\ b.kind # "" /\ AttrGroup("kind", b) = b.kind
    BY <2>1, <2>2, <2>3
  <2>5. b.at >= Everything
    <3>1. PICK t : t = b.at /\ t \in Nat
      BY <2>4
    <3>2. t >= -1
      BY <3>1
    <3> QED BY <3>1, <3>2 DEF Everything
  <2> QED BY <2>3, <2>4, <2>5
<1>5. \A i \in DOMAIN rows : i \in where <=> rows[i].session = s
  BY <1>4 DEF EverySession
<1>6. of(k) = T
  <2> HIDE DEF where
  <2>1. where \subseteq DOMAIN rows
    BY DEF where
  <2> QED BY <1>2, <1>4, <1>5, <2>1 DEF KindOf
<1>7. k \in groups <=> T # {}
  <2> HIDE DEF where
  <2>1. where \subseteq DOMAIN rows
    BY DEF where
  <2>2. k \in groups <=> \E i \in where : rows[i].kind = k
    BY <1>4, <2>1
  <2> QED BY <1>2, <1>5, <2>1, <2>2 DEF KindOf
<1>8. DOMAIN table = groups /\ \A g \in groups : table[g].flow = Tokens(rows, of(g))
  <2> HIDE DEF groups, of
  <2> QED BY <1>1
<1> HIDE DEF groups, of
<1>9. Tokens(rows, {}) = 0
  BY SumEmpty DEF Tokens
<1> QED BY <1>2, <1>6, <1>7, <1>8, <1>9
\* TimelineWhole of one session.
TimelineWholeOf(n, rows, buckets, table) ==
    LET last == Len(buckets)
    IN  IF n = 0 \/ rows = <<>> THEN buckets = <<>>
        ELSE /\ last \in 1 .. maxBuckets
             /\ buckets[1].first = 1 /\ buckets[last].last = n
             /\ \A i \in 1 .. last : buckets[i].first <= buckets[i].last
             /\ \A i \in 1 .. last - 1 : buckets[i + 1].first = buckets[i].last + 1
             /\ \A k \in Kinds :
                   SumFunction([i \in 1 .. last |-> buckets[i].tokens[k]])
                     = IF k \in DOMAIN table THEN table[k].flow ELSE 0

\* A timeline is the requests in order, each once, and adds up to the table of
\* kinds beside it (BucketBlocks, AttrRollup).
THEOREM TimelineWholeInEveryHistory == Spec => []TimelineWhole
<1>1. IInv => TimelineWhole
  <2> SUFFICES ASSUME IInv, NEW s \in Sessions
               PROVE  TimelineWholeOf(Len(View(s).points), View(s).blocks, View(s).buckets,
                                      AttrRollup(blocks, "kind", Everything, s))
    BY DEF TimelineWhole, TimelineWholeOf
  <2>1. reqs \in Seq(ReqRows) /\ SortedRows(reqs) /\ blocks \in Seq(BlockRows) /\ s \in Nat \ {0}
    BY DEF IInv, StateOK, Sorted, SortedRows, Sessions
  <2>2. PICK mine, own, table : /\ mine = OfSessions(reqs, {s}) /\ own = OfSessions(blocks, {s})
                                /\ table = AttrRollup(blocks, "kind", Everything, s)
    OBVIOUS
  <2>3. PICK points, buckets :
           /\ points = Points(mine, Cache(mine, compactions).events, compactions[s])
           /\ buckets = BucketBlocks(points, own, Kinds)
    OBVIOUS
  <2>4. View(s) = [points |-> points, buckets |-> buckets, blocks |-> own]
    BY <2>2, <2>3 DEF View
  <2>5. View(s).points = points /\ View(s).buckets = buckets /\ View(s).blocks = own
    BY <2>4
  <2>6. mine \in Seq(ReqRows)
    BY <2>1, <2>2, SessionInTime
  <2>7. PICK n \in Nat : n = Len(mine) /\ DOMAIN mine = 1 .. n
    BY <2>6
  <2>8. DOMAIN points = 1 .. n /\ Len(points) = n
    <3>1. DOMAIN points = 1 .. n /\ points = [i \in 1 .. n |-> points[i]]
      BY <2>3, <2>7 DEF Points
    <3> QED BY <3>1, LenOf
  <2>9. CASE n = 0 \/ own = <<>>
    <3>1. buckets = <<>>
      BY <2>3, <2>8, <2>9 DEF BucketBlocks
    <3> QED BY <2>5, <2>8, <2>9, <3>1 DEF TimelineWholeOf
  <2>10. CASE n # 0 /\ own # <<>>
    <3>1. PICK span, last : span = Span(n) /\ last = (n + span - 1) \div span
      OBVIOUS
    <3>2. n \in Nat \ {0} /\ Spans(n, span, last)
      BY <2>10, <3>1, SpansAre
    <3>3. last \in Nat /\ last \in 1 .. maxBuckets /\ 1 \in 1 .. last /\ last \in 1 .. last
      BY <3>2, ViewAssumption DEF Spans
    <3>4. BucketsAre(buckets, points, own, n, span, last)
      BY <2>3, <2>8, <2>10, <3>1, <3>2, <3>3, Bucketed
    <3>5. Len(buckets) = last /\ \A i \in 1 .. last : /\ buckets[i].first = FirstIn(i, span)
                                                      /\ buckets[i].last = LastIn(i, span, n)
      BY <3>4 DEF BucketsAre
    <3>6. buckets[1].first = 1 /\ buckets[last].last = n
      BY <3>2, <3>3, <3>5 DEF Spans
    <3>7. \A i \in 1 .. last : buckets[i].first <= buckets[i].last
      BY <3>2, <3>5 DEF Spans
    <3>8. \A i \in 1 .. last - 1 : buckets[i + 1].first = buckets[i].last + 1
      <4> TAKE i \in 1 .. last - 1
      <4>1. i \in 1 .. last /\ i + 1 \in 1 .. last
        BY <3>3
      <4>2. FirstIn(i + 1, span) = LastIn(i, span, n) + 1
        BY <3>2 DEF Spans
      <4> QED BY <3>5, <4>1, <4>2
    <3>9. ASSUME NEW k \in Kinds
          PROVE  SumFunction([i \in 1 .. last |-> buckets[i].tokens[k]])
                   = IF k \in DOMAIN table THEN table[k].flow ELSE 0
      <4>1. own \in Seq(BlockRows)
            /\ Tokens(own, OfKind(own, k))
                 = Tokens(blocks, KindOf(blocks, s, k))
        BY <2>1, <2>2, KindsOfSession
      <4>2. SumFunction([i \in 1 .. last |-> buckets[i].tokens[k]]) = Tokens(own, OfKind(own, k))
        BY <2>8, <3>2, <3>3, <3>4, <4>1, BucketsAddUp
      <4>3. Tokens(blocks, KindOf(blocks, s, k))
              = IF k \in DOMAIN table THEN table[k].flow ELSE 0
        BY <2>1, <2>2, KindTable
      <4> QED BY <4>1, <4>2, <4>3
    <3>10. TimelineWholeOf(n, own, buckets, table)
      BY <2>10, <3>3, <3>5, <3>6, <3>7, <3>8, <3>9 DEF TimelineWholeOf
    <3> QED BY <2>2, <2>5, <2>8, <3>10
  <2> QED BY <2>9, <2>10
<1> QED BY <1>1, HistoryInvariant, PTL
-----------------------------------------------------------------------------
(***************************************************************************)
(* What the sessions come to.                                              *)
(***************************************************************************)
Fields == {"events", "expected", "read", "shortfall"}

\* What a request adds, beside the one before it of its model.
Gain(known, prev, cur, field) ==
    IF ~known THEN 0
    ELSE IF field = "expected" THEN IF Accrues(prev, cur) THEN Prompt(prev) ELSE 0
    ELSE IF field = "read" THEN IF Accrues(prev, cur) THEN Least(cur.cread, Prompt(prev)) ELSE 0
    ELSE IF ~Costs(prev, cur) THEN 0
    ELSE IF field = "events" THEN 1 ELSE Shortfall(prev, cur)

\* A session without expectations has nothing else to report.
ScoreFine(x) == x \in Scores /\ (x.expected = 0 => x.events = 0 /\ x.read = 0 /\ x.shortfall = 0)

AccFine(acc) ==
    /\ AccOK(acc, EventRows) /\ ScoreFine(acc.score) /\ IsFiniteSet(acc.sessions)
    /\ \A x \in acc.sessions : x.session < acc.score.session

Tot(acc, field) == Total(Flushed(acc), field)

LEMMA AmountsOf ==
    ASSUME NEW x \in Scores, NEW field \in Fields
    PROVE  /\ x[field] \in Nat
           /\ field = "events" => x[field] = x.events
           /\ field = "expected" => x[field] = x.expected
           /\ field = "read" => x[field] = x.read
           /\ field = "shortfall" => x[field] = x.shortfall
BY DEF Fields, Scores

LEMMA TotalWith ==
    ASSUME NEW sessions \in SUBSET Scores, IsFiniteSet(sessions), NEW x \in Scores, x \notin sessions,
           NEW field \in Fields
    PROVE  Total(sessions \cup {x}, field) = Total(sessions, field) + x[field] /\ Total(sessions, field) \in Nat
<1>1. PICK more, f, g : /\ more = sessions \cup {x}
                        /\ f = [y \in more |-> y[field]] /\ g = [y \in sessions |-> y[field]]
  OBVIOUS
<1>2. Total(sessions \cup {x}, field) = SumFunctionOnSet(f, more) /\ Total(sessions, field) = SumFunctionOnSet(g, sessions)
  <2>1. DOMAIN f = more /\ DOMAIN g = sessions
    BY <1>1
  <2>2. Total(more, field) = SumFunction(f) /\ Total(sessions, field) = SumFunction(g)
    BY <1>1 DEF Total
  <2> QED BY <1>1, <2>1, <2>2, SumWhole
<1>3. \A y \in more : f[y] \in Nat /\ f[y] = y[field]
  <2> TAKE y \in more
  <2>1. y \in Scores
    BY <1>1
  <2> QED BY <1>1, <2>1, AmountsOf
<1>4. \A y \in sessions : f[y] \in Nat /\ g[y] = f[y]
  BY <1>1, <1>3
<1>5. PICK one : one = {x} /\ IsFiniteSet(one) /\ sessions \cap one = {} /\ more = sessions \cup one
  <2>1. IsFiniteSet({x})
    BY FS_Singleton
  <2> QED BY <1>1, <2>1
<1>6. SumFunctionOnSet(f, sessions \cup one) = SumFunctionOnSet(f, sessions) + SumFunctionOnSet(f, one)
  <2>1. \A y \in sessions \cup one : f[y] \in Nat
    BY <1>3, <1>5
  <2> QED BY <1>5, <2>1, SumUnion
<1>7. SumFunctionOnSet(f, one) = x[field]
  <2>1. x \in more /\ f[x] \in Nat /\ f[x] = x[field]
    BY <1>1, <1>3
  <2> QED BY <1>5, <2>1, SumSingle
<1>8. SumFunctionOnSet(g, sessions) = SumFunctionOnSet(f, sessions) /\ SumFunctionOnSet(f, sessions) \in Nat
  <2>1. SumFunctionOnSet(g, sessions) = SumFunctionOnSet(f, sessions)
    BY <1>4, SumSame
  <2>2. SumFunctionOnSet(f, sessions) \in Nat
    BY <1>4, SumIsNat
  <2> QED BY <2>1, <2>2
<1> QED BY <1>2, <1>5, <1>6, <1>7, <1>8

\* With the session that is being walked over.
LEMMA TotIs ==
    ASSUME NEW acc, AccFine(acc), NEW field \in Fields
    PROVE  /\ Tot(acc, field) = Total(acc.sessions, field) + acc.score[field]
           /\ Tot(acc, field) \in Nat /\ Total(acc.sessions, field) \in Nat /\ acc.score[field] \in Nat
<1>1. PICK x, sessions : x = acc.score /\ sessions = acc.sessions
  OBVIOUS
<1>2. x \in Scores /\ sessions \in SUBSET Scores /\ IsFiniteSet(sessions) /\ ScoreFine(x)
  BY <1>1 DEF AccFine, AccOK
<1>3. x \notin sessions
  <2>1. x.session \in Nat
    BY <1>2 DEF Scores
  <2>2. ~(x.session < x.session)
    BY <2>1
  <2> QED BY <1>1, <2>2 DEF AccFine
<1>4. Total(sessions \cup {x}, field) = Total(sessions, field) + x[field] /\ Total(sessions, field) \in Nat
  BY <1>2, <1>3, TotalWith
<1>5. x[field] \in Nat
  BY <1>2, AmountsOf
<1>6. CASE x.expected > 0
  <2>1. Flushed(acc) = sessions \cup {x}
    BY <1>1, <1>6 DEF Flushed
  <2> QED BY <1>1, <1>4, <1>5, <2>1 DEF Tot
<1>7. CASE ~(x.expected > 0)
  <2>1. Flushed(acc) = sessions
    BY <1>1, <1>7 DEF Flushed
  <2>2. x.expected = 0
    BY <1>2, <1>7 DEF Scores
  <2>3. x[field] = 0
    BY <1>2, <2>2, AmountsOf DEF ScoreFine, Fields
  <2> QED BY <1>1, <1>4, <2>1, <2>3 DEF Tot
<1> QED BY <1>6, <1>7

\* One score is another with these amounts added.
Adds(out, score, e, x, r, z) ==
    /\ out.events = score.events + e /\ out.expected = score.expected + x
    /\ out.read = score.read + r /\ out.shortfall = score.shortfall + z

LEMMA ScoredOne ==
    ASSUME NEW score \in Scores, NEW out, out = [score EXCEPT !.requests = @ + 1]
    PROVE  out \in Scores /\ out.session = score.session /\ Adds(out, score, 0, 0, 0, 0)
<1>1. /\ score.session \in Nat /\ score.requests \in Nat /\ score.events \in Nat
      /\ score.expected \in Nat /\ score.read \in Nat /\ score.shortfall \in Nat
      /\ score = [session |-> score.session, requests |-> score.requests, events |-> score.events,
                  expected |-> score.expected, read |-> score.read, shortfall |-> score.shortfall]
  BY DEF Scores
<1>2. out = [session |-> score.session, requests |-> score.requests + 1, events |-> score.events,
             expected |-> score.expected, read |-> score.read, shortfall |-> score.shortfall]
  BY <1>1
<1>3. out \in Scores /\ out.session = score.session
  BY <1>1, <1>2 DEF Scores
<1>4. Adds(out, score, 0, 0, 0, 0)
  BY <1>1, <1>2 DEF Adds
<1> QED BY <1>3, <1>4

LEMMA ScoredAdds ==
    ASSUME NEW score \in Scores, NEW prev, NEW cur, NEW accrues \in BOOLEAN, NEW costs \in BOOLEAN,
           NEW p \in Nat, NEW c \in Nat, NEW f, costs => accrues /\ f \in Nat,
           p = Prompt(prev), c = Least(cur.cread, Prompt(prev)), f = Shortfall(prev, cur),
           NEW out, out = Scored(score, accrues, costs, prev, cur)
    PROVE  /\ out \in Scores /\ out.session = score.session
           /\ ~accrues => Adds(out, score, 0, 0, 0, 0)
           /\ accrues /\ ~costs => Adds(out, score, 0, p, c, 0)
           /\ costs => Adds(out, score, 1, p, c, f)
<1>1. /\ score.session \in Nat /\ score.requests \in Nat /\ score.events \in Nat
      /\ score.expected \in Nat /\ score.read \in Nat /\ score.shortfall \in Nat
      /\ score = [session |-> score.session, requests |-> score.requests, events |-> score.events,
                  expected |-> score.expected, read |-> score.read, shortfall |-> score.shortfall]
  BY DEF Scores
<1>2. CASE ~accrues
  <2>1. out = [score EXCEPT !.requests = @ + 1]
    BY <1>2 DEF Scored
  <2> QED BY <1>2, <2>1, ScoredOne
<1>3. PICK one : one = [score EXCEPT !.requests = @ + 1]
  OBVIOUS
<1>4. one = [session |-> score.session, requests |-> score.requests + 1, events |-> score.events,
             expected |-> score.expected, read |-> score.read, shortfall |-> score.shortfall]
  BY <1>1, <1>3
<1>5. PICK accrued : accrued = [one EXCEPT !.expected = @ + p, !.read = @ + c]
  OBVIOUS
<1>6. accrued = [session |-> score.session, requests |-> score.requests + 1, events |-> score.events,
                 expected |-> score.expected + p, read |-> score.read + c, shortfall |-> score.shortfall]
  BY <1>4, <1>5
<1>7. CASE accrues /\ ~costs
  <2>1. out = accrued
    BY <1>3, <1>5, <1>7 DEF Scored
  <2>3. out \in Scores /\ out.session = score.session
    BY <1>1, <1>6, <2>1 DEF Scores
  <2>4. Adds(out, score, 0, p, c, 0)
    BY <1>1, <1>6, <2>1 DEF Adds
  <2> QED BY <1>7, <2>3, <2>4
<1>8. CASE costs
  <2>1. out = [accrued EXCEPT !.events = @ + 1, !.shortfall = @ + f]
    BY <1>3, <1>5, <1>8 DEF Scored
  <2>2. out = [session |-> score.session, requests |-> score.requests + 1, events |-> score.events + 1,
               expected |-> score.expected + p, read |-> score.read + c, shortfall |-> score.shortfall + f]
    BY <1>6, <2>1
  <2>5. f \in Nat
    BY <1>8
  <2>6. /\ score.requests + 1 \in Nat /\ score.events + 1 \in Nat /\ score.expected + p \in Nat
        /\ score.read + c \in Nat /\ score.shortfall + f \in Nat
    BY <1>1, <2>5
  <2>3. out \in Scores /\ out.session = score.session
    BY <1>1, <2>2, <2>6 DEF Scores
  <2>4. Adds(out, score, 1, p, c, f)
    BY <1>1, <2>2 DEF Adds
  <2> QED BY <1>8, <2>3, <2>4
<1> QED BY <1>2, <1>7, <1>8

\* Every amount of a score grows by what the request adds.
Gains(out, score, known, prev, cur) ==
    \A field \in Fields : out[field] = score[field] + Gain(known, prev, cur, field)

LEMMA GainsIs ==
    ASSUME NEW out \in Scores, NEW score \in Scores, NEW known, NEW prev, NEW cur,
           Adds(out, score, Gain(known, prev, cur, "events"), Gain(known, prev, cur, "expected"),
                Gain(known, prev, cur, "read"), Gain(known, prev, cur, "shortfall"))
    PROVE  Gains(out, score, known, prev, cur)
<1> SUFFICES ASSUME NEW field \in Fields PROVE out[field] = score[field] + Gain(known, prev, cur, field)
  BY DEF Gains
<1>1. field = "events" \/ field = "expected" \/ field = "read" \/ field = "shortfall"
  BY DEF Fields
<1>2. CASE field = "events"
  BY <1>2 DEF Adds
<1>3. CASE field = "expected"
  BY <1>3 DEF Adds
<1>4. CASE field = "read"
  BY <1>4 DEF Adds
<1>5. CASE field = "shortfall"
  BY <1>5 DEF Adds
<1> QED BY <1>1, <1>2, <1>3, <1>4, <1>5

LEMMA ScoredGains ==
    ASSUME NEW score, ScoreFine(score), NEW prev \in ReqRows, NEW cur \in ReqRows,
           NEW out, out = Scored(score, Accrues(prev, cur), Costs(prev, cur), prev, cur)
    PROVE  ScoreFine(out) /\ Gains(out, score, TRUE, prev, cur)
<1>1. PICK p, c, f : p = Prompt(prev) /\ c = Least(cur.cread, Prompt(prev)) /\ f = Shortfall(prev, cur)
  OBVIOUS
<1>2. p \in Nat /\ c \in Nat /\ (Costs(prev, cur) => Accrues(prev, cur) /\ f \in Nat)
  <2>1. Costs(prev, cur) => Accrues(prev, cur)
    BY DEF Costs
  <2> QED BY <1>1, <2>1, Prompts
<1>3. Accrues(prev, cur) => p # 0
  BY <1>1, <1>2, AnalyzerAssumption DEF Accrues
<1>4. PICK accrues, costs : accrues = Accrues(prev, cur) /\ costs = Costs(prev, cur)
                            /\ accrues \in BOOLEAN /\ costs \in BOOLEAN
  BY DEF Accrues, Costs
<1>5. score \in Scores /\ (score.expected = 0 => score.events = 0 /\ score.read = 0 /\ score.shortfall = 0)
  BY DEF ScoreFine
<1>6. /\ out \in Scores /\ out.session = score.session
      /\ ~accrues => Adds(out, score, 0, 0, 0, 0)
      /\ accrues /\ ~costs => Adds(out, score, 0, p, c, 0)
      /\ costs => Adds(out, score, 1, p, c, f)
  <2>1. costs => accrues /\ f \in Nat
    BY <1>2, <1>4
  <2>2. out = Scored(score, accrues, costs, prev, cur)
    BY <1>4
  <2> QED BY <1>1, <1>2, <1>4, <1>5, <2>1, <2>2, ScoredAdds
<1>7. /\ Gain(TRUE, prev, cur, "events") = IF costs THEN 1 ELSE 0
      /\ Gain(TRUE, prev, cur, "expected") = IF accrues THEN p ELSE 0
      /\ Gain(TRUE, prev, cur, "read") = IF accrues THEN c ELSE 0
      /\ Gain(TRUE, prev, cur, "shortfall") = IF costs THEN f ELSE 0
  BY <1>1, <1>4 DEF Gain
<1>8. Gains(out, score, TRUE, prev, cur)
  <2>1. Adds(out, score, Gain(TRUE, prev, cur, "events"), Gain(TRUE, prev, cur, "expected"),
             Gain(TRUE, prev, cur, "read"), Gain(TRUE, prev, cur, "shortfall"))
    <3>1. CASE ~accrues
      BY <1>2, <1>4, <1>6, <1>7, <3>1
    <3>2. CASE accrues /\ ~costs
      BY <1>6, <1>7, <3>2
    <3>3. CASE costs
      BY <1>2, <1>4, <1>6, <1>7, <3>3
    <3> QED BY <1>4, <3>1, <3>2, <3>3
  <2> QED BY <1>5, <1>6, <2>1, GainsIs
<1>9. out.expected = 0 => out.events = 0 /\ out.read = 0 /\ out.shortfall = 0
  <2>1. CASE ~accrues
    BY <1>5, <1>6, <2>1 DEF Adds, Scores
  <2>2. CASE accrues
    <3>1. out.expected = score.expected + p /\ score.expected \in Nat
      BY <1>4, <1>5, <1>6, <2>2 DEF Adds, Scores
    <3>2. PICK u, v : u = out.expected /\ v = score.expected
      OBVIOUS
    <3>3. u = v + p /\ v \in Nat /\ p \in Nat /\ p # 0
      BY <1>2, <1>3, <1>4, <2>2, <3>1, <3>2
    <3>4. u # 0
      BY <3>3
    <3> QED BY <3>2, <3>4
  <2> QED BY <1>4, <2>1, <2>2
<1> QED BY <1>6, <1>8, <1>9 DEF ScoreFine

\* The first request of its model adds nothing.
LEMMA ScoredFirst ==
    ASSUME NEW score, ScoreFine(score), NEW cur \in ReqRows, NEW prev,
           NEW out, out = Scored(score, FALSE, FALSE, cur, cur)
    PROVE  ScoreFine(out) /\ Gains(out, score, FALSE, prev, cur)
<1>1. score \in Scores /\ (score.expected = 0 => score.events = 0 /\ score.read = 0 /\ score.shortfall = 0)
  BY DEF ScoreFine
<1>3. out \in Scores /\ Adds(out, score, 0, 0, 0, 0)
  <2>1. out = [score EXCEPT !.requests = @ + 1]
    BY DEF Scored
  <2> QED BY <1>1, <2>1, ScoredOne
<1>4. \A field \in Fields : Gain(FALSE, prev, cur, field) = 0
  BY DEF Gain
<1>5. Gains(out, score, FALSE, prev, cur)
  <2>1. Gain(FALSE, prev, cur, "events") = 0 /\ Gain(FALSE, prev, cur, "expected") = 0
        /\ Gain(FALSE, prev, cur, "read") = 0 /\ Gain(FALSE, prev, cur, "shortfall") = 0
    BY <1>4 DEF Fields
  <2>2. Adds(out, score, Gain(FALSE, prev, cur, "events"), Gain(FALSE, prev, cur, "expected"),
             Gain(FALSE, prev, cur, "read"), Gain(FALSE, prev, cur, "shortfall"))
    BY <1>3, <2>1
  <2> QED BY <1>1, <1>3, <2>2, GainsIs
<1>6. out.expected = 0 => out.events = 0 /\ out.read = 0 /\ out.shortfall = 0
  <2>1. /\ score.events \in Nat /\ score.expected \in Nat /\ score.read \in Nat /\ score.shortfall \in Nat
    BY <1>1 DEF Scores
  <2>2. /\ out.events = score.events /\ out.expected = score.expected
        /\ out.read = score.read /\ out.shortfall = score.shortfall
    <3>1. /\ out.events = score.events + 0 /\ out.expected = score.expected + 0
          /\ out.read = score.read + 0 /\ out.shortfall = score.shortfall + 0
      BY <1>3, Zenon DEF Adds
    <3>2. \A k \in Nat : k + 0 = k
      OBVIOUS
    <3> QED BY <2>1, <3>1, <3>2
  <2> QED BY <1>1, <2>2
<1> QED BY <1>3, <1>5, <1>6 DEF ScoreFine

LEMMA StepTotal ==
    ASSUME NEW a0, AccFine(a0), NEW cur \in ReqRows, a0.score.session <= cur.session, NEW comps,
           NEW a, a = Enters(a0, cur), NEW out, out = CacheStep(a0, cur, comps)
    PROVE  /\ AccFine(out) /\ out.score.session = cur.session
           /\ \A field \in Fields :
                 /\ Tot(out, field) = Tot(a0, field) + Gain(Known(a, cur), Before(a, cur), cur, field)
                 /\ Tot(a0, field) \in Nat /\ Gain(Known(a, cur), Before(a, cur), cur, field) \in Int
<1>1. PICK prev, s : prev = Before(a, cur) /\ s = cur.session
  OBVIOUS
<1>2. /\ AccOK(a, EventRows) /\ a.score.session = s
      /\ a0.score.session = s => a = a0
      /\ a0.score.session # s => a.score = NewScore(s) /\ a.sessions = Flushed(a0)
      /\ AccOK(out, EventRows) /\ out.score.session = s
  BY <1>1, EntersOK, CacheStepOK DEF AccFine
<1>3. CacheStepped(a, cur, comps, prev, out)
  BY <1>1, CacheStepIs
<1>4. Known(a, cur) => prev \in ReqRows
  BY <1>1, <1>2 DEF Known, Before, AccOK, PrevOK
<1>5. s \in Nat /\ a0.score.session \in Nat /\ a0.score.session <= s
  BY <1>1 DEF ReqRows, AccFine, AccOK, Scores
<1>6. a.sessions \in SUBSET Scores /\ IsFiniteSet(a.sessions) /\ (\A x \in a.sessions : x.session < s) /\ ScoreFine(a.score)
  <2>1. CASE a0.score.session = s
    BY <1>2, <2>1 DEF AccFine, AccOK
  <2>2. CASE a0.score.session # s
    <3>1. ScoreFine(NewScore(s))
      BY <1>5 DEF ScoreFine, NewScore, Scores
    <3>2. IsFiniteSet(a0.sessions \cup {a0.score}) /\ IsFiniteSet(a0.sessions)
      BY FS_AddElement DEF AccFine
    <3>3. IsFiniteSet(Flushed(a0))
      BY <3>2 DEF Flushed
    <3>4. Flushed(a0) \subseteq a0.sessions \cup {a0.score}
      BY DEF Flushed
    <3>5. \A x \in Flushed(a0) : x \in Scores /\ x.session < s
      <4> TAKE x \in Flushed(a0)
      <4>1. x \in a0.sessions \/ x = a0.score
        BY <3>4
      <4>2. x \in Scores /\ x.session <= a0.score.session
        <5>1. a0.score \in Scores /\ a0.sessions \subseteq Scores
          BY DEF AccFine, AccOK
        <5>2. CASE x \in a0.sessions
          <6>1. x \in Scores /\ x.session < a0.score.session
            BY <5>1, <5>2 DEF AccFine
          <6>2. x.session \in Nat
            BY <6>1 DEF Scores
          <6> QED BY <1>5, <6>1, <6>2
        <5>3. CASE x = a0.score
          BY <1>5, <5>1, <5>3
        <5> QED BY <4>1, <5>2, <5>3
      <4>3. x.session \in Nat
        BY <4>2 DEF Scores
      <4> QED BY <1>5, <2>2, <4>2, <4>3
    <3> QED BY <1>2, <2>2, <3>1, <3>3, <3>5
  <2> QED BY <2>1, <2>2
<1>7. out.sessions = a.sessions
  BY <1>3 DEF CacheStepped
<1>8. ScoreFine(out.score) /\ Gains(out.score, a.score, Known(a, cur), prev, cur)
  <2>0. PICK before, after : before = a.score /\ after = out.score
    OBVIOUS
  <2>1. CASE Known(a, cur)
    <3>1. after = Scored(before, Accrues(prev, cur), Costs(prev, cur), prev, cur)
      BY <1>3, <2>0, <2>1 DEF CacheStepped
    <3>2. ScoreFine(before) /\ prev \in ReqRows
      BY <1>4, <1>6, <2>0, <2>1
    <3>3. ScoreFine(after) /\ Gains(after, before, TRUE, prev, cur)
      BY <3>1, <3>2, ScoredGains
    <3>4. Known(a, cur) = TRUE
      BY <2>1 DEF Known
    <3> QED BY <2>0, <3>3, <3>4
  <2>2. CASE ~Known(a, cur)
    <3>1. after = Scored(before, FALSE, FALSE, cur, cur)
      BY <1>3, <2>0, <2>2 DEF CacheStepped
    <3>2. ScoreFine(before)
      BY <1>6, <2>0
    <3>3. ScoreFine(after) /\ Gains(after, before, FALSE, prev, cur)
      BY <3>1, <3>2, ScoredFirst
    <3>4. Known(a, cur) = FALSE
      BY <2>2 DEF Known
    <3> QED BY <2>0, <3>3, <3>4
  <2> QED BY <2>1, <2>2
<1>9. AccFine(out)
  BY <1>2, <1>6, <1>7, <1>8 DEF AccFine
<1>10. ASSUME NEW field \in Fields
       PROVE  /\ Tot(out, field) = Tot(a0, field) + Gain(Known(a, cur), prev, cur, field)
              /\ Tot(a0, field) \in Nat /\ Gain(Known(a, cur), prev, cur, field) \in Int
  <2>1. PICK t, g, v : /\ t = Total(a.sessions, field) /\ g = Gain(Known(a, cur), prev, cur, field)
                       /\ v = a.score[field]
    OBVIOUS
  <2>2. Tot(out, field) = t + out.score[field] /\ t \in Nat /\ out.score[field] \in Nat
    BY <1>7, <1>9, <2>1, TotIs
  <2>3. out.score[field] = v + g
    BY <1>8, <2>1 DEF Gains
  <2>4. Tot(a0, field) = t + v /\ Tot(a0, field) \in Nat /\ v \in Nat
    <3>1. CASE a0.score.session = s
      BY <1>2, <2>1, <3>1, TotIs
    <3>2. CASE a0.score.session # s
      <4>1. v = 0
        BY <1>2, <2>1, <3>2 DEF NewScore, Fields
      <4>2. Tot(a0, field) \in Nat
        BY TotIs
      <4> QED BY <1>2, <2>1, <3>2, <4>1, <4>2 DEF Tot
    <3> QED BY <3>1, <3>2
  <2>5. Tot(out, field) = t + (v + g)
    BY <2>2, <2>3
  <2>6. g \in Int
    <3>1. Known(a, cur) => Prompt(prev) \in Nat /\ Least(cur.cread, Prompt(prev)) \in Nat /\ Shortfall(prev, cur) \in Int
      BY <1>4, Prompts
    <3> QED BY <2>1, <3>1 DEF Gain
  <2>7. PICK u, w : u = Tot(out, field) /\ w = Tot(a0, field)
    OBVIOUS
  <2>8. u = t + (v + g) /\ w = t + v /\ t \in Nat /\ v \in Nat /\ g \in Int
    BY <2>2, <2>4, <2>5, <2>6, <2>7
  <2>9. u = w + g
    BY <2>8
  <2> QED BY <2>1, <2>4, <2>6, <2>7, <2>9
<1> QED BY <1>1, <1>2, <1>9, <1>10

(***************************************************************************)
(* One stream of requests beside all.                                      *)
(***************************************************************************)
OfSM(s, m, rows) == {x \in rows : x.session = s /\ x.model = m}

SamePrev(p, q, m) == (m \in DOMAIN p <=> m \in DOMAIN q) /\ (m \in DOMAIN p => p[m] = q[m])

\* The walk over the requests of a stream beside the walk over all.
Streamed(a, b, s, m) ==
    /\ AccFine(a) /\ AccFine(b)
    /\ b.score.session <= a.score.session
    /\ b.events = Having(a.events, OfSM(s, m, EventRows))
    /\ b.score.session = 0 \/ b.score.session = s
    /\ a.score.session < s => b.score.session = 0
    /\ b.score.session = 0 => DOMAIN b.prev = {}
    /\ a.score.session = s => SamePrev(a.prev, b.prev, m)

\* Where a request of the stream is next, both have the same request before it.
LEMMA StreamEnters ==
    ASSUME NEW a0, NEW b0, NEW s, NEW m, Streamed(a0, b0, s, m), NEW cur \in ReqRows,
           cur.session = s, a0.score.session <= s, NEW a, a = Enters(a0, cur), NEW b, b = Enters(b0, cur)
    PROVE  SamePrev(a.prev, b.prev, m)
<1>1. s \in Nat /\ s # 0 /\ a0.score.session \in Nat /\ b0.score.session \in Nat
  BY DEF ReqRows, Streamed, AccFine, AccOK, Scores
<1>2. /\ a0.score.session = s => a = a0
      /\ a0.score.session # s => DOMAIN a.prev = {}
      /\ b0.score.session = s => b = b0
      /\ b0.score.session # s => DOMAIN b.prev = {}
  BY EntersOK DEF Streamed, AccFine
<1>3. CASE a0.score.session = s
  <2>1. SamePrev(a0.prev, b0.prev, m) /\ (b0.score.session = 0 \/ b0.score.session = s)
        /\ (b0.score.session = 0 => DOMAIN b0.prev = {})
    BY <1>3 DEF Streamed
  <2>2. CASE b0.score.session = s
    BY <1>2, <1>3, <2>1, <2>2
  <2>3. CASE b0.score.session = 0
    <3>1. m \notin DOMAIN a0.prev
      BY <2>1, <2>3 DEF SamePrev
    <3>2. a = a0 /\ DOMAIN b.prev = {}
      BY <1>1, <1>2, <1>3, <2>3
    <3> QED BY <3>1, <3>2 DEF SamePrev
  <2> QED BY <2>1, <2>2, <2>3
<1>4. CASE a0.score.session # s
  <2>1. b0.score.session = 0
    BY <1>1, <1>4 DEF Streamed
  <2>2. DOMAIN a.prev = {} /\ DOMAIN b.prev = {}
    BY <1>1, <1>2, <1>4, <2>1
  <2> QED BY <2>2 DEF SamePrev
<1> QED BY <1>3, <1>4

\* What a step does to the events of a stream.
LEMMA StreamEvents ==
    ASSUME NEW a0, AccFine(a0), NEW cur \in ReqRows, NEW comps, NEW s, NEW m,
           NEW a, a = Enters(a0, cur), NEW prev, prev = Before(a, cur),
           NEW R, R = OfSM(s, m, EventRows), NEW out, out = CacheStep(a0, cur, comps)
    PROVE  /\ ~(cur.session = s /\ cur.model = m) => Having(out.events, R) = Having(a0.events, R)
           /\ cur.session = s /\ cur.model = m =>
                 Having(out.events, R) = IF Known(a, cur) /\ Costs(prev, cur)
                                         THEN Append(Having(a0.events, R), Loss(prev, cur, comps))
                                         ELSE Having(a0.events, R)
<1>1. /\ AccOK(a, EventRows) /\ a.events = a0.events /\ a0.events \in Seq(EventRows)
      /\ CacheStepped(a, cur, comps, prev, out)
  BY EntersOK, CacheStepIs DEF AccFine, AccOK
<1>2. PICK events, S : events = a0.events /\ S = EventRows /\ events \in Seq(S)
  BY <1>1
<1>3. CASE ~(Known(a, cur) /\ Costs(prev, cur))
  BY <1>1, <1>3 DEF CacheStepped
<1>4. CASE Known(a, cur) /\ Costs(prev, cur)
  <2>1. PICK e : e = Loss(prev, cur, comps)
    OBVIOUS
  <2>2. out.events = Append(events, e)
    BY <1>1, <1>2, <1>4, <2>1 DEF CacheStepped
  <2>3. prev \in ReqRows
    BY <1>1, <1>4 DEF Before, Known, AccOK, PrevOK
  <2>4. e \in S /\ e.session = cur.session /\ e.model = cur.model
    <3>1. e \in S
      BY <1>2, <1>4, <2>1, <2>3, LossOK
    <3> QED BY <2>1, <3>1 DEF Loss
  <2>5. e \in R <=> cur.session = s /\ cur.model = m
    BY <1>2, <2>4 DEF OfSM
  <2>6. Having(Append(events, e), R) = IF e \in R THEN Append(Having(events, R), e) ELSE Having(events, R)
    <3>1. PICK L : L = R
      OBVIOUS
    <3>2. events \in Seq(S) /\ e \in S
      BY <1>2, <2>4
    <3>3. Having(Append(events, e), L) = IF e \in L THEN Append(Having(events, L), e) ELSE Having(events, L)
      BY <3>2, HavingAppend
    <3> QED BY <3>1, <3>3
  <2> QED BY <1>2, <1>4, <2>1, <2>2, <2>5, <2>6
<1> QED BY <1>3, <1>4

LEMMA StreamedStep ==
    ASSUME NEW a0, NEW b0, NEW s, NEW m, Streamed(a0, b0, s, m), NEW cur \in ReqRows, NEW comps,
           cur.session = s, cur.model = m, a0.score.session <= s,
           NEW a, a = Enters(a0, cur), NEW b, b = Enters(b0, cur)
    PROVE  /\ Streamed(CacheStep(a0, cur, comps), CacheStep(b0, cur, comps), s, m)
           /\ (Known(a, cur) <=> Known(b, cur)) /\ Before(a, cur) = Before(b, cur)
<1>1. PICK as, bs, prev, R : /\ as = CacheStep(a0, cur, comps) /\ bs = CacheStep(b0, cur, comps)
                             /\ prev = Before(a, cur) /\ R = OfSM(s, m, EventRows)
  OBVIOUS
<1>2. /\ AccFine(a0) /\ AccFine(b0) /\ b0.events = Having(a0.events, R)
      /\ b0.score.session <= a0.score.session
  BY <1>1 DEF Streamed
<1>3. s \in Nat /\ s # 0 /\ a0.score.session \in Nat /\ b0.score.session \in Nat /\ b0.score.session <= s
  <2>1. s \in Nat /\ s # 0
    BY DEF ReqRows
  <2>2. a0.score.session \in Nat /\ b0.score.session \in Nat
    BY <1>2 DEF AccFine, AccOK, Scores
  <2> QED BY <1>2, <2>1, <2>2
<1>4. AccFine(as) /\ AccFine(bs) /\ as.score.session = s /\ bs.score.session = s
  BY <1>1, <1>2, <1>3, StepTotal
<1>5. SamePrev(a.prev, b.prev, m)
  BY StreamEnters
<1>6. (Known(a, cur) <=> Known(b, cur)) /\ Before(b, cur) = prev
  BY <1>1, <1>5 DEF SamePrev, Known, Before
<1>7. CacheStepped(a, cur, comps, prev, as) /\ CacheStepped(b, cur, comps, prev, bs)
  BY <1>1, <1>6, CacheStepIs
<1>8. SamePrev(as.prev, bs.prev, m)
  <2>1. as.prev = Remember(a.prev, cur) /\ bs.prev = Remember(b.prev, cur)
    BY <1>7 DEF CacheStepped
  <2>2. m \in DOMAIN as.prev /\ m \in DOMAIN bs.prev /\ as.prev[m] = cur /\ bs.prev[m] = cur
    BY <2>1 DEF Remember
  <2> QED BY <2>2 DEF SamePrev
<1>9. bs.events = Having(as.events, R)
  <2>1. Having(as.events, R) = IF Known(a, cur) /\ Costs(prev, cur)
                               THEN Append(Having(a0.events, R), Loss(prev, cur, comps))
                               ELSE Having(a0.events, R)
    BY <1>1, <1>2, StreamEvents
  <2>2. b.events = b0.events
    BY <1>2, EntersOK DEF AccFine
  <2>3. bs.events = IF Known(a, cur) /\ Costs(prev, cur) THEN Append(b0.events, Loss(prev, cur, comps))
                    ELSE b0.events
    BY <1>6, <1>7, <2>2 DEF CacheStepped
  <2> QED BY <1>2, <2>1, <2>3
<1>10. Streamed(as, bs, s, m)
  BY <1>1, <1>3, <1>4, <1>8, <1>9 DEF Streamed
<1> QED BY <1>1, <1>6, <1>10

LEMMA StreamedElse ==
    ASSUME NEW a0, NEW b0, NEW s \in Nat \ {0}, NEW m, Streamed(a0, b0, s, m), NEW cur \in ReqRows, NEW comps,
           ~(cur.session = s /\ cur.model = m), a0.score.session <= cur.session
    PROVE  Streamed(CacheStep(a0, cur, comps), b0, s, m)
<1>1. PICK a, as, R, t : /\ a = Enters(a0, cur) /\ as = CacheStep(a0, cur, comps)
                         /\ R = OfSM(s, m, EventRows) /\ t = cur.session
  OBVIOUS
<1>2. AccFine(a0) /\ AccFine(b0) /\ b0.events = Having(a0.events, R)
  BY <1>1 DEF Streamed
<1>3. /\ t \in Nat /\ a0.score.session \in Nat /\ b0.score.session \in Nat
      /\ b0.score.session <= a0.score.session /\ a0.score.session <= t
  BY <1>1, <1>2 DEF ReqRows, AccFine, AccOK, Scores, Streamed
<1>4. AccFine(as) /\ as.score.session = t
  BY <1>1, <1>2, <1>3, StepTotal
<1>5. b0.events = Having(as.events, R)
  <2>1. Having(as.events, R) = Having(a0.events, R)
    BY <1>1, <1>2, StreamEvents
  <2> QED BY <1>2, <2>1
<1>6. t = s => SamePrev(as.prev, b0.prev, m)
  <2> SUFFICES ASSUME t = s PROVE SamePrev(as.prev, b0.prev, m)
    OBVIOUS
  <2>1. cur.model # m
    BY <1>1
  <2>2. CacheStepped(a, cur, comps, Before(a, cur), as)
    BY <1>1, CacheStepIs
  <2>3. as.prev = Remember(a.prev, cur)
    BY <2>2 DEF CacheStepped
  <2>4. SamePrev(as.prev, a.prev, m)
    BY <2>1, <2>3 DEF SamePrev, Remember
  <2>5. SamePrev(a.prev, b0.prev, m)
    <3>1. CASE a0.score.session = s
      <4>1. a = a0
        BY <1>1, <1>2, <3>1, EntersOK DEF AccFine
      <4> QED BY <3>1, <4>1 DEF Streamed
    <3>2. CASE a0.score.session # s
      <4>1. DOMAIN a.prev = {}
        BY <1>1, <1>2, <3>2, EntersOK DEF AccFine
      <4>2. a0.score.session < s
        BY <1>3, <3>2
      <4>3. DOMAIN b0.prev = {}
        BY <4>2 DEF Streamed
      <4> QED BY <4>1, <4>3 DEF SamePrev
    <3> QED BY <3>1, <3>2
  <2> QED BY <2>4, <2>5 DEF SamePrev
<1>7. t < s => b0.score.session = 0
  <2>1. t < s => a0.score.session < s
    BY <1>3
  <2> QED BY <2>1 DEF Streamed
<1>8. b0.score.session <= as.score.session
  BY <1>3, <1>4
<1>9. (b0.score.session = 0 \/ b0.score.session = s) /\ (b0.score.session = 0 => DOMAIN b0.prev = {})
  BY DEF Streamed
<1> QED BY <1>1, <1>2, <1>4, <1>5, <1>6, <1>7, <1>8, <1>9 DEF Streamed

LEMMA StreamedStart ==
    ASSUME NEW s \in Nat \ {0}, NEW m
    PROVE  Streamed(Start, Start, s, m) /\ \A field \in Fields : Tot(Start, field) = 0
<1>1. PICK a : a = Start
  OBVIOUS
<1>2. /\ a.score = NewScore(0) /\ a.sessions = {} /\ a.events = <<>> /\ AccOK(a, EventRows)
      /\ DOMAIN a.prev = {} /\ a.score.session = 0 /\ a.score.expected = 0
  BY <1>1, StartOK DEF Start, NewScore
<1>3. ScoreFine(a.score)
  BY <1>2 DEF ScoreFine, NewScore, Scores
<1>4. AccFine(a)
  BY <1>2, <1>3, FS_EmptySet DEF AccFine
<1>5. a.events = Having(a.events, OfSM(s, m, EventRows))
  BY <1>2, HavingEmpty
<1>6. Streamed(a, a, s, m)
  BY <1>2, <1>4, <1>5 DEF Streamed
<1>7. ASSUME NEW field \in Fields PROVE Tot(a, field) = 0
  <2>1. Flushed(a) = {}
    BY <1>2 DEF Flushed
  <2>2. PICK T, f : T = {} /\ f = [x \in T |-> x[field]]
    OBVIOUS
  <2>3. Tot(a, field) = SumFunction(f) /\ DOMAIN f = {}
    BY <2>1, <2>2 DEF Tot, Total
  <2> QED BY <2>3, SumWhole, SumEmpty
<1> QED BY <1>1, <1>6, <1>7

\* What the doctor has of one stream alone.
StreamOf(rows, s, m, comps) == Walked(Having(rows, OfSM(s, m, ReqRows)), comps)

StreamsTotal(rows, streams, comps, field) ==
    SumFunctionOnSet([sm \in streams |-> Tot(StreamOf(rows, sm[1], sm[2], comps), field)], streams)

\* The streams, one by one, come to what all the requests come to.
StreamsWhole(rows, streams, comps) ==
    /\ \A sm \in streams : Streamed(Walked(rows, comps), StreamOf(rows, sm[1], sm[2], comps), sm[1], sm[2])
    /\ \A field \in Fields : StreamsTotal(rows, streams, comps, field) = Tot(Walked(rows, comps), field)

LEMMA StreamOfAppend ==
    ASSUME NEW rows \in Seq(ReqRows), NEW x \in ReqRows, NEW comps, NEW s, NEW m
    PROVE  /\ x.session = s /\ x.model = m =>
                 StreamOf(Append(rows, x), s, m, comps) = CacheStep(StreamOf(rows, s, m, comps), x, comps)
           /\ ~(x.session = s /\ x.model = m) =>
                 StreamOf(Append(rows, x), s, m, comps) = StreamOf(rows, s, m, comps)
<1>1. PICK R, H : R = OfSM(s, m, ReqRows) /\ H = Having(rows, R)
  OBVIOUS
<1>2. H \in Seq(ReqRows)
  BY <1>1, HavingIs
<1>3. Having(Append(rows, x), R) = IF x \in R THEN Append(H, x) ELSE H
  BY <1>1, HavingAppend
<1>4. x \in R <=> x.session = s /\ x.model = m
  BY <1>1 DEF OfSM
<1>5. Walked(Append(H, x), comps) = CacheStep(Walked(H, comps), x, comps)
  BY <1>2, WalkedAppend
<1> QED BY <1>1, <1>3, <1>4, <1>5 DEF StreamOf

LEMMA StreamsStep ==
    ASSUME NEW streams, IsFiniteSet(streams), \A sm \in streams : sm[1] \in Nat \ {0} /\ sm = <<sm[1], sm[2]>>,
           NEW rows \in Seq(ReqRows), NEW comps, StreamsWhole(rows, streams, comps),
           NEW x \in ReqRows, <<x.session, x.model>> \in streams, Walked(rows, comps).score.session <= x.session
    PROVE  StreamsWhole(Append(rows, x), streams, comps)
<1>1. PICK more, a, as, z : /\ more = Append(rows, x) /\ a = Walked(rows, comps)
                            /\ as = Walked(more, comps) /\ z = <<x.session, x.model>>
  OBVIOUS
<1>2. as = CacheStep(a, x, comps) /\ a.score.session <= x.session /\ z \in streams
      /\ z[1] = x.session /\ z[2] = x.model
  BY <1>1, WalkedAppend
<1>3. ASSUME NEW sm \in streams
      PROVE  /\ sm = z => StreamOf(more, sm[1], sm[2], comps) = CacheStep(StreamOf(rows, sm[1], sm[2], comps), x, comps)
             /\ sm # z => StreamOf(more, sm[1], sm[2], comps) = StreamOf(rows, sm[1], sm[2], comps)
             /\ Streamed(a, StreamOf(rows, sm[1], sm[2], comps), sm[1], sm[2])
             /\ Streamed(as, StreamOf(more, sm[1], sm[2], comps), sm[1], sm[2])
  <2>1. PICK s, m, b : s = sm[1] /\ m = sm[2] /\ b = StreamOf(rows, s, m, comps)
    OBVIOUS
  <2>2. s \in Nat \ {0} /\ (sm = z <=> x.session = s /\ x.model = m)
    BY <1>1, <1>2, <2>1
  <2>3. Streamed(a, b, s, m)
    BY <1>1, <2>1 DEF StreamsWhole
  <2>4. CASE sm = z
    <3>1. x.session = s /\ x.model = m
      BY <2>2, <2>4
    <3>2. StreamOf(more, s, m, comps) = CacheStep(b, x, comps)
      BY <1>1, <2>1, <3>1, StreamOfAppend
    <3>3. Streamed(CacheStep(a, x, comps), CacheStep(b, x, comps), s, m)
      BY <1>2, <2>3, <3>1, StreamedStep
    <3> QED BY <1>2, <2>1, <2>3, <2>4, <3>2, <3>3
  <2>5. CASE sm # z
    <3>1. ~(x.session = s /\ x.model = m)
      BY <2>2, <2>5
    <3>2. StreamOf(more, s, m, comps) = b
      BY <1>1, <2>1, <3>1, StreamOfAppend
    <3>3. Streamed(CacheStep(a, x, comps), b, s, m)
      BY <1>2, <2>2, <2>3, <3>1, StreamedElse
    <3> QED BY <1>2, <2>1, <2>3, <2>5, <3>2, <3>3
  <2> QED BY <2>4, <2>5
<1>4. ASSUME NEW field \in Fields
      PROVE  StreamsTotal(more, streams, comps, field) = Tot(as, field)
  <2>1. PICK f, g : /\ f = [sm \in streams |-> Tot(StreamOf(rows, sm[1], sm[2], comps), field)]
                    /\ g = [sm \in streams |-> Tot(StreamOf(more, sm[1], sm[2], comps), field)]
    OBVIOUS
  <2>2. /\ StreamsTotal(rows, streams, comps, field) = SumFunctionOnSet(f, streams)
        /\ StreamsTotal(more, streams, comps, field) = SumFunctionOnSet(g, streams)
    BY <2>1 DEF StreamsTotal
  <2>3. \A sm \in streams : f[sm] \in Nat /\ g[sm] \in Nat
    <3> TAKE sm \in streams
    <3>1. PICK b, bs : b = StreamOf(rows, sm[1], sm[2], comps) /\ bs = StreamOf(more, sm[1], sm[2], comps)
      OBVIOUS
    <3>2. AccFine(b) /\ AccFine(bs)
      BY <1>3, <3>1 DEF Streamed
    <3>3. Tot(b, field) \in Nat /\ Tot(bs, field) \in Nat
      BY <3>2, TotIs
    <3> QED BY <2>1, <3>1, <3>3
  <2>4. \A sm \in streams : sm # z => g[sm] = f[sm]
    BY <1>3, <2>1
  <2>5. PICK b, bs, ea, eb : /\ b = StreamOf(rows, z[1], z[2], comps) /\ bs = StreamOf(more, z[1], z[2], comps)
                             /\ ea = Enters(a, x) /\ eb = Enters(b, x)
    OBVIOUS
  <2>6. bs = CacheStep(b, x, comps) /\ Streamed(a, b, x.session, x.model)
    BY <1>2, <1>3, <2>5
  <2>7. (Known(ea, x) <=> Known(eb, x)) /\ Before(ea, x) = Before(eb, x)
    BY <1>2, <2>5, <2>6, StreamedStep
  <2>8. PICK d : d = Gain(Known(ea, x), Before(ea, x), x, field)
    OBVIOUS
  <2>9. d = Gain(Known(eb, x), Before(eb, x), x, field)
    BY <2>7, <2>8 DEF Gain
  <2>10. Tot(as, field) = Tot(a, field) + d /\ d \in Int
    <3>1. AccFine(a)
      BY <2>6 DEF Streamed
    <3> QED BY <1>2, <2>5, <2>8, <3>1, StepTotal
  <2>11. Tot(bs, field) = Tot(b, field) + d
    <3>1. AccFine(b) /\ b.score.session <= a.score.session
      BY <2>6 DEF Streamed
    <3>2. b.score.session \in Nat /\ a.score.session \in Nat /\ x.session \in Nat
      BY <2>6 DEF Streamed, AccFine, AccOK, Scores, ReqRows
    <3>3. b.score.session <= x.session
      BY <1>2, <3>1, <3>2
    <3> QED BY <2>5, <2>6, <2>9, <3>1, <3>3, StepTotal
  <2>12. g[z] = f[z] + d
    BY <1>2, <2>1, <2>5, <2>11
  <2>13. SumFunctionOnSet(g, streams) = SumFunctionOnSet(f, streams) + d
    BY <1>2, <2>3, <2>4, <2>10, <2>12, SumBumped
  <2>14. StreamsTotal(rows, streams, comps, field) = Tot(a, field)
    BY <1>1 DEF StreamsWhole
  <2> QED BY <2>2, <2>10, <2>13, <2>14
<1> QED BY <1>1, <1>3, <1>4 DEF StreamsWhole

LEMMA StreamsRun ==
    ASSUME NEW streams, IsFiniteSet(streams), \A sm \in streams : sm[1] \in Nat \ {0} /\ sm = <<sm[1], sm[2]>>,
           NEW rows \in Seq(ReqRows), SortedRows(rows), NEW comps,
           \A i \in DOMAIN rows : <<rows[i].session, rows[i].model>> \in streams
    PROVE  StreamsWhole(rows, streams, comps)
<1> DEFINE Good == {q \in Seq(ReqRows) : StreamsWhole(q, streams, comps)}
<1>1. <<>> \in Good
  <2>1. Walked(<<>>, comps) = Start /\ <<>> \in Seq(ReqRows)
    BY WalkedEmpty
  <2>2. \A s, m : StreamOf(<<>>, s, m, comps) = Start
    BY HavingEmpty, WalkedEmpty DEF StreamOf
  <2>3. ASSUME NEW sm \in streams
        PROVE  Streamed(Walked(<<>>, comps), StreamOf(<<>>, sm[1], sm[2], comps), sm[1], sm[2])
    <3>1. PICK s, m : s = sm[1] /\ m = sm[2] /\ s \in Nat \ {0}
      OBVIOUS
    <3>2. Streamed(Start, Start, s, m)
      BY <3>1, StreamedStart
    <3> QED BY <2>1, <2>2, <3>1, <3>2
  <2>4. ASSUME NEW field \in Fields
        PROVE  StreamsTotal(<<>>, streams, comps, field) = Tot(Walked(<<>>, comps), field)
    <3>1. Tot(Start, field) = 0
      <4>1. 1 \in Nat \ {0}
        OBVIOUS
      <4> QED BY <4>1, StreamedStart
    <3>2. PICK f : f = [sm \in streams |-> Tot(StreamOf(<<>>, sm[1], sm[2], comps), field)]
      OBVIOUS
    <3>3. \A sm \in streams : f[sm] = 0
      BY <2>2, <3>1, <3>2
    <3>4. SumFunctionOnSet(f, streams) = 0
      BY <3>3, SumOfNone
    <3> QED BY <2>1, <3>1, <3>2, <3>4 DEF StreamsTotal
  <2> QED BY <2>1, <2>3, <2>4 DEF StreamsWhole
<1>2. ASSUME NEW n \in Nat, n < Len(rows), Prefix(rows, n) \in Good
      PROVE  Append(Prefix(rows, n), rows[n + 1]) \in Good
  <2>1. PICK p, x : p = Prefix(rows, n) /\ x = rows[n + 1]
    OBVIOUS
  <2>2. p \in Seq(ReqRows) /\ x \in ReqRows /\ Walked(p, comps).score.session <= x.session
    BY <1>2, <2>1, ReachedSession
  <2>3. n + 1 \in DOMAIN rows
    BY <1>2
  <2>4. <<x.session, x.model>> \in streams
    BY <2>1, <2>3
  <2>5. StreamsWhole(p, streams, comps)
    BY <1>2, <2>1
  <2>6. StreamsWhole(Append(p, x), streams, comps)
    BY <2>2, <2>4, <2>5, StreamsStep
  <2>7. Append(p, x) \in Seq(ReqRows)
    BY <2>2
  <2> QED BY <2>1, <2>6, <2>7
<1>3. rows \in Good
  <2> HIDE DEF Good
  <2> QED BY <1>1, <1>2, ByAppending
<1> QED BY <1>3

LEMMA OfStreamIs ==
    ASSUME NEW S, NEW rows \in Seq(S), NEW s, NEW m
    PROVE  OfStream(rows, s, m) = Having(rows, OfSM(s, m, S))
<1>1. \A i \in DOMAIN rows : rows[i] \in S
  OBVIOUS
<1>2. {i \in DOMAIN rows : rows[i].session = s /\ rows[i].model = m} = {i \in DOMAIN rows : rows[i] \in OfSM(s, m, S)}
  BY <1>1 DEF OfSM
<1> QED BY <1>2 DEF OfStream, Having

\* "Requests are analyzed per (session, model) stream" (package comment of analyze):
\* the doctor's report of all requests is what it would report of each stream by
\* itself, loss by loss, and its totals are the streams' totals.
THEOREM StreamsApartInEveryHistory == Spec => []StreamsApart
<1>1. IInv => StreamsApart
  <2> SUFFICES ASSUME IInv PROVE StreamsApart
    OBVIOUS
  <2>1. PICK rows, comps, streams : rows = reqs /\ comps = compactions /\ streams = Sessions \X Models
    OBVIOUS
  <2>2. rows \in Seq(ReqRows) /\ SortedRows(rows) /\ session \in Nat
    BY <2>1 DEF IInv, StateOK, Sorted, SortedRows
  <2>3. IsFiniteSet(streams)
    <3>1. IsFiniteSet(Sessions)
      BY <2>2, FS_Interval DEF Sessions
    <3>2. IsFiniteSet(Models)
      <4>1. PICK f, D : D = DOMAIN rows /\ f = [i \in D |-> rows[i].model]
        OBVIOUS
      <4>2. IsFiniteSet(D)
        <5>1. PICK n \in Nat : n = Len(rows)
          BY <2>2
        <5>2. D = 1 .. n /\ 1 \in Int /\ n \in Int
          BY <2>2, <4>1, <5>1
        <5> QED BY <5>2, FS_Interval
      <4>3. f \in Surjection(D, Models)
        BY <2>1, <4>1 DEF Models, Surjection
      <4> QED BY <4>2, <4>3, FS_Surjection
    <3> QED BY <2>1, <3>1, <3>2, FS_Product
  <2>4. \A sm \in streams : sm[1] \in Nat \ {0} /\ sm = <<sm[1], sm[2]>> /\ sm[1] \in Sessions /\ sm[2] \in Models
    BY <2>1, <2>2 DEF Sessions
  <2>5. \A i \in DOMAIN rows : <<rows[i].session, rows[i].model>> \in streams
    <3> TAKE i \in DOMAIN rows
    <3>1. rows[i] \in ReqRows /\ rows[i].session <= session
      BY <2>1, <2>2 DEF IInv, StampsOK
    <3>2. rows[i].session \in Nat \ {0}
      BY <3>1 DEF ReqRows
    <3>3. rows[i].session \in Sessions /\ rows[i].model \in Models
      BY <2>1, <2>2, <3>1, <3>2 DEF Sessions, Models
    <3> QED BY <2>1, <3>3
  <2>6. StreamsWhole(rows, streams, comps)
    BY <2>2, <2>3, <2>4, <2>5, StreamsRun
  <2>7. PICK a : a = Walked(rows, comps)
    OBVIOUS
  <2>8. Cache(reqs, compactions) = [sessions |-> Flushed(a), events |-> a.events]
    BY <2>1, <2>7 DEF Cache, Walked
  <2>9. \A s, m : Cache(OfStream(reqs, s, m), compactions)
                    = [sessions |-> Flushed(StreamOf(rows, s, m, comps)), events |-> StreamOf(rows, s, m, comps).events]
    <3> TAKE s, m
    <3>1. OfStream(rows, s, m) = Having(rows, OfSM(s, m, ReqRows))
      BY <2>2, OfStreamIs
    <3> QED BY <2>1, <3>1 DEF Cache, Walked, StreamOf
  <2>10. ASSUME NEW s \in Sessions, NEW m \in Models
         PROVE  OfStream(a.events, s, m) = StreamOf(rows, s, m, comps).events
    <3>0. <<s, m>> \in streams
      BY <2>1
    <3>1. PICK sm : sm = <<s, m>> /\ sm \in streams /\ sm[1] = s /\ sm[2] = m
      BY <3>0
    <3>2. PICK b : b = StreamOf(rows, s, m, comps)
      OBVIOUS
    <3>3. Streamed(a, b, s, m)
      BY <2>6, <2>7, <3>1, <3>2 DEF StreamsWhole
    <3>4. b.events = Having(a.events, OfSM(s, m, EventRows)) /\ a.events \in Seq(EventRows)
      BY <3>3 DEF Streamed, AccFine, AccOK
    <3> QED BY <3>2, <3>4, OfStreamIs
  <2>11. ASSUME NEW field \in Fields
         PROVE  Total(Flushed(a), field)
                  = SumFunction([sm \in Sessions \X Models |->
                                   Total(Cache(OfStream(reqs, sm[1], sm[2]), compactions).sessions, field)])
    <3>1. PICK f, g : /\ f = [sm \in streams |-> Tot(StreamOf(rows, sm[1], sm[2], comps), field)]
                      /\ g = [sm \in Sessions \X Models |->
                                 Total(Cache(OfStream(reqs, sm[1], sm[2]), compactions).sessions, field)]
      OBVIOUS
    <3>2. f = g
      <4>1. \A sm \in streams : f[sm] = g[sm]
        <5> TAKE sm \in streams
        <5>1. Cache(OfStream(reqs, sm[1], sm[2]), compactions).sessions = Flushed(StreamOf(rows, sm[1], sm[2], comps))
          BY <2>9
        <5> QED BY <2>1, <3>1, <5>1 DEF Tot
      <4> QED BY <2>1, <3>1, <4>1
    <3>3. SumFunction(f) = SumFunctionOnSet(f, streams)
      <4>1. DOMAIN f = streams
        BY <3>1
      <4> QED BY <4>1, SumWhole
    <3>4. SumFunctionOnSet(f, streams) = Tot(a, field)
      BY <2>6, <2>7, <3>1 DEF StreamsWhole, StreamsTotal
    <3> QED BY <3>1, <3>2, <3>3, <3>4 DEF Tot
  <2> QED BY <2>8, <2>9, <2>10, <2>11 DEF StreamsApart, Fields
<1> QED BY <1>1, HistoryInvariant, PTL
=============================================================================

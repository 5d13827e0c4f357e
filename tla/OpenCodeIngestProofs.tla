------------------------ MODULE OpenCodeIngestProofs --------------------------
(***************************************************************************)
(* What is proved of the ingestion of OpenCode sessions, for any messages, *)
(* parts, versions and failures: an artifact the next run would skip is in *)
(* the database, with any number of ingesters; with one, a message has the *)
(* usage it shows.                                                         *)
(***************************************************************************)
EXTENDS OpenCodeIngest, TLAPS

Phases == {"idle", "messages", "parts", "record"}

Contents == [ver : Nat, torn : BOOLEAN]

\* What layout p reads holds of a now.
Disk(p, a) == disk[Layout(p)][a]

\* A stamp is never ahead of the artifact; an absent one is not torn.
DiskOK ==
    /\ disk \in [Layouts -> [Artifacts -> Contents]]
    /\ recorded \in [Layouts -> [Artifacts -> Nat]]
    /\ \A s \in Layouts, a \in Artifacts :
          /\ disk[s][a].ver = 0 => ~disk[s][a].torn
          /\ recorded[s][a] <= Stamp(disk[s][a])

TablesOK ==
    /\ usage \in [Messages -> Nat]
    /\ DOMAIN blocks = Parts /\ \A t \in Parts : blocks[t].ver \in Nat

Stored(a) ==
    /\ a \in Messages /\ Role[a] = "assistant" => usage[a] > 0
    /\ a \in Parts => blocks[a].ver > 0

\* The stamp is still the artifact's, and there is something to store.
Fresh(p, a) == stamps[p][a] = Stamp(Disk(p, a)) /\ Disk(p, a).ver > 1

PlaceOK(p) ==
    /\ pc[p] \in Phases /\ src[p] \in DOMAIN Sources
    /\ todo[p] \subseteq Artifacts
    /\ pc[p] = "idle" => DOMAIN stamps[p] = {}
    /\ pc[p] = "messages" => todo[p] \subseteq Messages /\ DOMAIN stamps[p] \subseteq Messages
    /\ pc[p] = "parts" => todo[p] \subseteq Parts
    /\ pc[p] = "record" => todo[p] = {}

LocalsOK(p) ==
    /\ \A a \in todo[p] : Disk(p, a).ver > 0
    /\ \A a \in DOMAIN stamps[p] :
          a \in Artifacts /\ stamps[p][a] \in Nat /\ stamps[p][a] <= Stamp(Disk(p, a))
    /\ \A m \in DOMAIN got[p] : m \in Messages /\ got[p][m] \in Nat \ {0}
    /\ \A t \in DOMAIN pending[p] : pending[p][t].ver \in Nat \ {0}

\* What was read after its stamp was taken is held, and then stored.
ReadOK(p) ==
    /\ \A m \in Messages : m \in DOMAIN stamps[p] \ todo[p] /\ Fresh(p, m) =>
          m \in DOMAIN got[p] /\ got[p][m] = Disk(p, m).ver
    /\ \A t \in Parts : t \in DOMAIN stamps[p] \ todo[p] /\ Fresh(p, t) => t \in DOMAIN pending[p]
    /\ pc[p] = "record" => \A a \in DOMAIN stamps[p] : Fresh(p, a) => Stored(a)

\* What would be skipped is stored.
SkipOK == \A s \in Layouts, a \in Artifacts :
    WouldSkip(s, a) /\ disk[s][a].ver > 1 => Stored(a)

Shape ==
    /\ pc \in [Ingesters -> Phases] /\ src \in [Ingesters -> DOMAIN Sources]
    /\ DOMAIN todo = Ingesters /\ DOMAIN stamps = Ingesters /\ DOMAIN states = Ingesters
    /\ DOMAIN got = Ingesters /\ DOMAIN pending = Ingesters

SkipInv ==
    /\ DiskOK /\ TablesOK /\ SkipOK /\ Shape
    /\ \A p \in Ingesters : PlaceOK(p) /\ LocalsOK(p) /\ ReadOK(p)

\* What a run holds of a message it has not committed is what it would record.
SoleOK(p) ==
    /\ \A m \in DOMAIN got[p] : Disk(p, m).ver > 0
    /\ pc[p] \in {"messages", "parts"} => \A m \in DOMAIN got[p] :
          WouldSkip(Layout(p), m) => got[p][m] = Disk(p, m).ver
    /\ pc[p] = "idle" => DOMAIN got[p] = {}
    /\ pc[p] = "record" => \A m \in Messages \cap DOMAIN stamps[p] :
          Fresh(p, m) /\ Sole(Layout(p), m) /\ Role[m] = "assistant" => usage[m] = Disk(p, m).ver

UsageInv == SkipInv /\ UsageCurrent /\ \A p \in Ingesters : SoleOK(p)
-----------------------------------------------------------------------------
(***************************************************************************)
(* Stamps order the states of an artifact.                                 *)
(***************************************************************************)
LEMMA StampFacts ==
    ASSUME NEW c \in Contents
    PROVE  /\ c.ver \in Nat /\ c.torn \in BOOLEAN
           /\ Stamp(c) \in Int /\ Stamp(c) <= 2 * c.ver /\ 2 * c.ver - 1 <= Stamp(c)
           /\ ~c.torn => Stamp(c) = 2 * c.ver
           /\ c.torn => Stamp(c) = 2 * c.ver - 1
<1>1. c.ver \in Nat /\ c.torn \in BOOLEAN
  BY DEF Contents
<1>2. CASE c.torn
  <2>1. Stamp(c) = 2 * c.ver - 1
    BY <1>2 DEF Stamp
  <2> QED BY <1>1, <1>2, <2>1
<1>3. CASE ~c.torn
  <2>1. Stamp(c) = 2 * c.ver - 0
    BY <1>3 DEF Stamp
  <2> QED BY <1>1, <1>3, <2>1
<1> QED BY <1>2, <1>3

LEMMA StampOrder ==
    ASSUME NEW c \in Contents, NEW d \in Contents, Stamp(c) <= Stamp(d)
    PROVE  c.ver <= d.ver /\ (Stamp(c) = Stamp(d) => c.ver = d.ver)
<1>1. /\ c.ver \in Nat /\ Stamp(c) \in Int /\ Stamp(c) <= 2 * c.ver /\ 2 * c.ver - 1 <= Stamp(c)
      /\ d.ver \in Nat /\ Stamp(d) \in Int /\ Stamp(d) <= 2 * d.ver /\ 2 * d.ver - 1 <= Stamp(d)
  BY StampFacts
<1> QED BY <1>1

\* What OpenCode does to its files and rows, the copy of an upgrade included.
Moves ==
    /\ disk' \in [Layouts -> [Artifacts -> Contents]]
    /\ \A s \in Layouts, a \in Artifacts :
          /\ disk'[s][a].ver = 0 => ~disk'[s][a].torn
          /\ Stamp(disk[s][a]) <= Stamp(disk'[s][a])

LEMMA DiskStays == ASSUME DiskOK, disk' = disk PROVE Moves
<1>1. \A s \in Layouts, a \in Artifacts : Stamp(disk[s][a]) <= Stamp(disk[s][a])
  <2> TAKE s \in Layouts, a \in Artifacts
  <2>1. disk[s][a] \in Contents
    BY DEF DiskOK
  <2>2. Stamp(disk[s][a]) \in Int
    BY <2>1, StampFacts
  <2> QED BY <2>2
<1> QED BY <1>1 DEF DiskOK, Moves

LEMMA EndsAreLayouts == ASSUME OpenCodeAssumption PROVE Sources[1] \in Layouts /\ Last(Sources) \in Layouts
<1>1. Sources \in Seq({"tree", "db"}) /\ Sources # <<>>
  BY DEF OpenCodeAssumption
<1>2. 1 \in DOMAIN Sources /\ Len(Sources) \in DOMAIN Sources
  BY <1>1
<1> QED BY <1>2 DEF Layouts, ToSet, Last

LEMMA OneWrite ==
    ASSUME DiskOK, NEW s \in Layouts, NEW a \in Artifacts, NEW c \in Contents,
           disk' = [disk EXCEPT ![s][a] = c], c.ver # 0, Stamp(disk[s][a]) <= Stamp(c)
    PROVE  Moves
<1>1. disk \in [Layouts -> [Artifacts -> Contents]]
  BY DEF DiskOK
<1>2. disk' \in [Layouts -> [Artifacts -> Contents]]
  BY <1>1
<1>3. ASSUME NEW r \in Layouts, NEW b \in Artifacts
      PROVE  /\ disk'[r][b].ver = 0 => ~disk'[r][b].torn
             /\ Stamp(disk[r][b]) <= Stamp(disk'[r][b])
  <2>1. CASE r = s /\ b = a
    <3>1. disk'[r][b] = c
      BY <1>1, <2>1
    <3> QED BY <2>1, <3>1
  <2>2. CASE ~(r = s /\ b = a)
    <3>1. disk'[r][b] = disk[r][b]
      BY <1>1, <2>2
    <3>2. disk[r][b] \in Contents
      BY <1>1
    <3>3. Stamp(disk[r][b]) \in Int
      BY <3>2, StampFacts
    <3> QED BY <3>1, <3>3 DEF DiskOK
  <2> QED BY <2>1, <2>2
<1> QED BY <1>2, <1>3 DEF Moves

LEMMA RewriteMoves == ASSUME DiskOK, NEW a \in Artifacts, Rewrite(a) PROVE Moves
<1>1. PICK s \in Live, torn \in BOOLEAN :
          /\ ~disk[s][a].torn
          /\ disk' = [disk EXCEPT ![s][a] = [ver |-> disk[s][a].ver + 1, torn |-> torn]]
  BY Zenon DEF Rewrite
<1> DEFINE c == disk[s][a]
           d == [ver |-> c.ver + 1, torn |-> torn]
<1>2. s \in Layouts
  BY DEF Live
<1>3. c \in Contents
  BY <1>2 DEF DiskOK
<1>4. c.ver \in Nat /\ Stamp(c) = 2 * c.ver
  BY <1>1, <1>3, StampFacts
<1>5. d \in Contents /\ d.ver = c.ver + 1
  BY <1>4 DEF Contents
<1>6. d.ver \in Nat /\ Stamp(d) \in Int /\ 2 * d.ver - 1 <= Stamp(d)
  BY <1>5, StampFacts
<1> HIDE DEF c, d
<1>7. Stamp(c) <= Stamp(d) /\ d.ver # 0
  BY <1>4, <1>5, <1>6
<1> QED BY <1>1, <1>2, <1>5, <1>7, OneWrite DEF c, d

LEMMA FinishMoves == ASSUME DiskOK, NEW a \in Artifacts, FinishWrite(a) PROVE Moves
<1>1. PICK s \in Live : /\ disk[s][a].torn
                        /\ disk' = [disk EXCEPT ![s][a].torn = FALSE]
  BY DEF FinishWrite
<1> DEFINE c == disk[s][a]
           d == [c EXCEPT !.torn = FALSE]
<1>2. s \in Layouts
  BY DEF Live
<1>3. c \in Contents /\ (c.ver = 0 => ~c.torn)
  BY <1>2 DEF DiskOK
<1>4. c.ver \in Nat /\ Stamp(c) = 2 * c.ver - 1
  BY <1>1, <1>3, StampFacts
<1>5. d \in Contents /\ d.ver = c.ver /\ ~d.torn
  BY <1>3 DEF Contents
<1>6. Stamp(d) = 2 * d.ver
  BY <1>5, StampFacts
<1>7. disk' = [disk EXCEPT ![s][a] = d]
  BY <1>1
<1>8. c.ver # 0
  BY <1>1, <1>3
<1> HIDE DEF c, d
<1>9. Stamp(c) <= Stamp(d) /\ d.ver # 0
  BY <1>4, <1>5, <1>6, <1>8
<1> QED BY <1>2, <1>5, <1>7, <1>9, OneWrite DEF c

LEMMA MigrateMoves == ASSUME OpenCodeAssumption, DiskOK, Migrate PROVE Moves
<1> DEFINE f == Sources[1]
           l == Last(Sources)
<1>1. f \in Layouts /\ l \in Layouts
  BY EndsAreLayouts
<1>2. disk' = [disk EXCEPT ![l] = disk[f]] /\ ~Held(l)
  BY DEF Migrate
<1> HIDE DEF f, l
<1>3. disk \in [Layouts -> [Artifacts -> Contents]]
  BY DEF DiskOK
<1>4. disk' \in [Layouts -> [Artifacts -> Contents]]
  BY <1>1, <1>2, <1>3
<1>5. ASSUME NEW r \in Layouts, NEW b \in Artifacts
      PROVE  /\ disk'[r][b].ver = 0 => ~disk'[r][b].torn
             /\ Stamp(disk[r][b]) <= Stamp(disk'[r][b])
  <2>1. CASE r = l
    <3>1. disk'[r][b] = disk[f][b]
      BY <1>1, <1>2, <1>3, <2>1
    <3>2. disk[l][b] \in Contents /\ disk[f][b] \in Contents
      BY <1>1, <1>3
    <3>3. disk[l][b].ver = 0
      BY <1>2, <3>2 DEF Held, Contents
    <3>4. disk[f][b].ver \in Nat /\ (disk[f][b].ver = 0 => ~disk[f][b].torn)
      BY <1>1, <3>2, StampFacts DEF DiskOK
    <3>5. ~disk[l][b].torn
      BY <1>1, <3>3 DEF DiskOK
    <3>6. Stamp(disk[l][b]) = 0
      BY <3>2, <3>3, <3>5, StampFacts
    <3>7. Stamp(disk[f][b]) \in Int /\ 0 <= Stamp(disk[f][b])
      <4>1. CASE disk[f][b].ver = 0
        BY <3>2, <3>4, <4>1, StampFacts
      <4>2. CASE disk[f][b].ver # 0
        BY <3>2, <3>4, <4>2, StampFacts
      <4> QED BY <4>1, <4>2
    <3> QED BY <2>1, <3>1, <3>4, <3>6, <3>7
  <2>2. CASE r # l
    <3>1. disk'[r][b] = disk[r][b]
      BY <1>1, <1>2, <1>3, <2>2
    <3>2. disk[r][b] \in Contents
      BY <1>3
    <3>3. Stamp(disk[r][b]) \in Int
      BY <3>2, StampFacts
    <3> QED BY <3>1, <3>3 DEF DiskOK
  <2> QED BY <2>1, <2>2
<1> QED BY <1>4, <1>5 DEF Moves

-----------------------------------------------------------------------------
(***************************************************************************)
(* What a step leaves of a run it is not a step of.                        *)
(***************************************************************************)
LayoutMoves(s) == \A a \in Artifacts :
    /\ disk[s][a] \in Contents /\ disk'[s][a] \in Contents
    /\ disk[s][a].ver \in Nat /\ disk'[s][a].ver \in Nat
    /\ Stamp(disk[s][a]) \in Int /\ Stamp(disk'[s][a]) \in Int
    /\ Stamp(disk[s][a]) <= Stamp(disk'[s][a]) /\ disk[s][a].ver <= disk'[s][a].ver
    /\ Stamp(disk[s][a]) = Stamp(disk'[s][a]) => disk[s][a].ver = disk'[s][a].ver

LEMMA MovesAt == ASSUME DiskOK, Moves, NEW s \in Layouts PROVE LayoutMoves(s)
<1> SUFFICES ASSUME NEW a \in Artifacts
             PROVE  /\ disk[s][a] \in Contents /\ disk'[s][a] \in Contents
                    /\ disk[s][a].ver \in Nat /\ disk'[s][a].ver \in Nat
                    /\ Stamp(disk[s][a]) \in Int /\ Stamp(disk'[s][a]) \in Int
                    /\ Stamp(disk[s][a]) <= Stamp(disk'[s][a]) /\ disk[s][a].ver <= disk'[s][a].ver
                    /\ Stamp(disk[s][a]) = Stamp(disk'[s][a]) => disk[s][a].ver = disk'[s][a].ver
  BY Zenon DEF LayoutMoves
<1>1. disk[s][a] \in Contents /\ disk'[s][a] \in Contents
  BY DEF DiskOK, Moves
<1>2. Stamp(disk[s][a]) <= Stamp(disk'[s][a])
  BY DEF Moves
<1> HIDE DEF DiskOK, Moves
<1>3. disk[s][a].ver \in Nat /\ Stamp(disk[s][a]) \in Int
  BY <1>1, StampFacts
<1>4. disk'[s][a].ver \in Nat /\ Stamp(disk'[s][a]) \in Int
  BY <1>1, StampFacts
<1>5. /\ disk[s][a].ver <= disk'[s][a].ver
      /\ Stamp(disk[s][a]) = Stamp(disk'[s][a]) => disk[s][a].ver = disk'[s][a].ver
  BY <1>1, <1>2, StampOrder
<1> QED BY <1>1, <1>2, <1>3, <1>4, <1>5

StoredGrows == \A a \in Artifacts : Stored(a) => Stored(a)'

SameLocals(q) ==
    /\ pc'[q] = pc[q] /\ src'[q] = src[q] /\ todo'[q] = todo[q]
    /\ stamps'[q] = stamps[q] /\ got'[q] = got[q] /\ pending'[q] = pending[q]

LEMMA LayoutIn == ASSUME NEW q, PlaceOK(q) PROVE Layout(q) \in Layouts
BY DEF PlaceOK, Layout, Layouts, ToSet

LEMMA RunKept ==
    ASSUME DiskOK, Moves, StoredGrows, NEW q \in Ingesters, SameLocals(q),
           PlaceOK(q), LocalsOK(q), ReadOK(q)
    PROVE  PlaceOK(q)' /\ LocalsOK(q)' /\ ReadOK(q)'
<1> DEFINE s == Layout(q)
<1>1. s \in Layouts /\ Layout(q)' = s
  BY LayoutIn DEF Layout, SameLocals
<1>2. LayoutMoves(s)
  BY <1>1, MovesAt
<1> HIDE DEF s
<1>3. \A a : Disk(q, a) = disk[s][a] /\ Disk(q, a)' = disk'[s][a]
  BY <1>1 DEF Disk, s
<1>4. PlaceOK(q)'
  BY DEF PlaceOK, SameLocals
<1>5. LocalsOK(q)'
  <2>1. ASSUME NEW a \in todo[q] PROVE disk'[s][a].ver > 0
    <3>1. a \in Artifacts /\ disk[s][a].ver > 0
      BY <1>3, <2>1 DEF LocalsOK, PlaceOK
    <3> QED BY <1>2, <3>1 DEF LayoutMoves
  <2>2. ASSUME NEW a \in DOMAIN stamps[q]
        PROVE  a \in Artifacts /\ stamps[q][a] \in Nat /\ stamps[q][a] <= Stamp(disk'[s][a])
    <3>1. a \in Artifacts /\ stamps[q][a] \in Nat /\ stamps[q][a] <= Stamp(disk[s][a])
      BY <1>3, <2>2 DEF LocalsOK
    <3>2. /\ Stamp(disk[s][a]) \in Int /\ Stamp(disk'[s][a]) \in Int
          /\ Stamp(disk[s][a]) <= Stamp(disk'[s][a])
      BY <1>2, <3>1 DEF LayoutMoves
    <3> QED BY <3>1, <3>2
  <2>3. /\ \A m \in DOMAIN got[q] : m \in Messages /\ got[q][m] \in Nat \ {0}
        /\ \A t \in DOMAIN pending[q] : pending[q][t].ver \in Nat \ {0}
    BY DEF LocalsOK
  <2> QED BY <1>3, <2>1, <2>2, <2>3 DEF LocalsOK, SameLocals
<1>6. ASSUME NEW a \in DOMAIN stamps[q], Fresh(q, a)'
      PROVE  a \in Artifacts /\ Fresh(q, a) /\ Disk(q, a)'.ver = Disk(q, a).ver
  <2>1. a \in Artifacts /\ stamps[q][a] \in Nat /\ stamps[q][a] <= Stamp(disk[s][a])
    BY <1>3, <1>6 DEF LocalsOK
  <2>2. stamps[q][a] = Stamp(disk'[s][a]) /\ disk'[s][a].ver > 1
    BY <1>3, <1>6 DEF Fresh, SameLocals
  <2>3. /\ Stamp(disk[s][a]) \in Int /\ Stamp(disk'[s][a]) \in Int
        /\ Stamp(disk[s][a]) <= Stamp(disk'[s][a])
        /\ Stamp(disk[s][a]) = Stamp(disk'[s][a]) => disk[s][a].ver = disk'[s][a].ver
    BY <1>2, <2>1 DEF LayoutMoves
  <2>4. Stamp(disk[s][a]) = Stamp(disk'[s][a])
    BY <2>1, <2>2, <2>3
  <2> QED BY <1>3, <2>1, <2>2, <2>3, <2>4 DEF Fresh
<1>7. ReadOK(q)'
  <2>1. ASSUME NEW m \in Messages, m \in DOMAIN stamps[q] \ todo[q], Fresh(q, m)'
        PROVE  m \in DOMAIN got[q] /\ got[q][m] = Disk(q, m)'.ver
    <3>1. Fresh(q, m) /\ Disk(q, m)'.ver = Disk(q, m).ver
      BY <1>6, <2>1
    <3> QED BY <2>1, <3>1 DEF ReadOK
  <2>2. ASSUME NEW t \in Parts, t \in DOMAIN stamps[q] \ todo[q], Fresh(q, t)'
        PROVE  t \in DOMAIN pending[q]
    BY <1>6, <2>2 DEF ReadOK
  <2>3. ASSUME pc[q] = "record", NEW a \in DOMAIN stamps[q], Fresh(q, a)'
        PROVE  Stored(a)'
    <3>1. a \in Artifacts /\ Fresh(q, a)
      BY <1>6, <2>3
    <3>2. Stored(a)
      BY <2>3, <3>1 DEF ReadOK
    <3> QED BY <3>1, <3>2 DEF StoredGrows
  <2> QED BY <2>1, <2>2, <2>3, Zenon DEF ReadOK, SameLocals
<1> QED BY <1>4, <1>5, <1>7

\* The records stay behind the artifacts.
LEMMA SkipKept ==
    ASSUME DiskOK, Moves, StoredGrows, SkipOK, recorded' = recorded
    PROVE  DiskOK' /\ SkipOK'
<1>1. ASSUME NEW s \in Layouts, NEW a \in Artifacts
      PROVE  /\ recorded[s][a] <= Stamp(disk'[s][a])
             /\ WouldSkip(s, a)' => WouldSkip(s, a) /\ disk'[s][a].ver = disk[s][a].ver
  <2>1. LayoutMoves(s)
    BY MovesAt
  <2>2. /\ Stamp(disk[s][a]) \in Int /\ Stamp(disk'[s][a]) \in Int
        /\ Stamp(disk[s][a]) <= Stamp(disk'[s][a])
        /\ Stamp(disk[s][a]) = Stamp(disk'[s][a]) => disk[s][a].ver = disk'[s][a].ver
    BY <2>1 DEF LayoutMoves
  <2>3. recorded[s][a] \in Nat /\ recorded[s][a] <= Stamp(disk[s][a])
    BY DEF DiskOK
  <2> QED BY <2>2, <2>3 DEF WouldSkip
<1>2. DiskOK'
  BY <1>1 DEF DiskOK, Moves
<1>3. SkipOK'
  <2> SUFFICES ASSUME NEW s \in Layouts, NEW a \in Artifacts, WouldSkip(s, a)', disk'[s][a].ver > 1
               PROVE  Stored(a)'
    BY Zenon DEF SkipOK
  <2>1. WouldSkip(s, a) /\ disk[s][a].ver > 1
    BY <1>1
  <2>2. Stored(a)
    BY <2>1 DEF SkipOK
  <2> QED BY <2>2 DEF StoredGrows
<1> QED BY <1>2, <1>3

LEMMA TablesStay == ASSUME UNCHANGED db PROVE StoredGrows
BY DEF db, StoredGrows, Stored

LEMMA OpenCodeStep ==
    ASSUME SkipInv, Moves, UNCHANGED <<recorded, db, pc, locals>>
    PROVE  SkipInv'
<1>1. DiskOK /\ TablesOK /\ SkipOK /\ Shape
  BY DEF SkipInv
<1>2. recorded' = recorded /\ usage' = usage /\ blocks' = blocks
  BY DEF db
<1>3. UNCHANGED <<pc, src, states, todo, stamps, got, pending>>
  BY DEF locals
<1>4. StoredGrows
  BY TablesStay
<1>5. DiskOK' /\ SkipOK'
  BY <1>1, <1>2, <1>4, SkipKept
<1>6. TablesOK' /\ Shape'
  BY <1>1, <1>2, <1>3 DEF TablesOK, Shape
<1>7. \A q \in Ingesters : PlaceOK(q)' /\ LocalsOK(q)' /\ ReadOK(q)'
  <2> TAKE q \in Ingesters
  <2>1. PlaceOK(q) /\ LocalsOK(q) /\ ReadOK(q)
    BY DEF SkipInv
  <2>2. SameLocals(q)
    BY <1>3 DEF SameLocals
  <2> QED BY <1>1, <1>4, <2>1, <2>2, RunKept
<1> QED BY <1>5, <1>6, <1>7 DEF SkipInv

\* A step of run p that reads or writes the tables, but not the records.
LEMMA RunStep ==
    ASSUME SkipInv, NEW p \in Ingesters, disk' = disk, recorded' = recorded,
           StoredGrows, TablesOK', Shape',
           \A q \in Ingesters \ {p} : SameLocals(q),
           PlaceOK(p)', LocalsOK(p)', ReadOK(p)'
    PROVE  SkipInv'
<1>1. DiskOK /\ SkipOK
  BY DEF SkipInv
<1>2. Moves
  BY <1>1, DiskStays
<1>3. DiskOK' /\ SkipOK'
  BY <1>1, <1>2, SkipKept
<1>4. \A q \in Ingesters \ {p} : PlaceOK(q)' /\ LocalsOK(q)' /\ ReadOK(q)'
  <2> TAKE q \in Ingesters \ {p}
  <2>1. PlaceOK(q) /\ LocalsOK(q) /\ ReadOK(q)
    BY DEF SkipInv
  <2> QED BY <1>1, <1>2, <2>1, RunKept
<1> QED BY <1>3, <1>4 DEF SkipInv

\* What a run knows of itself, in short.
LEMMA OwnFacts ==
    ASSUME SkipInv, NEW p \in Ingesters
    PROVE  /\ PlaceOK(p) /\ LocalsOK(p) /\ ReadOK(p) /\ Shape /\ TablesOK
           /\ \A a \in Artifacts : /\ Disk(p, a) \in Contents
                                   /\ Disk(p, a).ver \in Nat /\ Stamp(Disk(p, a)) \in Int
<1>1. PlaceOK(p) /\ LocalsOK(p) /\ ReadOK(p) /\ DiskOK /\ Shape /\ TablesOK
  BY DEF SkipInv
<1>2. Layout(p) \in Layouts
  BY <1>1, LayoutIn
<1>3. \A a \in Artifacts : Disk(p, a) \in Contents
  BY <1>1, <1>2 DEF Disk, DiskOK
<1> QED BY <1>1, <1>3, StampFacts

LEMMA SamePlace ==
    ASSUME NEW p, disk' = disk, src'[p] = src[p]
    PROVE  Layout(p)' = Layout(p) /\ \A a : Disk(p, a)' = Disk(p, a)
BY DEF Layout, Disk

LEMMA OpenStep == ASSUME SkipInv, NEW p \in Ingesters, OpenLayout(p) PROVE SkipInv'
<1>0. PlaceOK(p) /\ LocalsOK(p) /\ ReadOK(p) /\ Shape /\ TablesOK
  BY OwnFacts
<1>1. /\ pc[p] = "idle" /\ pc' = [pc EXCEPT ![p] = "messages"]
      /\ todo' = [todo EXCEPT ![p] = Present(p, Messages)]
      /\ UNCHANGED <<disk, recorded, usage, blocks, src, stamps, got, pending>>
  BY DEF OpenLayout, Goto, db
<1>2. DOMAIN states' = Ingesters
  BY <1>0, Zenon DEF OpenLayout, Shape
<1>3. Shape'
  BY <1>0, <1>1, <1>2 DEF Shape, Phases
<1>4. StoredGrows /\ TablesOK'
  BY <1>0, <1>1, TablesStay DEF db, TablesOK
<1>5. pc'[p] = "messages" /\ todo'[p] = Present(p, Messages)
  BY <1>0, <1>1 DEF Shape
<1>6. DOMAIN stamps[p] = {}
  BY <1>0, <1>1 DEF PlaceOK
<1>7. PlaceOK(p)'
  BY <1>0, <1>1, <1>5, <1>6 DEF PlaceOK, Phases, Present, Artifacts
<1>8. \A a : Disk(p, a)' = Disk(p, a)
  BY <1>1, SamePlace
<1>9. LocalsOK(p)'
  BY <1>0, <1>1, <1>5, <1>6, <1>8 DEF LocalsOK, Present, Disk
<1>10. ReadOK(p)'
  BY <1>1, <1>5, <1>6 DEF ReadOK
<1>11. \A q \in Ingesters \ {p} : SameLocals(q)
  BY <1>0, <1>1 DEF SameLocals, Shape
<1> QED BY <1>1, <1>3, <1>4, <1>7, <1>9, <1>10, <1>11, RunStep

LEMMA LookStep ==
    ASSUME SkipInv, NEW p \in Ingesters, NEW a, NEW phase, Look(p, a, phase),
           \/ phase = "messages" /\ a \in Messages
           \/ phase = "parts" /\ a \in Parts
    PROVE  SkipInv'
<1>0. /\ PlaceOK(p) /\ LocalsOK(p) /\ ReadOK(p) /\ Shape /\ TablesOK
      /\ \A b \in Artifacts : Disk(p, b) \in Contents /\ Stamp(Disk(p, b)) \in Int
  BY OwnFacts
<1> DEFINE stamp == Stamp(Disk(p, a))
<1>1. /\ pc[p] = phase /\ a \in todo[p] /\ a \notin DOMAIN stamps[p]
      /\ UNCHANGED <<disk, recorded, usage, blocks, pc, src, states, got, pending>>
  BY DEF Look, db
<1>2. \/ todo' = [todo EXCEPT ![p] = @ \ {a}] /\ stamps' = stamps
      \/ stamps' = [stamps EXCEPT ![p] = Put(@, a, stamp)] /\ todo' = todo
  BY Zenon DEF Look, Disk
<1>3. a \in Artifacts /\ (a \in Messages \/ a \in Parts)
  BY DEF Artifacts
<1>4. stamp \in Nat
  <2>1. Disk(p, a).ver > 0 /\ Disk(p, a) \in Contents
    BY <1>0, <1>1, <1>3 DEF LocalsOK
  <2> QED BY <2>1, StampFacts
<1> HIDE DEF stamp
<1>5. StoredGrows /\ TablesOK'
  BY <1>0, <1>1, TablesStay DEF db, TablesOK
<1>6. \A q \in Ingesters \ {p} : SameLocals(q)
  BY <1>0, <1>1, <1>2 DEF SameLocals, Shape
<1>7. Shape'
  BY <1>0, <1>1, <1>2 DEF Shape
<1>8. \A b : Disk(p, b)' = Disk(p, b)
  BY <1>1, SamePlace
<1>9. CASE todo' = [todo EXCEPT ![p] = @ \ {a}] /\ stamps' = stamps
  <2>1. todo'[p] = todo[p] \ {a}
    BY <1>0, <1>9 DEF Shape
  <2>2. PlaceOK(p)'
    BY <1>0, <1>1, <1>9, <2>1 DEF PlaceOK
  <2>3. LocalsOK(p)'
    BY <1>0, <1>1, <1>8, <1>9, <2>1 DEF LocalsOK
  <2>4. \A b : Fresh(p, b)' <=> Fresh(p, b)
    BY <1>8, <1>9 DEF Fresh
  <2>5. ReadOK(p)'
    <3>1. pc[p] # "record"
      BY <1>1
    <3> QED BY <1>0, <1>1, <1>8, <1>9, <2>1, <2>4, <3>1 DEF ReadOK
  <2> QED BY <1>1, <1>5, <1>6, <1>7, <2>2, <2>3, <2>5, RunStep
<1>10. CASE stamps' = [stamps EXCEPT ![p] = Put(@, a, stamp)] /\ todo' = todo
  <2>1. stamps'[p] = Put(stamps[p], a, stamp)
    BY <1>0, <1>10 DEF Shape
  <2>2. /\ DOMAIN stamps'[p] = DOMAIN stamps[p] \cup {a}
        /\ stamps'[p][a] = stamp
        /\ \A b \in DOMAIN stamps[p] : stamps'[p][b] = stamps[p][b]
    BY <1>1, <2>1 DEF Put
  <2>3. PlaceOK(p)'
    BY <1>0, <1>1, <1>10, <2>2 DEF PlaceOK
  <2>4. LocalsOK(p)'
    <3>1. ASSUME NEW b \in DOMAIN stamps'[p]
          PROVE  b \in Artifacts /\ stamps'[p][b] \in Nat /\ stamps'[p][b] <= Stamp(Disk(p, b))
      <4>1. CASE b = a
        BY <1>3, <1>4, <2>2, <4>1 DEF stamp
      <4>2. CASE b \in DOMAIN stamps[p]
        BY <1>0, <2>2, <4>2 DEF LocalsOK
      <4> QED BY <2>2, <4>1, <4>2
    <3> QED BY <1>0, <1>1, <1>8, <1>10, <3>1 DEF LocalsOK
  <2>5. \A b \in DOMAIN stamps[p] : Fresh(p, b)' <=> Fresh(p, b)
    BY <1>8, <2>2 DEF Fresh
  <2>6. ReadOK(p)'
    <3>1. pc[p] # "record"
      BY <1>1
    <3>2. \A b : b \in DOMAIN stamps'[p] \ todo[p] => b \in DOMAIN stamps[p] \ todo[p]
      BY <1>1, <2>2
    <3> QED BY <1>0, <1>1, <1>8, <1>10, <2>5, <3>1, <3>2 DEF ReadOK
  <2> QED BY <1>1, <1>5, <1>6, <1>7, <2>3, <2>4, <2>6, RunStep
<1> QED BY <1>2, <1>9, <1>10

\* A stamp that a parse error drops.
LEMMA DropFacts ==
    ASSUME Shape, NEW p \in Ingesters, NEW a,
           stamps' = [stamps EXCEPT ![p] = [b \in DOMAIN @ \ {a} |-> @[b]]]
    PROVE  /\ DOMAIN stamps'[p] = DOMAIN stamps[p] \ {a}
           /\ \A b \in DOMAIN stamps'[p] : stamps'[p][b] = stamps[p][b]
           /\ DOMAIN stamps' = Ingesters
           /\ \A q \in Ingesters \ {p} : stamps'[q] = stamps[q]
<1>1. stamps'[p] = [b \in DOMAIN stamps[p] \ {a} |-> stamps[p][b]]
  BY DEF Shape
<1>2. DOMAIN stamps' = Ingesters /\ \A q \in Ingesters \ {p} : stamps'[q] = stamps[q]
  BY DEF Shape
<1> QED BY <1>1, <1>2

\* An artifact leaves the list, read or not.
LEMMA ReadMessageStep ==
    ASSUME OpenCodeAssumption, SkipInv, NEW p \in Ingesters, NEW m \in Messages, ReadMessage(p, m)
    PROVE  SkipInv'
<1>0. /\ PlaceOK(p) /\ LocalsOK(p) /\ ReadOK(p) /\ Shape /\ TablesOK
      /\ \A b \in Artifacts : Disk(p, b) \in Contents /\ Disk(p, b).ver \in Nat
  BY OwnFacts
<1>1. /\ pc[p] = "messages" /\ m \in todo[p] /\ m \in DOMAIN stamps[p]
      /\ todo' = [todo EXCEPT ![p] = @ \ {m}]
      /\ UNCHANGED <<disk, recorded, usage, blocks, pc, src, states, pending>>
  BY DEF ReadMessage, db
<1>2. \/ ParseFailed(p, m) /\ got' = got
      \/ got' = [got EXCEPT ![p] = Put(@, m, Disk(p, m).ver)] /\ stamps' = stamps
  BY Zenon DEF ReadMessage, Disk
<1>3. todo'[p] = todo[p] \ {m}
  BY <1>0, <1>1 DEF Shape
<1>4. StoredGrows /\ TablesOK'
  BY <1>0, <1>1, TablesStay DEF db, TablesOK
<1>5. \A b : Disk(p, b)' = Disk(p, b)
  BY <1>1, SamePlace
<1>6. m \in Artifacts /\ m \notin Parts
  BY DEF Artifacts, OpenCodeAssumption
<1>7. Disk(p, m).ver \in Nat \ {0}
  BY <1>0, <1>1, <1>6 DEF LocalsOK
<1>8. CASE ParseFailed(p, m) /\ got' = got
  <2>1. /\ DOMAIN stamps'[p] = DOMAIN stamps[p] \ {m}
        /\ \A b \in DOMAIN stamps'[p] : stamps'[p][b] = stamps[p][b]
        /\ DOMAIN stamps' = Ingesters
        /\ \A q \in Ingesters \ {p} : stamps'[q] = stamps[q]
    BY <1>0, <1>8, DropFacts DEF ParseFailed
  <2>2. Shape'
    BY <1>0, <1>1, <1>8, <2>1 DEF Shape
  <2>3. \A q \in Ingesters \ {p} : SameLocals(q)
    BY <1>0, <1>1, <1>8, <2>1 DEF SameLocals, Shape
  <2>4. PlaceOK(p)'
    BY <1>0, <1>1, <1>3, <2>1 DEF PlaceOK
  <2>5. LocalsOK(p)'
    BY <1>0, <1>1, <1>3, <1>5, <1>8, <2>1 DEF LocalsOK
  <2>6. \A b \in DOMAIN stamps'[p] : Fresh(p, b)' <=> Fresh(p, b)
    BY <1>5, <2>1 DEF Fresh
  <2>7. ReadOK(p)'
    <3>1. \A b : b \in DOMAIN stamps'[p] \ todo'[p] => b \in DOMAIN stamps[p] \ todo[p]
      BY <1>3, <2>1
    <3>2. pc'[p] # "record"
      BY <1>1
    <3> QED BY <1>0, <1>1, <1>5, <1>8, <2>6, <3>1, <3>2 DEF ReadOK
  <2> QED BY <1>1, <1>4, <2>2, <2>3, <2>4, <2>5, <2>7, RunStep
<1>9. CASE got' = [got EXCEPT ![p] = Put(@, m, Disk(p, m).ver)] /\ stamps' = stamps
  <2>1. got'[p] = Put(got[p], m, Disk(p, m).ver)
    BY <1>0, <1>9 DEF Shape
  <2>2. /\ DOMAIN got'[p] = DOMAIN got[p] \cup {m} /\ got'[p][m] = Disk(p, m).ver
        /\ \A b \in DOMAIN got[p] : b # m => got'[p][b] = got[p][b]
    BY <2>1 DEF Put
  <2>3. Shape'
    BY <1>0, <1>1, <1>9 DEF Shape
  <2>4. \A q \in Ingesters \ {p} : SameLocals(q)
    BY <1>0, <1>1, <1>9 DEF SameLocals, Shape
  <2>5. PlaceOK(p)'
    BY <1>0, <1>1, <1>3, <1>9 DEF PlaceOK
  <2>6. LocalsOK(p)'
    <3>1. \A n \in DOMAIN got'[p] : n \in Messages /\ got'[p][n] \in Nat \ {0}
      BY <1>0, <1>7, <2>2 DEF LocalsOK
    <3> QED BY <1>0, <1>1, <1>3, <1>5, <1>9, <3>1 DEF LocalsOK
  <2>7. \A b : Fresh(p, b)' <=> Fresh(p, b)
    BY <1>5, <1>9 DEF Fresh
  <2>8. ReadOK(p)'
    <3>1. ASSUME NEW n \in Messages, n \in DOMAIN stamps[p] \ todo'[p], Fresh(p, n)
          PROVE  n \in DOMAIN got'[p] /\ got'[p][n] = Disk(p, n).ver
      <4>1. CASE n = m
        BY <2>2, <4>1
      <4>2. CASE n # m
        <5>1. n \in DOMAIN got[p] /\ got[p][n] = Disk(p, n).ver
          BY <1>0, <1>3, <3>1, <4>2 DEF ReadOK
        <5> QED BY <2>2, <4>2, <5>1
      <4> QED BY <4>1, <4>2
    <3>2. ASSUME NEW t \in Parts, t \in DOMAIN stamps[p] \ todo'[p], Fresh(p, t)
          PROVE  t \in DOMAIN pending[p]
      BY <1>0, <1>3, <1>6, <3>2 DEF ReadOK
    <3>3. pc'[p] # "record"
      BY <1>1
    <3> QED BY <1>1, <1>5, <1>9, <2>7, <3>1, <3>2, <3>3 DEF ReadOK
  <2> QED BY <1>1, <1>4, <2>3, <2>4, <2>5, <2>6, <2>8, RunStep
<1> QED BY <1>2, <1>8, <1>9

LEMMA ListStep ==
    ASSUME OpenCodeAssumption, SkipInv, NEW p \in Ingesters, ListParts(p) PROVE SkipInv'
<1>0. PlaceOK(p) /\ LocalsOK(p) /\ ReadOK(p) /\ Shape /\ TablesOK
  BY OwnFacts
<1>1. /\ pc[p] = "messages" /\ pc' = [pc EXCEPT ![p] = "parts"] /\ todo[p] = {}
      /\ todo' = [todo EXCEPT ![p] = Present(p, Parts)]
      /\ UNCHANGED <<disk, recorded, usage, blocks, src, states, stamps, got, pending>>
  BY DEF ListParts, Goto, db
<1>2. Shape'
  BY <1>0, <1>1 DEF Shape, Phases
<1>3. StoredGrows /\ TablesOK'
  BY <1>0, <1>1, TablesStay DEF db, TablesOK
<1>4. pc'[p] = "parts" /\ todo'[p] = Present(p, Parts)
  BY <1>0, <1>1 DEF Shape
<1>5. DOMAIN stamps[p] \subseteq Messages /\ Messages \cap Parts = {}
  BY <1>0, <1>1 DEF PlaceOK, OpenCodeAssumption
<1>6. PlaceOK(p)'
  BY <1>0, <1>1, <1>4 DEF PlaceOK, Phases, Present, Artifacts
<1>7. \A a : Disk(p, a)' = Disk(p, a)
  BY <1>1, SamePlace
<1>8. LocalsOK(p)'
  <2>1. \A a \in todo'[p] : Disk(p, a).ver > 0
    BY <1>4 DEF Present, Disk
  <2> QED BY <1>0, <1>1, <1>7, <2>1 DEF LocalsOK
<1>9. ReadOK(p)'
  <2>1. \A a : Fresh(p, a)' <=> Fresh(p, a)
    BY <1>1, <1>7 DEF Fresh
  <2> QED BY <1>0, <1>1, <1>4, <1>5, <1>7, <2>1 DEF ReadOK
<1>10. \A q \in Ingesters \ {p} : SameLocals(q)
  BY <1>0, <1>1 DEF SameLocals, Shape
<1> QED BY <1>1, <1>2, <1>3, <1>6, <1>8, <1>9, <1>10, RunStep

LEMMA ReadPartStep ==
    ASSUME OpenCodeAssumption, SkipInv, NEW p \in Ingesters, NEW t \in Parts, ReadPart(p, t)
    PROVE  SkipInv'
<1>0. /\ PlaceOK(p) /\ LocalsOK(p) /\ ReadOK(p) /\ Shape /\ TablesOK
      /\ \A b \in Artifacts : Disk(p, b) \in Contents /\ Disk(p, b).ver \in Nat
  BY OwnFacts
<1> DEFINE c == Disk(p, t)
           new == [ver |-> c.ver, kind |-> Kind(RoleFor(p, t))]
<1>1. /\ pc[p] = "parts" /\ t \in todo[p] /\ t \in DOMAIN stamps[p]
      /\ todo' = [todo EXCEPT ![p] = @ \ {t}]
      /\ UNCHANGED <<disk, recorded, usage, blocks, pc, src, states, got>>
  BY DEF ReadPart, db
<1>2. /\ IF c.torn THEN ParseFailed(p, t) ELSE stamps' = stamps
      /\ IF c.torn \/ c.ver = 1 THEN pending' = pending
         ELSE pending' = [pending EXCEPT ![p] = Put(@, t, new)]
  BY Zenon DEF ReadPart, Disk
<1>3. todo'[p] = todo[p] \ {t}
  BY <1>0, <1>1 DEF Shape
<1>4. StoredGrows /\ TablesOK'
  BY <1>0, <1>1, TablesStay DEF db, TablesOK
<1>5. \A b : Disk(p, b)' = Disk(p, b)
  BY <1>1, SamePlace
<1>6. t \in Artifacts /\ t \notin Messages
  BY DEF Artifacts, OpenCodeAssumption
<1>7. c.ver \in Nat \ {0}
  BY <1>0, <1>1, <1>6 DEF LocalsOK
<1> DEFINE torn == c.torn
<1>8. CASE torn
  <2>0. ParseFailed(p, t) /\ pending' = pending
    BY <1>2, <1>8, Zenon
  <2>1. /\ DOMAIN stamps'[p] = DOMAIN stamps[p] \ {t}
        /\ \A b \in DOMAIN stamps'[p] : stamps'[p][b] = stamps[p][b]
        /\ DOMAIN stamps' = Ingesters
        /\ \A q \in Ingesters \ {p} : stamps'[q] = stamps[q]
    BY <1>0, <2>0, DropFacts DEF ParseFailed
  <2>2. Shape'
    BY <1>0, <1>1, <2>0, <2>1 DEF Shape
  <2>3. \A q \in Ingesters \ {p} : SameLocals(q)
    BY <1>0, <1>1, <2>0, <2>1 DEF SameLocals, Shape
  <2>4. PlaceOK(p)'
    BY <1>0, <1>1, <1>3, <2>1 DEF PlaceOK
  <2>5. LocalsOK(p)'
    BY <1>0, <1>1, <1>3, <1>5, <2>0, <2>1 DEF LocalsOK
  <2>6. \A b \in DOMAIN stamps'[p] : Fresh(p, b)' <=> Fresh(p, b)
    BY <1>5, <2>1 DEF Fresh
  <2>7. ReadOK(p)'
    <3>1. \A b : b \in DOMAIN stamps'[p] \ todo'[p] => b \in DOMAIN stamps[p] \ todo[p]
      BY <1>3, <2>1
    <3>2. pc'[p] # "record"
      BY <1>1
    <3> QED BY <1>0, <1>1, <1>5, <2>0, <2>6, <3>1, <3>2 DEF ReadOK
  <2> QED BY <1>1, <1>4, <2>2, <2>3, <2>4, <2>5, <2>7, RunStep
<1>9. CASE ~torn
  <2>0. /\ stamps' = stamps
        /\ \/ c.ver = 1 /\ pending' = pending
           \/ pending' = [pending EXCEPT ![p] = Put(@, t, new)]
    BY <1>2, <1>9, Zenon
  <2>1. /\ DOMAIN pending' = Ingesters /\ \A q \in Ingesters \ {p} : pending'[q] = pending[q]
        /\ \/ c.ver = 1 /\ pending'[p] = pending[p]
           \/ pending'[p] = Put(pending[p], t, new)
    BY <1>0, <2>0 DEF Shape
  <2> HIDE DEF new
  <2>2. /\ DOMAIN pending[p] \subseteq DOMAIN pending'[p]
        /\ c.ver > 1 => t \in DOMAIN pending'[p]
        /\ \A u \in DOMAIN pending'[p] :
              \/ u \in DOMAIN pending[p] /\ pending'[p][u] = pending[p][u]
              \/ u = t /\ pending'[p][u] = new
    <3>1. CASE c.ver = 1 /\ pending'[p] = pending[p]
      BY <3>1
    <3>2. CASE pending'[p] = Put(pending[p], t, new)
      <4>1. pending'[p] = [u \in DOMAIN pending[p] \cup {t} |-> IF u = t THEN new ELSE pending[p][u]]
        BY <3>2 DEF Put
      <4>2. DOMAIN pending'[p] = DOMAIN pending[p] \cup {t}
        BY <4>1
      <4>3. \A u \in DOMAIN pending'[p] : pending'[p][u] = IF u = t THEN new ELSE pending[p][u]
        BY <4>1, <4>2, Zenon
      <4>4. ASSUME NEW u \in DOMAIN pending'[p]
            PROVE  \/ u \in DOMAIN pending[p] /\ pending'[p][u] = pending[p][u]
                   \/ u = t /\ pending'[p][u] = new
        BY <4>2, <4>3
      <4> QED BY <4>2, <4>4
    <3> QED BY <2>1, <3>1, <3>2
  <2>3. Shape'
    BY <1>0, <1>1, <2>0, <2>1 DEF Shape
  <2>4. \A q \in Ingesters \ {p} : SameLocals(q)
    BY <1>0, <1>1, <2>0, <2>1 DEF SameLocals, Shape
  <2>5. PlaceOK(p)'
    BY <1>0, <1>1, <1>3, <2>0 DEF PlaceOK
  <2>6. LocalsOK(p)'
    <3>1. new.ver = c.ver
      BY DEF new
    <3>2. \A u \in DOMAIN pending'[p] : pending'[p][u].ver \in Nat \ {0}
      BY <1>0, <1>7, <2>2, <3>1 DEF LocalsOK
    <3> QED BY <1>0, <1>1, <1>3, <1>5, <2>0, <3>2 DEF LocalsOK
  <2>7. \A b : Fresh(p, b)' <=> Fresh(p, b)
    BY <1>5, <2>0 DEF Fresh
  <2>8. ReadOK(p)'
    <3>1. ASSUME NEW u \in Parts, u \in DOMAIN stamps[p] \ todo'[p], Fresh(p, u)
          PROVE  u \in DOMAIN pending'[p]
      <4>1. CASE u = t
        BY <2>2, <3>1, <4>1 DEF Fresh
      <4>2. CASE u # t
        BY <1>0, <1>3, <2>2, <3>1, <4>2 DEF ReadOK
      <4> QED BY <4>1, <4>2
    <3>2. ASSUME NEW m \in Messages, m \in DOMAIN stamps[p] \ todo'[p], Fresh(p, m)
          PROVE  m \in DOMAIN got[p] /\ got[p][m] = Disk(p, m).ver
      BY <1>0, <1>3, <1>6, <3>2 DEF ReadOK
    <3>3. pc'[p] # "record"
      BY <1>1
    <3> QED BY <1>1, <1>5, <2>0, <2>7, <3>1, <3>2, <3>3 DEF ReadOK
  <2> QED BY <1>1, <1>4, <2>3, <2>4, <2>5, <2>6, <2>8, RunStep
<1> QED BY <1>8, <1>9

\* The commit stores what the run read, and leaves the rest.
LEMMA CommitTables ==
    ASSUME TablesOK, NEW p, LocalsOK(p), Commit(p), Messages \cap Parts = {}
    PROVE  /\ TablesOK' /\ StoredGrows
           /\ \A m \in Messages : m \in DOMAIN got[p] /\ Role[m] = "assistant" /\ got[p][m] > 1 =>
                 usage'[m] = got[p][m]
           /\ \A t \in DOMAIN pending[p] \cap Parts : blocks'[t].ver > 0
<1>1. /\ usage' = [m \in Messages |->
                     IF HasUsage(p, m) THEN UpsertRequest(usage[m], got[p][m]) ELSE usage[m]]
      /\ blocks' = [t \in Parts |-> IF t \in DOMAIN pending[p] THEN pending[p][t] ELSE blocks[t]]
  BY DEF Commit
<1>2. /\ \A m \in DOMAIN got[p] : m \in Messages /\ got[p][m] \in Nat \ {0}
      /\ \A t \in DOMAIN pending[p] : pending[p][t].ver \in Nat \ {0}
  BY DEF LocalsOK
<1>3. ASSUME NEW m \in Messages
      PROVE  /\ usage'[m] \in Nat
             /\ usage[m] > 0 => usage'[m] > 0
             /\ HasUsage(p, m) => usage'[m] = got[p][m]
  <2>1. usage[m] \in Nat
    BY DEF TablesOK
  <2>2. CASE HasUsage(p, m)
    <3>1. usage'[m] = got[p][m]
      BY <1>1, <2>2 DEF UpsertRequest
    <3>2. got[p][m] \in Nat /\ got[p][m] > 0
      BY <1>2, <2>2 DEF HasUsage
    <3> QED BY <2>2, <3>1, <3>2
  <2>3. CASE ~HasUsage(p, m)
    <3>1. usage'[m] = usage[m]
      BY <1>1, <2>3
    <3> QED BY <2>1, <2>3, <3>1
  <2> QED BY <2>2, <2>3
<1>4. ASSUME NEW t \in Parts
      PROVE  /\ blocks'[t].ver \in Nat
             /\ blocks[t].ver > 0 => blocks'[t].ver > 0
             /\ t \in DOMAIN pending[p] => blocks'[t].ver > 0
  <2>1. CASE t \in DOMAIN pending[p]
    <3>1. blocks'[t] = pending[p][t]
      BY <1>1, <2>1
    <3>2. pending[p][t].ver \in Nat /\ pending[p][t].ver > 0
      BY <1>2, <2>1
    <3> QED BY <2>1, <3>1, <3>2
  <2>2. CASE t \notin DOMAIN pending[p]
    <3>1. blocks'[t] = blocks[t]
      BY <1>1, <2>2
    <3>2. blocks[t].ver \in Nat
      BY DEF TablesOK
    <3> QED BY <2>2, <3>1, <3>2
  <2> QED BY <2>1, <2>2
<1>5. TablesOK'
  <2>1. DOMAIN usage' = Messages /\ usage' \in [Messages -> Nat]
    <3>1. usage' = [m \in Messages |-> usage'[m]]
      BY <1>1, Zenon
    <3> QED BY <1>3, <3>1
  <2>2. DOMAIN blocks' = Parts
    BY <1>1
  <2> QED BY <1>4, <2>1, <2>2 DEF TablesOK
<1>6. StoredGrows
  BY <1>3, <1>4 DEF StoredGrows, Stored
<1>7. \A m \in Messages : m \in DOMAIN got[p] /\ Role[m] = "assistant" /\ got[p][m] > 1 =>
         usage'[m] = got[p][m]
  BY <1>3 DEF HasUsage
<1> QED BY <1>4, <1>5, <1>6, <1>7

LEMMA CommitStep ==
    ASSUME OpenCodeAssumption, SkipInv, NEW p \in Ingesters, Commit(p) PROVE SkipInv'
<1>0. /\ PlaceOK(p) /\ LocalsOK(p) /\ ReadOK(p) /\ Shape /\ TablesOK
      /\ \A b \in Artifacts : Disk(p, b).ver \in Nat
  BY OwnFacts
<1>1. /\ pc[p] = "parts" /\ pc' = [pc EXCEPT ![p] = "record"] /\ todo[p] = {}
      /\ UNCHANGED <<disk, recorded, src, states, todo, stamps, got, pending>>
  BY DEF Commit, Goto, locals
<1>2. /\ TablesOK' /\ StoredGrows
      /\ \A m \in Messages : m \in DOMAIN got[p] /\ Role[m] = "assistant" /\ got[p][m] > 1 =>
            usage'[m] = got[p][m]
      /\ \A t \in DOMAIN pending[p] \cap Parts : blocks'[t].ver > 0
  BY <1>0, CommitTables DEF OpenCodeAssumption
<1>3. Shape'
  BY <1>0, <1>1 DEF Shape, Phases
<1>4. pc'[p] = "record"
  BY <1>0, <1>1 DEF Shape
<1>5. PlaceOK(p)'
  BY <1>0, <1>1, <1>4 DEF PlaceOK, Phases
<1>6. \A a : Disk(p, a)' = Disk(p, a)
  BY <1>1, SamePlace
<1>7. LocalsOK(p)'
  BY <1>0, <1>1, <1>6 DEF LocalsOK
<1>8. \A a : Fresh(p, a)' <=> Fresh(p, a)
  BY <1>1, <1>6 DEF Fresh
<1>9. ASSUME NEW a \in DOMAIN stamps[p], Fresh(p, a)
      PROVE  Stored(a)'
  <2>1. ASSUME a \in Messages, Role[a] = "assistant" PROVE usage'[a] > 0
    <3>1. a \in DOMAIN got[p] /\ got[p][a] = Disk(p, a).ver
      BY <1>0, <1>1, <1>9, <2>1 DEF ReadOK
    <3>2. got[p][a] > 1 /\ got[p][a] \in Nat
      BY <1>0, <1>9, <2>1, <3>1 DEF Fresh, Artifacts
    <3> QED BY <1>2, <2>1, <3>1, <3>2
  <2>2. ASSUME a \in Parts PROVE blocks'[a].ver > 0
    <3>1. a \in DOMAIN pending[p]
      BY <1>0, <1>1, <1>9, <2>2 DEF ReadOK
    <3> QED BY <1>2, <2>2, <3>1
  <2> QED BY <2>1, <2>2 DEF Stored
<1>10. ReadOK(p)'
  BY <1>0, <1>1, <1>6, <1>8, <1>9 DEF ReadOK
<1>11. \A q \in Ingesters \ {p} : SameLocals(q)
  BY <1>0, <1>1 DEF SameLocals, Shape
<1> QED BY <1>1, <1>2, <1>3, <1>5, <1>7, <1>10, <1>11, RunStep

\* A record is written of what is stored.
LEMMA RecordStep ==
    ASSUME SkipInv, NEW p \in Ingesters, NEW a \in Artifacts, RecordFile(p, a) PROVE SkipInv'
<1>0. /\ PlaceOK(p) /\ LocalsOK(p) /\ ReadOK(p) /\ Shape /\ TablesOK
      /\ \A b \in Artifacts : Stamp(Disk(p, b)) \in Int
  BY OwnFacts
<1>d. DiskOK /\ SkipOK
  BY DEF SkipInv
<1> DEFINE s == Layout(p)
<1>1. /\ pc[p] = "record" /\ a \in DOMAIN stamps[p]
      /\ recorded' = [recorded EXCEPT ![s][a] = stamps[p][a]]
      /\ stamps' = [stamps EXCEPT ![p] = [b \in DOMAIN @ \ {a} |-> @[b]]]
      /\ UNCHANGED <<disk, usage, blocks, pc, src, states, todo, got, pending>>
  BY DEF RecordFile, db
<1>2. /\ DOMAIN stamps'[p] = DOMAIN stamps[p] \ {a}
      /\ \A b \in DOMAIN stamps'[p] : stamps'[p][b] = stamps[p][b]
      /\ DOMAIN stamps' = Ingesters
      /\ \A q \in Ingesters \ {p} : stamps'[q] = stamps[q]
  BY <1>0, <1>1, DropFacts
<1>3. s \in Layouts
  BY <1>0, LayoutIn
<1>4. StoredGrows /\ TablesOK' /\ Moves
  BY <1>0, <1>1, <1>d, TablesStay, DiskStays DEF db, TablesOK
<1>5. stamps[p][a] \in Nat /\ stamps[p][a] <= Stamp(disk[s][a])
  BY <1>0, <1>1 DEF LocalsOK, Disk
<1> HIDE DEF s
<1>6. /\ recorded' \in [Layouts -> [Artifacts -> Nat]]
      /\ recorded'[s][a] = stamps[p][a]
      /\ \A r \in Layouts, b \in Artifacts : ~(r = s /\ b = a) => recorded'[r][b] = recorded[r][b]
  <2>1. recorded \in [Layouts -> [Artifacts -> Nat]]
    BY <1>d DEF DiskOK
  <2> QED BY <1>1, <1>3, <1>5, <2>1
<1>7. DiskOK'
  <2>1. \A r \in Layouts, b \in Artifacts : recorded'[r][b] <= Stamp(disk[r][b])
    BY <1>5, <1>6, <1>d DEF DiskOK
  <2> QED BY <1>1, <1>6, <1>d, <2>1 DEF DiskOK
<1>8. SkipOK'
  <2> SUFFICES ASSUME NEW r \in Layouts, NEW b \in Artifacts, WouldSkip(r, b)', disk[r][b].ver > 1
               PROVE  Stored(b)
    BY <1>1, <1>4, Zenon DEF SkipOK, StoredGrows
  <2>1. CASE r = s /\ b = a
    <3>1. stamps[p][a] = Stamp(disk[s][a])
      BY <1>1, <1>6, <2>1 DEF WouldSkip
    <3>2. Fresh(p, a)
      BY <2>1, <3>1 DEF Fresh, Disk, s
    <3> QED BY <1>0, <1>1, <2>1, <3>2 DEF ReadOK
  <2>2. CASE ~(r = s /\ b = a)
    <3>1. WouldSkip(r, b)
      BY <1>1, <1>6, <2>2 DEF WouldSkip
    <3> QED BY <1>d, <3>1 DEF SkipOK
  <2> QED BY <2>1, <2>2
<1>9. Shape'
  BY <1>0, <1>1, <1>2 DEF Shape
<1>10. \A b : Disk(p, b)' = Disk(p, b)
  BY <1>1, SamePlace
<1>11. PlaceOK(p)'
  BY <1>0, <1>1, <1>2 DEF PlaceOK
<1>12. LocalsOK(p)'
  BY <1>0, <1>1, <1>2, <1>10 DEF LocalsOK
<1>13. \A b \in DOMAIN stamps'[p] : Fresh(p, b)' <=> Fresh(p, b)
  BY <1>2, <1>10 DEF Fresh
<1>14. ReadOK(p)'
  <2>1. \A b : Stored(b)' <=> Stored(b)
    BY <1>1 DEF Stored
  <2>2. DOMAIN stamps'[p] \subseteq DOMAIN stamps[p]
    BY <1>2
  <2> QED BY <1>0, <1>1, <1>10, <1>13, <2>1, <2>2 DEF ReadOK
<1>15. \A q \in Ingesters \ {p} : PlaceOK(q)' /\ LocalsOK(q)' /\ ReadOK(q)'
  <2> TAKE q \in Ingesters \ {p}
  <2>1. PlaceOK(q) /\ LocalsOK(q) /\ ReadOK(q)
    BY DEF SkipInv
  <2>2. SameLocals(q)
    BY <1>1, <1>2 DEF SameLocals
  <2> QED BY <1>4, <1>d, <2>1, <2>2, RunKept
<1> QED BY <1>4, <1>7, <1>8, <1>9, <1>11, <1>12, <1>14, <1>15 DEF SkipInv

\* The end of a layout or of a run leaves nothing behind.
LEMMA ForgetStep ==
    ASSUME OpenCodeAssumption, SkipInv, NEW p \in Ingesters, EndLayout(p) \/ Abort(p)
    PROVE  SkipInv'
<1>0. PlaceOK(p) /\ LocalsOK(p) /\ ReadOK(p) /\ Shape /\ TablesOK
  BY OwnFacts
<1>1. /\ pc' = [pc EXCEPT ![p] = "idle"]
      /\ UNCHANGED <<disk, recorded, usage, blocks>> /\ Forget(p)
  BY DEF EndLayout, Abort, Goto, db
<1>2. src' \in [Ingesters -> DOMAIN Sources] /\ \A q \in Ingesters \ {p} : src'[q] = src[q]
  <2>1. Sources \in Seq({"tree", "db"}) /\ Sources # <<>>
    BY DEF OpenCodeAssumption
  <2>2. src \in [Ingesters -> DOMAIN Sources] /\ 1 \in DOMAIN Sources
    BY <1>0, <2>1 DEF Shape
  <2>3. src[p] \in DOMAIN Sources /\ (src[p] # Len(Sources) => src[p] + 1 \in DOMAIN Sources)
    BY <2>1, <2>2
  <2>4. CASE EndLayout(p)
    BY <2>2, <2>3, <2>4 DEF EndLayout
  <2>5. CASE Abort(p)
    BY <2>2, <2>5 DEF Abort
  <2> QED BY <2>4, <2>5
<1>3. /\ DOMAIN todo' = Ingesters /\ DOMAIN stamps' = Ingesters /\ DOMAIN states' = Ingesters
      /\ DOMAIN got' = Ingesters /\ DOMAIN pending' = Ingesters
      /\ todo'[p] = {} /\ stamps'[p] = Nothing /\ got'[p] = Nothing /\ pending'[p] = Nothing
      /\ pc'[p] = "idle" /\ pc' \in [Ingesters -> Phases]
  BY <1>0, <1>1 DEF Shape, Forget, Phases
<1>4. Shape'
  BY <1>2, <1>3 DEF Shape
<1>5. StoredGrows /\ TablesOK'
  BY <1>0, <1>1, TablesStay DEF db, TablesOK
<1>6. DOMAIN Nothing = {}
  BY DEF Nothing
<1>7. PlaceOK(p)'
  BY <1>2, <1>3, <1>6 DEF PlaceOK, Phases
<1>8. LocalsOK(p)' /\ ReadOK(p)'
  BY <1>3, <1>6 DEF LocalsOK, ReadOK
<1>9. \A q \in Ingesters \ {p} : SameLocals(q)
  <2> TAKE q \in Ingesters \ {p}
  <2> QED BY <1>0, <1>1, <1>2 DEF SameLocals, Shape, Forget
<1> QED BY <1>1, <1>4, <1>5, <1>7, <1>8, <1>9, RunStep

LEMMA SkipInit == ASSUME OpenCodeAssumption, Init PROVE SkipInv
<1>1. Sources \in Seq({"tree", "db"}) /\ Sources # <<>> /\ 1 \in DOMAIN Sources
  BY DEF OpenCodeAssumption
<1> DEFINE absent == [ver |-> 0, torn |-> FALSE]
<1>2. absent \in Contents /\ Stamp(absent) = 0 /\ absent.ver = 0 /\ ~absent.torn
  <2>1. absent \in Contents /\ absent.ver = 0 /\ ~absent.torn
    BY DEF Contents
  <2>2. Stamp(absent) = 2 * absent.ver
    BY <2>1, StampFacts
  <2> QED BY <2>1, <2>2
<1> HIDE DEF absent
<1>3. disk = [s \in Layouts |-> [a \in Artifacts |-> absent]]
  BY DEF Init, absent
<1>4. recorded = [s \in Layouts |-> [a \in Artifacts |-> 0]]
  BY DEF Init
<1>5. DiskOK
  BY <1>2, <1>3, <1>4 DEF DiskOK
<1>6. SkipOK
  BY <1>4 DEF SkipOK, WouldSkip
<1>7. TablesOK
  BY DEF Init, TablesOK, NoBlock
<1>8. Shape
  BY <1>1 DEF Init, Shape, Phases
<1>9. ASSUME NEW p \in Ingesters PROVE PlaceOK(p) /\ LocalsOK(p) /\ ReadOK(p)
  <2>1. pc[p] = "idle" /\ src[p] = 1 /\ todo[p] = {}
        /\ DOMAIN stamps[p] = {} /\ DOMAIN got[p] = {} /\ DOMAIN pending[p] = {}
    BY DEF Init, Nothing
  <2> QED BY <1>1, <2>1 DEF PlaceOK, LocalsOK, ReadOK, Phases
<1> QED BY <1>5, <1>6, <1>7, <1>8, <1>9 DEF SkipInv

LEMMA SkipStep == ASSUME OpenCodeAssumption, SkipInv, [Next]_vars PROVE SkipInv'
<1>d. DiskOK
  BY DEF SkipInv
<1>1. ASSUME NEW a \in Artifacts, Rewrite(a) \/ FinishWrite(a) PROVE SkipInv'
  <2>1. Moves
    BY <1>1, <1>d, RewriteMoves, FinishMoves
  <2>2. UNCHANGED <<recorded, db, pc, locals>>
    BY <1>1 DEF Rewrite, FinishWrite
  <2> QED BY <2>1, <2>2, OpenCodeStep
<1>2. CASE Migrate
  <2>1. Moves
    BY <1>2, <1>d, MigrateMoves
  <2>2. UNCHANGED <<recorded, db, pc, locals>>
    BY <1>2 DEF Migrate
  <2> QED BY <2>1, <2>2, OpenCodeStep
<1>3. ASSUME NEW p \in Ingesters, Step(p) PROVE SkipInv'
  <2>1. CASE OpenLayout(p)
    BY <2>1, OpenStep
  <2>2. ASSUME NEW m \in Messages, Look(p, m, "messages") \/ ReadMessage(p, m) PROVE SkipInv'
    BY <2>2, LookStep, ReadMessageStep
  <2>3. CASE ListParts(p)
    BY <2>3, ListStep
  <2>4. ASSUME NEW t \in Parts, Look(p, t, "parts") \/ ReadPart(p, t) PROVE SkipInv'
    BY <2>4, LookStep, ReadPartStep
  <2>5. CASE Commit(p)
    BY <2>5, CommitStep
  <2>6. ASSUME NEW a \in Artifacts, RecordFile(p, a) PROVE SkipInv'
    BY <2>6, RecordStep
  <2>7. CASE EndLayout(p)
    BY <2>7, ForgetStep
  <2> QED BY <1>3, <2>1, <2>2, <2>3, <2>4, <2>5, <2>6, <2>7 DEF Step
<1>4. ASSUME NEW p \in Ingesters, Abort(p) PROVE SkipInv'
  BY <1>4, ForgetStep
<1>5. CASE UNCHANGED vars
  <2>1. UNCHANGED <<disk, recorded, db, pc, locals>>
    BY <1>5 DEF vars
  <2>2. Moves
    BY <1>d, <2>1, DiskStays
  <2> QED BY <2>1, <2>2, OpenCodeStep
<1> QED BY <1>1, <1>2, <1>3, <1>4, <1>5 DEF Next

LEMMA SkipInvHolds == ASSUME OpenCodeAssumption PROVE Spec => []SkipInv
<1>1. Init => SkipInv
  BY OpenCodeAssumption, SkipInit
<1>2. SkipInv /\ [Next]_vars => SkipInv'
  BY OpenCodeAssumption, SkipStep
<1> QED BY <1>1, <1>2, PTL DEF Spec

\* With any number of ingesters at once, whatever fails or is half written, an
\* artifact that the next run would pass over for its stamp is in the database
\* (runTree, runDB: stamps are taken before the read and recorded after the commit).
THEOREM SkipStoredHolds == Spec => []SkipStored
<1>1. SkipInv => SkipStored
  <2> SUFFICES ASSUME SkipOK PROVE SkipStored
    BY DEF SkipInv
  <2> QED BY DEF SkipOK, SkipStored, Stored, Artifacts
<1>2. Spec => []SkipInv
  BY OpenCodeAssumption, SkipInvHolds
<1> QED BY <1>1, <1>2, PTL

-----------------------------------------------------------------------------
(***************************************************************************)
(* One ingester.  Of two, the slower may commit an earlier version over    *)
(* the one that the faster has recorded, until its own run or the next.    *)
(***************************************************************************)
SingleIngester == \A p, q \in Ingesters : p = q

\* What a stamp or a record says of an artifact that moved, it said before.
LEMMA RecordBack ==
    ASSUME DiskOK, Moves, recorded' = recorded, NEW s \in Layouts, NEW a \in Artifacts,
           WouldSkip(s, a)'
    PROVE  WouldSkip(s, a) /\ disk'[s][a].ver = disk[s][a].ver
<1>1. LayoutMoves(s)
  BY MovesAt
<1>2. /\ Stamp(disk[s][a]) \in Int /\ Stamp(disk'[s][a]) \in Int
      /\ Stamp(disk[s][a]) <= Stamp(disk'[s][a])
      /\ Stamp(disk[s][a]) = Stamp(disk'[s][a]) => disk[s][a].ver = disk'[s][a].ver
  BY <1>1 DEF LayoutMoves
<1>3. recorded[s][a] \in Nat /\ recorded[s][a] <= Stamp(disk[s][a])
  BY DEF DiskOK
<1> QED BY <1>2, <1>3 DEF WouldSkip

LEMMA StampBack ==
    ASSUME DiskOK, Moves, NEW p, PlaceOK(p), LocalsOK(p), SameLocals(p),
           NEW a \in DOMAIN stamps[p], Fresh(p, a)'
    PROVE  Fresh(p, a) /\ Disk(p, a)'.ver = Disk(p, a).ver
<1> DEFINE s == Layout(p)
<1>1. s \in Layouts /\ Layout(p)' = s
  BY LayoutIn DEF Layout, SameLocals
<1>2. LayoutMoves(s)
  BY <1>1, MovesAt
<1> HIDE DEF s
<1>3. Disk(p, a) = disk[s][a] /\ Disk(p, a)' = disk'[s][a]
  BY <1>1 DEF Disk, s
<1>4. a \in Artifacts /\ stamps[p][a] \in Nat /\ stamps[p][a] <= Stamp(disk[s][a])
  BY <1>3 DEF LocalsOK
<1>5. /\ Stamp(disk[s][a]) \in Int /\ Stamp(disk'[s][a]) \in Int
      /\ Stamp(disk[s][a]) <= Stamp(disk'[s][a])
      /\ Stamp(disk[s][a]) = Stamp(disk'[s][a]) => disk[s][a].ver = disk'[s][a].ver
  BY <1>2, <1>4 DEF LayoutMoves
<1>6. stamps[p][a] = Stamp(disk'[s][a]) /\ disk'[s][a].ver > 1
  BY <1>3 DEF Fresh, SameLocals
<1>7. Stamp(disk[s][a]) = Stamp(disk'[s][a])
  BY <1>4, <1>5, <1>6
<1> QED BY <1>3, <1>5, <1>6, <1>7 DEF Fresh

LEMMA SoleBack ==
    ASSUME DiskOK, Moves, NEW s, NEW m \in Messages, Sole(s, m)' PROVE Sole(s, m)
<1> SUFFICES ASSUME NEW r \in Layouts, disk[r][m].ver > 0 PROVE r = s
  BY DEF Sole
<1>1. LayoutMoves(r) /\ m \in Artifacts
  BY MovesAt DEF Artifacts
<1>2. disk'[r][m].ver > 0
  BY <1>1 DEF LayoutMoves
<1> QED BY <1>2 DEF Sole

LEMMA UsageOpenCode ==
    ASSUME UsageInv, Moves, UNCHANGED <<recorded, db, pc, locals>> PROVE UsageInv'
<1>1. DiskOK /\ SkipInv /\ SkipInv'
  BY OpenCodeStep DEF UsageInv, SkipInv
<1>2. UNCHANGED <<usage, pc, src, states, todo, stamps, got, pending>>
  BY DEF db, locals
<1>3. UsageCurrent'
  <2> SUFFICES ASSUME NEW s \in Layouts, NEW m \in Messages, WouldSkip(s, m)', Sole(s, m)',
                      Role[m] = "assistant", disk'[s][m].ver > 1
               PROVE  usage[m] = disk'[s][m].ver
    BY <1>2, Zenon DEF UsageCurrent
  <2>1. m \in Artifacts
    BY DEF Artifacts
  <2>2. WouldSkip(s, m) /\ disk'[s][m].ver = disk[s][m].ver
    BY <1>1, <2>1, RecordBack
  <2>3. Sole(s, m)
    BY <1>1, SoleBack
  <2> QED BY <2>2, <2>3 DEF UsageInv, UsageCurrent
<1>4. ASSUME NEW p \in Ingesters PROVE SoleOK(p)'
  <2>1. PlaceOK(p) /\ LocalsOK(p) /\ SoleOK(p)
    BY <1>1 DEF UsageInv, SkipInv
  <2>2. SameLocals(p)
    BY <1>2 DEF SameLocals
  <2>3. Layout(p) \in Layouts /\ Layout(p)' = Layout(p)
    BY <1>2, <2>1, LayoutIn DEF Layout
  <2>4. ASSUME NEW m \in DOMAIN got[p]
        PROVE  /\ m \in Artifacts /\ Disk(p, m)'.ver > 0
               /\ WouldSkip(Layout(p), m)' =>
                     WouldSkip(Layout(p), m) /\ Disk(p, m)'.ver = Disk(p, m).ver
    <3>1. m \in Artifacts /\ Disk(p, m).ver > 0
      BY <2>1 DEF LocalsOK, SoleOK, Artifacts
    <3>2. /\ disk[Layout(p)][m].ver \in Nat /\ disk'[Layout(p)][m].ver \in Nat
          /\ disk[Layout(p)][m].ver <= disk'[Layout(p)][m].ver
      BY <1>1, <2>3, <3>1, MovesAt DEF LayoutMoves
    <3>3. Disk(p, m)'.ver > 0
      BY <2>3, <3>1, <3>2 DEF Disk
    <3>4. ASSUME WouldSkip(Layout(p), m)'
          PROVE  WouldSkip(Layout(p), m) /\ Disk(p, m)'.ver = Disk(p, m).ver
      <4>1. PICK s \in Layouts : s = Layout(p) /\ s = Layout(p)'
        BY <2>3
      <4>2. WouldSkip(s, m)'
        BY <3>4, <4>1 DEF WouldSkip
      <4>3. WouldSkip(s, m) /\ disk'[s][m].ver = disk[s][m].ver
        BY <1>1, <3>1, <4>2, RecordBack
      <4> QED BY <4>1, <4>3 DEF Disk
    <3> QED BY <3>1, <3>3, <3>4
  <2>5. ASSUME NEW m \in DOMAIN stamps[p], m \in Messages, Fresh(p, m)', Sole(Layout(p), m)'
        PROVE  Fresh(p, m) /\ Sole(Layout(p), m) /\ Disk(p, m)'.ver = Disk(p, m).ver
    <3>1. Fresh(p, m) /\ Disk(p, m)'.ver = Disk(p, m).ver
      BY <1>1, <2>1, <2>2, <2>5, StampBack
    <3>2. PICK s \in Layouts : s = Layout(p) /\ s = Layout(p)'
      BY <2>3
    <3>3. Sole(s, m)'
      BY <2>5, <3>2 DEF Sole
    <3>4. Sole(s, m)
      BY <1>1, <2>5, <3>3, SoleBack
    <3> QED BY <3>1, <3>2, <3>4
  <2> QED BY <1>2, <2>1, <2>4, <2>5 DEF SoleOK
<1> QED BY <1>1, <1>3, <1>4 DEF UsageInv

\* A step of the run that leaves the tables, the records and the disk alone.
LEMMA UsageKept ==
    ASSUME UsageInv, disk' = disk, recorded' = recorded, usage' = usage PROVE UsageCurrent'
BY DEF UsageInv, UsageCurrent, WouldSkip, Sole

LEMMA UsageReads ==
    ASSUME OpenCodeAssumption, SingleIngester, UsageInv, SkipInv', NEW p \in Ingesters,
           UNCHANGED <<disk, recorded, usage, src>>,
           pc[p] \in {"idle", "messages", "parts"}, pc'[p] \in {"messages", "parts"},
           \/ got' = got
           \/ \E m \in Messages \cap todo[p] : got' = [got EXCEPT ![p] = Put(@, m, Disk(p, m).ver)]
    PROVE  UsageInv'
<1>1. UsageCurrent'
  BY UsageKept
<1>2. SkipInv /\ SoleOK(p)
  BY DEF UsageInv
<1>3. \A b : Disk(p, b)' = Disk(p, b)
  BY SamePlace
<1>4. Layout(p)' = Layout(p) /\ \A s, m : WouldSkip(s, m)' <=> WouldSkip(s, m)
  BY DEF Layout, WouldSkip
<1>5. ASSUME NEW m \in DOMAIN got'[p]
      PROVE  /\ Disk(p, m).ver > 0
             /\ WouldSkip(Layout(p), m) => got'[p][m] = Disk(p, m).ver
  <2>1. ASSUME NEW n \in DOMAIN got[p]
        PROVE  /\ Disk(p, n).ver > 0
               /\ WouldSkip(Layout(p), n) => got[p][n] = Disk(p, n).ver
    BY <1>2 DEF SoleOK
  <2>2. CASE got' = got
    BY <2>1, <2>2
  <2>3. ASSUME NEW n \in Messages \cap todo[p],
               got' = [got EXCEPT ![p] = Put(@, n, Disk(p, n).ver)]
        PROVE  /\ Disk(p, m).ver > 0
               /\ WouldSkip(Layout(p), m) => got'[p][m] = Disk(p, m).ver
    <3>1. got'[p] = Put(got[p], n, Disk(p, n).ver)
      BY <1>2, <2>3 DEF SkipInv, Shape
    <3>2. /\ m = n \/ m \in DOMAIN got[p]
          /\ got'[p][m] = IF m = n THEN Disk(p, n).ver ELSE got[p][m]
      BY <3>1 DEF Put
    <3>3. Disk(p, n).ver > 0
      BY <1>2 DEF SkipInv, LocalsOK
    <3> QED BY <2>1, <3>2, <3>3
  <2> QED BY <2>2, <2>3
<1>6. SoleOK(p)'
  BY <1>3, <1>4, <1>5 DEF SoleOK
<1>7. \A q \in Ingesters : SoleOK(q)'
  BY <1>6 DEF SingleIngester
<1> QED BY <1>1, <1>7 DEF UsageInv

LEMMA UsageCommit ==
    ASSUME OpenCodeAssumption, SingleIngester, UsageInv, SkipInv', NEW p \in Ingesters, Commit(p)
    PROVE  UsageInv'
<1>0. /\ PlaceOK(p) /\ LocalsOK(p) /\ ReadOK(p) /\ Shape /\ TablesOK
      /\ \A b \in Artifacts : Disk(p, b).ver \in Nat
  BY OwnFacts DEF UsageInv
<1>1. /\ pc[p] = "parts" /\ pc' = [pc EXCEPT ![p] = "record"] /\ todo[p] = {}
      /\ UNCHANGED <<disk, recorded, src, states, todo, stamps, got, pending>>
      /\ usage' = [m \in Messages |->
                     IF HasUsage(p, m) THEN UpsertRequest(usage[m], got[p][m]) ELSE usage[m]]
  BY DEF Commit, Goto, locals
<1>2. \A m \in Messages : usage'[m] = IF HasUsage(p, m) THEN got[p][m] ELSE usage[m]
  BY <1>1 DEF UpsertRequest
<1>3. SoleOK(p) /\ Layout(p) \in Layouts
  BY <1>0, LayoutIn DEF UsageInv
<1>4. UsageCurrent'
  <2> SUFFICES ASSUME NEW s \in Layouts, NEW m \in Messages, WouldSkip(s, m), Sole(s, m),
                      Role[m] = "assistant", disk[s][m].ver > 1
               PROVE  usage'[m] = disk[s][m].ver
    BY <1>1, Zenon DEF UsageCurrent, WouldSkip, Sole
  <2>1. CASE HasUsage(p, m)
    <3>1. m \in DOMAIN got[p] /\ disk[Layout(p)][m].ver > 0
      BY <1>3, <2>1 DEF HasUsage, SoleOK, Disk
    <3>2. Layout(p) = s
      BY <1>3, <3>1 DEF Sole
    <3>3. got[p][m] = disk[s][m].ver
      BY <1>1, <1>3, <3>1, <3>2 DEF SoleOK, Disk
    <3> QED BY <1>2, <2>1, <3>3
  <2>2. CASE ~HasUsage(p, m)
    BY <1>2, <2>2 DEF UsageInv, UsageCurrent
  <2> QED BY <2>1, <2>2
<1>5. pc'[p] = "record"
  BY <1>0, <1>1 DEF Shape
<1>6. \A b : Disk(p, b)' = Disk(p, b)
  BY <1>1, SamePlace
<1>7. ASSUME NEW m \in Messages \cap DOMAIN stamps[p], Fresh(p, m), Role[m] = "assistant"
      PROVE  usage'[m] = Disk(p, m).ver
  <2>1. m \in DOMAIN got[p] /\ got[p][m] = Disk(p, m).ver
    BY <1>0, <1>1, <1>7 DEF ReadOK
  <2>2. HasUsage(p, m)
    BY <1>7, <2>1 DEF HasUsage, Fresh
  <2> QED BY <1>2, <2>1, <2>2
<1>8. SoleOK(p)'
  <2>1. \A a : Fresh(p, a)' <=> Fresh(p, a)
    BY <1>1, <1>6 DEF Fresh
  <2> QED BY <1>1, <1>3, <1>5, <1>6, <1>7, <2>1 DEF SoleOK
<1>9. \A q \in Ingesters : SoleOK(q)'
  BY <1>8 DEF SingleIngester
<1> QED BY <1>4, <1>9 DEF UsageInv

LEMMA UsageRecord ==
    ASSUME SingleIngester, UsageInv, SkipInv', NEW p \in Ingesters,
           NEW a \in Artifacts, RecordFile(p, a)
    PROVE  UsageInv'
<1>0. PlaceOK(p) /\ LocalsOK(p) /\ Shape /\ SoleOK(p) /\ DiskOK
  BY OwnFacts DEF UsageInv, SkipInv
<1> DEFINE s == Layout(p)
<1>1. /\ pc[p] = "record" /\ a \in DOMAIN stamps[p]
      /\ recorded' = [recorded EXCEPT ![s][a] = stamps[p][a]]
      /\ stamps' = [stamps EXCEPT ![p] = [b \in DOMAIN @ \ {a} |-> @[b]]]
      /\ UNCHANGED <<disk, usage, blocks, pc, src, states, todo, got, pending>>
  BY DEF RecordFile, db
<1>2. /\ DOMAIN stamps'[p] = DOMAIN stamps[p] \ {a}
      /\ \A b \in DOMAIN stamps'[p] : stamps'[p][b] = stamps[p][b]
  BY <1>0, <1>1, DropFacts
<1>3. s \in Layouts
  BY <1>0, LayoutIn
<1> HIDE DEF s
<1>4. /\ recorded'[s][a] = stamps[p][a]
      /\ \A r \in Layouts, b \in Artifacts : ~(r = s /\ b = a) => recorded'[r][b] = recorded[r][b]
  <2>1. recorded \in [Layouts -> [Artifacts -> Nat]]
    BY <1>0 DEF DiskOK
  <2> QED BY <1>1, <1>3, <2>1
<1>5. UsageCurrent'
  <2> SUFFICES ASSUME NEW r \in Layouts, NEW m \in Messages, WouldSkip(r, m)', Sole(r, m),
                      Role[m] = "assistant", disk[r][m].ver > 1
               PROVE  usage[m] = disk[r][m].ver
    BY <1>1, Zenon DEF UsageCurrent, Sole
  <2>1. CASE r = s /\ m = a
    <3>1. stamps[p][a] = Stamp(disk[s][a])
      BY <1>1, <1>4, <2>1 DEF WouldSkip
    <3>2. Fresh(p, a)
      BY <2>1, <3>1 DEF Fresh, Disk, s
    <3>3. usage[m] = Disk(p, m).ver
      BY <1>0, <1>1, <2>1, <3>2 DEF SoleOK, s
    <3> QED BY <2>1, <3>3 DEF Disk, s
  <2>2. CASE ~(r = s /\ m = a)
    <3>1. WouldSkip(r, m)
      BY <1>1, <1>4, <2>2 DEF WouldSkip, Artifacts
    <3> QED BY <3>1 DEF UsageInv, UsageCurrent
  <2> QED BY <2>1, <2>2
<1>6. SoleOK(p)'
  <2>1. \A b : Disk(p, b)' = Disk(p, b)
    BY <1>1, SamePlace
  <2>2. \A b \in DOMAIN stamps'[p] : Fresh(p, b)' <=> Fresh(p, b)
    BY <1>2, <2>1 DEF Fresh
  <2>3. \A m : Sole(Layout(p), m)' <=> Sole(Layout(p), m)
    BY <1>1 DEF Layout, Sole
  <2> QED BY <1>0, <1>1, <1>2, <2>1, <2>2, <2>3 DEF SoleOK
<1>7. \A q \in Ingesters : SoleOK(q)'
  BY <1>6 DEF SingleIngester
<1> QED BY <1>5, <1>7 DEF UsageInv

LEMMA UsageForget ==
    ASSUME SingleIngester, UsageInv, SkipInv', NEW p \in Ingesters, EndLayout(p) \/ Abort(p)
    PROVE  UsageInv'
<1>1. UNCHANGED <<disk, recorded, usage>> /\ Forget(p) /\ pc' = [pc EXCEPT ![p] = "idle"]
  BY DEF EndLayout, Abort, Goto, db
<1>2. UsageCurrent'
  BY <1>1, UsageKept
<1>3. Shape
  BY DEF UsageInv, SkipInv
<1>4. got'[p] = Nothing /\ pc'[p] = "idle" /\ DOMAIN Nothing = {}
  BY <1>1, <1>3 DEF Forget, Shape, Nothing
<1>5. SoleOK(p)'
  BY <1>4 DEF SoleOK
<1>6. \A q \in Ingesters : SoleOK(q)'
  BY <1>5 DEF SingleIngester
<1> QED BY <1>2, <1>6 DEF UsageInv

LEMMA UsageStep ==
    ASSUME OpenCodeAssumption, SingleIngester, UsageInv, [Next]_vars PROVE UsageInv'
<1>s. SkipInv /\ SkipInv' /\ DiskOK /\ Shape
  BY SkipStep DEF UsageInv, SkipInv
<1>1. ASSUME NEW a \in Artifacts, Rewrite(a) \/ FinishWrite(a) PROVE UsageInv'
  <2>1. Moves
    BY <1>1, <1>s, RewriteMoves, FinishMoves
  <2>2. UNCHANGED <<recorded, db, pc, locals>>
    BY <1>1 DEF Rewrite, FinishWrite
  <2> QED BY <2>1, <2>2, UsageOpenCode
<1>2. CASE Migrate
  <2>1. Moves
    BY <1>2, <1>s, MigrateMoves
  <2>2. UNCHANGED <<recorded, db, pc, locals>>
    BY <1>2 DEF Migrate
  <2> QED BY <2>1, <2>2, UsageOpenCode
<1>3. ASSUME NEW p \in Ingesters, Step(p) PROVE UsageInv'
  <2>1. CASE OpenLayout(p)
    <3>1. UNCHANGED <<disk, recorded, usage, src, got>> /\ pc[p] = "idle" /\ pc'[p] = "messages"
      BY <1>s, <2>1 DEF OpenLayout, Goto, db, Shape
    <3> QED BY <1>s, <3>1, UsageReads
  <2>2. ASSUME NEW a, NEW phase \in {"messages", "parts"}, Look(p, a, phase) PROVE UsageInv'
    <3>1. UNCHANGED <<disk, recorded, usage, src, got, pc>> /\ pc[p] = phase
      BY <2>2 DEF Look, db
    <3> QED BY <1>s, <3>1, UsageReads
  <2>3. ASSUME NEW m \in Messages, ReadMessage(p, m) PROVE UsageInv'
    <3>1. /\ UNCHANGED <<disk, recorded, usage, src, pc>> /\ pc[p] = "messages" /\ m \in todo[p]
          /\ got' = got \/ got' = [got EXCEPT ![p] = Put(@, m, Disk(p, m).ver)]
      BY <2>3, Zenon DEF ReadMessage, db, Disk
    <3>2. \/ got' = got
          \/ \E n \in Messages \cap todo[p] : got' = [got EXCEPT ![p] = Put(@, n, Disk(p, n).ver)]
      BY <3>1, Zenon
    <3> HIDE DEF Disk
    <3> QED BY <1>s, <3>1, <3>2, UsageReads
  <2>4. CASE ListParts(p)
    <3>1. /\ UNCHANGED <<disk, recorded, usage, src, got>>
          /\ pc[p] = "messages" /\ pc'[p] = "parts"
      BY <1>s, <2>4 DEF ListParts, Goto, db, Shape
    <3> QED BY <1>s, <3>1, UsageReads
  <2>5. ASSUME NEW t \in Parts, ReadPart(p, t) PROVE UsageInv'
    <3>1. UNCHANGED <<disk, recorded, usage, src, got, pc>> /\ pc[p] = "parts"
      BY <2>5 DEF ReadPart, db
    <3> QED BY <1>s, <3>1, UsageReads
  <2>6. CASE Commit(p)
    BY <1>s, <2>6, UsageCommit
  <2>7. ASSUME NEW a \in Artifacts, RecordFile(p, a) PROVE UsageInv'
    BY <1>s, <2>7, UsageRecord
  <2>8. CASE EndLayout(p)
    BY <1>s, <2>8, UsageForget
  <2> QED BY <1>3, <2>1, <2>2, <2>3, <2>4, <2>5, <2>6, <2>7, <2>8 DEF Step
<1>4. ASSUME NEW p \in Ingesters, Abort(p) PROVE UsageInv'
  BY <1>s, <1>4, UsageForget
<1>5. CASE UNCHANGED vars
  <2>1. UNCHANGED <<disk, recorded, db, pc, locals>>
    BY <1>5 DEF vars
  <2>2. Moves
    BY <1>s, <2>1, DiskStays
  <2> QED BY <2>1, <2>2, UsageOpenCode
<1> QED BY <1>1, <1>2, <1>3, <1>4, <1>5 DEF Next

LEMMA UsageInit == ASSUME OpenCodeAssumption, Init PROVE UsageInv
<1>1. SkipInv
  BY SkipInit
<1>2. UsageCurrent
  BY DEF Init, UsageCurrent, WouldSkip, Artifacts
<1>3. ASSUME NEW p \in Ingesters PROVE SoleOK(p)
  BY DEF Init, SoleOK, Nothing
<1> QED BY <1>1, <1>2, <1>3 DEF UsageInv

\* With one ingester, a message that the next run would pass over, and that one
\* layout holds, has in its row the usage the layout shows: "last write wins"
\* never leaves an earlier word behind a record of the last one (commit).
THEOREM UsageCurrentHolds ==
    ASSUME SingleIngester
    PROVE  Spec => []UsageCurrent
<1>1. Init => UsageInv
  BY OpenCodeAssumption, UsageInit
<1>2. UsageInv /\ [Next]_vars => UsageInv'
  BY OpenCodeAssumption, SingleIngester, UsageStep
<1>3. UsageInv => UsageCurrent
  BY DEF UsageInv
<1> QED BY <1>1, <1>2, <1>3, PTL DEF Spec
=============================================================================

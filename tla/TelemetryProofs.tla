--------------------------- MODULE TelemetryProofs ----------------------------
(***************************************************************************)
(* What is proved of the OTLP receiver for any series and any number of    *)
(* exports, events, restarts and failures: that no token is counted twice, *)
(* and that the sum is the true total once the batches that matter arrived.*)
(***************************************************************************)
EXTENDS Telemetry, FiniteSums

(***************************************************************************)
(* The invariant.  A key is a series with a start time; a unit is a key    *)
(* and the position of a token in what was counted under it.               *)
(***************************************************************************)

Keys == Series \X Nat

\* Every token that some export spoke of.
UnitsMade == UNION {UnitsOf(b.points, DOMAIN b.points) : b \in made}

\* The exporter's clock is ahead of what it made, and a delta counts from zero.
ExporterInv ==
    /\ cumulative \in BOOLEAN /\ start \in Nat /\ logged \in Nat
    /\ total \in [Series -> Nat]
    /\ ~cumulative => total = [s \in Series |-> 0]
    /\ IsFiniteSet(made) /\ start <= 2 * Cardinality(made) + 1

MetricsOK(b, n) ==
    /\ b.kind = "metrics" /\ b.events = {} /\ b.ts \in Nat /\ b.ts <= 2 * n
    /\ \E K \in SUBSET Keys : b.points \in [K -> Nat \ {0}]
    /\ \A k \in DOMAIN b.points : k[2] < b.ts

\* Later batches never show less of a key.
Grows == \A b, c \in made : \A k \in DOMAIN b.points \cap DOMAIN c.points :
            b.ts <= c.ts => b.points[k] <= c.points[k]

\* What was exported under the present start is what was counted since it.
Latest == \A s \in Series :
    /\ \A b \in made : <<s, start>> \in DOMAIN b.points => b.points[<<s, start>>] <= total[s]
    /\ total[s] # 0 => \E b \in made : /\ <<s, start>> \in DOMAIN b.points
                                      /\ b.points[<<s, start>>] = total[s]

MadeInv ==
    /\ \A b \in made : MetricsOK(b, Cardinality(made))
    /\ Grows /\ Latest
    /\ IsFiniteSet(UnitsMade) /\ used = Cardinality(UnitsMade)

LogsOK(b) == /\ b.kind = "logs" /\ DOMAIN b.points = {}
             /\ b.events \in SUBSET Nat /\ IsFiniteSet(b.events)

NetInv == \A b \in net \cup acked : b \in made \/ LogsOK(b)

\* A row of otel_datapoint is a point of some batch.
PointsInv == \A k \in DOMAIN datapoints : \E b \in made :
    k \in DOMAIN b.points /\ datapoints[k] = [ts |-> b.ts, value |-> b.points[k]]

Inv == /\ ExporterInv /\ MadeInv /\ NetInv /\ PointsInv
       /\ events \in Seq(Nat) /\ AckedStored


LEMMA InitInv == ASSUME TelemetryAssumption, Init PROVE Inv
<1>1. IsFiniteSet({}) /\ Cardinality({}) = 0
  BY FS_EmptySet
<1>2. UnitsMade = {}
  BY DEF Init, UnitsMade
<1>3. ExporterInv
  BY <1>1 DEF Init, ExporterInv
<1>4. MadeInv
  BY <1>1, <1>2 DEF Init, MadeInv, Grows, Latest
<1>5. NetInv /\ PointsInv /\ events \in Seq(Nat) /\ AckedStored
  BY DEF Init, NetInv, PointsInv, AckedStored, IsInjective
<1> QED BY <1>3, <1>4, <1>5 DEF Inv

(***************************************************************************)
(* A metric export.                                                        *)
(***************************************************************************)

\* The batch made, and that it is ahead of every other.
Exported(add, batch) ==
    /\ batch = Metrics(Now, [k \in {<<s, start>> : s \in {t \in Series : add[t] + total[t] > 0}}
                                |-> add[k[1]] + total[k[1]]])
    /\ made' = made \cup {batch} /\ net' = net \cup {batch}
    /\ used' = used + SumFunction(add)
    /\ IF cumulative THEN start' = start /\ total' = [s \in Series |-> add[s] + total[s]]
                     ELSE start' = Now /\ total' = total

LEMMA ExportShape ==
    ASSUME ExporterInv, ExportMetrics
    PROVE  \E add \in [Series -> 0 .. 1] : \E batch : Exported(add, batch)
<1>1. PICK add \in [Series -> 0 .. 1] :
          LET values == [s \in Series |-> add[s] + (IF cumulative THEN total[s] ELSE 0)]
              keys   == {<<s, start>> : s \in {t \in Series : values[t] > 0}}
              batch  == Metrics(Now, [k \in keys |-> values[k[1]]])
          IN  /\ keys # {}
              /\ made' = made \cup {batch} /\ net' = net \cup {batch}
              /\ total' = IF cumulative THEN values ELSE total
              /\ used' = used + SumFunction(add)
  BY Zenon DEF ExportMetrics
<1> DEFINE values == [s \in Series |-> add[s] + (IF cumulative THEN total[s] ELSE 0)]
           keys   == {<<s, start>> : s \in {t \in Series : values[t] > 0}}
           batch  == Metrics(Now, [k \in keys |-> values[k[1]]])
           sums   == [s \in Series |-> add[s] + total[s]]
<1>2. \A s \in Series : (IF cumulative THEN total[s] ELSE 0) = total[s]
  BY Zenon DEF ExporterInv
<1>3. values = sums
  BY <1>2, Zenon
<1>4. keys = {<<s, start>> : s \in {t \in Series : add[t] + total[t] > 0}}
  BY <1>3
<1>5. [k \in keys |-> values[k[1]]] =
        [k \in {<<s, start>> : s \in {t \in Series : add[t] + total[t] > 0}}
            |-> add[k[1]] + total[k[1]]]
  <2>1. \A k \in keys : values[k[1]] = add[k[1]] + total[k[1]]
    BY <1>3
  <2> QED BY <1>4, <2>1
<1>6. made' = made \cup {batch} /\ net' = net \cup {batch} /\ used' = used + SumFunction(add)
  BY <1>1, Zenon
<1>7. IF cumulative THEN start' = start /\ total' = [s \in Series |-> add[s] + total[s]]
                   ELSE start' = Now /\ total' = total
  <2>1. total' = (IF cumulative THEN values ELSE total) /\ start' = (IF cumulative THEN start ELSE Now)
    BY <1>1, Zenon DEF ExportMetrics
  <2> HIDE DEF values
  <2> QED BY <1>3, <2>1, Zenon
<1>8. Exported(add, batch)
  <2> HIDE DEF keys, values
  <2> QED BY <1>5, <1>6, <1>7, Zenon DEF Exported
<1> QED BY <1>8, Zenon

\* The points of the batch.
LEMMA ExportPoints ==
    ASSUME ExporterInv, NEW add \in [Series -> 0 .. 1], NEW batch, Exported(add, batch)
    PROVE  /\ batch.ts = Now /\ batch.kind = "metrics" /\ batch.events = {}
           /\ \A k \in DOMAIN batch.points :
                 /\ k = <<k[1], start>> /\ k[1] \in Series
                 /\ batch.points[k] = add[k[1]] + total[k[1]]
                 /\ batch.points[k] \in Nat \ {0}
           /\ \A s \in Series : add[s] + total[s] > 0 => <<s, start>> \in DOMAIN batch.points
           /\ \E K \in SUBSET Keys : batch.points \in [K -> Nat \ {0}]
<1> DEFINE keys == {<<s, start>> : s \in {t \in Series : add[t] + total[t] > 0}}
           points == [k \in keys |-> add[k[1]] + total[k[1]]]
<1>1. batch = Metrics(Now, points)
  BY Zenon DEF Exported
<1>2. batch.ts = Now /\ batch.kind = "metrics" /\ batch.events = {} /\ batch.points = points
  <2> HIDE DEF points
  <2> QED BY <1>1 DEF Metrics
<1>3. \A s \in Series : add[s] \in Nat /\ total[s] \in Nat
  BY DEF ExporterInv
<1>4. \A k \in keys : /\ k = <<k[1], start>> /\ k[1] \in Series /\ k \in Keys
                      /\ points[k] = add[k[1]] + total[k[1]]
                      /\ points[k] \in Nat \ {0}
  BY <1>3 DEF Keys, ExporterInv
<1>5. keys \in SUBSET Keys /\ points \in [keys -> Nat \ {0}] /\ DOMAIN points = keys
  BY <1>4
<1>6. \A s \in Series : add[s] + total[s] > 0 => <<s, start>> \in keys
  OBVIOUS
<1> HIDE DEF keys, points
<1>7. \E K \in SUBSET Keys : batch.points \in [K -> Nat \ {0}]
  BY <1>2, <1>5
<1> QED BY <1>2, <1>4, <1>5, <1>6, <1>7

LEMMA ExportClock ==
    ASSUME ExporterInv, MadeInv, NEW add \in [Series -> 0 .. 1], NEW batch, Exported(add, batch)
    PROVE  /\ batch \notin made /\ \A b \in made : b.ts \in Nat /\ b.ts < batch.ts
           /\ IsFiniteSet(made') /\ Cardinality(made') = Cardinality(made) + 1
           /\ Cardinality(made) \in Nat /\ batch.ts = 2 * Cardinality(made')
<1>1. Cardinality(made) \in Nat
  BY FS_CardinalityType DEF ExporterInv
<1>2. batch.ts = 2 * Cardinality(made) + 2
  BY ExportPoints DEF Now
<1>3. \A b \in made : b.ts \in Nat /\ b.ts <= 2 * Cardinality(made)
  BY DEF MadeInv, MetricsOK
<1>4. \A b \in made : b.ts < batch.ts
  BY <1>1, <1>2, <1>3
<1>5. batch \notin made
  BY <1>1, <1>2, <1>3
<1>6. IsFiniteSet(made') /\ Cardinality(made') = Cardinality(made) + 1
  <2>1. made' = made \cup {batch}
    BY Zenon DEF Exported
  <2>2. IsFiniteSet(made)
    BY DEF ExporterInv
  <2> QED BY <1>5, <2>1, <2>2, FS_AddElement
<1> QED BY <1>1, <1>2, <1>3, <1>4, <1>5, <1>6

LEMMA ExportExporter ==
    ASSUME ExporterInv, MadeInv, ExportMetrics,
           NEW add \in [Series -> 0 .. 1], NEW batch, Exported(add, batch)
    PROVE  ExporterInv'
<1>1. cumulative' = cumulative /\ logged' = logged
  BY Zenon DEF ExportMetrics
<1>2. /\ start \in Nat /\ total \in [Series -> Nat] /\ cumulative \in BOOLEAN /\ logged \in Nat
      /\ start <= 2 * Cardinality(made) + 1
      /\ ~cumulative => total = [s \in Series |-> 0]
  BY Zenon DEF ExporterInv
<1>3. /\ IsFiniteSet(made') /\ Cardinality(made') = Cardinality(made) + 1
      /\ Cardinality(made) \in Nat
  BY ExportClock
<1>4. CASE cumulative
  <2>1. start' = start /\ total' = [s \in Series |-> add[s] + total[s]]
    BY <1>4, Zenon DEF Exported
  <2>2. \A s \in Series : add[s] + total[s] \in Nat
    BY <1>2
  <2>3. total' \in [Series -> Nat]
    BY <2>1, <2>2
  <2>4. start' \in Nat /\ start' <= 2 * Cardinality(made') + 1
    BY <1>2, <1>3, <2>1
  <2>5. logged' \in Nat
    BY <1>1, <1>2
  <2> QED BY <1>1, <1>2, <1>3, <1>4, <2>3, <2>4, <2>5, Zenon DEF ExporterInv
<1>5. CASE ~cumulative
  <2>1. start' = Now /\ total' = total
    BY <1>5, Zenon DEF Exported
  <2>2. start' \in Nat /\ start' <= 2 * Cardinality(made') + 1
    BY <1>3, <2>1 DEF Now
  <2>3. logged' \in Nat /\ total' \in [Series -> Nat] /\ total' = [s \in Series |-> 0]
    BY <1>1, <1>2, <1>5, <2>1
  <2> QED BY <1>1, <1>2, <1>3, <2>2, <2>3, Zenon DEF ExporterInv
<1> QED BY <1>4, <1>5

LEMMA ExportBatches ==
    ASSUME ExporterInv, MadeInv, NEW add \in [Series -> 0 .. 1], NEW batch, Exported(add, batch)
    PROVE  \A b \in made' : MetricsOK(b, Cardinality(made'))
<1>1. made' = made \cup {batch}
  BY Zenon DEF Exported
<1>2. ASSUME NEW b \in made PROVE MetricsOK(b, Cardinality(made'))
  <2>1. MetricsOK(b, Cardinality(made))
    BY DEF MadeInv
  <2>2. b.ts <= 2 * Cardinality(made')
    BY <2>1, ExportClock DEF MetricsOK
  <2> QED BY <2>1, <2>2, Zenon DEF MetricsOK
<1>3. MetricsOK(batch, Cardinality(made'))
  <2>1. batch.ts = 2 * Cardinality(made') /\ Cardinality(made') \in Nat
    BY ExportClock
  <2>2. batch.ts \in Nat /\ batch.ts <= 2 * Cardinality(made')
    BY <2>1
  <2>3. \A k \in DOMAIN batch.points : k[2] < batch.ts
    <3>1. start \in Nat /\ start <= 2 * Cardinality(made) + 1
      BY DEF ExporterInv
    <3>2. start < batch.ts
      BY <2>1, <3>1, ExportClock
    <3> TAKE k \in DOMAIN batch.points
    <3>3. k = <<k[1], start>>
      BY ExportPoints
    <3>4. k[2] = start
      BY <3>3
    <3> QED BY <3>2, <3>4
  <2> QED BY <2>2, <2>3, ExportPoints, Zenon DEF MetricsOK
<1> QED BY <1>1, <1>2, <1>3

LEMMA ExportGrows ==
    ASSUME ExporterInv, MadeInv, NEW add \in [Series -> 0 .. 1], NEW batch, Exported(add, batch)
    PROVE  Grows'
<1>1. made' = made \cup {batch}
  BY Zenon DEF Exported
<1>2. ASSUME NEW b \in made', NEW c \in made',
             NEW k \in DOMAIN b.points \cap DOMAIN c.points, b.ts <= c.ts
      PROVE  b.points[k] <= c.points[k]
  <2>1. CASE b \in made /\ c \in made
    BY <1>2, <2>1 DEF MadeInv, Grows
  <2>2. CASE b \in made /\ c = batch
    <3>1. k = <<k[1], start>> /\ k[1] \in Series /\ c.points[k] = add[k[1]] + total[k[1]]
      BY <2>2, ExportPoints
    <3>2. b.points[k] <= total[k[1]]
      BY <2>2, <3>1 DEF MadeInv, Latest
    <3>3. add[k[1]] \in Nat /\ total[k[1]] \in Nat
      BY <3>1 DEF ExporterInv
    <3>4. b.points[k] \in Nat
      <4>1. MetricsOK(b, Cardinality(made))
        BY <2>2 DEF MadeInv
      <4> QED BY <4>1 DEF MetricsOK
    <3> QED BY <3>1, <3>2, <3>3, <3>4
  <2>3. CASE b = batch /\ c \in made
    <3>1. c.ts \in Nat /\ c.ts < b.ts /\ b.ts \in Nat
      <4>1. batch.ts \in Nat
        BY ExportClock
      <4> QED BY <2>3, <4>1, ExportClock
    <3> QED BY <1>2, <3>1
  <2>4. CASE b = batch /\ c = batch
    <3>1. b.points[k] \in Nat
      BY <2>4, ExportPoints
    <3> QED BY <2>4, <3>1
  <2> QED BY <1>1, <2>1, <2>2, <2>3, <2>4
<1> QED BY <1>2 DEF Grows

LEMMA ExportLatest ==
    ASSUME ExporterInv, MadeInv, NEW add \in [Series -> 0 .. 1], NEW batch, Exported(add, batch)
    PROVE  Latest'
<1>1. made' = made \cup {batch}
  BY Zenon DEF Exported
<1>2. \A s \in Series : add[s] \in Nat /\ total[s] \in Nat
  BY DEF ExporterInv
<1>3. CASE cumulative
  <2>1. start' = start /\ total' = [s \in Series |-> add[s] + total[s]]
    BY <1>3, Zenon DEF Exported
  <2>2. ASSUME NEW s \in Series, NEW b \in made', <<s, start>> \in DOMAIN b.points
        PROVE  b.points[<<s, start>>] <= add[s] + total[s]
    <3>1. CASE b \in made
      <4>1. b.points[<<s, start>>] <= total[s]
        BY <2>2, <3>1 DEF MadeInv, Latest
      <4>2. b.points[<<s, start>>] \in Nat
        <5>1. MetricsOK(b, Cardinality(made))
          BY <3>1 DEF MadeInv
        <5> QED BY <2>2, <5>1 DEF MetricsOK
      <4> QED BY <1>2, <4>1, <4>2
    <3>2. CASE b = batch
      <4>1. b.points[<<s, start>>] = add[s] + total[s]
        BY <2>2, <3>2, ExportPoints
      <4> QED BY <1>2, <4>1
    <3> QED BY <1>1, <3>1, <3>2
  <2>3. ASSUME NEW s \in Series, add[s] + total[s] # 0
        PROVE  /\ batch \in made' /\ <<s, start>> \in DOMAIN batch.points
               /\ batch.points[<<s, start>>] = add[s] + total[s]
    <3>1. add[s] + total[s] > 0
      BY <1>2, <2>3
    <3>2. <<s, start>> \in DOMAIN batch.points
      BY <3>1, ExportPoints
    <3> QED BY <1>1, <3>2, ExportPoints
  <2>4. \A s \in Series : total'[s] = add[s] + total[s]
    BY <2>1
  <2> QED BY <2>1, <2>2, <2>3, <2>4 DEF Latest
<1>4. CASE ~cumulative
  <2>1. start' = Now /\ total' = total /\ total = [s \in Series |-> 0]
    BY <1>4, Zenon DEF Exported, ExporterInv
  <2>2. ASSUME NEW s \in Series, NEW b \in made' PROVE <<s, Now>> \notin DOMAIN b.points
    <3>1. MetricsOK(b, Cardinality(made'))
      BY ExportBatches
    <3>2. b.ts \in Nat /\ b.ts <= Now
      BY <3>1, ExportClock DEF MetricsOK, Now
    <3>3. Now \in Nat
      BY ExportClock DEF Now
    <3>4. <<s, Now>> \in DOMAIN b.points => Now < b.ts
      BY <3>1 DEF MetricsOK
    <3> QED BY <3>2, <3>3, <3>4
  <2>3. \A s \in Series : total'[s] = 0
    BY <2>1
  <2> QED BY <2>1, <2>2, <2>3 DEF Latest
<1> QED BY <1>3, <1>4

\* One new unit of each series that counted one.
NewUnits(add) == {<<<<s, start>>, total[s] + 1>> : s \in {t \in Series : add[t] = 1}}

LEMMA NewUnitsCount ==
    ASSUME TelemetryAssumption, ExporterInv, NEW add \in [Series -> 0 .. 1]
    PROVE  IsFiniteSet(NewUnits(add)) /\ Cardinality(NewUnits(add)) = SumFunction(add)
<1> DEFINE U == UnitsOf(add, Series)
           N == NewUnits(add)
           F == [u \in U |-> <<<<u[1], start>>, total[u[1]] + 1>>]
<1>1. IsFiniteSet(U) /\ SumFunction(add) = Cardinality(U)
  <2>1. IsFiniteSet(Series) /\ add \in [Series -> Nat]
    BY DEF TelemetryAssumption
  <2> QED BY <2>1, SumCounts, SumWhole
<1>2. \A u \in U : u = <<u[1], 1>> /\ u[1] \in Series /\ add[u[1]] = 1
  <2> TAKE u \in U
  <2>1. u \in Series \X Nat /\ u[2] \in 1 .. add[u[1]]
    BY DEF UnitsOf
  <2>2. u[1] \in Series /\ u = <<u[1], u[2]>>
    BY <2>1
  <2>3. add[u[1]] \in 0 .. 1
    BY <2>2
  <2>4. u[2] = 1 /\ add[u[1]] = 1
    BY <2>1, <2>3
  <2> QED BY <2>2, <2>4
<1>3. \A s \in Series : add[s] = 1 => <<s, 1>> \in U
  BY DEF UnitsOf
<1>4. F \in [U -> N]
  <2>1. \A u \in U : <<<<u[1], start>>, total[u[1]] + 1>> \in N
    BY <1>2 DEF NewUnits
  <2> HIDE DEF U, N
  <2> QED BY <2>1
<1>5. \A u, v \in U : F[u] = F[v] => u = v
  <2> TAKE u, v \in U
  <2> HAVE F[u] = F[v]
  <2>1. u[1] = v[1]
    BY DEF NewUnits
  <2> QED BY <1>2, <2>1
<1>6. \A n \in N : \E u \in U : F[u] = n
  <2> TAKE n \in N
  <2>1. PICK s \in Series : add[s] = 1 /\ n = <<<<s, start>>, total[s] + 1>>
    BY DEF NewUnits
  <2>2. <<s, 1>> \in U
    BY <1>3, <2>1
  <2>3. F[<<s, 1>>] = n
    BY <2>1, <2>2
  <2> QED BY <2>2, <2>3
<1>7. ExistsBijection(U, N)
  <2> HIDE DEF U, N, F
  <2>1. F \in Injection(U, N) /\ F \in Surjection(U, N)
    BY <1>4, <1>5, <1>6 DEF Injection, IsInjective, Surjection
  <2>2. F \in Bijection(U, N)
    BY <2>1 DEF Bijection
  <2> QED BY <2>2 DEF ExistsBijection
<1> QED BY <1>1, <1>7, FS_Bijection

LEMMA ExportUnits ==
    ASSUME TelemetryAssumption, ExporterInv, MadeInv,
           NEW add \in [Series -> 0 .. 1], NEW batch, Exported(add, batch)
    PROVE  IsFiniteSet(UnitsMade') /\ used' = Cardinality(UnitsMade')
<1> DEFINE B == UnitsOf(batch.points, DOMAIN batch.points)
           N == NewUnits(add)
<1>1. made' = made \cup {batch}
  BY Zenon DEF Exported
<1>2. UnitsMade' = UnitsMade \cup B
  BY <1>1 DEF UnitsMade
<1>3. \A s \in Series : add[s] \in 0 .. 1 /\ total[s] \in Nat
  BY DEF ExporterInv
<1>4. B \subseteq UnitsMade \cup N
  <2> SUFFICES ASSUME NEW u \in B PROVE u \in UnitsMade \cup N
    BY Zenon
  <2> DEFINE s == u[1][1]
  <2>1. u \in (DOMAIN batch.points) \X Nat /\ u[2] \in 1 .. batch.points[u[1]]
    BY DEF UnitsOf
  <2>2. u[1] \in DOMAIN batch.points /\ u = <<u[1], u[2]>> /\ u[2] \in Nat
    BY <2>1
  <2>3. u[1] = <<s, start>> /\ s \in Series /\ batch.points[u[1]] = add[s] + total[s]
    BY <2>2, ExportPoints
  <2>4. CASE u[2] <= total[s]
    <3>1. total[s] # 0
      BY <1>3, <2>1, <2>3, <2>4
    <3>2. PICK b \in made : <<s, start>> \in DOMAIN b.points /\ b.points[<<s, start>>] = total[s]
      BY <2>3, <3>1 DEF MadeInv, Latest
    <3>3. u[2] \in 1 .. b.points[u[1]] /\ u \in (DOMAIN b.points) \X Nat
      BY <1>3, <2>1, <2>2, <2>3, <2>4, <3>2
    <3>4. u \in UnitsOf(b.points, DOMAIN b.points)
      BY <3>3 DEF UnitsOf
    <3> QED BY <3>4 DEF UnitsMade
  <2>5. CASE ~(u[2] <= total[s])
    <3>1. u[2] = total[s] + 1 /\ add[s] = 1
      BY <1>3, <2>1, <2>2, <2>3, <2>5
    <3>2. u = <<<<s, start>>, total[s] + 1>>
      BY <2>2, <2>3, <3>1
    <3>3. u \in N
      BY <2>3, <3>1, <3>2 DEF NewUnits
    <3> QED BY <3>3
  <2> QED BY <2>4, <2>5
<1>5. N \subseteq B
  <2> SUFFICES ASSUME NEW n \in N PROVE n \in B
    BY Zenon
  <2>1. PICK s \in Series : add[s] = 1 /\ n = <<<<s, start>>, total[s] + 1>>
    BY DEF NewUnits
  <2>2. add[s] + total[s] > 0
    BY <1>3, <2>1
  <2>3. <<s, start>> \in DOMAIN batch.points
    BY <2>2, ExportPoints
  <2>4. batch.points[<<s, start>>] = add[s] + total[s]
    BY <2>3, ExportPoints
  <2>5. total[s] + 1 \in 1 .. batch.points[<<s, start>>] /\ total[s] + 1 \in Nat
    BY <1>3, <2>1, <2>4
  <2> QED BY <2>1, <2>3, <2>5 DEF UnitsOf
<1>6. N \cap UnitsMade = {}
  <2> SUFFICES ASSUME NEW n \in N, n \in UnitsMade PROVE FALSE
    OBVIOUS
  <2>1. PICK s \in Series : add[s] = 1 /\ n = <<<<s, start>>, total[s] + 1>>
    BY DEF NewUnits
  <2>2. PICK b \in made : n \in UnitsOf(b.points, DOMAIN b.points)
    BY DEF UnitsMade
  <2>3. n \in (DOMAIN b.points) \X Nat /\ n[2] \in 1 .. b.points[n[1]]
    BY <2>2 DEF UnitsOf
  <2>4. n[1] = <<s, start>> /\ n[2] = total[s] + 1
    BY <2>1
  <2>5. <<s, start>> \in DOMAIN b.points
    BY <2>3, <2>4
  <2>6. b.points[<<s, start>>] <= total[s]
    BY <2>5 DEF MadeInv, Latest
  <2>7. b.points[<<s, start>>] \in Nat
    <3>1. MetricsOK(b, Cardinality(made))
      BY DEF MadeInv
    <3> QED BY <2>5, <3>1 DEF MetricsOK
  <2> QED BY <1>3, <2>3, <2>4, <2>6, <2>7
<1>7. UnitsMade' = UnitsMade \cup N
  <2> HIDE DEF N, B
  <2> QED BY <1>2, <1>4, <1>5
<1>8. IsFiniteSet(UnitsMade) /\ used = Cardinality(UnitsMade) /\ used \in Nat
  BY FS_CardinalityType DEF MadeInv
<1>9. IsFiniteSet(N) /\ Cardinality(N) = SumFunction(add) /\ Cardinality(N) \in Nat
  BY NewUnitsCount, FS_CardinalityType
<1>10. IsFiniteSet(UnitsMade') /\ Cardinality(UnitsMade') = Cardinality(UnitsMade) + Cardinality(N)
  <2> HIDE DEF N
  <2>1. UnitsMade \cap N = {} /\ Cardinality({}) = 0
    BY <1>6, FS_EmptySet
  <2>2. /\ IsFiniteSet(UnitsMade \cup N)
        /\ Cardinality(UnitsMade \cup N) = Cardinality(UnitsMade) + Cardinality(N) - 0
    BY <1>8, <1>9, <2>1, FS_Union
  <2> QED BY <1>7, <1>8, <1>9, <2>2
<1>11. used' = used + SumFunction(add)
  BY Zenon DEF Exported
<1> QED BY <1>8, <1>9, <1>10, <1>11

LEMMA ExportInv == ASSUME TelemetryAssumption, Inv, ExportMetrics PROVE Inv'
<1>1. ExporterInv /\ MadeInv /\ NetInv /\ PointsInv /\ events \in Seq(Nat) /\ AckedStored
  BY DEF Inv
<1>2. PICK add \in [Series -> 0 .. 1] : \E batch : Exported(add, batch)
  BY <1>1, ExportShape
<1>3. PICK batch : Exported(add, batch)
  BY <1>2
<1>4. ExporterInv'
  BY <1>1, <1>3, ExportExporter
<1>5. MadeInv'
  BY <1>1, <1>3, ExportBatches, ExportGrows, ExportLatest, ExportUnits DEF MadeInv
<1>6. /\ made' = made \cup {batch} /\ net' = net \cup {batch} /\ acked' = acked
      /\ datapoints' = datapoints /\ events' = events
  BY <1>3, Zenon DEF Exported, ExportMetrics, tables
<1>7. NetInv'
  BY <1>1, <1>6 DEF NetInv, LogsOK
<1>8. PointsInv'
  BY <1>1, <1>6, Zenon DEF PointsInv
<1>9. (events \in Seq(Nat))' /\ AckedStored'
  BY <1>1, <1>6, Zenon DEF AckedStored
<1> QED BY <1>4, <1>5, <1>7, <1>8, <1>9 DEF Inv

(***************************************************************************)
(* The other steps of the exporter, and the receiver.                      *)
(***************************************************************************)
LEMMA MadeKept ==
    ASSUME MadeInv, made' = made, used' = used, Latest' PROVE MadeInv'
<1>1. UnitsMade' = UnitsMade
  BY DEF UnitsMade
<1>2. Grows'
  BY DEF MadeInv, Grows
<1>3. \A b \in made' : MetricsOK(b, Cardinality(made'))
  BY DEF MadeInv
<1> QED BY <1>1, <1>2, <1>3 DEF MadeInv

LEMMA ExporterKept ==
    ASSUME ExporterInv, MadeInv, UNCHANGED <<cumulative, start, total, used, made>>, logged' \in Nat
    PROVE  ExporterInv' /\ MadeInv'
<1>1. ExporterInv'
  BY Zenon DEF ExporterInv
<1>2. Latest'
  BY DEF MadeInv, Latest
<1> QED BY <1>1, <1>2, MadeKept

LEMMA RestartInv == ASSUME Inv, RestartExporter PROVE Inv'
<1>1. ExporterInv /\ MadeInv /\ NetInv /\ PointsInv /\ events \in Seq(Nat) /\ AckedStored
  BY DEF Inv
<1>2. /\ start' = Now - 1 /\ total' = [s \in Series |-> 0]
      /\ UNCHANGED <<cumulative, used, made, logged, net, acked, datapoints, events>>
  BY DEF RestartExporter, tables
<1>3. Cardinality(made) \in Nat /\ start' = 2 * Cardinality(made) + 1
  BY <1>1, <1>2, FS_CardinalityType DEF ExporterInv, Now
<1>4. ExporterInv'
  <2>1. start' \in Nat /\ start' <= 2 * Cardinality(made') + 1 /\ total' \in [Series -> Nat]
    BY <1>2, <1>3
  <2> QED BY <1>1, <1>2, <2>1, Zenon DEF ExporterInv
<1>5. ASSUME NEW s \in Series, NEW b \in made PROVE <<s, start'>> \notin DOMAIN b.points
  <2>1. MetricsOK(b, Cardinality(made))
    BY <1>1 DEF MadeInv
  <2> QED BY <1>3, <2>1 DEF MetricsOK
<1>6. Latest'
  BY <1>2, <1>5 DEF Latest
<1>7. MadeInv'
  BY <1>1, <1>2, <1>6, MadeKept
<1>8. NetInv' /\ PointsInv'
  BY <1>1, <1>2 DEF NetInv, LogsOK, PointsInv
<1>9. (events \in Seq(Nat))' /\ AckedStored'
  BY <1>1, <1>2, Zenon DEF AckedStored
<1> QED BY <1>4, <1>7, <1>8, <1>9 DEF Inv

LEMMA LogsInv == ASSUME TelemetryAssumption, Inv, ExportLogs PROVE Inv'
<1>1. ExporterInv /\ MadeInv /\ NetInv /\ PointsInv /\ events \in Seq(Nat) /\ AckedStored
  BY DEF Inv
<1>2. PICK n \in 1 .. (MaxEvents - logged) :
          /\ net' = net \cup {Logs((logged + 1) .. (logged + n))}
          /\ logged' = logged + n
  BY DEF ExportLogs
<1>3. UNCHANGED <<cumulative, start, total, used, made, acked, datapoints, events>>
  BY DEF ExportLogs, tables
<1>4. logged \in Nat /\ n \in Nat
  BY <1>1 DEF ExporterInv, TelemetryAssumption
<1>5. ExporterInv' /\ MadeInv'
  BY <1>1, <1>2, <1>3, <1>4, ExporterKept
<1>6. LogsOK(Logs((logged + 1) .. (logged + n)))
  <2> DEFINE E == (logged + 1) .. (logged + n)
  <2>1. E \in SUBSET Nat /\ IsFiniteSet(E)
    BY <1>4, FS_Interval
  <2> HIDE DEF E
  <2>2. LogsOK(Logs(E))
    BY <2>1 DEF LogsOK, Logs
  <2> QED BY <2>2 DEF E
<1>7. NetInv'
  BY <1>1, <1>2, <1>3, <1>6 DEF NetInv, LogsOK
<1>8. PointsInv'
  BY <1>1, <1>3 DEF PointsInv
<1>9. (events \in Seq(Nat))' /\ AckedStored'
  BY <1>1, <1>3, Zenon DEF AckedStored
<1> QED BY <1>5, <1>7, <1>8, <1>9 DEF Inv

\* A batch leaves the exporter, answered or not, or stays.
LEMMA NetShrinks ==
    ASSUME NetInv, made' = made, net' \cup acked' \subseteq net \cup acked
    PROVE  NetInv'
BY DEF NetInv, LogsOK

LEMMA LossInv ==
    ASSUME Inv, NEW batch \in net, GiveUp(batch) \/ StoreFails(batch) PROVE Inv'
<1>1. ExporterInv /\ MadeInv /\ NetInv /\ PointsInv /\ events \in Seq(Nat) /\ AckedStored
  BY DEF Inv
<1>2. UNCHANGED <<cumulative, start, total, used, made, logged, acked, datapoints, events>>
  BY DEF GiveUp, StoreFails, exporter, tables
<1>3. net' = net \ {batch}
  BY DEF GiveUp, StoreFails
<1>4. ExporterInv' /\ MadeInv'
  BY <1>1, <1>2, ExporterKept DEF ExporterInv
<1>5. NetInv'
  BY <1>1, <1>2, <1>3, NetShrinks
<1>6. PointsInv'
  BY <1>1, <1>2 DEF PointsInv
<1>7. (events \in Seq(Nat))' /\ AckedStored'
  BY <1>1, <1>2, Zenon DEF AckedStored
<1> QED BY <1>4, <1>5, <1>6, <1>7 DEF Inv

LEMMA AnswerShape ==
    ASSUME NEW batch \in net, Answer(batch)
    PROVE  net' \cup acked' \subseteq net \cup acked /\ acked' \subseteq acked \cup {batch}
BY DEF Answer

\* What the upsert leaves in the table: rows of the batch or rows it had, and
\* none that went back in time.
LEMMA UpsertShape ==
    ASSUME NEW table, NEW batch, batch.ts \in Nat,
           \A k \in DOMAIN table : table[k].ts \in Nat
    PROVE  LET after == UpsertOTelDatapoint(table, batch)
           IN  /\ DOMAIN after = DOMAIN table \cup DOMAIN batch.points
               /\ \A k \in DOMAIN after :
                     \/ /\ k \in DOMAIN batch.points
                        /\ after[k] = [ts |-> batch.ts, value |-> batch.points[k]]
                     \/ k \in DOMAIN table /\ after[k] = table[k]
               /\ \A k \in DOMAIN table : after[k].ts >= table[k].ts
               /\ \A k \in DOMAIN batch.points : after[k].ts >= batch.ts
<1> DEFINE refreshed == {k \in DOMAIN batch.points : k \in DOMAIN table => batch.ts >= table[k].ts}
           Row(k) == IF k \in refreshed THEN [ts |-> batch.ts, value |-> batch.points[k]] ELSE table[k]
           after == [k \in DOMAIN table \cup refreshed |-> Row(k)]
<1>1. UpsertOTelDatapoint(table, batch) = after
  BY DEF UpsertOTelDatapoint
<1>2. DOMAIN table \cup refreshed = DOMAIN table \cup DOMAIN batch.points
  OBVIOUS
<1>3. ASSUME NEW k \in DOMAIN table \cup DOMAIN batch.points
      PROVE  /\ \/ /\ k \in DOMAIN batch.points
                   /\ after[k] = [ts |-> batch.ts, value |-> batch.points[k]]
                \/ k \in DOMAIN table /\ after[k] = table[k]
             /\ k \in DOMAIN table => after[k].ts >= table[k].ts
             /\ k \in DOMAIN batch.points => after[k].ts >= batch.ts
  <2>1. after[k] = Row(k)
    BY <1>2
  <2>2. CASE k \in refreshed
    <3>1. after[k] = [ts |-> batch.ts, value |-> batch.points[k]]
      BY <2>1, <2>2
    <3>2. after[k].ts = batch.ts
      BY <3>1
    <3> QED BY <2>2, <3>1, <3>2
  <2>3. CASE k \notin refreshed
    <3>1. after[k] = table[k]
      BY <2>1, <2>3
    <3>2. k \in DOMAIN table /\ table[k].ts \in Nat
      BY <2>3
    <3>3. k \in DOMAIN batch.points => table[k].ts >= batch.ts
      BY <2>3, <3>2
    <3> QED BY <3>1, <3>2, <3>3
  <2> QED BY <2>2, <2>3
<1>4. DOMAIN after = DOMAIN table \cup DOMAIN batch.points
  BY <1>2
<1> HIDE DEF after
<1> QED BY <1>1, <1>3, <1>4

LEMMA MetricsInv ==
    ASSUME Inv, NEW batch \in net, HandleMetrics(batch) PROVE Inv'
<1>1. ExporterInv /\ MadeInv /\ NetInv /\ PointsInv /\ events \in Seq(Nat) /\ AckedStored
  BY DEF Inv
<1>2. UNCHANGED <<cumulative, start, total, used, made, logged, events>>
  BY DEF HandleMetrics, exporter
<1>3. net' \cup acked' \subseteq net \cup acked /\ acked' \subseteq acked \cup {batch}
  BY AnswerShape DEF HandleMetrics
<1>4. batch \in made /\ batch.ts \in Nat /\ batch.events = {}
  <2>1. batch \in made
    BY <1>1 DEF NetInv, LogsOK, HandleMetrics
  <2> QED BY <1>1, <2>1 DEF MadeInv, MetricsOK
<1>5. \A k \in DOMAIN datapoints : datapoints[k].ts \in Nat
  <2> TAKE k \in DOMAIN datapoints
  <2>1. PICK b \in made : datapoints[k] = [ts |-> b.ts, value |-> b.points[k]]
    BY <1>1 DEF PointsInv
  <2>2. b.ts \in Nat
    BY <1>1 DEF MadeInv, MetricsOK
  <2> QED BY <2>1, <2>2
<1> DEFINE after == UpsertOTelDatapoint(datapoints, batch)
<1>6. datapoints' = after
  BY DEF HandleMetrics
<1>7. /\ DOMAIN after = DOMAIN datapoints \cup DOMAIN batch.points
      /\ \A k \in DOMAIN after :
            \/ /\ k \in DOMAIN batch.points
               /\ after[k] = [ts |-> batch.ts, value |-> batch.points[k]]
            \/ k \in DOMAIN datapoints /\ after[k] = datapoints[k]
      /\ \A k \in DOMAIN datapoints : after[k].ts >= datapoints[k].ts
      /\ \A k \in DOMAIN batch.points : after[k].ts >= batch.ts
  BY <1>4, <1>5, UpsertShape
<1> HIDE DEF after
<1>8. ExporterInv' /\ MadeInv'
  BY <1>1, <1>2, ExporterKept DEF ExporterInv
<1>9. NetInv'
  BY <1>1, <1>2, <1>3, NetShrinks
<1>10. PointsInv'
  <2> SUFFICES ASSUME NEW k \in DOMAIN after
               PROVE  \E b \in made : /\ k \in DOMAIN b.points
                                      /\ after[k] = [ts |-> b.ts, value |-> b.points[k]]
    BY <1>2, <1>6, Zenon DEF PointsInv
  <2>1. CASE k \in DOMAIN batch.points /\ after[k] = [ts |-> batch.ts, value |-> batch.points[k]]
    BY <1>4, <2>1
  <2>2. CASE k \in DOMAIN datapoints /\ after[k] = datapoints[k]
    BY <1>1, <2>2 DEF PointsInv
  <2> QED BY <1>7, <2>1, <2>2
<1>11. AckedStored'
  <2>1. ASSUME NEW b \in acked', NEW k \in DOMAIN b.points
        PROVE  k \in DOMAIN after /\ after[k].ts >= b.ts
    <3>1. CASE b = batch
      BY <1>7, <2>1, <3>1
    <3>2. CASE b \in acked
      <4>1. k \in DOMAIN datapoints /\ datapoints[k].ts >= b.ts
        BY <1>1, <2>1, <3>2 DEF AckedStored
      <4>2. k \in DOMAIN after /\ after[k].ts >= datapoints[k].ts
        BY <1>7, <4>1
      <4>3. datapoints[k].ts \in Nat /\ after[k].ts \in Nat
        <5>1. datapoints[k].ts \in Nat
          BY <1>5, <4>1
        <5>2. after[k] = [ts |-> batch.ts, value |-> batch.points[k]] \/ after[k] = datapoints[k]
          BY <1>7, <4>2
        <5>3. [ts |-> batch.ts, value |-> batch.points[k]].ts = batch.ts
          OBVIOUS
        <5> QED BY <1>4, <5>1, <5>2, <5>3
      <4>4. b.ts \in Nat
        <5>1. b \in made
          BY <1>1, <2>1, <3>2 DEF NetInv, LogsOK
        <5> QED BY <1>1, <5>1 DEF MadeInv, MetricsOK
      <4> QED BY <4>1, <4>2, <4>3, <4>4
    <3> QED BY <1>3, <3>1, <3>2
  <2>2. ASSUME NEW b \in acked' PROVE b.events \subseteq ToSet(events)
    BY <1>1, <1>3, <1>4 DEF AckedStored
  <2>3. IsInjective(events)
    BY <1>1, Zenon DEF AckedStored
  <2> QED BY <1>2, <1>6, <2>1, <2>2, <2>3, Zenon DEF AckedStored
<1>12. (events \in Seq(Nat))'
  BY <1>1, <1>2
<1> QED BY <1>8, <1>9, <1>10, <1>11, <1>12 DEF Inv

\* A finite set is written out once.
LEMMA SetToSeqOnce ==
    ASSUME NEW S, IsFiniteSet(S)
    PROVE  /\ SetToSeq(S) \in [1 .. Cardinality(S) -> S] /\ Cardinality(S) \in Nat
           /\ IsInjective(SetToSeq(S)) /\ ToSet(SetToSeq(S)) = S
<1>1. Cardinality(S) \in Nat /\ ExistsBijection(1 .. Cardinality(S), S)
  BY FS_CardinalityType
<1>2. \E f \in [1 .. Cardinality(S) -> S] : IsInjective(f)
  BY <1>1 DEF ExistsBijection, Bijection, Injection
<1> DEFINE q == SetToSeq(S)
<1>3. q \in [1 .. Cardinality(S) -> S] /\ IsInjective(q)
  BY <1>2 DEF SetToSeq
<1>4. q \in Injection(1 .. Cardinality(S), S)
  BY <1>3 DEF Injection
<1>5. Cardinality(1 .. Cardinality(S)) = Cardinality(S)
  BY <1>1, FS_Interval
<1>6. q \in Surjection(1 .. Cardinality(S), S)
  BY <1>4, <1>5, FS_Injection
<1>7. ToSet(q) = S
  BY <1>3, <1>6 DEF ToSet, Surjection
<1> QED BY <1>1, <1>3, <1>7

\* Appending what is not there yet, once, keeps the rows apart.
LEMMA InsertOnce ==
    ASSUME NEW table \in Seq(Nat), IsInjective(table), NEW batch,
           batch.events \in SUBSET Nat, IsFiniteSet(batch.events)
    PROVE  LET after == InsertOTelEvent(table, batch)
           IN  /\ after \in Seq(Nat) /\ IsInjective(after)
               /\ ToSet(table) \subseteq ToSet(after) /\ batch.events \subseteq ToSet(after)
<1> DEFINE new == batch.events \ ToSet(table)
           q == SetToSeq(new)
<1>1. new \in SUBSET Nat /\ IsFiniteSet(new)
  BY FS_Subset
<1>2. /\ q \in [1 .. Cardinality(new) -> new] /\ Cardinality(new) \in Nat
      /\ IsInjective(q) /\ ToSet(q) = new
  <2> HIDE DEF new
  <2> QED BY <1>1, SetToSeqOnce
<1>3. q \in Seq(Nat) /\ Len(q) = Cardinality(new)
  <2> HIDE DEF new, q
  <2>1. q \in [1 .. Cardinality(new) -> Nat]
    BY <1>1, <1>2
  <2>2. q \in Seq(Nat)
    BY <1>2, <2>1
  <2> QED BY <1>2, <2>1, <2>2
<1>4. \A i \in 1 .. Len(table) : table[i] \in ToSet(table)
  BY DEF ToSet
<1>5. \A i \in 1 .. Len(q) : q[i] \in new
  BY <1>2, <1>3
<1>6. new \cap ToSet(table) = {} /\ batch.events \subseteq new \cup ToSet(table)
  OBVIOUS
<1> DEFINE after == table \o q
<1>7. InsertOTelEvent(table, batch) = after
  BY DEF InsertOTelEvent
<1> HIDE DEF new, q
<1>8. after \in Seq(Nat) /\ Len(after) = Len(table) + Len(q)
  BY <1>3
<1>9. /\ \A i \in 1 .. Len(table) : after[i] = table[i]
      /\ \A i \in 1 .. Len(q) : Len(table) + i \in DOMAIN after /\ after[Len(table) + i] = q[i]
      /\ DOMAIN after = 1 .. (Len(table) + Len(q))
  BY <1>3, <1>8
<1>10. ToSet(table) \subseteq ToSet(after) /\ new \subseteq ToSet(after)
  <2>1. ASSUME NEW x \in ToSet(table) PROVE x \in ToSet(after)
    <3>1. PICK i \in 1 .. Len(table) : table[i] = x
      BY DEF ToSet
    <3>2. i \in DOMAIN after /\ after[i] = x
      BY <1>3, <1>9, <3>1
    <3> QED BY <3>2 DEF ToSet
  <2>2. ASSUME NEW x \in new PROVE x \in ToSet(after)
    <3>1. PICK i \in 1 .. Len(q) : q[i] = x
      BY <1>2, <1>3 DEF ToSet
    <3>2. Len(table) + i \in DOMAIN after /\ after[Len(table) + i] = x
      BY <1>9, <3>1
    <3> QED BY <3>2 DEF ToSet
  <2> QED BY <2>1, <2>2
<1>11. IsInjective(after)
  <2> SUFFICES ASSUME NEW i \in DOMAIN after, NEW j \in DOMAIN after, after[i] = after[j]
               PROVE  i = j
    BY DEF IsInjective
  <2>1. Len(table) \in Nat /\ Len(q) \in Nat
    BY <1>3
  <2>2. i \in 1 .. (Len(table) + Len(q)) /\ j \in 1 .. (Len(table) + Len(q))
    BY <1>9
  <2>3. CASE i <= Len(table) /\ j <= Len(table)
    <3>1. i \in DOMAIN table /\ j \in DOMAIN table /\ table[i] = table[j]
      BY <1>9, <2>1, <2>2, <2>3
    <3> QED BY <3>1 DEF IsInjective
  <2>4. CASE i <= Len(table) /\ j > Len(table)
    <3>1. after[i] \in ToSet(table) /\ j - Len(table) \in 1 .. Len(q)
      BY <1>4, <1>9, <2>1, <2>2, <2>4
    <3>2. after[j] = q[j - Len(table)]
      <4>1. Len(table) + (j - Len(table)) = j
        BY <2>1, <2>2
      <4> QED BY <1>9, <3>1, <4>1
    <3> QED BY <1>5, <1>6, <3>1, <3>2
  <2>5. CASE i > Len(table) /\ j <= Len(table)
    <3>1. after[j] \in ToSet(table) /\ i - Len(table) \in 1 .. Len(q)
      BY <1>4, <1>9, <2>1, <2>2, <2>5
    <3>2. after[i] = q[i - Len(table)]
      <4>1. Len(table) + (i - Len(table)) = i
        BY <2>1, <2>2
      <4> QED BY <1>9, <3>1, <4>1
    <3> QED BY <1>5, <1>6, <3>1, <3>2
  <2>6. CASE i > Len(table) /\ j > Len(table)
    <3>1. i - Len(table) \in 1 .. Len(q) /\ j - Len(table) \in 1 .. Len(q)
      BY <2>1, <2>2, <2>6
    <3>2. after[i] = q[i - Len(table)] /\ after[j] = q[j - Len(table)]
      <4>1. Len(table) + (i - Len(table)) = i /\ Len(table) + (j - Len(table)) = j
        BY <2>1, <2>2
      <4> QED BY <1>9, <3>1, <4>1
    <3>3. i - Len(table) \in DOMAIN q /\ j - Len(table) \in DOMAIN q
      BY <1>3, <3>1
    <3>4. i - Len(table) = j - Len(table)
      BY <1>2, <3>2, <3>3 DEF IsInjective
    <3> QED BY <2>1, <2>2, <3>4
  <2> QED BY <2>1, <2>2, <2>3, <2>4, <2>5, <2>6
<1>12. batch.events \subseteq ToSet(after)
  BY <1>6, <1>10
<1> HIDE DEF after
<1> QED BY <1>7, <1>8, <1>10, <1>11, <1>12

LEMMA EventsInv ==
    ASSUME Inv, NEW batch \in net, HandleLogs(batch) PROVE Inv'
<1>1. ExporterInv /\ MadeInv /\ NetInv /\ PointsInv /\ events \in Seq(Nat) /\ AckedStored
  BY DEF Inv
<1>2. UNCHANGED <<cumulative, start, total, used, made, logged, datapoints>>
  BY DEF HandleLogs, exporter
<1>3. net' \cup acked' \subseteq net \cup acked /\ acked' \subseteq acked \cup {batch}
  BY AnswerShape DEF HandleLogs
<1>4. LogsOK(batch)
  <2>1. batch \notin made
    BY <1>1 DEF MadeInv, MetricsOK, HandleLogs
  <2> QED BY <1>1, <2>1 DEF NetInv
<1>5. IsInjective(events)
  BY <1>1, Zenon DEF AckedStored
<1> DEFINE after == InsertOTelEvent(events, batch)
<1>6. events' = after
  BY DEF HandleLogs
<1>7. /\ after \in Seq(Nat) /\ IsInjective(after)
      /\ ToSet(events) \subseteq ToSet(after) /\ batch.events \subseteq ToSet(after)
  BY <1>1, <1>4, <1>5, InsertOnce DEF LogsOK
<1> HIDE DEF after
<1>8. ExporterInv' /\ MadeInv'
  BY <1>1, <1>2, ExporterKept DEF ExporterInv
<1>9. NetInv'
  BY <1>1, <1>2, <1>3, NetShrinks
<1>10. PointsInv'
  BY <1>1, <1>2 DEF PointsInv
<1>11. AckedStored'
  <2>1. ASSUME NEW b \in acked' PROVE b.events \subseteq ToSet(after)
    BY <1>1, <1>3, <1>7 DEF AckedStored
  <2>2. ASSUME NEW b \in acked', NEW k \in DOMAIN b.points
        PROVE  k \in DOMAIN datapoints /\ datapoints[k].ts >= b.ts
    <3>1. CASE b = batch
      BY <1>4, <2>2, <3>1 DEF LogsOK
    <3>2. CASE b \in acked
      BY <1>1, <2>2, <3>2 DEF AckedStored
    <3> QED BY <1>3, <3>1, <3>2
  <2> QED BY <1>2, <1>6, <1>7, <2>1, <2>2, Zenon DEF AckedStored
<1> QED BY <1>6, <1>7, <1>8, <1>9, <1>10, <1>11 DEF Inv

LEMMA NextInv == ASSUME TelemetryAssumption, Inv, [Next]_vars PROVE Inv'
<1>1. CASE ExportMetrics
  BY <1>1, ExportInv
<1>2. CASE ExportLogs
  BY <1>2, LogsInv
<1>3. CASE RestartExporter
  BY <1>3, RestartInv
<1>4. ASSUME NEW batch \in net,
             GiveUp(batch) \/ HandleMetrics(batch) \/ HandleLogs(batch) \/ StoreFails(batch)
      PROVE  Inv'
  BY <1>4, LossInv, MetricsInv, EventsInv
<1>5. CASE UNCHANGED vars
  <2>1. UNCHANGED <<cumulative, start, total, used, made, logged, net, acked, datapoints, events>>
    BY <1>5 DEF vars, exporter, tables
  <2>2. ExporterInv /\ MadeInv /\ NetInv /\ PointsInv /\ events \in Seq(Nat) /\ AckedStored
    BY DEF Inv
  <2>3. ExporterInv' /\ MadeInv'
    BY <2>1, <2>2, ExporterKept DEF ExporterInv
  <2>4. NetInv' /\ PointsInv'
    BY <2>1, <2>2 DEF NetInv, LogsOK, PointsInv
  <2>5. (events \in Seq(Nat))' /\ AckedStored'
    BY <2>1, <2>2, Zenon DEF AckedStored
  <2> QED BY <2>3, <2>4, <2>5 DEF Inv
<1> QED BY <1>1, <1>2, <1>3, <1>4, <1>5 DEF Next

-----------------------------------------------------------------------------
(***************************************************************************)
(* The sum of the rows counts units, and a row's are among those made.     *)
(***************************************************************************)
RowUnits == UnitsOf([k \in DOMAIN datapoints |-> datapoints[k].value], DOMAIN datapoints)

LEMMA RowsAreMade ==
    ASSUME Inv, NEW k \in DOMAIN datapoints
    PROVE  \E b \in made : /\ k \in DOMAIN b.points /\ datapoints[k].ts = b.ts
                           /\ datapoints[k].value = b.points[k]
                           /\ b.ts \in Nat /\ b.points[k] \in Nat \ {0}
<1>1. PICK b \in made : k \in DOMAIN b.points
                        /\ datapoints[k] = [ts |-> b.ts, value |-> b.points[k]]
  BY DEF Inv, PointsInv
<1>2. MetricsOK(b, Cardinality(made))
  BY DEF Inv, MadeInv
<1>3. b.ts \in Nat /\ b.points[k] \in Nat \ {0}
  BY <1>1, <1>2 DEF MetricsOK
<1> QED BY <1>1, <1>3

LEMMA RowUnitsMade == ASSUME Inv PROVE RowUnits \subseteq UnitsMade
<1> SUFFICES ASSUME NEW u \in RowUnits PROVE u \in UnitsMade
  OBVIOUS
<1> DEFINE k == u[1]
<1>1. /\ u \in (DOMAIN datapoints) \X Nat /\ k \in DOMAIN datapoints
      /\ u[2] \in 1 .. datapoints[k].value
  BY DEF RowUnits, UnitsOf
<1>2. PICK b \in made : k \in DOMAIN b.points /\ datapoints[k].value = b.points[k]
  BY <1>1, RowsAreMade
<1>3. u \in (DOMAIN b.points) \X Nat
  BY <1>1, <1>2
<1>4. u \in UnitsOf(b.points, DOMAIN b.points)
  BY <1>1, <1>2, <1>3 DEF UnitsOf
<1> QED BY <1>4 DEF UnitsMade

LEMMA SumOfRows ==
    ASSUME Inv PROVE IsFiniteSet(RowUnits) /\ Sum(datapoints) = Cardinality(RowUnits)
<1> DEFINE D == DOMAIN datapoints
           value == [k \in D |-> datapoints[k].value]
           firsts == {u[1] : u \in UnitsMade}
<1>1. \A k \in D : datapoints[k].value \in Nat \ {0}
  BY RowsAreMade
<1>2. value \in [D -> Nat]
  BY <1>1
<1>3. IsFiniteSet(UnitsMade)
  BY DEF Inv, MadeInv
<1>4. IsFiniteSet(firsts)
  <2> DEFINE first == [u \in UnitsMade |-> u[1]]
  <2>1. first \in Surjection(UnitsMade, firsts)
    BY DEF Surjection
  <2> HIDE DEF first, firsts
  <2> QED BY <1>3, <2>1, FS_Surjection
<1>5. D \subseteq firsts
  <2> SUFFICES ASSUME NEW k \in D PROVE k \in firsts
    OBVIOUS
  <2>1. 1 \in 1 .. datapoints[k].value
    BY <1>1
  <2>2. <<k, 1>> \in RowUnits
    BY <2>1 DEF RowUnits, UnitsOf
  <2>3. <<k, 1>> \in UnitsMade /\ <<k, 1>>[1] = k
    BY <2>2, RowUnitsMade
  <2> QED BY <2>3
<1>6. IsFiniteSet(D)
  BY <1>4, <1>5, FS_Subset
<1>7. IsFiniteSet(UnitsOf(value, D)) /\ SumFunction(value) = Cardinality(UnitsOf(value, D))
  <2> HIDE DEF value, D
  <2> QED BY <1>2, <1>6, SumCounts, SumWhole
<1> QED BY <1>7 DEF Sum, RowUnits

LEMMA InvNeverOver == ASSUME Inv PROVE NeverOver
<1>1. IsFiniteSet(UnitsMade) /\ used = Cardinality(UnitsMade)
  BY DEF Inv, MadeInv
<1>2. Cardinality(RowUnits) <= Cardinality(UnitsMade)
  BY <1>1, RowUnitsMade, FS_Subset
<1> QED BY <1>1, <1>2, SumOfRows DEF NeverOver

\* Of the batches that speak of a key, the last one decides.
LEMMA LastDecides ==
    ASSUME Inv, NEW b \in made, NEW k \in DOMAIN b.points
    PROVE  \E c \in Decisive : /\ k \in DOMAIN c.points
                               /\ \A d \in made : k \in DOMAIN d.points => d.ts <= c.ts
<1> DEFINE n == 2 * Cardinality(made)
           times == {d.ts : d \in {e \in made : k \in DOMAIN e.points}}
<1>1. n \in Nat
  BY FS_CardinalityType DEF Inv, ExporterInv
<1>2. \A d \in made : d.ts \in 0 .. n
  BY <1>1 DEF Inv, MadeInv, MetricsOK
<1>3. times \in SUBSET (0 .. n) /\ times # {}
  <2> HIDE DEF n
  <2> QED BY <1>2
<1>4. PICK t \in times : \A r \in times : r <= t
  <2> HIDE DEF n, times
  <2> QED BY <1>1, <1>3, GreatestOf
<1>5. PICK c \in made : k \in DOMAIN c.points /\ c.ts = t
  OBVIOUS
<1>6. \A d \in made : k \in DOMAIN d.points => d.ts <= c.ts
  <2> HIDE DEF n
  <2> QED BY <1>4, <1>5
<1> HIDE DEF n, times
<1>7. c \in Decisive
  BY <1>5, <1>6 DEF Decisive
<1> QED BY <1>5, <1>6, <1>7

LEMMA MadeUnitsStored ==
    ASSUME Inv, Decisive \subseteq acked PROVE UnitsMade \subseteq RowUnits
<1> SUFFICES ASSUME NEW u \in UnitsMade PROVE u \in RowUnits
  OBVIOUS
<1> DEFINE k == u[1]
<1>1. PICK b \in made : u \in UnitsOf(b.points, DOMAIN b.points)
  BY DEF UnitsMade
<1>2. /\ u \in (DOMAIN b.points) \X Nat /\ k \in DOMAIN b.points
      /\ u[2] \in 1 .. b.points[k]
  BY <1>1 DEF UnitsOf
<1>3. PICK c \in Decisive : /\ k \in DOMAIN c.points
                            /\ \A d \in made : k \in DOMAIN d.points => d.ts <= c.ts
  BY <1>2, LastDecides
<1>4. c \in made /\ c \in acked
  BY <1>3 DEF Decisive
<1>5. k \in DOMAIN datapoints /\ datapoints[k].ts >= c.ts
  BY <1>3, <1>4 DEF Inv, AckedStored
<1>6. PICK d \in made : /\ k \in DOMAIN d.points /\ datapoints[k].ts = d.ts
                        /\ datapoints[k].value = d.points[k]
                        /\ d.ts \in Nat /\ d.points[k] \in Nat \ {0}
  BY <1>5, RowsAreMade
<1>7. MetricsOK(b, Cardinality(made)) /\ MetricsOK(c, Cardinality(made))
  BY <1>4 DEF Inv, MadeInv
<1>8. b.ts \in Nat /\ c.ts \in Nat /\ b.points[k] \in Nat
  BY <1>2, <1>7 DEF MetricsOK
<1>9. b.ts <= d.ts
  BY <1>2, <1>3, <1>5, <1>6, <1>8
<1>10. b.points[k] <= d.points[k]
  BY <1>2, <1>6, <1>9 DEF Inv, MadeInv, Grows
<1>11. u[2] \in 1 .. datapoints[k].value
  BY <1>2, <1>6, <1>8, <1>10
<1>12. u \in (DOMAIN datapoints) \X Nat
  BY <1>2, <1>5
<1> QED BY <1>5, <1>11, <1>12 DEF RowUnits, UnitsOf

LEMMA InvSumIsTotal == ASSUME Inv PROVE SumIsTotal
<1> SUFFICES ASSUME Decisive \subseteq acked PROVE Sum(datapoints) = used
  BY DEF SumIsTotal
<1>1. RowUnits = UnitsMade
  BY RowUnitsMade, MadeUnitsStored
<1>2. used = Cardinality(UnitsMade)
  BY DEF Inv, MadeInv
<1> QED BY <1>1, <1>2, SumOfRows
-----------------------------------------------------------------------------
LEMMA InvHolds == ASSUME TelemetryAssumption PROVE Spec => []Inv
<1>1. Init => Inv
  BY TelemetryAssumption, InitInv
<1>2. Inv /\ [Next]_vars => Inv'
  BY TelemetryAssumption, NextInv
<1> QED BY <1>1, <1>2, PTL DEF Spec

\* Whatever was lost, sent again, reordered or rolled back, and however often
\* the exporter restarts, the rows of otel_datapoint never add up to more than
\* what was counted (UpsertOTelDatapoint, one row per series and start).
THEOREM NeverOverHolds == Spec => []NeverOver
<1>1. Inv => NeverOver
  BY InvNeverOver
<1>2. Spec => []Inv
  BY TelemetryAssumption, InvHolds
<1> QED BY <1>1, <1>2, PTL

\* "Either way SUM(value) over rows is the true total" (schemaV3), cumulative or
\* delta, as soon as the last batch to speak of each key is acknowledged.
THEOREM SumIsTotalHolds == Spec => []SumIsTotal
<1>1. Inv => SumIsTotal
  BY InvSumIsTotal
<1>2. Spec => []Inv
  BY TelemetryAssumption, InvHolds
<1> QED BY <1>1, <1>2, PTL

\* What was answered with 200 is stored for good: no point of it gives way to an
\* older one, and its events are there, each once (InsertOTelEvent).
THEOREM AckedStoredHolds == Spec => []AckedStored
<1>1. Inv => AckedStored
  BY DEF Inv
<1>2. Spec => []Inv
  BY TelemetryAssumption, InvHolds
<1> QED BY <1>1, <1>2, PTL
=============================================================================

-------------------------- MODULE BenchRunnerProofs ---------------------------
(***************************************************************************)
(* What is proved of the bench runner for any spec files, flags and bounds:*)
(* with any number of processes that rows keep to the snapshot; with one   *)
(* process that trials run one at a time, that completed rows are kept and *)
(* that what they name can be found.                                       *)
(***************************************************************************)
EXTENDS BenchRunner, WellFoundedInduction, TLAPS

-----------------------------------------------------------------------------
(***************************************************************************)
(* The spec and the work list.                                             *)
(***************************************************************************)
LEMMA NatOrder == IsWellFoundedOn({ss \in Nat \X Nat : ss[1] < ss[2]}, Nat)
BY NatLessThanWellFounded DEF OpToRel

LEMMA LeastIn ==
    ASSUME NEW S \in SUBSET Nat, S # {}
    PROVE  Min(S) \in S
<1> DEFINE less == {ss \in Nat \X Nat : ss[1] < ss[2]}
<1>1. PICK i \in S : \A j \in S : ~(<<j, i>> \in less)
  <2> HIDE DEF less
  <2>1. IsWellFoundedOn(less, Nat)
    BY NatOrder DEF less
  <2> QED BY <2>1, WFMin
<1>2. \A j \in S : i <= j
  <2> TAKE j \in S
  <2>1. i \in Nat /\ j \in Nat /\ <<j, i>> \in Nat \X Nat
    OBVIOUS
  <2>2. ~(j < i)
    BY <1>1, <2>1
  <2> QED BY <2>1, <2>2
<1> QED BY <1>2 DEF Min

LEMMA ElementOf ==
    ASSUME NEW S, NEW q \in Seq(S), NEW i \in DOMAIN q
    PROVE  q[i] \in S
OBVIOUS

\* The trials of the arms of a spec.
OfSpec(s) == {t \in Trials : \E i \in DOMAIN s.arms : s.arms[i].name = t[1]}

LEMMA LoadedFacts ==
    ASSUME NEW s \in Loaded
    PROVE  /\ s \in [arms : Seq([name : Arms, harness : STRING]), trials : Int]
           /\ s.trials \in 1 .. MaxTrials
           /\ Valid(s)
<1>1. PICK f \in Files : Valid(f) /\ s = [f EXCEPT !.trials = IF @ <= 0 THEN DefaultTrials ELSE @]
  BY DEF Loaded
<1>2. /\ f \in [arms : Seq([name : Arms, harness : STRING]), trials : Int] /\ f.trials <= MaxTrials
      /\ MaxTrials \in Nat /\ DefaultTrials \in 1 .. MaxTrials
  BY BenchAssumption
<1>3. s.arms = f.arms /\ s.trials = IF f.trials <= 0 THEN DefaultTrials ELSE f.trials
  BY <1>1, <1>2
<1>4. Valid(s)
  BY <1>1, <1>3 DEF Valid
<1> QED BY <1>1, <1>2, <1>3, <1>4

LEMMA ListFacts ==
    ASSUME NEW s \in Loaded, NEW fl \in Flags, NEW skip
    PROVE  /\ workList(s, fl, skip) \subseteq OfSpec(s)
           /\ workList(s, fl, skip) \cap skip = {}
<1>1. /\ s \in [arms : Seq([name : Arms, harness : STRING]), trials : Int]
      /\ s.trials \in 1 .. MaxTrials /\ fl.trials \in 0 .. MaxTrials /\ MaxTrials \in Nat
  BY LoadedFacts, BenchAssumption
<1>2. ASSUME NEW t \in workList(s, fl, skip) PROVE t \in OfSpec(s)
  <2>1. PICK i \in DOMAIN s.arms : t[1] = s.arms[i].name
    BY DEF workList
  <2>2. t[2] \in 1 .. MaxTrials /\ t = <<t[1], t[2]>>
    BY <1>1 DEF workList
  <2>3. s.arms[i].name \in Arms
    <3>1. s.arms \in Seq([name : Arms, harness : STRING])
      BY <1>1
    <3>2. s.arms[i] \in [name : Arms, harness : STRING]
      BY <3>1, ElementOf
    <3> QED BY <3>2
  <2> QED BY <2>1, <2>2, <2>3 DEF OfSpec, Trials
<1> QED BY <1>2 DEF workList

LEMMA CurrentListed ==
    ASSUME NEW p \in Procs, spec[p] \in Loaded, todo[p] # {}, todo[p] \subseteq OfSpec(spec[p])
    PROVE  Current(p) \in todo[p]
<1> DEFINE arms == spec[p].arms
           I    == {i \in DOMAIN arms : \E t \in todo[p] : t[1] = arms[i].name}
           arm  == arms[Min(I)].name
           N    == {n \in 1 .. MaxTrials : <<arm, n>> \in todo[p]}
<1>1. I \in SUBSET Nat /\ I # {}
  <2>1. arms \in Seq([name : Arms, harness : STRING])
    BY LoadedFacts
  <2>2. DOMAIN arms \subseteq Nat
    BY <2>1
  <2> QED BY <2>2 DEF OfSpec
<1>2. Min(I) \in I
  <2> HIDE DEF I
  <2> QED BY <1>1, LeastIn
<1>3. PICK t \in todo[p] : t[1] = arm
  BY <1>2
<1>4. t[2] \in N
  <2>1. t \in Arms \X (1 .. MaxTrials)
    BY DEF OfSpec, Trials
  <2>2. t[2] \in 1 .. MaxTrials /\ t = <<t[1], t[2]>>
    BY <2>1
  <2> QED BY <1>3, <2>2
<1>5. Min(N) \in N
  <2>1. N \in SUBSET Nat
    BY BenchAssumption
  <2> HIDE DEF N
  <2> QED BY <1>4, <2>1, LeastIn
<1> QED BY <1>5 DEF Current

LEMMA SameCurrent ==
    ASSUME NEW p \in Procs, spec'[p] = spec[p], todo'[p] = todo[p]
    PROVE  Current(p)' = Current(p)
BY DEF Current

\* The harness of a trial is that of its arm.
LEMMA HarnessOf ==
    ASSUME NEW p \in Procs, spec[p] \in Loaded, Current(p) \in OfSpec(spec[p])
    PROVE  \E i \in DOMAIN spec[p].arms :
              /\ spec[p].arms[i].name = Current(p)[1]
              /\ spec[p].arms[i].harness = Harness(p)
              /\ Harness(p) \in Harnesses
<1> DEFINE i == CHOOSE j \in DOMAIN spec[p].arms : spec[p].arms[j].name = Current(p)[1]
<1>1. i \in DOMAIN spec[p].arms /\ spec[p].arms[i].name = Current(p)[1]
  BY DEF OfSpec
<1>2. Harness(p) = spec[p].arms[i].harness
  BY DEF Harness, ArmOf
<1>3. spec[p].arms[i].harness \in Harnesses
  BY <1>1, LoadedFacts DEF Valid
<1> QED BY <1>1, <1>2, <1>3

-----------------------------------------------------------------------------
(***************************************************************************)
(* Where a process is, and what it may rely on there.                      *)
(***************************************************************************)
InTrial  == {"register", "prepare", "agent", "ingest", "record"}
Working  == InTrial \cup {"next", "failed"}
Filling  == {"backfill", "mark"}
Stages   == {"idle", "preflight"} \cup Working \cup Filling
Outcomes == {"ok", "fail", "error", "timeout"}

Rows == [status : {"missing", "running"} \cup Outcomes, harness : Harnesses \cup {""},
         sid : Int, ingested : BOOLEAN]

TypeInv ==
    /\ run \in {"none", "started", "finished"}
    /\ rows \in [Trials -> Rows]
    /\ disk \in [Trials -> SUBSET Nat] /\ written \in [Trials -> SUBSET Nat]
    /\ stored \in [Trials -> SUBSET Nat]
    /\ alive \subseteq Trials \X Nat
    /\ pc \in [Procs -> Stages]
    /\ spec \in [Procs -> Loaded \cup {NoSpec}]
    /\ flags \in [Procs -> Flags \cup {NoFlags}]
    /\ todo \in [Procs -> SUBSET Trials]
    /\ attempt \in [Procs -> Nat] /\ attempts \in Nat
    /\ outcome \in [Procs -> Outcomes \cup {""}]
    /\ ingested \in [Procs -> BOOLEAN] /\ interrupted \in [Procs -> BOOLEAN]
    /\ errors \in Nat /\ kills \in Nat

\* The spec is chosen before there is a run, and is the snapshot from then on.
ProcOK(p) ==
    /\ pc[p] = "preflight" => spec[p] \in Loaded /\ flags[p] \in Flags
    /\ pc[p] \in Working \cup Filling => run # "none" /\ spec[p] = snapshot
    /\ pc[p] \in Working => todo[p] \subseteq OfSpec(snapshot)
    /\ pc[p] \in Filling => \A t \in todo[p] : rows[t] # NoRow
    /\ pc[p] \in InTrial \cup {"mark"} => todo[p] # {}
    /\ pc[p] \in {"ingest", "record"} => outcome[p] \in Outcomes

RowsOK ==
    /\ run = "none" => \A t \in Trials : rows[t] = NoRow
    /\ run # "none" => snapshot \in Loaded
    /\ SpecKept

SpecInv == TypeInv /\ RowsOK /\ \A p \in Procs : ProcOK(p)

\* A trial that is being worked on is on the list, and of the snapshot.
LEMMA CurrentFacts ==
    ASSUME SpecInv, NEW p \in Procs, pc[p] \in Working \cup Filling, todo[p] # {}
    PROVE  /\ Current(p) \in todo[p] /\ Current(p) \in Trials
           /\ \E i \in DOMAIN snapshot.arms :
                 /\ snapshot.arms[i].name = Current(p)[1]
                 /\ snapshot.arms[i].harness = Harness(p)
           /\ Harness(p) \in Harnesses
<1>1. run # "none" /\ spec[p] = snapshot /\ snapshot \in Loaded /\ ProcOK(p)
  BY DEF SpecInv, RowsOK, ProcOK
<1>2. todo[p] \subseteq OfSpec(snapshot)
  <2>1. CASE pc[p] \in Working
    BY <2>1, <1>1 DEF ProcOK
  <2>2. CASE pc[p] \in Filling
    <3>1. \A t \in todo[p] : t \in Trials /\ rows[t] # NoRow
      BY <2>2, <1>1 DEF ProcOK, SpecInv, TypeInv
    <3> QED BY <3>1 DEF SpecInv, RowsOK, SpecKept, OfSpec
  <2> QED BY <2>1, <2>2
<1>3. Current(p) \in todo[p]
  BY <1>1, <1>2, CurrentListed
<1>4. Current(p) \in Trials /\ Current(p) \in OfSpec(snapshot)
  BY <1>2, <1>3 DEF OfSpec
<1> QED BY <1>1, <1>3, <1>4, HarnessOf

LEMMA InitInv == Init => SpecInv
<1> SUFFICES ASSUME Init PROVE SpecInv
  OBVIOUS
<1>1. NoRow \in Rows
  <2>1. 0 \in Int
    OBVIOUS
  <2> QED BY <2>1, Zenon DEF NoRow, Rows, NoSid
<1>2. TypeInv
  BY <1>1 DEF Init, TypeInv, Stages, NoFlags
<1> QED BY <1>2 DEF Init, SpecInv, RowsOK, SpecKept, ProcOK, Working, Filling, InTrial

\* UpsertBenchTrial of the trial in hand makes a row that is one.
LEMMA RowType ==
    ASSUME SpecInv, NEW p \in Procs, pc[p] \in InTrial,
           NEW status \in {"running"} \cup Outcomes, NEW sid \in Int, NEW done \in BOOLEAN,
           WriteRow(p, status, sid, done)
    PROVE  /\ rows' \in [Trials -> Rows]
           /\ \A t \in Trials : t # Current(p) => rows'[t] = rows[t]
           /\ Current(p) \in todo[p] /\ Current(p) \in Trials
           /\ rows'[Current(p)] = [status |-> status, harness |-> Harness(p), sid |-> sid,
                                   ingested |-> done]
           /\ \A t \in Trials : rows[t] # NoRow => rows'[t] # NoRow
<1>1. todo[p] # {} /\ pc[p] \in Working
  BY DEF SpecInv, ProcOK, Working
<1>2. Current(p) \in todo[p] /\ Current(p) \in Trials /\ Harness(p) \in Harnesses
  BY <1>1, CurrentFacts
<1> DEFINE row == [status |-> status, harness |-> Harness(p), sid |-> sid, ingested |-> done]
<1>3. row \in Rows /\ row # NoRow
  BY <1>2 DEF Rows, NoRow, Outcomes
<1>4. rows' = [rows EXCEPT ![Current(p)] = row] /\ rows \in [Trials -> Rows]
  BY DEF WriteRow, SpecInv, TypeInv
<1> HIDE DEF row
<1>5. /\ rows' \in [Trials -> Rows] /\ rows'[Current(p)] = row
      /\ \A t \in Trials : t # Current(p) => rows'[t] = rows[t]
  BY <1>2, <1>3, <1>4
<1>6. \A t \in Trials : rows[t] # NoRow => rows'[t] # NoRow
  BY <1>3, <1>5
<1> QED BY <1>2, <1>5, <1>6 DEF row

LEMMA TypeStep == SpecInv /\ [Next]_vars => TypeInv'
<1> SUFFICES ASSUME SpecInv, [Next]_vars PROVE TypeInv'
  OBVIOUS
<1>t. TypeInv
  BY DEF SpecInv
<1> USE DEF bench, db, agents, given, trial, locals, counts, Stages, Working, InTrial, Filling
<1>1. CASE UNCHANGED vars
  BY <1>1, <1>t DEF TypeInv, vars
<1>2. ASSUME NEW p \in Procs, Run(p) PROVE TypeInv'
  BY <1>2, <1>t, ZenonT(60) DEF TypeInv, Run, Goto
<1>3. ASSUME NEW p \in Procs, Forget(p), UNCHANGED <<rows, stored, agents>>,
             run' \in {run, "finished"}, UNCHANGED <<attempts, errors>>, kills' \in Nat,
             pc' = [pc EXCEPT ![p] = "idle"]
      PROVE  TypeInv'
  BY <1>3, <1>t DEF TypeInv, Forget, NoFlags
<1>4. ASSUME NEW p \in Procs, Declined(p) \/ RunKeyTaken(p) \/ EndIngestRun(p) PROVE TypeInv'
  BY <1>3, <1>4, <1>t DEF Declined, RunKeyTaken, EndIngestRun, Goto, TypeInv
<1>5. ASSUME NEW p \in Procs, Finish(p) PROVE TypeInv'
  BY <1>3, <1>5, <1>t DEF Finish, TypeInv
<1>6. ASSUME NEW p \in Procs, Kill(p) PROVE TypeInv'
  <2>1. kills' \in Nat
    <3>1. kills \in Nat /\ kills' = kills + 1
      BY <1>6, <1>t DEF Kill, TypeInv
    <3> QED BY <3>1
  <2> QED BY <1>3, <1>6, <2>1 DEF Kill
<1>7. ASSUME NEW p \in Procs, NEW stage \in {"next", "backfill"}, NEW list \in SUBSET Trials,
             Command(p, stage, list)
      PROVE  TypeInv'
  <2>1. snapshot \in Loaded
    BY <1>7 DEF Command, SpecInv, RowsOK
  <2> QED BY <1>7, <1>t, <2>1 DEF TypeInv, Command, SpecFor, Goto
<1>8. ASSUME NEW p \in Procs, Resume(p) PROVE TypeInv'
  <2>1. PICK fl \in Flags : Command(p, "next", workList(SpecFor, fl, Skipped))
    BY <1>8 DEF Resume
  <2>2. SpecFor \in Loaded
    BY <2>1 DEF Command, SpecInv, RowsOK, SpecFor
  <2>3. workList(SpecFor, fl, Skipped) \in SUBSET Trials
    BY <2>2, ListFacts DEF OfSpec
  <2> QED BY <1>7, <2>1, <2>3
<1>9. ASSUME NEW p \in Procs, IngestRun(p) PROVE TypeInv'
  BY <1>7, <1>9 DEF IngestRun
<1>10. ASSUME NEW p \in Procs, InsertBenchRun(p) PROVE TypeInv'
  <2>1. spec[p] \in Loaded /\ flags[p] \in Flags
    BY <1>10 DEF InsertBenchRun, Goto, SpecInv, ProcOK
  <2>2. workList(spec[p], flags[p], {}) \in SUBSET Trials
    BY <2>1, ListFacts DEF OfSpec
  <2> QED BY <1>10, <1>t, <2>1, <2>2 DEF TypeInv, InsertBenchRun, Goto, NoFlags
<1>11. ASSUME NEW p \in Procs, CleanTrial(p) \/ StartAgent(p) PROVE TypeInv'
  <2>1. CASE CleanTrial(p)
    <3>1. /\ disk' \in [Trials -> SUBSET Nat] /\ attempts' \in Nat
          /\ attempt' \in [Procs -> Nat]
      <4>1. attempts \in Nat /\ attempts' = attempts + 1 /\ attempts + 1 \in Nat
        <5>1. attempts \in Nat
          BY <1>t DEF TypeInv
        <5>2. attempts' = attempts + 1
          BY <2>1 DEF CleanTrial
        <5> QED BY <5>1, <5>2
      <4>2. attempt' \in [Procs -> Nat]
        BY <2>1, <1>t, <4>1 DEF TypeInv, CleanTrial
      <4>3. disk' \in [Trials -> SUBSET Nat]
        BY <2>1, <1>t DEF TypeInv, CleanTrial
      <4> QED BY <4>1, <4>2, <4>3
    <3> QED BY <2>1, <3>1, <1>t DEF TypeInv, CleanTrial, Goto
  <2>2. CASE StartAgent(p)
    <3>1. Current(p) \in Trials
      BY <2>2, CurrentFacts DEF SpecInv, ProcOK, StartAgent, Goto
    <3>2. alive' \subseteq Trials \X Nat
      <4>1. attempt[p] \in Nat /\ alive \subseteq Trials \X Nat
        BY <1>t DEF TypeInv
      <4>2. alive' = alive \cup {<<Current(p), attempt[p]>>}
        BY <2>2 DEF StartAgent, Agent
      <4>3. <<Current(p), attempt[p]>> \in Trials \X Nat
        BY <3>1, <4>1
      <4> QED BY <4>1, <4>2, <4>3, Zenon
    <3> QED BY <2>2, <1>t, <3>2 DEF TypeInv, StartAgent, Goto
  <2> QED BY <1>11, <2>1, <2>2
<1>12. ASSUME NEW p \in Procs, Register(p) PROVE TypeInv'
  <2>1. Assigned(p) \in Int
    <3>1. attempt[p] \in Nat
      BY <1>t DEF TypeInv
    <3> QED BY <3>1 DEF Assigned, NoSid
  <2>2. rows' \in [Trials -> Rows]
    BY <1>12, <2>1, RowType DEF Register, Goto
  <2> QED BY <1>12, <1>t, <2>2 DEF TypeInv, Register, Goto
<1>13. ASSUME NEW p \in Procs, RecordTrial(p) PROVE TypeInv'
  <2>1. PICK sid \in FinalSids(p) : WriteRow(p, outcome[p], sid, ingested[p])
    BY <1>13 DEF RecordTrial
  <2>2. sid \in Int
    <3>1. attempt[p] \in Nat
      BY <1>t DEF TypeInv
    <3> QED BY <3>1 DEF FinalSids, ccSids, ocSids, Assigned, NoSid, OtherSid
  <2>3. outcome[p] \in Outcomes /\ ingested[p] \in BOOLEAN
    BY <1>13, <1>t DEF RecordTrial, Goto, SpecInv, ProcOK, TypeInv
  <2>4. rows' \in [Trials -> Rows]
    BY <1>13, <2>1, <2>2, <2>3, RowType DEF RecordTrial, Goto
  <2> QED BY <1>13, <1>t, <2>4 DEF TypeInv, RecordTrial, Goto, NextTrial
<1>14. ASSUME NEW p \in Procs, NEW status \in Outcomes, AgentEnds(p, status),
              alive' \subseteq alive
       PROVE  TypeInv'
  BY <1>14, <1>t DEF TypeInv, AgentEnds, Goto
<1>15. ASSUME NEW p \in Procs, AgentExits(p) \/ Deadline(p) \/ KilledByInterrupt(p) PROVE TypeInv'
  BY <1>14, <1>15 DEF AgentExits, Deadline, KilledByInterrupt, Outcomes
<1>16. ASSUME NEW p \in Procs, NEW harness, NEW part \in SUBSET Found(Current(p), harness),
              Current(p) \in Trials,
              stored' = [stored EXCEPT ![Current(p)] = @ \cup part]
       PROVE  stored' \in [Trials -> SUBSET Nat]
  BY <1>16, <1>t DEF TypeInv, Found
<1>17. ASSUME NEW p \in Procs, IngestTrial(p) PROVE TypeInv'
  <2>1. Current(p) \in Trials
    BY <1>17, CurrentFacts DEF SpecInv, ProcOK, IngestTrial, Goto
  <2>2. stored' \in [Trials -> SUBSET Nat]
    BY <1>17, <2>1, <1>16 DEF IngestTrial
  <2> QED BY <1>17, <1>t, <2>2 DEF TypeInv, IngestTrial, Goto
<1>18. ASSUME NEW p \in Procs, InfraError(p) \/ Interrupt(p) PROVE TypeInv'
  <2>1. errors' \in Nat
    <3>1. errors \in Nat /\ errors' = errors + 1
      BY <1>18, <1>t DEF TypeInv, InfraError, Interrupt, Fault
    <3> QED BY <3>1
  <2>2. interrupted' \in [Procs -> BOOLEAN]
    BY <1>18, <1>t DEF TypeInv, InfraError, Interrupt
  <2> QED BY <1>18, <1>t, <2>1, <2>2 DEF TypeInv, InfraError, Interrupt
<1>19. ASSUME NEW p \in Procs, BackfillTrial(p) \/ BackfillFails(p) PROVE TypeInv'
  <2>1. Current(p) \in Trials
    BY <1>19, CurrentFacts DEF SpecInv, ProcOK, BackfillTrial, BackfillFails, Goto
  <2>2. stored' \in [Trials -> SUBSET Nat]
    <3>1. \E part \in SUBSET Backfilled(p) :
             stored' = [stored EXCEPT ![Current(p)] = @ \cup part]
      BY <1>19 DEF BackfillTrial, BackfillFails
    <3> QED BY <2>1, <3>1, <1>16 DEF Backfilled
  <2>3. todo' \in [Procs -> SUBSET Trials]
    <3>1. todo' = todo \/ todo' = [todo EXCEPT ![p] = @ \ {Current(p)}]
      BY <1>19 DEF BackfillTrial, BackfillFails, NextBackfill
    <3>2. todo \in [Procs -> SUBSET Trials]
      BY <1>t DEF TypeInv
    <3> QED BY <3>1, <3>2
  <2>4. pc' \in [Procs -> Stages]
    BY <1>19, <1>t DEF TypeInv, BackfillTrial, BackfillFails, Goto
  <2> QED BY <1>19, <1>t, <2>2, <2>3, <2>4 DEF TypeInv, BackfillTrial, BackfillFails
<1>20. ASSUME NEW p \in Procs, MarkIngested(p) PROVE TypeInv'
  <2>1. Current(p) \in Trials
    BY <1>20, CurrentFacts DEF SpecInv, ProcOK, MarkIngested, Goto
  <2>2. rows' \in [Trials -> Rows]
    <3>1. [rows[Current(p)] EXCEPT !.ingested = TRUE] \in Rows
      <4> DEFINE r == rows[Current(p)]
      <4>1. r \in Rows
        BY <1>t, <2>1 DEF TypeInv
      <4> HIDE DEF r
      <4>2. [r EXCEPT !.ingested = TRUE] \in Rows
        BY <4>1, Zenon DEF Rows
      <4> QED BY <4>2 DEF r
    <3> QED BY <1>20, <1>t, <3>1 DEF TypeInv, MarkIngested
  <2> QED BY <1>20, <1>t, <2>2 DEF TypeInv, MarkIngested, NextBackfill, Goto
<1>21. ASSUME NEW a \in alive, AgentWrites(a) \/ OrphanExits(a) PROVE TypeInv'
  <2>1. a[1] \in Trials /\ a[2] \in Nat
    BY <1>21, <1>t DEF TypeInv
  <2>2. disk' \in [Trials -> SUBSET Nat] /\ written' \in [Trials -> SUBSET Nat]
    <3>1. disk \in [Trials -> SUBSET Nat] /\ written \in [Trials -> SUBSET Nat]
      BY <1>t DEF TypeInv
    <3>2. CASE AgentWrites(a)
      BY <3>1, <3>2, <2>1 DEF AgentWrites
    <3>3. CASE OrphanExits(a)
      BY <3>1, <3>3 DEF OrphanExits
    <3> QED BY <1>21, <3>2, <3>3
  <2>3. alive' \subseteq alive
    BY <1>21 DEF AgentWrites, OrphanExits
  <2> QED BY <1>21, <1>t, <2>2, <2>3 DEF TypeInv, AgentWrites, OrphanExits
<1> QED
  BY <1>1, <1>2, <1>4, <1>5, <1>6, <1>8, <1>9, <1>10, <1>11, <1>12, <1>13, <1>15, <1>17, <1>18,
     <1>19, <1>20, <1>21 DEF Next, Commands, Step

-----------------------------------------------------------------------------
(***************************************************************************)
(* Rows keep to the snapshot.                                              *)
(***************************************************************************)
Alone(p) == Commands(p) \/ Step(p) \/ AgentExits(p) \/ InfraError(p) \/ Interrupt(p) \/ Kill(p)

\* A process changes no local of another one.
LEMMA OthersStand ==
    ASSUME SpecInv, NEW p \in Procs, Alone(p), NEW q \in Procs, q # p
    PROVE  /\ pc'[q] = pc[q] /\ spec'[q] = spec[q] /\ flags'[q] = flags[q]
           /\ todo'[q] = todo[q] /\ attempt'[q] = attempt[q] /\ outcome'[q] = outcome[q]
           /\ ingested'[q] = ingested[q]
<1>t. /\ pc \in [Procs -> Stages] /\ DOMAIN spec = Procs /\ DOMAIN flags = Procs
      /\ DOMAIN todo = Procs /\ DOMAIN attempt = Procs /\ DOMAIN outcome = Procs
      /\ DOMAIN ingested = Procs
  BY DEF SpecInv, TypeInv
<1> USE DEF bench, db, agents, given, trial, locals, counts
<1>1. CASE Run(p) \/ InsertBenchRun(p)
  BY <1>1, <1>t DEF Run, InsertBenchRun, Goto
<1>2. CASE Declined(p) \/ RunKeyTaken(p) \/ EndIngestRun(p) \/ Finish(p) \/ Kill(p)
  <2>1. Forget(p) /\ pc' = [pc EXCEPT ![p] = "idle"]
    BY <1>2 DEF Declined, RunKeyTaken, EndIngestRun, Finish, Kill, Goto
  <2> QED BY <2>1, <1>t DEF Forget
<1>3. CASE Resume(p) \/ IngestRun(p)
  <2>1. PICK stage, list : Command(p, stage, list)
    BY <1>3 DEF Resume, IngestRun
  <2> QED BY <2>1, <1>t DEF Command, Goto
<1>4. CASE CleanTrial(p) \/ Register(p) \/ StartAgent(p)
  BY <1>4, <1>t DEF CleanTrial, Register, StartAgent, Goto
<1>5. CASE AgentExits(p) \/ Deadline(p) \/ KilledByInterrupt(p)
  <2>1. PICK status : AgentEnds(p, status)
    BY <1>5 DEF AgentExits, Deadline, KilledByInterrupt
  <2> QED BY <2>1, <1>t DEF AgentEnds, Goto
<1>6. CASE IngestTrial(p) \/ RecordTrial(p)
  BY <1>6, <1>t DEF IngestTrial, RecordTrial, NextTrial, Goto
<1>7. CASE InfraError(p) \/ Interrupt(p)
  BY <1>7, <1>t DEF InfraError, Interrupt
<1>8. CASE BackfillTrial(p) \/ BackfillFails(p) \/ MarkIngested(p)
  BY <1>8, <1>t DEF BackfillTrial, BackfillFails, MarkIngested, NextBackfill, Goto
<1> QED
  BY <1>1, <1>2, <1>3, <1>4, <1>5, <1>6, <1>7, <1>8 DEF Alone, Commands, Step

\* A row is never taken back, and a run keeps its snapshot.
RunStands == run # "none" => run' # "none" /\ snapshot' = snapshot
RowsStand == \A t \in Trials : rows[t] # NoRow => rows'[t] # NoRow

LEMMA BenchStands ==
    ASSUME SpecInv, [Next]_vars
    PROVE  RunStands /\ RowsStand
<1> USE DEF bench, db, agents, given, trial, locals, counts, RunStands
<1>1. ASSUME UNCHANGED rows PROVE RowsStand
  BY <1>1 DEF RowsStand
<1>2. CASE UNCHANGED vars
  BY <1>1, <1>2 DEF vars
<1>3. ASSUME NEW p \in Procs, Alone(p) PROVE RunStands
  BY <1>3 DEF Alone, Commands, Step, Run, InsertBenchRun, Declined, RunKeyTaken, Resume, IngestRun,
     Command, CleanTrial, Register, StartAgent, AgentExits, Deadline, KilledByInterrupt, AgentEnds,
     IngestTrial, RecordTrial, Finish, InfraError, Interrupt, Kill, BackfillTrial, BackfillFails,
     MarkIngested, EndIngestRun
<1>4. ASSUME NEW p \in Procs, Register(p) PROVE RowsStand
  <2>1. Assigned(p) \in Int
    <3>1. attempt[p] \in Nat
      BY DEF SpecInv, TypeInv
    <3> QED BY <3>1 DEF Assigned, NoSid
  <2> QED BY <1>4, <2>1, RowType DEF Register, Goto, RowsStand, InTrial
<1>5. ASSUME NEW p \in Procs, RecordTrial(p) PROVE RowsStand
  <2>1. PICK sid \in FinalSids(p) : WriteRow(p, outcome[p], sid, ingested[p])
    BY <1>5 DEF RecordTrial
  <2>2. sid \in Int
    <3>1. attempt[p] \in Nat
      BY DEF SpecInv, TypeInv
    <3> QED BY <3>1 DEF FinalSids, ccSids, ocSids, Assigned, NoSid, OtherSid
  <2>3. pc[p] \in InTrial /\ outcome[p] \in Outcomes /\ ingested[p] \in BOOLEAN
    BY <1>5 DEF RecordTrial, Goto, SpecInv, ProcOK, TypeInv, InTrial
  <2> QED BY <2>1, <2>2, <2>3, RowType DEF RowsStand
<1>6. ASSUME NEW p \in Procs, MarkIngested(p) PROVE RowsStand
  <2>1. Current(p) \in todo[p] /\ Current(p) \in Trials /\ rows[Current(p)] # NoRow
    BY <1>6, CurrentFacts DEF SpecInv, ProcOK, MarkIngested, Goto, Filling
  <2>2. rows'[Current(p)].ingested = TRUE
    BY <1>6, <2>1 DEF MarkIngested, SpecInv, TypeInv, Rows
  <2>3. \A t \in Trials : t # Current(p) => rows'[t] = rows[t]
    BY <1>6 DEF MarkIngested, SpecInv, TypeInv
  <2>4. rows'[Current(p)] # NoRow
    <3>1. NoRow.ingested = FALSE
      BY DEF NoRow
    <3> QED BY <2>2, <3>1
  <2> QED BY <2>1, <2>3, <2>4 DEF RowsStand
<1>7. ASSUME NEW p \in Procs, Alone(p), ~(Register(p) \/ RecordTrial(p) \/ MarkIngested(p))
      PROVE  RowsStand
  BY <1>1, <1>7 DEF Alone, Commands, Step, Run, InsertBenchRun, Declined, RunKeyTaken, Resume,
     IngestRun, Command, CleanTrial, StartAgent, AgentExits, Deadline, KilledByInterrupt, AgentEnds,
     IngestTrial, Finish, InfraError, Interrupt, Kill, BackfillTrial, BackfillFails, EndIngestRun
<1>8. ASSUME NEW a \in alive, AgentWrites(a) \/ OrphanExits(a) PROVE RunStands /\ RowsStand
  BY <1>1, <1>8 DEF AgentWrites, OrphanExits
<1> QED
  BY <1>2, <1>3, <1>4, <1>5, <1>6, <1>7, <1>8 DEF Next, Alone

LEMMA RowsStep == SpecInv /\ [Next]_vars => RowsOK'
<1> SUFFICES ASSUME SpecInv, [Next]_vars PROVE RowsOK'
  OBVIOUS
<1>t. RowsOK /\ rows \in [Trials -> Rows]
  BY DEF SpecInv, TypeInv
<1> USE DEF bench, db, agents, given, trial, locals, counts
<1>1. ASSUME UNCHANGED <<run, snapshot, rows>> PROVE RowsOK'
  BY <1>1, <1>t DEF RowsOK, SpecKept
<1>2. ASSUME NEW p \in Procs, InsertBenchRun(p) PROVE RowsOK'
  <2>1. \A t \in Trials : rows'[t] = NoRow
    BY <1>2, <1>t DEF InsertBenchRun, RowsOK
  <2>2. snapshot' \in Loaded
    BY <1>2 DEF InsertBenchRun, Goto, SpecInv, ProcOK
  <2> QED BY <2>1, <2>2 DEF RowsOK, SpecKept
<1>3. ASSUME NEW p \in Procs, Finish(p) PROVE RowsOK'
  <2>1. run # "none" /\ run' = "finished" /\ snapshot' = snapshot /\ rows' = rows
    BY <1>3 DEF Finish, SpecInv, ProcOK, Working
  <2> QED BY <2>1, <1>t DEF RowsOK, SpecKept
<1>4. ASSUME NEW p \in Procs, pc[p] \in InTrial, UNCHANGED <<run, snapshot>>,
             NEW status \in {"running"} \cup Outcomes, NEW sid \in Int, NEW done \in BOOLEAN,
             WriteRow(p, status, sid, done)
      PROVE  RowsOK'
  <2>1. run # "none" /\ todo[p] # {} /\ pc[p] \in Working
    BY <1>4 DEF SpecInv, ProcOK, Working
  <2>2. \E i \in DOMAIN snapshot.arms :
           snapshot.arms[i].name = Current(p)[1] /\ snapshot.arms[i].harness = Harness(p)
    BY <2>1, CurrentFacts
  <2>3. /\ rows'[Current(p)].harness = Harness(p)
        /\ \A t \in Trials : t # Current(p) => rows'[t] = rows[t]
    <3>1. /\ rows'[Current(p)] = [status |-> status, harness |-> Harness(p), sid |-> sid,
                                   ingested |-> done]
          /\ \A t \in Trials : t # Current(p) => rows'[t] = rows[t]
      BY <1>4, RowType
    <3> QED BY <3>1
  <2>4. SpecKept'
    BY <2>2, <2>3, <1>t, <1>4 DEF RowsOK, SpecKept
  <2> QED BY <2>1, <2>4, <1>4, <1>t DEF RowsOK
<1>5. ASSUME NEW p \in Procs, Register(p) PROVE RowsOK'
  <2>1. Assigned(p) \in Int
    <3>1. attempt[p] \in Nat
      BY DEF SpecInv, TypeInv
    <3> QED BY <3>1 DEF Assigned, NoSid
  <2> QED BY <1>4, <1>5, <2>1 DEF Register, Goto, InTrial
<1>6. ASSUME NEW p \in Procs, RecordTrial(p) PROVE RowsOK'
  <2>1. PICK sid \in FinalSids(p) : WriteRow(p, outcome[p], sid, ingested[p])
    BY <1>6 DEF RecordTrial
  <2>2. sid \in Int
    <3>1. attempt[p] \in Nat
      BY DEF SpecInv, TypeInv
    <3> QED BY <3>1 DEF FinalSids, ccSids, ocSids, Assigned, NoSid, OtherSid
  <2>3. pc[p] \in InTrial /\ outcome[p] \in Outcomes /\ ingested[p] \in BOOLEAN
    BY <1>6 DEF RecordTrial, Goto, SpecInv, ProcOK, TypeInv, InTrial
  <2> QED BY <1>4, <1>6, <2>1, <2>2, <2>3 DEF RecordTrial
<1>7. ASSUME NEW p \in Procs, MarkIngested(p) PROVE RowsOK'
  <2>1. run # "none" /\ Current(p) \in Trials /\ rows[Current(p)] # NoRow
    BY <1>7, CurrentFacts DEF SpecInv, ProcOK, MarkIngested, Goto, Filling
  <2>2. \A t \in Trials : rows'[t].harness = rows[t].harness /\ (rows'[t] = NoRow \/ rows[t] # NoRow)
    BY <1>7, <1>t, <2>1 DEF MarkIngested, Rows
  <2>3. run' = run /\ snapshot' = snapshot
    BY <1>7 DEF MarkIngested
  <2>4. SpecKept'
    BY <2>2, <2>3, <1>t DEF RowsOK, SpecKept
  <2> QED BY <2>1, <2>3, <2>4, <1>t DEF RowsOK
<1>8. CASE UNCHANGED vars
  BY <1>1, <1>8 DEF vars
<1>9. ASSUME NEW p \in Procs, Alone(p),
             ~(InsertBenchRun(p) \/ Finish(p) \/ Register(p) \/ RecordTrial(p) \/ MarkIngested(p))
      PROVE  RowsOK'
  <2>1. UNCHANGED <<run, snapshot, rows>>
    BY <1>9 DEF Alone, Commands, Step, Run, Declined, RunKeyTaken, Resume, IngestRun, Command,
       CleanTrial, StartAgent, AgentExits, Deadline, KilledByInterrupt, AgentEnds, IngestTrial,
       InfraError, Interrupt, Kill, BackfillTrial, BackfillFails, EndIngestRun
  <2> QED BY <1>1, <2>1
<1>10. ASSUME NEW a \in alive, AgentWrites(a) \/ OrphanExits(a) PROVE RowsOK'
  BY <1>1, <1>10 DEF AgentWrites, OrphanExits
<1> QED
  BY <1>2, <1>3, <1>5, <1>6, <1>7, <1>8, <1>9, <1>10 DEF Next, Alone

\* What holds of a process that does not move.
LEMMA ProcStays ==
    ASSUME SpecInv, NEW q \in Procs, RunStands, RowsStand,
           pc'[q] = pc[q], spec'[q] = spec[q], flags'[q] = flags[q], todo'[q] = todo[q],
           outcome'[q] = outcome[q]
    PROVE  ProcOK(q)'
<1>1. ProcOK(q) /\ todo[q] \subseteq Trials
  BY DEF SpecInv, TypeInv
<1> QED BY <1>1 DEF ProcOK, RunStands, RowsStand

\* What holds of the process that moves.
LEMMA ProcMoves ==
    ASSUME SpecInv, NEW p \in Procs, Alone(p), RunStands, RowsStand
    PROVE  ProcOK(p)'
<1>t. /\ pc \in [Procs -> Stages] /\ DOMAIN spec = Procs /\ DOMAIN flags = Procs
      /\ DOMAIN todo = Procs /\ DOMAIN attempt = Procs /\ DOMAIN outcome = Procs
      /\ DOMAIN ingested = Procs /\ ProcOK(p) /\ todo[p] \subseteq Trials
  BY DEF SpecInv, TypeInv
<1> USE DEF bench, db, agents, given, trial, locals, counts, InTrial, Working, Filling
<1>1. CASE Run(p)
  <2>1. /\ pc'[p] = "preflight" /\ spec'[p] \in Loaded /\ flags'[p] \in Flags
    BY <1>1, <1>t DEF Run, Goto
  <2> QED BY <2>1 DEF ProcOK
<1>2. CASE InsertBenchRun(p)
  <2>1. /\ pc'[p] = "next" /\ run' # "none" /\ snapshot' = spec[p] /\ spec'[p] = spec[p]
        /\ todo'[p] = workList(spec[p], flags[p], {})
    BY <1>2, <1>t DEF InsertBenchRun, Goto
  <2>2. spec[p] \in Loaded /\ flags[p] \in Flags
    BY <1>2, <1>t DEF InsertBenchRun, Goto, ProcOK
  <2>3. todo'[p] \subseteq OfSpec(snapshot')
    BY <2>1, <2>2, ListFacts
  <2> QED BY <2>1, <2>3 DEF ProcOK
<1>3. CASE pc' = [pc EXCEPT ![p] = "idle"]
  BY <1>3, <1>t DEF ProcOK
<1>4. CASE Resume(p)
  <2>1. PICK fl \in Flags : Command(p, "next", workList(SpecFor, fl, Skipped))
    BY <1>4 DEF Resume
  <2>2. /\ pc'[p] = "next" /\ run' # "none" /\ snapshot' = snapshot /\ spec'[p] = snapshot
        /\ todo'[p] = workList(snapshot, fl, Skipped) /\ snapshot \in Loaded
    BY <2>1, <1>t DEF Command, Goto, SpecFor, SpecInv, RowsOK
  <2>3. todo'[p] \subseteq OfSpec(snapshot')
    BY <2>2, ListFacts
  <2> QED BY <2>2, <2>3 DEF ProcOK
<1>5. CASE IngestRun(p)
  <2>1. /\ pc'[p] = "backfill" /\ run' # "none" /\ snapshot' = snapshot /\ spec'[p] = snapshot
        /\ todo'[p] = {t \in Trials : rows[t] # NoRow}
    BY <1>5, <1>t DEF IngestRun, Command, Goto, SpecFor
  <2> QED BY <2>1 DEF ProcOK, RowsStand
<1>6. ASSUME pc[p] \in Working, pc'[p] \in Working, UNCHANGED <<spec, run, snapshot>>,
             todo'[p] \subseteq todo[p], pc'[p] \in InTrial => todo'[p] # {},
             pc'[p] \in {"ingest", "record"} => outcome'[p] \in Outcomes
      PROVE  ProcOK(p)'
  BY <1>6, <1>t DEF ProcOK
<1>7. CASE CleanTrial(p)
  BY <1>6, <1>7, <1>t DEF CleanTrial, Goto
<1>8. CASE Register(p) \/ StartAgent(p)
  BY <1>6, <1>8, <1>t DEF Register, StartAgent, Goto, ProcOK
<1>9. CASE AgentExits(p) \/ Deadline(p) \/ KilledByInterrupt(p)
  <2>1. PICK status \in Outcomes : AgentEnds(p, status)
    BY <1>9 DEF AgentExits, Deadline, KilledByInterrupt, Outcomes
  <2> QED BY <1>6, <2>1, <1>t DEF AgentEnds, Goto, ProcOK
<1>10. CASE IngestTrial(p)
  BY <1>6, <1>10, <1>t DEF IngestTrial, Goto, ProcOK
<1>11. CASE RecordTrial(p)
  BY <1>6, <1>11, <1>t DEF RecordTrial, NextTrial, Goto, ProcOK
<1>12. CASE InfraError(p)
  BY <1>6, <1>12, <1>t DEF InfraError, ProcOK
<1>13. CASE Interrupt(p)
  BY <1>13, <1>t, ProcStays DEF Interrupt
<1>14. CASE BackfillTrial(p)
  BY <1>14, <1>t DEF BackfillTrial, Goto, ProcOK, RowsStand
<1>15. CASE BackfillFails(p)
  BY <1>15, <1>t DEF BackfillFails, NextBackfill, ProcOK, RowsStand
<1>16. CASE MarkIngested(p)
  BY <1>16, <1>t DEF MarkIngested, NextBackfill, Goto, ProcOK, RowsStand
<1>17. CASE Declined(p) \/ RunKeyTaken(p) \/ EndIngestRun(p) \/ Finish(p) \/ Kill(p)
  BY <1>3, <1>17 DEF Declined, RunKeyTaken, EndIngestRun, Finish, Kill, Goto
<1> QED
  BY <1>1, <1>2, <1>4, <1>5, <1>7, <1>8, <1>9, <1>10, <1>11, <1>12, <1>13, <1>14, <1>15, <1>16,
     <1>17 DEF Alone, Commands, Step

LEMMA SpecInvStep == SpecInv /\ [Next]_vars => SpecInv'
<1> SUFFICES ASSUME SpecInv, [Next]_vars PROVE SpecInv'
  OBVIOUS
<1>1. TypeInv' /\ RowsOK' /\ RunStands /\ RowsStand
  BY TypeStep, RowsStep, BenchStands
<1>2. ASSUME NEW q \in Procs PROVE ProcOK(q)'
  <2>1. ASSUME NEW p \in Procs, Alone(p) PROVE ProcOK(q)'
    <3>1. CASE q = p
      BY <1>1, <2>1, <3>1, ProcMoves
    <3>2. CASE q # p
      BY <1>1, <2>1, <3>2, OthersStand, ProcStays
    <3> QED BY <3>1, <3>2
  <2>2. ASSUME UNCHANGED <<pc, spec, flags, todo, outcome>> PROVE ProcOK(q)'
    BY <1>1, <2>2, ProcStays
  <2>3. CASE UNCHANGED vars
    BY <2>2, <2>3 DEF vars, locals, given, trial
  <2>4. ASSUME NEW a \in alive, AgentWrites(a) \/ OrphanExits(a) PROVE ProcOK(q)'
    BY <2>2, <2>4 DEF AgentWrites, OrphanExits, locals, given, trial
  <2> QED BY <2>1, <2>3, <2>4 DEF Next, Alone
<1> QED BY <1>1, <1>2 DEF SpecInv

\* A process relies at every stage on the run and the spec it began with.
LEMMA SpecInvHolds == Spec => []SpecInv
<1>1. Init => SpecInv
  BY InitInv
<1>2. SpecInv /\ [Next]_vars => SpecInv'
  BY SpecInvStep
<1> QED BY <1>1, <1>2, PTL DEF Spec

\* Whatever commands are given, in however many processes, and however often the
\* spec file changes: every row is of an arm of the snapshot, under its harness
\* ("resume always uses the snapshot, never the file").
THEOREM SpecKeptHolds == Spec => []SpecKept
<1>1. SpecInv => SpecKept
  BY DEF SpecInv, RowsOK
<1> QED BY <1>1, SpecInvHolds, PTL

-----------------------------------------------------------------------------
(***************************************************************************)
(* One process: what is recorded stays, and can be found.                  *)
(***************************************************************************)
SingleCommand == \A p, q \in Procs : p = q

\* The transcript of a session of a trial is in the database, if there is one
\* and the ingester of the harness sees it.
Filed(t, sid, harness) ==
    sid \in written[t] => sid \in stored[t] \/ (harness = "opencode" /\ t[1] \in Newer)

AgentsInv ==
    /\ alive \subseteq Trials \X (1 .. attempts)
    /\ \A t \in Trials : written[t] \subseteq 1 .. attempts

\* A row that is complete is that of an agent which has ended.
RowKept(t) == Complete(rows[t].status) =>
    /\ rows[t].sid \in 1 .. attempts
    /\ <<t, rows[t].sid>> \notin alive
    /\ rows[t].sid \in written[t] => rows[t].sid \in disk[t] \cup stored[t]
    /\ rows[t].ingested => Filed(t, rows[t].sid, rows[t].harness)

TrialOK(p) ==
    /\ pc[p] \in Working => \A t \in todo[p] : ~Complete(rows[t].status)
    /\ pc[p] \in InTrial =>
          /\ attempt[p] \in 1 .. attempts
          /\ attempt[p] \in written[Current(p)] => attempt[p] \in disk[Current(p)]
    /\ pc[p] \in {"ingest", "record"} => Agent(p) \notin alive
    /\ pc[p] = "record" /\ ingested[p] => Filed(Current(p), attempt[p], Harness(p))
    /\ pc[p] = "mark" /\ Complete(rows[Current(p)].status) =>
          Filed(Current(p), rows[Current(p)].sid, rows[Current(p)].harness)

KeptInv ==
    /\ AgentsInv
    /\ \A p \in Procs : TrialOK(p)
    /\ \A t \in Trials : RowKept(t)

\* Unless a runner was killed, an agent is one that its runner waits for.
AwaitedInv == kills = 0 => \A a \in alive : \E p \in Procs : pc[p] = "agent" /\ a = Agent(p)

-----------------------------------------------------------------------------
(***************************************************************************)
(* Trials run one at a time.                                               *)
(***************************************************************************)
LEMMA SameAgent ==
    ASSUME NEW p \in Procs, spec'[p] = spec[p], todo'[p] = todo[p], attempt'[p] = attempt[p]
    PROVE  Agent(p)' = Agent(p)
BY SameCurrent DEF Agent

\* What a step of a process does to the agents and to its own waiting.
LEMMA AgentMoves ==
    ASSUME SpecInv, NEW p \in Procs, Alone(p), ~Kill(p)
    PROVE  /\ kills' = kills
           /\ \/ alive' \subseteq alive /\ pc[p] # "agent"
              \/ alive' = alive \ {Agent(p)} /\ pc[p] = "agent"
              \/ /\ UNCHANGED <<alive, pc>>
                 /\ spec'[p] = spec[p] /\ todo'[p] = todo[p] /\ attempt'[p] = attempt[p]
              \/ /\ alive' = alive \cup {Agent(p)} /\ pc[p] # "agent" /\ pc'[p] = "agent"
                 /\ spec'[p] = spec[p] /\ todo'[p] = todo[p] /\ attempt'[p] = attempt[p]
<1>t. pc \in [Procs -> Stages]
  BY DEF SpecInv, TypeInv
<1> USE DEF bench, db, agents, given, trial, locals, counts
<1>1. CASE StartAgent(p)
  BY <1>1, <1>t DEF StartAgent, Goto
<1>2. CASE AgentExits(p) \/ Deadline(p) \/ KilledByInterrupt(p)
  BY <1>2 DEF AgentExits, Deadline, KilledByInterrupt, AgentEnds, Goto
<1>3. CASE Interrupt(p)
  BY <1>3 DEF Interrupt
<1>4. CASE Run(p) \/ InsertBenchRun(p) \/ Declined(p) \/ RunKeyTaken(p) \/ Resume(p) \/ IngestRun(p)
  BY <1>4 DEF Run, InsertBenchRun, Declined, RunKeyTaken, Resume, IngestRun, Command, Goto
<1>5. CASE CleanTrial(p) \/ Register(p) \/ IngestTrial(p) \/ RecordTrial(p) \/ Finish(p)
  BY <1>5 DEF CleanTrial, Register, IngestTrial, RecordTrial, Finish, Goto
<1>6. CASE InfraError(p) \/ BackfillTrial(p) \/ BackfillFails(p) \/ MarkIngested(p) \/ EndIngestRun(p)
  BY <1>6 DEF InfraError, BackfillTrial, BackfillFails, MarkIngested, EndIngestRun, Goto
<1> QED
  BY <1>1, <1>2, <1>3, <1>4, <1>5, <1>6 DEF Alone, Commands, Step

LEMMA AwaitedStep == SpecInv /\ AwaitedInv /\ [Next]_vars => AwaitedInv'
<1> SUFFICES ASSUME SpecInv, AwaitedInv, [Next]_vars PROVE AwaitedInv'
  OBVIOUS
<1>1. ASSUME NEW q \in Procs, pc'[q] = pc[q], spec'[q] = spec[q], todo'[q] = todo[q],
             attempt'[q] = attempt[q], NEW a, pc[q] = "agent", a = Agent(q)
      PROVE  \E r \in Procs : pc'[r] = "agent" /\ a = Agent(r)'
  BY <1>1, SameAgent
<1>2. ASSUME NEW p \in Procs, Alone(p), ~Kill(p), kills' = 0, NEW a \in alive'
      PROVE  \E r \in Procs : pc'[r] = "agent" /\ a = Agent(r)'
  <2>1. CASE a \in alive
    <3>1. PICK q \in Procs : pc[q] = "agent" /\ a = Agent(q)
      BY <1>2, <2>1, AgentMoves DEF AwaitedInv
    <3>2. CASE q # p
      BY <1>1, <1>2, <3>1, <3>2, OthersStand
    <3>3. CASE q = p
      BY <1>1, <1>2, <3>1, <3>3, AgentMoves
    <3> QED BY <3>2, <3>3
  <2>2. CASE a \notin alive
    <3>1. /\ a = Agent(p) /\ pc'[p] = "agent"
          /\ spec'[p] = spec[p] /\ todo'[p] = todo[p] /\ attempt'[p] = attempt[p]
      BY <1>2, <2>2, AgentMoves
    <3>2. Agent(p)' = Agent(p)
      BY <3>1, SameAgent
    <3> QED BY <3>1, <3>2
  <2> QED BY <2>1, <2>2
<1>3. ASSUME NEW p \in Procs, Kill(p) PROVE kills' # 0
  <2>1. kills \in Nat /\ kills' = kills + 1
    BY <1>3 DEF Kill, SpecInv, TypeInv
  <2> QED BY <2>1
<1>4. ASSUME UNCHANGED <<pc, spec, todo, attempt, kills>>, alive' \subseteq alive PROVE AwaitedInv'
  BY <1>1, <1>4 DEF AwaitedInv
<1>5. CASE UNCHANGED vars
  BY <1>4, <1>5 DEF vars, locals, given, trial, agents, counts
<1>6. ASSUME NEW a \in alive, AgentWrites(a) \/ OrphanExits(a) PROVE AwaitedInv'
  BY <1>4, <1>6 DEF AgentWrites, OrphanExits, locals, given, trial, counts
<1> QED BY <1>2, <1>3, <1>5, <1>6 DEF Next, Alone, AwaitedInv

\* With one process, and unless its runner is killed, at most one agent runs:
\* timeouts, interrupts and infrastructure errors leave none behind ("Trials run
\* sequentially by design").
THEOREM SequentialHolds ==
    ASSUME SingleCommand
    PROVE  Spec => []Sequential
<1>1. Init => AwaitedInv
  BY DEF Init, AwaitedInv
<1>2. SpecInv /\ AwaitedInv /\ [Next]_vars => AwaitedInv'
  BY AwaitedStep
<1>3. AwaitedInv => Sequential
  BY DEF AwaitedInv, Sequential, SingleCommand
<1> QED BY <1>1, <1>2, <1>3, SpecInvHolds, PTL DEF Spec

-----------------------------------------------------------------------------
(***************************************************************************)
(* What is recorded stays, and can be found.                               *)
(***************************************************************************)
LEMMA SameHarness ==
    ASSUME NEW p \in Procs, spec'[p] = spec[p], todo'[p] = todo[p]
    PROVE  Harness(p)' = Harness(p)
BY SameCurrent DEF Harness

\* What no action but these few does.
LEMMA QuietMoves ==
    ASSUME NEW p \in Procs, Alone(p)
    PROVE  /\ ~CleanTrial(p) => UNCHANGED <<disk, attempts>>
           /\ UNCHANGED written
           /\ ~(IngestTrial(p) \/ BackfillTrial(p) \/ BackfillFails(p)) => UNCHANGED stored
           /\ ~(Register(p) \/ RecordTrial(p) \/ MarkIngested(p)) => UNCHANGED rows
           /\ ~StartAgent(p) => alive' \subseteq alive
<1> USE DEF bench, db, agents, given, trial, locals, counts
<1>1. CASE Commands(p)
  BY <1>1 DEF Commands, Run, Declined, Resume, IngestRun, Command
<1>2. CASE AgentExits(p) \/ Deadline(p) \/ KilledByInterrupt(p)
  BY <1>2 DEF AgentExits, Deadline, KilledByInterrupt, AgentEnds
<1>3. CASE InsertBenchRun(p) \/ RunKeyTaken(p) \/ Finish(p) \/ InfraError(p) \/ Interrupt(p) \/ Kill(p)
           \/ EndIngestRun(p)
  BY <1>3 DEF InsertBenchRun, RunKeyTaken, Finish, InfraError, Interrupt, Kill, EndIngestRun
<1>4. CASE CleanTrial(p) \/ Register(p) \/ StartAgent(p) \/ IngestTrial(p) \/ RecordTrial(p)
  BY <1>4 DEF CleanTrial, Register, StartAgent, IngestTrial, RecordTrial
<1>5. CASE BackfillTrial(p) \/ BackfillFails(p) \/ MarkIngested(p)
  BY <1>5 DEF BackfillTrial, BackfillFails, MarkIngested
<1> QED BY <1>1, <1>2, <1>3, <1>4, <1>5 DEF Alone, Step

\* The trial in hand is not complete.
LEMMA InHand ==
    ASSUME SpecInv, KeptInv, NEW p \in Procs, pc[p] \in Working, todo[p] # {}
    PROVE  Current(p) \in Trials /\ ~Complete(rows[Current(p)].status)
<1>1. Current(p) \in todo[p] /\ Current(p) \in Trials
  BY CurrentFacts
<1> QED BY <1>1 DEF KeptInv, TrialOK

LEMMA AgentsStep ==
    ASSUME SpecInv, KeptInv, [Next]_vars
    PROVE  AgentsInv' /\ attempts \in Nat /\ attempts' \in Nat /\ attempts <= attempts'
<1>t. /\ AgentsInv /\ attempts \in Nat
      /\ written \in [Trials -> SUBSET Nat] /\ alive \subseteq Trials \X Nat
  BY DEF KeptInv, SpecInv, TypeInv
<1>1. ASSUME UNCHANGED <<written, attempts>>, alive' \subseteq alive
      PROVE  AgentsInv' /\ attempts' \in Nat /\ attempts <= attempts'
  BY <1>1, <1>t DEF AgentsInv
<1>2. ASSUME NEW p \in Procs, CleanTrial(p)
      PROVE  AgentsInv' /\ attempts' \in Nat /\ attempts <= attempts'
  <2>1. written' = written /\ alive' = alive /\ attempts' = attempts + 1
    BY <1>2 DEF CleanTrial
  <2>2. 1 .. attempts \subseteq 1 .. attempts'
    BY <2>1, <1>t
  <2>3. attempts' \in Nat /\ attempts <= attempts'
    BY <2>1, <1>t
  <2> QED BY <1>t, <2>1, <2>2, <2>3, Zenon DEF AgentsInv
<1>3. ASSUME NEW p \in Procs, StartAgent(p)
      PROVE  AgentsInv' /\ attempts' \in Nat /\ attempts <= attempts'
  <2>1. pc[p] = "prepare" /\ attempt[p] \in 1 .. attempts /\ Current(p) \in Trials
    BY <1>3, InHand DEF StartAgent, Goto, KeptInv, TrialOK, SpecInv, ProcOK, InTrial, Working
  <2>2. /\ alive' = alive \cup {<<Current(p), attempt[p]>>}
        /\ written' = written /\ attempts' = attempts
    BY <1>3 DEF StartAgent, Agent, counts
  <2>3. <<Current(p), attempt[p]>> \in Trials \X (1 .. attempts)
    BY <2>1
  <2>4. alive' \subseteq Trials \X (1 .. attempts')
    BY <1>t, <2>2, <2>3, Zenon DEF AgentsInv
  <2> QED BY <1>t, <2>2, <2>4 DEF AgentsInv
<1>4. ASSUME NEW a \in alive, AgentWrites(a)
      PROVE  AgentsInv' /\ attempts' \in Nat /\ attempts <= attempts'
  <2>1. a[1] \in Trials /\ a[2] \in 1 .. attempts
    BY <1>t DEF AgentsInv
  <2>2. /\ written' = [written EXCEPT ![a[1]] = @ \cup {a[2]}]
        /\ alive' = alive /\ attempts' = attempts
    BY <1>4 DEF AgentWrites, counts
  <2>3. \A t \in Trials : written'[t] \subseteq 1 .. attempts
    BY <2>1, <2>2, <1>t DEF AgentsInv
  <2> QED BY <2>2, <2>3, <1>t DEF AgentsInv
<1>5. ASSUME NEW a \in alive, OrphanExits(a)
      PROVE  AgentsInv' /\ attempts' \in Nat /\ attempts <= attempts'
  BY <1>1, <1>5 DEF OrphanExits, counts
<1>6. CASE UNCHANGED vars
  BY <1>1, <1>6 DEF vars, agents, counts
<1>7. ASSUME NEW p \in Procs, Alone(p), ~CleanTrial(p), ~StartAgent(p)
      PROVE  AgentsInv' /\ attempts' \in Nat /\ attempts <= attempts'
  BY <1>1, <1>7, QuietMoves
<1> QED BY <1>t, <1>2, <1>3, <1>4, <1>5, <1>6, <1>7 DEF Next, Alone

\* A row is written for the trial in hand, which is not complete, or marked.
Recorded(p, t) ==
    /\ pc[p] = "record" /\ t = Current(p) /\ ~Complete(rows[t].status)
    /\ rows'[t].harness = Harness(p) /\ rows'[t].ingested = ingested[p]
    /\ Complete(rows'[t].status) => rows'[t].sid = attempt[p]

Marked(p, t) ==
    /\ pc[p] = "mark" /\ t = Current(p)
    /\ rows'[t].status = rows[t].status /\ rows'[t].sid = rows[t].sid
    /\ rows'[t].harness = rows[t].harness

LEMMA RowChange ==
    ASSUME SpecInv, KeptInv, NEW p \in Procs, Alone(p), NEW t \in Trials
    PROVE  \/ rows'[t] = rows[t]
           \/ ~Complete(rows[t].status) /\ ~Complete(rows'[t].status)
           \/ Recorded(p, t) /\ RecordTrial(p)
           \/ Marked(p, t) /\ MarkIngested(p)
<1>t. rows \in [Trials -> Rows] /\ attempt[p] \in Nat /\ ingested[p] \in BOOLEAN
  BY DEF SpecInv, TypeInv
<1>1. CASE Register(p)
  <2>1. pc[p] \in InTrial /\ WriteRow(p, "running", Assigned(p), FALSE) /\ Assigned(p) \in Int
    <3>1. Assigned(p) \in Int
      BY <1>t DEF Assigned, NoSid
    <3> QED BY <1>1, <3>1 DEF Register, Goto, InTrial
  <2>2. /\ rows'[Current(p)] = [status |-> "running", harness |-> Harness(p), sid |-> Assigned(p),
                                ingested |-> FALSE]
        /\ t # Current(p) => rows'[t] = rows[t]
    BY <2>1, RowType
  <2>3. ~Complete(rows'[Current(p)].status)
    BY <2>2 DEF Complete
  <2>4. ~Complete(rows[Current(p)].status)
    BY <2>1, InHand DEF SpecInv, ProcOK, Working
  <2> QED BY <2>2, <2>3, <2>4
<1>2. CASE RecordTrial(p)
  <2>1. PICK sid \in FinalSids(p) : WriteRow(p, outcome[p], sid, ingested[p])
    BY <1>2 DEF RecordTrial
  <2>2. sid \in Int /\ (Complete(outcome[p]) => sid = attempt[p])
    BY <1>t DEF FinalSids, ccSids, ocSids, Assigned, NoSid, OtherSid, Complete
  <2>3. pc[p] = "record" /\ outcome[p] \in Outcomes
    BY <1>2 DEF RecordTrial, Goto, SpecInv, ProcOK
  <2>4. /\ rows'[Current(p)] = [status |-> outcome[p], harness |-> Harness(p), sid |-> sid,
                                ingested |-> ingested[p]]
        /\ t # Current(p) => rows'[t] = rows[t]
    BY <2>1, <2>2, <2>3, <1>t, RowType DEF InTrial
  <2>5. ~Complete(rows[Current(p)].status)
    BY <2>3, InHand DEF SpecInv, ProcOK, InTrial, Working
  <2>6. t = Current(p) => Recorded(p, t)
    BY <2>2, <2>3, <2>4, <2>5 DEF Recorded
  <2> QED BY <2>4, <2>6, <1>2
<1>3. CASE MarkIngested(p)
  <2>1. pc[p] = "mark" /\ rows' = [rows EXCEPT ![Current(p)].ingested = TRUE]
    BY <1>3 DEF MarkIngested, Goto
  <2>2. t # Current(p) => rows'[t] = rows[t]
    BY <2>1, <1>t
  <2>3. t = Current(p) => /\ rows'[t].status = rows[t].status /\ rows'[t].sid = rows[t].sid
                          /\ rows'[t].harness = rows[t].harness
    BY <2>1, <1>t DEF Rows
  <2> QED BY <2>1, <2>2, <2>3, <1>3 DEF Marked
<1>4. CASE ~(Register(p) \/ RecordTrial(p) \/ MarkIngested(p))
  BY <1>4, QuietMoves
<1> QED BY <1>1, <1>2, <1>3, <1>4

\* Completed rows keep their status and their session.
LEMMA CompletedStep ==
    ASSUME SpecInv, KeptInv, [Next]_vars, NEW t \in Trials, Complete(rows[t].status)
    PROVE  rows'[t].status = rows[t].status /\ rows'[t].sid = rows[t].sid
<1>1. ASSUME NEW p \in Procs, Alone(p)
      PROVE  rows'[t].status = rows[t].status /\ rows'[t].sid = rows[t].sid
  BY <1>1, RowChange DEF Recorded, Marked
<1>2. CASE UNCHANGED vars
  BY <1>2 DEF vars, db
<1>3. ASSUME NEW a \in alive, AgentWrites(a) \/ OrphanExits(a) PROVE rows' = rows
  BY <1>3 DEF AgentWrites, OrphanExits, db
<1> QED BY <1>1, <1>2, <1>3 DEF Next, Alone

\* What is ingested stays.
LEMMA StoredGrows ==
    ASSUME SpecInv, NEW p \in Procs, Alone(p), NEW t \in Trials
    PROVE  stored[t] \subseteq stored'[t]
<1>t. stored \in [Trials -> SUBSET Nat]
  BY DEF SpecInv, TypeInv
<1>1. CASE IngestTrial(p)
  <2>1. PICK part : stored' = [stored EXCEPT ![Current(p)] = @ \cup part]
    BY <1>1 DEF IngestTrial
  <2> QED BY <1>t, <2>1
<1>2. CASE BackfillTrial(p)
  BY <1>t, <1>2 DEF BackfillTrial
<1>3. CASE BackfillFails(p)
  <2>1. PICK part : stored' = [stored EXCEPT ![Current(p)] = @ \cup part]
    BY <1>3 DEF BackfillFails
  <2> QED BY <1>t, <2>1
<1>4. CASE ~(IngestTrial(p) \/ BackfillTrial(p) \/ BackfillFails(p))
  BY <1>4, QuietMoves
<1> QED BY <1>1, <1>2, <1>3, <1>4

LEMMA RowsKeptStep ==
    ASSUME SpecInv, KeptInv, [Next]_vars, NEW t \in Trials
    PROVE  RowKept(t)'
<1> DEFINE sid == rows[t].sid
<1>t. RowKept(t) /\ AgentsInv /\ attempts \in Nat /\ attempts' \in Nat /\ attempts <= attempts'
  BY AgentsStep DEF KeptInv
<1>1. CASE UNCHANGED vars
  BY <1>1, <1>t DEF vars, db, bench, agents, counts, RowKept, Filed
<1>2. ASSUME NEW p \in Procs, Alone(p), rows'[t] = rows[t], Complete(rows[t].status)
      PROVE  RowKept(t)'
  <2>1. written' = written /\ stored[t] \subseteq stored'[t] /\ sid \in 1 .. attempts'
    BY <1>2, <1>t, QuietMoves, StoredGrows DEF RowKept
  <2>2. t # Current(p) \/ ~(CleanTrial(p) \/ StartAgent(p))
    <3>1. CASE CleanTrial(p)
      BY <1>2, <3>1, InHand DEF CleanTrial, Goto, Working
    <3>2. CASE StartAgent(p)
      BY <1>2, <3>2, InHand DEF StartAgent, Goto, Working, InTrial, SpecInv, ProcOK
    <3> QED BY <3>1, <3>2
  <2>3. disk'[t] = disk[t]
    <3>1. disk \in [Trials -> SUBSET Nat]
      BY DEF SpecInv, TypeInv
    <3> QED BY <2>2, <3>1, <1>2, QuietMoves DEF CleanTrial
  <2>4. <<t, sid>> \notin alive'
    <3>1. CASE StartAgent(p)
      BY <2>2, <3>1, <1>2, <1>t DEF StartAgent, Agent, RowKept
    <3> QED BY <3>1, <1>2, <1>t, QuietMoves DEF RowKept
  <2> QED BY <2>1, <2>3, <2>4, <1>2, <1>t DEF RowKept, Filed
<1>3. ASSUME NEW p \in Procs, Recorded(p, t), RecordTrial(p) PROVE RowKept(t)'
  <2>1. /\ attempt[p] \in 1 .. attempts /\ Agent(p) \notin alive
        /\ attempt[p] \in written[t] => attempt[p] \in disk[t]
        /\ ingested[p] => Filed(t, attempt[p], Harness(p))
    BY <1>3 DEF KeptInv, TrialOK, Recorded, InTrial
  <2>2. UNCHANGED <<written, disk, stored, alive, attempts>>
    BY <1>3 DEF RecordTrial, agents, counts
  <2>3. Agent(p) = <<t, attempt[p]>>
    BY <1>3 DEF Agent, Recorded
  <2>4. ASSUME Complete(rows'[t].status)
        PROVE  /\ rows'[t].sid = attempt[p] /\ rows'[t].harness = Harness(p)
               /\ rows'[t].ingested = ingested[p]
    BY <1>3, <2>4 DEF Recorded
  <2> QED BY <2>1, <2>2, <2>3, <2>4 DEF RowKept, Filed
<1>4. ASSUME NEW p \in Procs, Marked(p, t), MarkIngested(p) PROVE RowKept(t)'
  <2>1. Complete(rows[t].status) => Filed(t, rows[t].sid, rows[t].harness)
    BY <1>4 DEF KeptInv, TrialOK, Marked
  <2>2. UNCHANGED <<written, disk, stored, alive, attempts>>
    BY <1>4 DEF MarkIngested, agents, counts
  <2> QED BY <1>4, <1>t, <2>1, <2>2 DEF RowKept, Filed, Marked
<1>5. ASSUME NEW p \in Procs, Alone(p) PROVE RowKept(t)'
  <2>1. CASE ~Complete(rows'[t].status)
    BY <2>1 DEF RowKept
  <2>2. CASE rows'[t] = rows[t] /\ Complete(rows'[t].status)
    BY <2>2, <1>2, <1>5
  <2> QED BY <2>1, <2>2, <1>3, <1>4, <1>5, RowChange
<1>6. ASSUME NEW a \in alive, AgentWrites(a) PROVE RowKept(t)'
  <2>1. a[1] \in Trials /\ a = <<a[1], a[2]>>
    BY <1>t DEF AgentsInv
  <2>2. /\ disk' = [disk EXCEPT ![a[1]] = @ \cup {a[2]}]
        /\ written' = [written EXCEPT ![a[1]] = @ \cup {a[2]}]
        /\ UNCHANGED <<rows, stored, alive, attempts>>
    BY <1>6 DEF AgentWrites, db, counts
  <2>3. disk \in [Trials -> SUBSET Nat] /\ written \in [Trials -> SUBSET Nat]
    BY DEF SpecInv, TypeInv
  <2>4. /\ disk[t] \subseteq disk'[t]
        /\ \A n : n \in written'[t] => n \in written[t] \/ <<t, n>> \in alive
    BY <2>1, <2>2, <2>3, <1>6
  <2> QED BY <1>t, <2>2, <2>4 DEF RowKept, Filed
<1>7. ASSUME NEW a \in alive, OrphanExits(a) PROVE RowKept(t)'
  BY <1>7, <1>t DEF OrphanExits, db, counts, RowKept, Filed
<1> QED BY <1>1, <1>5, <1>6, <1>7 DEF Next, Alone

\* A process that is not on a trial, or at its start, has nothing to show for it.
LEMMA NotInTrial ==
    ASSUME NEW p \in Procs, pc'[p] \in {"idle", "preflight", "backfill"}
    PROVE  TrialOK(p)'
BY DEF TrialOK, Working, InTrial

LEMMA ListStarts ==
    ASSUME NEW p \in Procs, pc'[p] \in {"next", "failed"},
           \A t \in todo'[p] : ~Complete(rows'[t].status)
    PROVE  TrialOK(p)'
BY DEF TrialOK, Working, InTrial

LEMMA TrialMoves ==
    ASSUME SpecInv, KeptInv, NEW p \in Procs, Alone(p)
    PROVE  TrialOK(p)'
<1>t. /\ pc \in [Procs -> Stages] /\ todo \in [Procs -> SUBSET Trials]
      /\ attempt \in [Procs -> Nat] /\ outcome \in [Procs -> Outcomes \cup {""}]
      /\ ingested \in [Procs -> BOOLEAN] /\ rows \in [Trials -> Rows]
      /\ disk \in [Trials -> SUBSET Nat] /\ written \in [Trials -> SUBSET Nat]
      /\ stored \in [Trials -> SUBSET Nat] /\ attempts \in Nat
      /\ TrialOK(p) /\ ProcOK(p) /\ AgentsInv
  BY DEF SpecInv, KeptInv, TypeInv
<1> USE DEF bench, db, agents, given, trial, locals, counts
<1>1. CASE Run(p) \/ IngestRun(p) \/ Declined(p) \/ RunKeyTaken(p) \/ Finish(p) \/ Kill(p)
           \/ EndIngestRun(p)
  <2>1. pc'[p] \in {"idle", "preflight", "backfill"}
    BY <1>1, <1>t DEF Run, IngestRun, Command, Declined, RunKeyTaken, Finish, Kill, EndIngestRun, Goto
  <2> QED BY <2>1, NotInTrial
<1>2. CASE InsertBenchRun(p)
  <2>1. pc'[p] = "next" /\ rows' = rows /\ todo'[p] = workList(spec[p], flags[p], {})
    BY <1>2, <1>t DEF InsertBenchRun, Goto
  <2>2. todo'[p] \subseteq Trials
    <3>1. spec[p] \in Loaded /\ flags[p] \in Flags
      BY <1>2, <1>t DEF InsertBenchRun, Goto, ProcOK
    <3> QED BY <2>1, <3>1, ListFacts DEF OfSpec
  <2>3. \A t \in Trials : rows[t] = NoRow
    BY <1>2 DEF InsertBenchRun, SpecInv, RowsOK
  <2>4. \A t \in Trials : ~Complete(rows[t].status)
    <3>1. NoRow.status = "missing"
      BY DEF NoRow
    <3> QED BY <2>3, <3>1 DEF Complete
  <2> QED BY <2>1, <2>2, <2>4, ListStarts
<1>3. CASE Resume(p)
  <2>1. PICK fl \in Flags : Command(p, "next", workList(SpecFor, fl, Skipped))
    BY <1>3 DEF Resume
  <2>2. pc'[p] = "next" /\ rows' = rows /\ todo'[p] = workList(SpecFor, fl, Skipped)
    BY <2>1, <1>t DEF Command, Goto
  <2>3. SpecFor \in Loaded
    BY <2>1 DEF Command, SpecFor, SpecInv, RowsOK
  <2>4. todo'[p] \subseteq Trials /\ todo'[p] \cap Skipped = {}
    BY <2>2, <2>3, ListFacts DEF OfSpec
  <2> QED BY <2>2, <2>4, ListStarts DEF Skipped
<1>4. CASE CleanTrial(p)
  <2>1. /\ pc[p] = "next" /\ pc'[p] = "register" /\ spec'[p] = spec[p] /\ todo'[p] = todo[p]
        /\ attempts' = attempts + 1 /\ attempt'[p] = attempts + 1
        /\ written' = written /\ rows' = rows
    BY <1>4, <1>t DEF CleanTrial, Goto
  <2>2. Current(p)' = Current(p) /\ Current(p) \in Trials
    BY <2>1, <1>4, SameCurrent, InHand DEF CleanTrial, Working
  <2>3. attempts + 1 \notin written[Current(p)] /\ attempts + 1 \in 1 .. (attempts + 1)
    <3>1. written[Current(p)] \subseteq 1 .. attempts
      BY <2>2, <1>t DEF AgentsInv
    <3>2. attempts \in Nat
      BY <1>t
    <3> QED BY <3>1, <3>2
  <2> QED BY <2>1, <2>2, <2>3, <1>t DEF TrialOK, Working, InTrial
<1>5. ASSUME pc[p] \in InTrial, pc'[p] \in InTrial, spec'[p] = spec[p], todo'[p] = todo[p],
             attempt'[p] = attempt[p], UNCHANGED <<written, disk, attempts>>,
             \A t \in Trials : Complete(rows'[t].status) => Complete(rows[t].status)
      PROVE  /\ Current(p)' = Current(p) /\ Agent(p)' = Agent(p) /\ Harness(p)' = Harness(p)
             /\ \A t \in todo'[p] : ~Complete(rows'[t].status)
             /\ attempt'[p] \in 1 .. attempts'
             /\ attempt'[p] \in written'[Current(p)'] => attempt'[p] \in disk'[Current(p)']
  <2>1. Current(p)' = Current(p) /\ Agent(p)' = Agent(p) /\ Harness(p)' = Harness(p)
    BY <1>5, SameCurrent, SameAgent, SameHarness
  <2> QED BY <2>1, <1>5, <1>t DEF TrialOK, Working
<1>6. CASE Register(p) \/ StartAgent(p)
  <2>1. /\ pc[p] \in InTrial /\ pc'[p] \in {"prepare", "agent"} /\ spec'[p] = spec[p]
        /\ todo'[p] = todo[p] /\ attempt'[p] = attempt[p] /\ UNCHANGED <<written, disk, attempts>>
    BY <1>6, <1>t DEF Register, StartAgent, Goto, InTrial
  <2>2. \A t \in Trials : Complete(rows'[t].status) => Complete(rows[t].status)
    <3> TAKE t \in Trials
    <3>1. CASE StartAgent(p)
      BY <3>1 DEF StartAgent
    <3>2. CASE Register(p)
      BY <3>2, RowChange DEF Register, Goto, Recorded, Marked, Alone, Step
    <3> QED BY <1>6, <3>1, <3>2
  <2> QED BY <1>5, <2>1, <2>2 DEF TrialOK, InTrial
<1>7. CASE AgentExits(p) \/ Deadline(p) \/ KilledByInterrupt(p)
  <2>1. /\ pc[p] = "agent" /\ pc'[p] = "ingest" /\ spec'[p] = spec[p] /\ rows' = rows
        /\ todo'[p] = todo[p] /\ attempt'[p] = attempt[p] /\ UNCHANGED <<written, disk, attempts>>
        /\ alive' = alive \ {Agent(p)}
    BY <1>7, <1>t DEF AgentExits, Deadline, KilledByInterrupt, AgentEnds, Goto
  <2> QED BY <1>5, <2>1 DEF TrialOK, InTrial
<1>8. CASE IngestTrial(p)
  <2>1. /\ pc[p] = "ingest" /\ pc'[p] = "record" /\ spec'[p] = spec[p] /\ rows' = rows
        /\ todo'[p] = todo[p] /\ attempt'[p] = attempt[p]
        /\ UNCHANGED <<written, disk, attempts, alive>>
    BY <1>8, <1>t DEF IngestTrial, Goto
  <2>2. ingested'[p] => stored'[Current(p)] = stored[Current(p)] \cup Found(Current(p), Harness(p))
    <3>1. PICK ok \in BOOLEAN, part \in SUBSET Found(Current(p), Harness(p)) :
             /\ ok => part = Found(Current(p), Harness(p))
             /\ stored' = [stored EXCEPT ![Current(p)] = @ \cup part]
             /\ ingested' = [ingested EXCEPT ![p] = ok]
      BY <1>8 DEF IngestTrial
    <3>2. Current(p) \in Trials
      BY <2>1, <1>t, InHand DEF ProcOK, InTrial, Working
    <3> QED BY <3>1, <3>2, <1>t
  <2>3. ingested'[p] => Filed(Current(p), attempt[p], Harness(p))'
    <3>1. Current(p)' = Current(p) /\ Harness(p)' = Harness(p)
      BY <2>1, SameCurrent, SameHarness
    <3>2. attempt[p] \in written[Current(p)] => attempt[p] \in disk[Current(p)]
      BY <2>1, <1>t DEF TrialOK, InTrial
    <3> QED BY <2>1, <2>2, <3>1, <3>2 DEF Filed, Found
  <2> QED BY <1>5, <2>1, <2>3, <1>t DEF TrialOK, InTrial
<1>9. CASE RecordTrial(p)
  <2>1. /\ pc[p] = "record" /\ pc'[p] = "next" /\ todo'[p] = todo[p] \ {Current(p)}
    BY <1>9, <1>t DEF RecordTrial, NextTrial, Goto
  <2>2. \A t \in Trials : t # Current(p) => rows'[t] = rows[t] \/ ~Complete(rows'[t].status)
    BY <1>9, RowChange DEF Recorded, Marked
  <2>3. \A t \in todo[p] : ~Complete(rows[t].status)
    BY <2>1, <1>t DEF TrialOK, Working, InTrial
  <2> QED BY <2>1, <2>2, <2>3, <1>t, ListStarts
<1>10. CASE InfraError(p)
  <2>1. /\ pc[p] \in InTrial /\ pc'[p] = "failed" /\ todo' = todo /\ rows' = rows
    BY <1>10, <1>t DEF InfraError, InTrial
  <2> QED BY <2>1, <1>t, ListStarts DEF TrialOK, Working
<1>11. CASE Interrupt(p)
  <2>1. /\ UNCHANGED <<pc, spec, todo, attempt, ingested, written, disk, attempts, alive, rows, stored>>
    BY <1>11 DEF Interrupt
  <2>2. Current(p)' = Current(p) /\ Agent(p)' = Agent(p) /\ Harness(p)' = Harness(p)
    BY <2>1, SameCurrent, SameAgent, SameHarness
  <2> QED BY <2>1, <2>2, <1>t DEF TrialOK, Filed
<1>12. CASE BackfillTrial(p)
  <2>1. /\ pc[p] = "backfill" /\ pc'[p] = "mark" /\ spec'[p] = spec[p] /\ todo'[p] = todo[p]
        /\ UNCHANGED <<rows, written, disk>> /\ todo[p] # {}
        /\ stored' = [stored EXCEPT ![Current(p)] = @ \cup Found(Current(p), rows[Current(p)].harness)]
    BY <1>12, <1>t DEF BackfillTrial, Goto, Backfilled
  <2>2. Current(p) \in Trials /\ Current(p)' = Current(p)
    BY <2>1, CurrentFacts, SameCurrent DEF Filling
  <2>3. stored'[Current(p)] = stored[Current(p)] \cup Found(Current(p), rows[Current(p)].harness)
    BY <2>1, <2>2, <1>t
  <2>4. RowKept(Current(p))
    BY <2>2 DEF KeptInv
  <2> QED BY <2>1, <2>2, <2>3, <2>4 DEF TrialOK, RowKept, Filed, Found, Working, InTrial
<1>13. CASE BackfillFails(p) \/ MarkIngested(p)
  <2>1. pc'[p] = "backfill"
    BY <1>13, <1>t DEF BackfillFails, MarkIngested, Goto
  <2> QED BY <2>1, NotInTrial
<1> QED
  BY <1>1, <1>2, <1>3, <1>4, <1>6, <1>7, <1>8, <1>9, <1>10, <1>11, <1>12, <1>13
  DEF Alone, Commands, Step

LEMMA KeptStep ==
    ASSUME SingleCommand
    PROVE  SpecInv /\ KeptInv /\ [Next]_vars => KeptInv'
<1> SUFFICES ASSUME SpecInv, KeptInv, [Next]_vars PROVE KeptInv'
  OBVIOUS
<1>1. ASSUME NEW p \in Procs PROVE TrialOK(p)'
  <2>1. ASSUME NEW q \in Procs, Alone(q) PROVE TrialOK(p)'
    BY <2>1, TrialMoves DEF SingleCommand
  <2>2. ASSUME UNCHANGED <<rows, stored, pc, locals>> PROVE
           /\ UNCHANGED <<rows, stored, pc, todo, attempt, ingested>>
           /\ Current(p)' = Current(p) /\ Agent(p)' = Agent(p) /\ Harness(p)' = Harness(p)
    BY <2>2, SameCurrent, SameAgent, SameHarness DEF locals, given, trial
  <2>3. CASE UNCHANGED vars
    <3>1. UNCHANGED <<disk, written, alive, attempts>>
      BY <2>3 DEF vars, agents, counts
    <3> QED BY <2>2, <2>3, <3>1 DEF vars, db, KeptInv, TrialOK, Filed
  <2>4. ASSUME NEW a \in alive, OrphanExits(a) PROVE TrialOK(p)'
    <3>1. UNCHANGED <<disk, written, attempts, rows, stored, pc, locals>> /\ alive' \subseteq alive
      BY <2>4 DEF OrphanExits, db, counts
    <3> QED BY <2>2, <3>1 DEF KeptInv, TrialOK, Filed
  <2>5. ASSUME NEW a \in alive, AgentWrites(a) PROVE TrialOK(p)'
    <3>1. /\ disk' = [disk EXCEPT ![a[1]] = @ \cup {a[2]}]
          /\ written' = [written EXCEPT ![a[1]] = @ \cup {a[2]}]
          /\ UNCHANGED <<rows, stored, pc, locals, attempts, alive>>
      BY <2>5 DEF AgentWrites, db, counts
    <3>2. /\ disk \in [Trials -> SUBSET Nat] /\ written \in [Trials -> SUBSET Nat]
          /\ a[1] \in Trials /\ a = <<a[1], a[2]>>
      <4>1. alive \subseteq Trials \X Nat
        BY DEF SpecInv, TypeInv
      <4>2. a[1] \in Trials /\ a = <<a[1], a[2]>>
        BY <4>1
      <4> QED BY <4>2 DEF SpecInv, TypeInv
    <3>3. ASSUME NEW t \in Trials, NEW n
          PROVE  /\ (n \in written[t] => n \in disk[t]) => (n \in written'[t] => n \in disk'[t])
                 /\ n \in written'[t] => n \in written[t] \/ <<t, n>> \in alive
      BY <3>1, <3>2
    <3>4. pc[p] \in InTrial \cup {"mark"} => Current(p) \in Trials
      BY CurrentFacts DEF SpecInv, ProcOK, Working, Filling
    <3>5. TrialOK(p) /\ (Current(p) \in Trials => RowKept(Current(p)))
      BY DEF KeptInv
    <3>6. pc[p] = "record" /\ ingested[p] =>
             (attempt[p] \in written'[Current(p)] => attempt[p] \in written[Current(p)])
      BY <3>3, <3>4, <3>5 DEF TrialOK, Agent, InTrial
    <3>7. pc[p] = "mark" /\ Complete(rows[Current(p)].status) =>
             (rows[Current(p)].sid \in written'[Current(p)] => rows[Current(p)].sid \in written[Current(p)])
      BY <3>3, <3>4, <3>5 DEF RowKept
    <3>8. pc[p] \in InTrial => (attempt[p] \in written'[Current(p)] => attempt[p] \in disk'[Current(p)])
      BY <3>3, <3>4, <3>5 DEF TrialOK
    <3> QED BY <2>2, <3>1, <3>5, <3>6, <3>7, <3>8 DEF TrialOK, Filed
  <2> QED BY <2>1, <2>3, <2>4, <2>5 DEF Next, Alone
<1> QED BY <1>1, AgentsStep, RowsKeptStep DEF KeptInv

LEMMA KeptInvHolds ==
    ASSUME SingleCommand
    PROVE  Spec => []KeptInv
<1>1. Init => KeptInv
  <2> SUFFICES ASSUME Init PROVE KeptInv
    OBVIOUS
  <2>1. AgentsInv /\ \A p \in Procs : TrialOK(p)
    BY DEF Init, AgentsInv, TrialOK, Working, InTrial
  <2>2. NoRow.status = "missing"
    BY DEF NoRow
  <2>3. \A t \in Trials : RowKept(t)
    BY <2>2 DEF Init, RowKept, Complete
  <2> QED BY <2>1, <2>3 DEF KeptInv
<1>2. SpecInv /\ KeptInv /\ [Next]_vars => KeptInv'
  BY KeptStep
<1> QED BY <1>1, <1>2, SpecInvHolds, PTL DEF Spec

\* With one process, no later command changes what a completed row says of its
\* trial, however the runner ends ("Completed observations (ok/fail) are kept").
THEOREM CompletedKeptHolds ==
    ASSUME SingleCommand
    PROVE  Spec => CompletedKept
<1>1. SpecInv /\ KeptInv /\ [Next]_vars =>
         [\A t \in Trials : Complete(rows[t].status) =>
             rows'[t].status = rows[t].status /\ rows'[t].sid = rows[t].sid]_vars
  BY CompletedStep
<1> QED BY <1>1, SpecInvHolds, KeptInvHolds, PTL DEF Spec, CompletedKept

\* With one process, what a completed row names is in the database when the row
\* says so, and can otherwise still be backfilled, unless it is in an opencode.db.
THEOREM CompletedRecoverableHolds ==
    ASSUME SingleCommand
    PROVE  Spec => []CompletedRecoverable
<1>1. KeptInv => CompletedRecoverable
  BY DEF KeptInv, RowKept, Filed, CompletedRecoverable
<1> QED BY <1>1, KeptInvHolds, PTL

=============================================================================

------------------------ MODULE AnalyticsReportProofs -------------------------
(* Answers are bounded by lapses, for any number of jobs and executions.    *)
EXTENDS AnalyticsReport, TLAPS, FiniteSetTheorems

Claimed == {e \in Executions : At(e, "claimed")}

Releasing == {e \in Executions : At(e, "release")}

(* The day can be claimed, now or once its lease is over, with nobody to blame *)
Open == IF day.claim # "live" \/ \A e \in Executions : ~ Works(e) THEN 1 ELSE 0

(* Answers that are stored or may still come without a further lapse: each   *)
(* execution that claimed may post; while the day is not posted, each that   *)
(* is about to release, and an open day, let one more execution claim it.    *)
Chances ==
    answers + Cardinality(Claimed)
      + (IF day.posted THEN 0 ELSE Cardinality(Releasing) + Open)

ChancesBounded == Chances <= 1 + lapses

ReportInv == ReportTypeOK /\ ChancesBounded

One(b) == IF b THEN 1 ELSE 0

LEMMA CountsTyped ==
  /\ IsFiniteSet(Claimed) /\ Cardinality(Claimed) \in Nat
  /\ IsFiniteSet(Releasing) /\ Cardinality(Releasing) \in Nat
  BY ReportAssumption, FS_Subset, FS_CardinalityType DEF Claimed, Releasing

(* How one execution's move changes a count of executions. *)
LEMMA CountStep ==
  ASSUME NEW S, NEW T, NEW e, IsFiniteSet(S), Cardinality(S) \in Nat,
         \A f : f # e => (f \in T <=> f \in S)
  PROVE  Cardinality(T) = Cardinality(S) + One(e \in T) - One(e \in S) /\ Cardinality(T) \in Nat
<1>1. CASE e \in T /\ e \notin S
  <2>1. T = S \cup {e}
    BY <1>1
  <2> QED
    BY <1>1, <2>1, FS_AddElement DEF One
<1>2. CASE e \notin T /\ e \in S
  <2>1. T = S \ {e}
    BY <1>2
  <2>2. IsFiniteSet(T) /\ Cardinality(T) = Cardinality(S) - 1
    BY <1>2, <2>1, FS_RemoveElement
  <2> QED
    BY <1>2, <2>2, FS_CardinalityType DEF One
<1>3. CASE (e \in T) <=> (e \in S)
  <2>1. T = S
    BY <1>3
  <2> QED
    BY <1>3, <2>1 DEF One
<1> QED
  BY <1>1, <1>2, <1>3

LEMMA ExecCounts ==
  ASSUME NEW e \in Executions, NEW pc,
         \A f \in Executions : exec'[f].pc = IF f = e THEN pc ELSE exec[f].pc
  PROVE  /\ Cardinality(Claimed') = Cardinality(Claimed) + One(pc = "claimed") - One(At(e, "claimed"))
         /\ Cardinality(Releasing') = Cardinality(Releasing) + One(pc = "release") - One(At(e, "release"))
         /\ Cardinality(Claimed') \in Nat /\ Cardinality(Releasing') \in Nat
<1>1. \A f \in Executions : exec'[f].pc = IF f = e THEN pc ELSE exec[f].pc
  OBVIOUS
<1>2. /\ \A f : f # e => (f \in Claimed' <=> f \in Claimed)
      /\ e \in Claimed' <=> pc = "claimed"
      /\ e \in Claimed <=> At(e, "claimed")
  BY <1>1 DEF Claimed, At
<1>3. /\ \A f : f # e => (f \in Releasing' <=> f \in Releasing)
      /\ e \in Releasing' <=> pc = "release"
      /\ e \in Releasing <=> At(e, "release")
  BY <1>1 DEF Releasing, At
<1>4. Cardinality(Claimed') = Cardinality(Claimed) + One(e \in Claimed') - One(e \in Claimed)
      /\ Cardinality(Claimed') \in Nat
  BY <1>2, CountsTyped, CountStep
<1>5. Cardinality(Releasing') = Cardinality(Releasing) + One(e \in Releasing') - One(e \in Releasing)
      /\ Cardinality(Releasing') \in Nat
  BY <1>3, CountsTyped, CountStep
<1> QED
  BY <1>2, <1>3, <1>4, <1>5 DEF One

ExecTyped == exec \in [Executions -> [pc : {"idle", "claim"} \cup Working, job : Jobs \cup {NoJob}]]

LEMMA MoveFacts ==
  ASSUME ReportTypeOK, NEW e \in Executions, NEW pc \in Working, Move(e, pc)
  PROVE  /\ ExecTyped'
         /\ \A f \in Executions : exec'[f].pc = IF f = e THEN pc ELSE exec[f].pc
         /\ Works(e)'
<1>1. /\ \A f \in Executions : f # e => exec'[f] = exec[f]
      /\ exec'[e] = [exec[e] EXCEPT !.pc = pc]
      /\ DOMAIN exec' = Executions /\ exec' = [f \in Executions |-> exec'[f]]
  BY DEF Move, ReportTypeOK
<1>2. exec[e] \in [pc : {"idle", "claim"} \cup Working, job : Jobs \cup {NoJob}]
  BY DEF ReportTypeOK
<1>3. exec'[e] \in [pc : {"idle", "claim"} \cup Working, job : Jobs \cup {NoJob}] /\ exec'[e].pc = pc
  BY <1>1, <1>2
<1>4. ExecTyped'
  BY <1>1, <1>3 DEF ExecTyped, ReportTypeOK
<1> QED
  BY <1>1, <1>3, <1>4 DEF Works

LEMMA StopFacts ==
  ASSUME ReportTypeOK, NEW e \in Executions, Stop(e)
  PROVE  /\ ExecTyped'
         /\ \A f \in Executions : exec'[f].pc = IF f = e THEN "idle" ELSE exec[f].pc
  BY DEF Stop, Idle, ReportTypeOK, ExecTyped

LEMMA ReportInitInv == ReportInit => ReportInv
<1> SUFFICES ASSUME ReportInit PROVE ReportInv
  OBVIOUS
<1>1. ReportTypeOK
  BY ReportAssumption DEF ReportInit, ReportTypeOK, Idle
<1>2. Claimed = {} /\ Releasing = {}
  BY DEF ReportInit, Claimed, Releasing, At, Idle
<1>3. Open \in 0 .. 1
  BY DEF Open
<1>4. Chances <= 1 + lapses
  BY <1>2, <1>3, FS_EmptySet DEF Chances, ReportInit
<1> QED
  BY <1>1, <1>4 DEF ReportInv, ChancesBounded

(* Executions that are idle or about to claim move: nothing to count changes. *)
LEMMA IdleMoves ==
  ASSUME ReportInv, NEW e \in Executions, ~ Works(e), NEW pc, pc \notin Working,
         \A f \in Executions : exec'[f].pc = IF f = e THEN pc ELSE exec[f].pc,
         UNCHANGED <<day, answers, lapses>>
  PROVE  ChancesBounded'
<1> USE DEF ReportInv
<1>1. /\ Cardinality(Claimed') = Cardinality(Claimed)
      /\ Cardinality(Releasing') = Cardinality(Releasing)
  <2>1. /\ Cardinality(Claimed') = Cardinality(Claimed) + One(pc = "claimed") - One(At(e, "claimed"))
        /\ Cardinality(Releasing') = Cardinality(Releasing) + One(pc = "release") - One(At(e, "release"))
    BY ExecCounts
  <2>2. pc # "claimed" /\ pc # "release" /\ ~ At(e, "claimed") /\ ~ At(e, "release")
    BY DEF At, Works, Working
  <2> QED
    BY <2>1, <2>2, CountsTyped DEF One
<1>2. (\A f \in Executions : ~ Works(f)) <=> (\A f \in Executions : ~ Works(f)')
  BY DEF Works
<1>3. Open' = Open
  BY <1>2 DEF Open
<1> QED
  BY <1>1, <1>3 DEF ChancesBounded, Chances

LEMMA JobTyped ==
  ASSUME ReportTypeOK, NEW e \in Executions, Complete(e) \/ Retry(e)
  PROVE  job' \in [Jobs -> [state : {"waiting", "active", "gone"}, holder : Executions \cup {NoExecution},
                            tried : 0 .. Attempts, stalls : 0 .. MaxStalls]]
<1> DEFINE JobType == [state : {"waiting", "active", "gone"}, holder : Executions \cup {NoExecution},
                       tried : 0 .. Attempts, stalls : 0 .. MaxStalls]
           j == exec[e].job
<1>1. job \in [Jobs -> JobType]
  BY DEF ReportTypeOK
<1>2. CASE job' = job
  BY <1>1, <1>2
<1>3. CASE j \in Jobs /\ job' = [job EXCEPT ![j].state = "gone"]
  <2> HIDE DEF j
  <2> QED
    BY <1>1, <1>3
<1>4. CASE /\ j \in Jobs /\ job[j].tried + 1 < Attempts
           /\ job' = [job EXCEPT ![j].state = "waiting", ![j].tried = @ + 1]
  <2> HIDE DEF j
  <2>1. job[j].tried + 1 \in 0 .. Attempts
    BY <1>1, <1>4, ReportAssumption
  <2> QED
    BY <1>1, <1>4, <2>1
<1> QED
  BY <1>2, <1>3, <1>4 DEF Complete, Retry, HoldsJob

LEMMA ReportStepTyped == ReportTypeOK /\ [ReportNext]_reportVars => ReportTypeOK'
<1> SUFFICES ASSUME ReportTypeOK, [ReportNext]_reportVars PROVE ReportTypeOK'
  OBVIOUS
<1>1. ASSUME NEW e \in Executions, TakeJob(e) PROVE ReportTypeOK'
  <2>1. PICK j \in Jobs :
          /\ job' = [job EXCEPT ![j].state = "active", ![j].holder = e]
          /\ exec' = [exec EXCEPT ![e] = [pc |-> "claim", job |-> j]]
    BY <1>1 DEF TakeJob
  <2>2. ExecTyped'
    BY <2>1 DEF ExecTyped, ReportTypeOK
  <2> DEFINE JobType == [state : {"waiting", "active", "gone"}, holder : Executions \cup {NoExecution},
                         tried : 0 .. Attempts, stalls : 0 .. MaxStalls]
  <2>3. job \in [Jobs -> JobType]
    BY DEF ReportTypeOK
  <2>4. job' \in [Jobs -> JobType]
    BY <2>1, <2>3
  <2> QED
    BY <1>1, <2>2, <2>4 DEF TakeJob, ExecTyped, ReportTypeOK
<1>2. ASSUME NEW e \in Executions, Claim(e) \/ PostFails(e) \/ PostAnswer(e) \/ MarkFails(e)
      PROVE  ReportTypeOK'
  <2>1. PICK pc \in {"claimed", "answered", "release"} : Move(e, pc)
    BY <1>2 DEF Claim, PostFails, PostAnswer, MarkFails
  <2>2. ExecTyped'
    BY <2>1, MoveFacts DEF Working
  <2>3. answers' \in Nat /\ lapses' \in Nat /\ job' = job
    BY <1>2 DEF Claim, PostFails, PostAnswer, MarkFails, NoLapse, Lapse, ReportTypeOK
  <2>4. \/ day' = day
        \/ day' = [day EXCEPT !.claim = "live"]
        \/ day' = [day EXCEPT !.posted = TRUE]
    BY <1>2 DEF Claim, PostFails, PostAnswer, MarkFails
  <2>5. day' \in [claim : {"none", "live", "expired"}, posted : BOOLEAN]
    BY <2>4 DEF ReportTypeOK
  <2> QED
    BY <2>2, <2>3, <2>5 DEF ExecTyped, ReportTypeOK
<1>3. ASSUME NEW e \in Executions, Skip(e) \/ MarkPosted(e) \/ Release(e) PROVE ReportTypeOK'
  <2>1. Stop(e) /\ (Complete(e) \/ Retry(e))
    BY <1>3 DEF Skip, MarkPosted, Release
  <2>2. /\ answers' = answers /\ lapses' = lapses
        /\ day' \in [claim : {"none", "live", "expired"}, posted : BOOLEAN]
    BY <1>3 DEF Skip, MarkPosted, Release, ReportTypeOK
  <2> QED
    BY <2>1, <2>2, StopFacts, JobTyped DEF ExecTyped, ReportTypeOK
<1>4. ASSUME NEW e \in Executions, Crash(e) PROVE ReportTypeOK'
  BY <1>4, StopFacts DEF Crash, Lapse, NoLapse, ExecTyped, ReportTypeOK
<1>5. ASSUME NEW j \in Jobs, Stall(j) PROVE ReportTypeOK'
  <2> DEFINE JobType == [state : {"waiting", "active", "gone"}, holder : Executions \cup {NoExecution},
                         tried : 0 .. Attempts, stalls : 0 .. MaxStalls]
  <2>1. UNCHANGED <<day, exec, answers, lapses>> /\ job \in [Jobs -> JobType]
    BY <1>5 DEF Stall, ReportTypeOK
  <2>2. CASE job[j].stalls < MaxStalls
                /\ job' = [job EXCEPT ![j].state = "waiting", ![j].stalls = @ + 1]
    <3>1. job[j].stalls + 1 \in 0 .. MaxStalls
      BY <2>1, <2>2, ReportAssumption
    <3>2. job' \in [Jobs -> JobType]
      BY <2>1, <2>2, <3>1
    <3> QED
      BY <2>1, <3>2 DEF ReportTypeOK
  <2>3. CASE job' = [job EXCEPT ![j].state = "gone"]
    <3>1. job' \in [Jobs -> JobType]
      BY <2>1, <2>3
    <3> QED
      BY <2>1, <3>1 DEF ReportTypeOK
  <2> QED
    BY <1>5, <2>2, <2>3 DEF Stall
<1>6. CASE LeaseExpires
  BY <1>6 DEF LeaseExpires, Lapse, NoLapse, ReportTypeOK
<1>7. CASE UNCHANGED reportVars
  BY <1>7 DEF reportVars, ReportTypeOK
<1> QED
  BY <1>1, <1>2, <1>3, <1>4, <1>5, <1>6, <1>7 DEF ReportNext

LEMMA ChancesStep == ReportInv /\ [ReportNext]_reportVars => ChancesBounded'
<1> SUFFICES ASSUME ReportInv, [ReportNext]_reportVars PROVE ChancesBounded'
  OBVIOUS
<1> USE DEF ReportInv
<1>t. /\ ReportTypeOK /\ answers \in Nat /\ lapses \in Nat /\ day.posted \in BOOLEAN
      /\ Cardinality(Claimed) \in Nat /\ Cardinality(Releasing) \in Nat
      /\ Open \in 0 .. 1 /\ Open' \in 0 .. 1
  BY CountsTyped DEF ReportTypeOK, Open
<1>b. answers + Cardinality(Claimed)
        + (IF day.posted THEN 0 ELSE Cardinality(Releasing) + Open) <= 1 + lapses
  BY DEF ChancesBounded, Chances
<1>1. ASSUME NEW e \in Executions, TakeJob(e) PROVE ChancesBounded'
  <2>1. \A f \in Executions : exec'[f].pc = IF f = e THEN "claim" ELSE exec[f].pc
    BY <1>1 DEF TakeJob, ReportTypeOK
  <2>2. ~ Works(e) /\ "claim" \notin Working /\ UNCHANGED <<day, answers, lapses>>
    BY <1>1 DEF TakeJob, At, Works, Working
  <2> QED
    BY <2>1, <2>2, IdleMoves
<1>2. ASSUME NEW e \in Executions, Skip(e) PROVE ChancesBounded'
  <2>1. \A f \in Executions : exec'[f].pc = IF f = e THEN "idle" ELSE exec[f].pc
    BY <1>2, StopFacts DEF Skip
  <2>2. ~ Works(e) /\ "idle" \notin Working /\ UNCHANGED <<day, answers, lapses>>
    BY <1>2 DEF Skip, At, Works, Working
  <2> QED
    BY <2>1, <2>2, IdleMoves
<1>3. ASSUME NEW e \in Executions, Claim(e) PROVE ChancesBounded'
  <2>1. /\ Cardinality(Claimed') = Cardinality(Claimed) + 1
        /\ Cardinality(Releasing') = Cardinality(Releasing)
        /\ Works(e)'
    <3>1. /\ \A f \in Executions : exec'[f].pc = IF f = e THEN "claimed" ELSE exec[f].pc
          /\ Works(e)'
      BY <1>3, MoveFacts DEF Claim, Working
    <3>2. /\ Cardinality(Claimed') = Cardinality(Claimed) + One("claimed" = "claimed") - One(At(e, "claimed"))
          /\ Cardinality(Releasing') = Cardinality(Releasing) + One("claimed" = "release") - One(At(e, "release"))
      BY <3>1, ExecCounts
    <3> QED
      BY <1>3, <1>t, <3>1, <3>2 DEF Claim, At, One
  <2>2. Open = 1 /\ ~ day.posted /\ Open' = 0 /\ day'.posted = day.posted
    BY <1>3, <2>1 DEF Claim, Claimable, Open, ReportTypeOK
  <2> QED
    BY <1>3, <1>t, <1>b, <2>1, <2>2 DEF ChancesBounded, Chances, Claim
<1>4. ASSUME NEW e \in Executions, PostFails(e) \/ PostAnswer(e) \/ MarkFails(e) PROVE ChancesBounded'
  <2>1. PICK pc \in {"answered", "release"} : Move(e, pc)
    BY <1>4 DEF PostFails, PostAnswer, MarkFails
  <2>2. /\ Cardinality(Claimed') = Cardinality(Claimed) - One(At(e, "claimed"))
        /\ Cardinality(Releasing') = Cardinality(Releasing) + One(pc = "release") - One(At(e, "release"))
        /\ Works(e) /\ Works(e)'
    <3>1. /\ \A f \in Executions : exec'[f].pc = IF f = e THEN pc ELSE exec[f].pc
          /\ Works(e)'
      BY <2>1, MoveFacts DEF Working
    <3>2. /\ Cardinality(Claimed') = Cardinality(Claimed) + One(pc = "claimed") - One(At(e, "claimed"))
          /\ Cardinality(Releasing') = Cardinality(Releasing) + One(pc = "release") - One(At(e, "release"))
      BY <3>1, ExecCounts
    <3>3. Works(e) /\ pc # "claimed"
      BY <1>4 DEF PostFails, PostAnswer, MarkFails, At, Works, Working
    <3> QED
      BY <1>t, <3>1, <3>2, <3>3 DEF One
  <2>3. day'.claim = day.claim
    BY <1>4 DEF PostFails, PostAnswer, MarkFails, ReportTypeOK
  <2>4. Open' = Open
    BY <2>2, <2>3 DEF Open
  <2>5. CASE PostFails(e)
    BY <2>5, <1>t, <1>b, <2>1, <2>2, <2>4
       DEF ChancesBounded, Chances, PostFails, One, At
  <2>6. CASE PostAnswer(e)
    <3>1. day' = day /\ answers' = answers + 1 /\ At(e, "claimed") /\ ~ At(e, "release")
      BY <2>6 DEF PostAnswer, At
    <3>2. lapses' = lapses + One(pc = "release")
      BY <2>6, <2>1, <1>t DEF PostAnswer, One, NoLapse, Lapse, Move, ReportTypeOK
    <3> QED
      BY <1>t, <1>b, <2>2, <2>4, <3>1, <3>2 DEF ChancesBounded, Chances, One
  <2>7. CASE MarkFails(e)
    <3>1. answers' = answers /\ ~ At(e, "claimed") /\ ~ At(e, "release")
      BY <2>7 DEF MarkFails, At
    <3>2. (day'.posted /\ lapses' = lapses) \/ (day' = day /\ lapses' = lapses + 1)
      BY <2>7 DEF MarkFails, NoLapse, Lapse, ReportTypeOK
    <3> QED
      BY <1>t, <1>b, <2>2, <2>4, <3>1, <3>2 DEF ChancesBounded, Chances, One
  <2> QED
    BY <1>4, <2>5, <2>6, <2>7
<1>5. ASSUME NEW e \in Executions, MarkPosted(e) \/ Release(e) \/ Crash(e) PROVE ChancesBounded'
  <2>1. /\ \A f \in Executions : exec'[f].pc = IF f = e THEN "idle" ELSE exec[f].pc
        /\ answers' = answers
    BY <1>5, StopFacts DEF MarkPosted, Release, Crash
  <2>2. /\ Cardinality(Claimed') = Cardinality(Claimed) - One(At(e, "claimed"))
        /\ Cardinality(Releasing') = Cardinality(Releasing) - One(At(e, "release"))
        /\ Cardinality(Claimed') \in Nat /\ Cardinality(Releasing') \in Nat
    <3>1. /\ Cardinality(Claimed') = Cardinality(Claimed) + One("idle" = "claimed") - One(At(e, "claimed"))
          /\ Cardinality(Releasing') = Cardinality(Releasing) + One("idle" = "release") - One(At(e, "release"))
          /\ Cardinality(Claimed') \in Nat /\ Cardinality(Releasing') \in Nat
      BY <2>1, ExecCounts
    <3> QED
      BY <1>t, <3>1 DEF One
  <2>3. CASE MarkPosted(e)
    <3>1. day'.posted /\ lapses' = lapses /\ ~ At(e, "claimed")
      BY <2>3 DEF MarkPosted, At, ReportTypeOK
    <3> QED
      BY <1>t, <1>b, <2>1, <2>2, <3>1 DEF ChancesBounded, Chances, One
  <2>4. CASE Release(e)
    <3>1. day'.posted = day.posted /\ lapses' = lapses /\ At(e, "release") /\ ~ At(e, "claimed")
      BY <2>4 DEF Release, At, ReportTypeOK
    <3> QED
      BY <1>t, <1>b, <2>1, <2>2, <3>1 DEF ChancesBounded, Chances, One
  <2>5. CASE Crash(e)
    <3>1. CASE At(e, "claimed") \/ At(e, "release")
      <4>1. day' = day /\ lapses' = lapses
        BY <2>5, <3>1 DEF Crash, NoLapse, At
      <4> QED
        BY <1>t, <1>b, <2>1, <2>2, <3>1, <4>1 DEF ChancesBounded, Chances, One, At
    <3>2. CASE At(e, "answered")
      <4>1. day' = day /\ lapses' = lapses + 1
        BY <2>5, <3>2 DEF Crash, Lapse
      <4> QED
        BY <1>t, <1>b, <2>1, <2>2, <3>2, <4>1 DEF ChancesBounded, Chances, One, At
    <3>3. CASE At(e, "claim")
      <4>1. UNCHANGED <<day, answers, lapses>>
        BY <2>5, <3>3 DEF Crash, NoLapse, At
      <4> QED
        BY <2>1, <3>3, <4>1, IdleMoves DEF At, Works, Working
    <3> QED
      BY <2>5, <3>1, <3>2, <3>3 DEF Crash, At, Works, Working, ReportTypeOK
  <2> QED
    BY <1>5, <2>3, <2>4, <2>5
<1>6. CASE LeaseExpires
  <2>1. /\ Claimed' = Claimed /\ Releasing' = Releasing /\ answers' = answers
        /\ day'.posted = day.posted
    BY <1>6 DEF LeaseExpires, Claimed, Releasing, At, ReportTypeOK
  <2>2. Open = 1 \/ lapses' = lapses + 1
    BY <1>6 DEF LeaseExpires, Open, Lapse
  <2>3. lapses' = lapses \/ lapses' = lapses + 1
    BY <1>6 DEF LeaseExpires, Lapse, NoLapse
  <2> QED
    BY <1>t, <1>b, <2>1, <2>2, <2>3 DEF ChancesBounded, Chances
<1>7. CASE UNCHANGED <<day, exec, answers, lapses>>
  BY <1>7, <1>b DEF ChancesBounded, Chances, Claimed, Releasing, Open, At, Works
<1> QED
  BY <1>1, <1>2, <1>3, <1>4, <1>5, <1>6, <1>7 DEF ReportNext, reportVars, Stall

LEMMA ReportInvariant == ReportSpec => []ReportInv
<1>1. ReportInv /\ [ReportNext]_reportVars => ReportInv'
  BY ReportStepTyped, ChancesStep DEF ReportInv
<1> QED
  BY <1>1, ReportInitInv, PTL DEF ReportSpec

(* Type correctness of the claim, the jobs and the executions. *)
THEOREM ReportTyping == ReportSpec => []ReportTypeOK
<1>1. ReportInv => ReportTypeOK
  BY DEF ReportInv
<1> QED
  BY <1>1, ReportInvariant, PTL

(* However claims, failures, crashes and redeliveries interleave, run() posts *)
(* a day at most once more than there were lapses.                            *)
THEOREM OneAnswerPerLapseHolds == ReportSpec => []OneAnswerPerLapse
<1>1. ReportInv => OneAnswerPerLapse
  <2> SUFFICES ASSUME ReportInv PROVE OneAnswerPerLapse
    OBVIOUS
  <2>1. /\ answers \in Nat /\ lapses \in Nat /\ Open \in 0 .. 1
        /\ Cardinality(Claimed) \in Nat /\ Cardinality(Releasing) \in Nat
    BY CountsTyped DEF ReportInv, ReportTypeOK, Open
  <2> QED
    BY <2>1 DEF ReportInv, ChancesBounded, Chances, OneAnswerPerLapse
<1> QED
  BY <1>1, ReportInvariant, PTL
===============================================================================

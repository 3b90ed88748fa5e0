-------------------------- MODULE ReviewBoardProofs --------------------------
(***************************************************************************)
(* Theorems about ReviewBoard, for any test cases, contents, scoring, runs *)
(* and requests.                                                           *)
(***************************************************************************)
EXTENDS ReviewBoard, TLAPS, FiniteSetTheorems

----------------------------------------------------------------------------
(* Type correctness, one part of the state at a time *)

LEMMA PairCases == \A p \in Pairs : p \subseteq Cases
  BY DEF Pairs

LEMMA BoardInitTyped == BoardInit => BoardTypeOK
<1> SUFFICES ASSUME BoardInit PROVE BoardTypeOK
  OBVIOUS
<1>1. ExecTyped
  BY DEF BoardInit, RegisterInit, NoExec, ExecTyped
<1>2. TestcaseTyped
  <2>1. NotCreated \in [life : {"new", "live", "deleted"}, content : Contents, suite : Suites]
    BY ContentAssumption DEF NotCreated
  <2> QED
    BY <2>1 DEF BoardInit, TestcaseTyped
<1>3. FindingTyped
  <2>1. PICK f \in [OldPairs -> {"pending", "kept", "edited", "obsolete"}] :
          finding = [p \in OldPairs |->
                       [status |-> f[p], content |-> [c \in p |-> testcase[c].content],
                        suite |-> Unrecorded, run |-> NoRun, gone |-> NoCase]]
    BY DEF BoardInit
  <2>2. ASSUME NEW p \in OldPairs PROVE finding[p] \in Row(p)
    <3>1. [c \in p |-> testcase[c].content] \in [p -> Contents]
      BY <1>2, PairCases, PairAssumption DEF TestcaseTyped
    <3> QED
      BY <2>1, <3>1 DEF Row, Statuses
  <2> QED
    BY <2>1, <2>2, PairAssumption DEF FindingTyped
<1>4. SnapshotTyped
  <2>1. <<>> \in [{} -> Facts]
    OBVIOUS
  <2> QED
    BY <2>1 DEF BoardInit, SnapshotTyped
<1>5. ReviewerTyped
  BY DEF BoardInit, ReviewerTyped
<1> QED
  BY <1>1, <1>2, <1>3, <1>4, <1>5 DEF BoardTypeOK

LEMMA RegisterTyped ==
  ASSUME ExecTyped, RegisterNext \/ UNCHANGED registerVars
  PROVE  ExecTyped'
<1> USE DEF ExecTyped
<1>1. ASSUME NEW r \in Runs, Open(r) \/ Expire(r) PROVE ExecTyped'
  BY <1>1 DEF Open, Expire, CloseRun
<1>2. ASSUME NEW r \in Runs, NEW w \in Workers, Begin(w, r) PROVE ExecTyped'
  BY <1>2 DEF Begin
<1>3. ASSUME NEW w \in Workers, Read(w) PROVE ExecTyped'
  BY <1>3 DEF Read
<1>4. ASSUME NEW w \in Workers, Commit(w) \/ Abandon(w) PROVE ExecTyped'
  <2>1. exec[w].id \in Runs
    BY <1>4 DEF Commit, Abandon
  <2>2. open' \subseteq Runs /\ written' \in Seq(Runs)
    BY <1>4, <2>1, SMTT(40) DEF Commit, Abandon, CloseRun
  <2> QED
    BY <1>4, <2>2 DEF Commit, Abandon, NoExec
<1>5. CASE UNCHANGED registerVars
  BY <1>5 DEF registerVars
<1> QED
  BY <1>1, <1>2, <1>3, <1>4, <1>5 DEF RegisterNext

LEMMA BoardExecTyped ==
  ASSUME ExecTyped, [BoardNext]_boardVars
  PROVE  ExecTyped'
<1>1. RegisterNext \/ UNCHANGED registerVars
  BY DEF BoardNext, RunNext, ReviewNext, CaseNext, StartRun, ExpireRun, ClaimRun, ReadTestcases,
         PersistRun, AbandonRun, RegisterNext, Keep, Remove, EditLoad, EditRead, EditSave, EditMark,
         EditCrash, CreateTestcase, UpdateTestcase, BulkMove, BulkDelete, UnchangedRuns,
         UnchangedButCases, boardVars, registerVars
<1> QED
  BY <1>1, RegisterTyped, SMTT(40)

LEMMA BoardTestcaseTyped ==
  ASSUME TestcaseTyped, ReviewerTyped, [BoardNext]_boardVars
  PROVE  TestcaseTyped'
<1> USE DEF TestcaseTyped
<1>1. CASE UNCHANGED testcase
  BY <1>1
<1>2. ASSUME NEW p \in Pairs, NEW c \in p, Remove(p, c) PROVE TestcaseTyped'
  BY <1>2, PairCases DEF Remove
<1>3. ASSUME NEW v \in Reviewers, EditSave(v) PROVE TestcaseTyped'
  <2>1. reviewer[v].pc = "saving" =>
          reviewer[v].case \in Cases /\ reviewer[v].content \in Contents /\ reviewer[v].suite \in Suites
    BY DEF ReviewerTyped, IdleReviewer, EditRequest
  <2> QED
    BY <1>3, <2>1 DEF EditSave
<1>4. ASSUME NEW c \in Cases, CreateTestcase(c) \/ UpdateTestcase(c) PROVE TestcaseTyped'
  <2>1. PICK k \in Contents, s \in Suites :
          \/ testcase' = [testcase EXCEPT ![c] = [life |-> "live", content |-> k, suite |-> s]]
          \/ testcase' = [testcase EXCEPT ![c].content = k, ![c].suite = s]
    BY <1>4 DEF CreateTestcase, UpdateTestcase
  <2> QED
    BY <2>1
<1>5. ASSUME NEW S \in SUBSET Cases, NEW s \in Suites, BulkMove(S, s) PROVE TestcaseTyped'
  BY <1>5 DEF BulkMove
<1>6. ASSUME NEW S \in SUBSET Cases, BulkDelete(S) PROVE TestcaseTyped'
  BY <1>6 DEF BulkDelete
<1> QED
  BY <1>1, <1>2, <1>3, <1>4, <1>5, <1>6
  DEF BoardNext, RunNext, ReviewNext, CaseNext, StartRun, ExpireRun, ClaimRun, ReadTestcases,
      PersistRun, AbandonRun, UnchangedBoard, Keep, EditLoad, EditRead, EditMark, EditCrash, boardVars

LEMMA BoardSnapshotTyped ==
  ASSUME TestcaseTyped, SnapshotTyped, [BoardNext]_boardVars
  PROVE  SnapshotTyped'
<1> USE DEF SnapshotTyped
<1>1. CASE UNCHANGED snapshot
  BY <1>1
<1>2. ASSUME NEW w \in Workers, ReadTestcases(w) PROVE SnapshotTyped'
  <2> DEFINE live == {c \in Cases : Live(c)}
             read == [c \in live |-> [content |-> testcase[c].content, suite |-> testcase[c].suite]]
  <2>1. live \in SUBSET Cases /\ read \in [live -> Facts]
    BY DEF TestcaseTyped, Facts
  <2>2. snapshot' = [snapshot EXCEPT ![w] = read]
    BY <1>2 DEF ReadTestcases
  <2> HIDE DEF live, read
  <2> QED
    BY <2>1, <2>2
<1>3. ASSUME NEW w \in Workers, PersistRun(w) \/ AbandonRun(w) PROVE SnapshotTyped'
  <2>1. <<>> \in [{} -> Facts] /\ {} \in SUBSET Cases
    OBVIOUS
  <2> QED
    BY <1>3, <2>1 DEF PersistRun, AbandonRun
<1> QED
  BY <1>1, <1>2, <1>3
  DEF BoardNext, RunNext, ReviewNext, CaseNext, StartRun, ExpireRun, ClaimRun, Keep, Remove,
      EditLoad, EditRead, EditSave, EditMark, EditCrash, CreateTestcase, UpdateTestcase,
      BulkMove, BulkDelete, UnchangedRuns, UnchangedButCases, boardVars

LEMMA BoardReviewerTyped ==
  ASSUME TestcaseTyped, ReviewerTyped, [BoardNext]_boardVars
  PROVE  ReviewerTyped'
<1> USE DEF ReviewerTyped, IdleReviewer, EditRequest
<1>1. CASE UNCHANGED reviewer
  BY <1>1
<1>2. ASSUME NEW v \in Reviewers, NEW p \in Pairs, NEW c \in p, EditLoad(v, p, c)
      PROVE  ReviewerTyped'
  BY <1>2, PairCases DEF EditLoad
<1>3. ASSUME NEW v \in Reviewers, EditRead(v) PROVE ReviewerTyped'
  <2> DEFINE req == reviewer[v]
  <2>1. req \in EditRequest({"loaded", "saved"}, {Unrecorded})
    BY <1>3 DEF EditRead
  <2>2. ASSUME NEW s \in Suites
        PROVE  [req EXCEPT !.pc = "saving", !.suite = s] \in EditRequest({"saving"}, Suites)
    BY <2>1
  <2>3. testcase[req.case].suite \in Suites
    BY <2>1 DEF TestcaseTyped
  <2> HIDE DEF req, IdleReviewer, EditRequest
  <2>4. \E q \in {IdleReviewer} \cup EditRequest({"saving"}, Suites) :
          reviewer' = [reviewer EXCEPT ![v] = q]
    BY <1>3, <2>2, <2>3 DEF EditRead, req
  <2> QED
    BY <2>4
<1>4. ASSUME NEW v \in Reviewers, EditSave(v) PROVE ReviewerTyped'
  <2> DEFINE req == reviewer[v]
  <2>1. req \in EditRequest({"saving"}, Suites)
    BY <1>4 DEF EditSave
  <2>2. [req EXCEPT !.pc = "saved", !.suite = Unrecorded] \in EditRequest({"loaded", "saved"}, {Unrecorded})
    BY <2>1
  <2> HIDE DEF req, IdleReviewer, EditRequest
  <2>3. \E q \in {IdleReviewer} \cup EditRequest({"loaded", "saved"}, {Unrecorded}) :
          reviewer' = [reviewer EXCEPT ![v] = q]
    BY <1>4, <2>2 DEF EditSave, req
  <2> QED
    BY <2>3
<1>5. ASSUME NEW v \in Reviewers, EditMark(v) \/ EditCrash(v) PROVE ReviewerTyped'
  BY <1>5 DEF EditMark, EditCrash
<1> QED
  BY <1>1, <1>2, <1>3, <1>4, <1>5
  DEF BoardNext, RunNext, ReviewNext, CaseNext, StartRun, ExpireRun, ClaimRun, ReadTestcases,
      PersistRun, AbandonRun, UnchangedBoard, Keep, Remove, CreateTestcase, UpdateTestcase,
      BulkMove, BulkDelete, UnchangedButCases, boardVars

----------------------------------------------------------------------------
(* The rows of findings *)

(* What a run writes: rows of pairs it read and found to match *)
LEMMA ReportMatches ==
  ASSUME NEW snap, NEW S \in Proposed(snap), NEW p \in Report(S, snap)
  PROVE  p \in Pairs /\ p \subseteq DOMAIN snap /\ Matches(ContentsRead(p, snap))
  BY DEF Report, Proposed, Matching

LEMMA NewRowTyped ==
  ASSUME NEW w \in Workers, SnapshotTyped, NEW p \in Pairs, p \subseteq DOMAIN snapshot[w],
         NEW r \in Runs
  PROVE  NewRow(p, snapshot[w], r) \in Row(p)
<1>1. PICK D \in SUBSET Cases : snapshot[w] \in [D -> Facts]
  BY DEF SnapshotTyped
<1>2. /\ [c \in p |-> snapshot[w][c].content] \in [p -> Contents]
      /\ [c \in p |-> snapshot[w][c].suite] \in [p -> Suites]
  BY <1>1 DEF Facts
<1> QED
  BY <1>2 DEF NewRow, Row, Statuses

LEMMA PersistTyped ==
  ASSUME ExecTyped, FindingTyped, SnapshotTyped, NEW w \in Workers, PersistRun(w)
  PROVE  FindingTyped'
<1> DEFINE snap == snapshot[w]
           r    == exec[w].id
<1>1. r \in Runs
  BY DEF PersistRun, Commit, ExecTyped
<1>0. PICK S \in Proposed(snap) : WriteFindings(Report(S, snap), snap, r)
  BY DEF PersistRun
<1> DEFINE F == Report(S, snap)
<1>2. finding' = [p \in DOMAIN finding \cup F |-> IF p \in F THEN Upserted(p, snap, r) ELSE Swept(p)]
  BY <1>0 DEF WriteFindings
<1> HIDE DEF F
<1>3. ASSUME NEW p \in F PROVE p \in Pairs /\ Upserted(p, snap, r) \in Row(p)
  <2>1. p \in Pairs /\ NewRow(p, snap, r) \in Row(p)
    BY <1>1, ReportMatches, NewRowTyped DEF F
  <2>2. CASE p \in DOMAIN finding
    BY <2>1, <2>2 DEF Upserted, FindingTyped, Row, Statuses
  <2> QED
    BY <2>1, <2>2 DEF Upserted
<1>4. ASSUME NEW p \in DOMAIN finding PROVE Swept(p) \in Row(p)
  BY DEF Swept, FindingTyped, Row, Statuses
<1> QED
  BY <1>2, <1>3, <1>4 DEF FindingTyped

LEMMA RescoredTyped ==
  ASSUME TestcaseTyped, FindingTyped, NEW p \in DOMAIN finding
  PROVE  Rescored(p) \in Row(p)
<1>1. p \subseteq Cases
  BY PairCases DEF FindingTyped
<1>2. /\ [c \in p |-> testcase[c].content] \in [p -> Contents]
      /\ [c \in p |-> testcase[c].suite] \in [p -> Suites]
  BY <1>1 DEF TestcaseTyped
<1> QED
  BY <1>2, ZenonT(60) DEF Rescored, FindingTyped, Row, Statuses

(* The steps that write a row, one by one; all others leave them all alone *)
LEMMA FindingSteps ==
  ASSUME [BoardNext]_boardVars
  PROVE  \/ UNCHANGED finding
         \/ \E w \in Workers : PersistRun(w)
         \/ \E p \in Pairs : Keep(p) \/ (\E c \in p : Remove(p, c))
         \/ \E v \in Reviewers : EditMark(v)
  BY DEF BoardNext, RunNext, ReviewNext, CaseNext, StartRun, ExpireRun, ClaimRun, ReadTestcases,
         AbandonRun, UnchangedBoard, EditLoad, EditRead, EditSave, EditCrash, CreateTestcase,
         UpdateTestcase, BulkMove, BulkDelete, UnchangedButCases, boardVars

LEMMA BoardFindingTyped ==
  ASSUME BoardTypeOK, [BoardNext]_boardVars
  PROVE  FindingTyped'
<1> USE DEF BoardTypeOK
<1>1. CASE UNCHANGED finding
  BY <1>1 DEF FindingTyped, Row
<1>2. ASSUME NEW w \in Workers, PersistRun(w) PROVE FindingTyped'
  BY <1>2, PersistTyped
<1>3. ASSUME NEW p \in Pairs, Keep(p) PROVE FindingTyped'
  BY <1>3 DEF Keep, Actionable, FindingTyped, Row, Statuses
<1>4. ASSUME NEW p \in Pairs, NEW c \in p, Remove(p, c) PROVE FindingTyped'
  BY <1>4 DEF Remove, Actionable, FindingTyped, Row, Statuses
<1>5. ASSUME NEW v \in Reviewers, EditMark(v) PROVE FindingTyped'
  <2> DEFINE p == reviewer[v].pair
  <2>1. UNCHANGED finding \/ finding' = [finding EXCEPT ![p] = Rescored(p)]
    BY <1>5 DEF EditMark
  <2>2. p \in DOMAIN finding => Rescored(p) \in Row(p)
    BY RescoredTyped
  <2> HIDE DEF p
  <2> QED
    BY <1>1, <2>1, <2>2 DEF FindingTyped
<1> QED
  BY <1>1, <1>2, <1>3, <1>4, <1>5, FindingSteps

LEMMA BoardNextTyped == BoardTypeOK /\ [BoardNext]_boardVars => BoardTypeOK'
  BY BoardExecTyped, BoardTestcaseTyped, BoardSnapshotTyped, BoardReviewerTyped, BoardFindingTyped
  DEF BoardTypeOK

(* Type correctness of the board. *)
THEOREM BoardTyping == BoardSpec => []BoardTypeOK
  BY BoardInitTyped, BoardNextTyped, PTL DEF BoardSpec

----------------------------------------------------------------------------
(* Actionable findings match.  ActionableMatches is not inductive: a finding  *)
(* that is kept or obsolete today is pending after the next run.  What is     *)
(* inductive is that every row a run may show again describes two contents    *)
(* that match.  Edited and removed rows are exempt: rescoreFinding stores     *)
(* fingerprints below the threshold, and such a row is never pending again.   *)

RowMatches(p) == Matches({finding[p].content[c] : c \in p})

RowsMatch ==
    \A p \in DOMAIN finding : finding[p].status \in {"pending", "kept", "obsolete"} => RowMatches(p)

LEMMA RowsMatchInit == BoardInit => RowsMatch
<1> SUFFICES ASSUME BoardInit, NEW p \in DOMAIN finding PROVE RowMatches(p)
  BY DEF RowsMatch
<1>1. p \in OldPairs /\ finding[p].content = [c \in p |-> testcase[c].content]
  BY DEF BoardInit
<1>2. {finding[p].content[c] : c \in p} = ContentsNow(p)
  BY <1>1 DEF ContentsNow
<1> QED
  BY <1>1, <1>2 DEF BoardInit, RowMatches

LEMMA PersistRowsMatch ==
  ASSUME RowsMatch, NEW w \in Workers, PersistRun(w)
  PROVE  RowsMatch'
<1> DEFINE snap == snapshot[w]
           r    == exec[w].id
<1>0. PICK S \in Proposed(snap) : WriteFindings(Report(S, snap), snap, r)
  BY DEF PersistRun
<1> DEFINE F == Report(S, snap)
<1>1. finding' = [p \in DOMAIN finding \cup F |-> IF p \in F THEN Upserted(p, snap, r) ELSE Swept(p)]
  BY <1>0 DEF WriteFindings
<1>2. SUFFICES ASSUME NEW p \in DOMAIN finding \cup F,
                      finding'[p].status \in {"pending", "kept", "obsolete"}
               PROVE  RowMatches(p)'
  BY <1>1 DEF RowsMatch
<1>3. CASE p \in F
  <2>1. CASE p \in DOMAIN finding /\ finding[p].status = "removed"
    <3>1. finding'[p] = finding[p]
      BY <1>1, <1>3, <2>1 DEF Upserted
    <3> QED
      BY <1>2, <2>1, <3>1
  <2>2. CASE ~ (p \in DOMAIN finding /\ finding[p].status = "removed")
    <3>1. finding'[p].content = [c \in p |-> snap[c].content]
      BY <1>1, <1>3, <2>2 DEF Upserted, NewRow
    <3>2. {finding'[p].content[c] : c \in p} = ContentsRead(p, snap)
      BY <3>1 DEF ContentsRead
    <3> QED
      BY <1>3, <3>2, ReportMatches DEF RowMatches
  <2> QED
    BY <2>1, <2>2
<1>4. CASE p \notin F
  <2>1. /\ finding'[p].content = finding[p].content
        /\ finding[p].status \in {"pending", "kept", "obsolete"}
    BY <1>1, <1>2, <1>4 DEF Swept
  <2> QED
    BY <1>4, <2>1 DEF RowsMatch, RowMatches
<1> QED
  BY <1>3, <1>4

LEMMA RowsMatchStep ==
  ASSUME RowsMatch, [BoardNext]_boardVars
  PROVE  RowsMatch'
<1>1. CASE UNCHANGED finding
  BY <1>1 DEF RowsMatch, RowMatches
<1>2. ASSUME NEW p \in Pairs, Keep(p) \/ (\E c \in p : Remove(p, c)) PROVE RowsMatch'
  <2> DEFINE Moved == /\ DOMAIN finding' = DOMAIN finding
                      /\ p \in DOMAIN finding /\ finding[p].status = "pending"
                      /\ \A q \in DOMAIN finding : finding'[q].content = finding[q].content
                      /\ \A q \in DOMAIN finding \ {p} : finding'[q] = finding[q]
  <2>1. ASSUME Keep(p) PROVE Moved
    BY <2>1 DEF Keep, Actionable
  <2>2. ASSUME NEW c \in p, Remove(p, c) PROVE Moved
    BY <2>2 DEF Remove, Actionable
  <2>3. Moved
    BY <1>2, <2>1, <2>2
  <2> QED
    BY <2>3 DEF RowsMatch, RowMatches
<1>3. ASSUME NEW v \in Reviewers, EditMark(v) PROVE RowsMatch'
  <2> DEFINE p == reviewer[v].pair
  <2>1. CASE p \in DOMAIN finding /\ finding' = [finding EXCEPT ![p] = Rescored(p)]
    <3>1. finding'[p].status = "edited"
      BY <2>1 DEF Rescored
    <3> HIDE DEF p
    <3> QED
      BY <2>1, <3>1 DEF RowsMatch, RowMatches
  <2>2. CASE p \notin DOMAIN finding /\ finding' = [finding EXCEPT ![p] = Rescored(p)]
    BY <2>2 DEF RowsMatch, RowMatches
  <2> QED
    BY <1>1, <1>3, <2>1, <2>2 DEF EditMark
<1> QED
  BY <1>1, <1>2, <1>3, FindingSteps, PersistRowsMatch

LEMMA RowsMatchImplies == RowsMatch => ActionableMatches
<1> SUFFICES ASSUME RowsMatch, NEW p \in DOMAIN finding, Actionable(p)
             PROVE  Matches(ContentsNow(p))
  BY DEF ActionableMatches
<1>1. RowMatches(p)
  BY DEF RowsMatch, Actionable
<1>2. {finding[p].content[c] : c \in p} = ContentsNow(p)
  BY DEF Actionable, Fresh, ContentsNow
<1> QED
  BY <1>1, <1>2 DEF RowMatches

(* Whatever is offered for review and accepted as fresh is a match right now. *)
THEOREM ActionableMatchesHolds == BoardSpec => []ActionableMatches
<1>1. BoardSpec => []RowsMatch
  BY RowsMatchInit, RowsMatchStep, PTL DEF BoardSpec
<1> QED
  BY <1>1, RowsMatchImplies, PTL

----------------------------------------------------------------------------
(* What a step does to a row that somebody has decided on *)

(* A row in one of these states is written by a run and by nothing else: keep, *)
(* remove and markReviewed want a pending row.                                 *)
LEMMA DecidedRowSteps ==
  ASSUME [BoardNext]_boardVars,
         NEW p \in DOMAIN finding, finding[p].status # "pending"
  PROVE  finding'[p] = finding[p] \/ \E w \in Workers : PersistRun(w)
<1>1. ASSUME NEW q \in Pairs, Keep(q) PROVE finding'[p] = finding[p]
  BY <1>1 DEF Keep, Actionable
<1>2. ASSUME NEW q \in Pairs, NEW c \in q, Remove(q, c) PROVE finding'[p] = finding[p]
  BY <1>2 DEF Remove, Actionable
<1>3. ASSUME NEW v \in Reviewers, EditMark(v) PROVE finding'[p] = finding[p]
  BY <1>3 DEF EditMark
<1> QED
  BY <1>1, <1>2, <1>3, FindingSteps

LEMMA PersistRow ==
  ASSUME NEW w \in Workers, PersistRun(w), NEW p \in DOMAIN finding
  PROVE  \/ /\ p \subseteq DOMAIN snapshot[w]
            /\ finding'[p] = Upserted(p, snapshot[w], exec[w].id)
         \/ finding'[p] = Swept(p)
  BY ReportMatches DEF PersistRun, WriteFindings

(* The verdict "keep" is never passed on to content its reviewer did not see. *)
THEOREM KeptMeansSeenHolds == BoardSpec => KeptMeansSeen
<1> DEFINE Kept == \A p \in DOMAIN finding :
                     finding[p].status = "kept" /\ finding'[p].status = "kept"
                       => finding'[p].content = finding[p].content
<1>1. BoardTypeOK /\ [BoardNext]_boardVars => [Kept]_boardVars
  <2> SUFFICES ASSUME BoardTypeOK, [BoardNext]_boardVars, NEW p \in DOMAIN finding,
                      finding[p].status = "kept", finding'[p].status = "kept"
               PROVE  finding'[p].content = finding[p].content
    OBVIOUS
  <2>1. ASSUME NEW w \in Workers, PersistRun(w) PROVE finding'[p].content = finding[p].content
    <3> DEFINE snap == snapshot[w]
    <3>1. CASE finding'[p] = Upserted(p, snap, exec[w].id)
      <4>1. finding'[p].content = [c \in p |-> snap[c].content]
        BY <3>1 DEF Upserted, NewRow
      <4>2. ~ Reopens(p, snap)
        BY <3>1 DEF Upserted, NewRow
      <4>3. \A c \in p : finding[p].content[c] = snap[c].content
        BY <4>2 DEF Reopens
      <4>4. finding[p].content \in [p -> Contents]
        BY DEF BoardTypeOK, FindingTyped, Row
      <4> QED
        BY <4>1, <4>3, <4>4
    <3>2. CASE finding'[p] = Swept(p)
      BY <3>2 DEF Swept
    <3> QED
      BY <2>1, <3>1, <3>2, PersistRow
  <2> QED
    BY <2>1, DecidedRowSteps
<1> QED
  BY <1>1, BoardTyping, PTL DEF BoardSpec, KeptMeansSeen

(* A removed row names a case that is gone.  This is what makes the second    *)
(* half of DecisionsAreFinal inductive: no step brings a deleted case back.   *)
RemovedIsGone ==
    \A p \in DOMAIN finding :
      finding[p].status = "removed" => /\ finding[p].gone \in Cases
                                       /\ testcase[finding[p].gone].life = "deleted"

LEMMA DeletedStays ==
  ASSUME TestcaseTyped, [BoardNext]_boardVars, NEW c \in Cases, testcase[c].life = "deleted"
  PROVE  testcase'[c].life = "deleted"
<1> USE DEF TestcaseTyped
<1>1. CASE UNCHANGED testcase
  BY <1>1
<1>2. ASSUME NEW p \in Pairs, NEW d \in p, Remove(p, d) PROVE testcase'[c].life = "deleted"
  BY <1>2 DEF Remove
<1>3. ASSUME NEW v \in Reviewers, EditSave(v) PROVE testcase'[c].life = "deleted"
  BY <1>3 DEF EditSave, Live
<1>4. ASSUME NEW d \in Cases, CreateTestcase(d) PROVE testcase'[c].life = "deleted"
  BY <1>4 DEF CreateTestcase
<1>5. ASSUME NEW d \in Cases, UpdateTestcase(d) PROVE testcase'[c].life = "deleted"
  BY <1>5 DEF UpdateTestcase, Live
<1>6. ASSUME NEW S \in SUBSET Cases, NEW s \in Suites, BulkMove(S, s)
      PROVE  testcase'[c].life = "deleted"
  BY <1>6 DEF BulkMove
<1>7. ASSUME NEW S \in SUBSET Cases, BulkDelete(S) PROVE testcase'[c].life = "deleted"
  BY <1>7 DEF BulkDelete
<1> QED
  BY <1>1, <1>2, <1>3, <1>4, <1>5, <1>6, <1>7
  DEF BoardNext, RunNext, ReviewNext, CaseNext, StartRun, ExpireRun, ClaimRun, ReadTestcases,
      PersistRun, AbandonRun, UnchangedBoard, Keep, EditLoad, EditRead, EditMark, EditCrash, boardVars

LEMMA RemovedIsGoneInit == BoardInit => RemovedIsGone
  BY DEF BoardInit, RemovedIsGone

LEMMA RemovedIsGoneStep ==
  ASSUME BoardTypeOK, RemovedIsGone, [BoardNext]_boardVars
  PROVE  RemovedIsGone'
<1> DEFINE Recorded(p) == /\ finding[p].gone \in Cases
                          /\ testcase[finding[p].gone].life = "deleted"
<1>1. ASSUME NEW p \in DOMAIN finding, finding'[p] = finding[p], finding[p].status = "removed"
      PROVE  Recorded(p)'
  <2>1. Recorded(p)
    BY <1>1 DEF RemovedIsGone
  <2> QED
    BY <1>1, <2>1, DeletedStays DEF BoardTypeOK
<1>2. CASE UNCHANGED finding
  BY <1>1, <1>2 DEF RemovedIsGone
<1>3. ASSUME NEW w \in Workers, PersistRun(w) PROVE RemovedIsGone'
  <2> SUFFICES ASSUME NEW p \in DOMAIN finding', finding'[p].status = "removed"
               PROVE  Recorded(p)'
    BY SMTT(40) DEF RemovedIsGone
  <2>1. CASE p \notin DOMAIN finding
    <3>1. finding'[p] = Upserted(p, snapshot[w], exec[w].id)
      BY <1>3, <2>1 DEF PersistRun, WriteFindings
    <3> QED
      BY <2>1, <3>1 DEF Upserted, NewRow
  <2>2. CASE p \in DOMAIN finding
    <3> DEFINE up == Upserted(p, snapshot[w], exec[w].id)
    <3>1. finding[p] \in Row(p)
      BY <2>2 DEF BoardTypeOK, FindingTyped
    <3>2. finding'[p] = up \/ finding'[p] = Swept(p)
      BY <1>3, <2>2, PersistRow
    <3>3. up.status = "removed" => finding[p].status = "removed" /\ up = finding[p]
      BY <2>2 DEF Upserted, NewRow
    <3>4. Swept(p).status = "removed" => finding[p].status = "removed" /\ Swept(p) = finding[p]
      BY <3>1 DEF Swept, Row
    <3> QED
      BY <1>1, <2>2, <3>2, <3>3, <3>4
  <2> QED
    BY <2>1, <2>2
<1>4. ASSUME NEW q \in Pairs, Keep(q) PROVE RemovedIsGone'
  BY <1>1, <1>4 DEF Keep, Actionable, RemovedIsGone
<1>5. ASSUME NEW q \in Pairs, NEW c \in q, Remove(q, c) PROVE RemovedIsGone'
  <2>1. c \in Cases /\ q \in DOMAIN finding
    BY <1>5, PairCases DEF Remove, Actionable
  <2>2. finding'[q].gone = c /\ testcase'[c].life = "deleted"
    BY <1>5, <2>1 DEF Remove, BoardTypeOK, FindingTyped, TestcaseTyped, Row
  <2>3. \A p \in DOMAIN finding \ {q} : finding'[p] = finding[p]
    BY <1>5 DEF Remove
  <2>4. DOMAIN finding' = DOMAIN finding
    BY <1>5 DEF Remove
  <2> QED
    BY <1>1, <2>1, <2>2, <2>3, <2>4 DEF RemovedIsGone
<1>6. ASSUME NEW v \in Reviewers, EditMark(v) PROVE RemovedIsGone'
  <2> DEFINE q == reviewer[v].pair
  <2>1. CASE finding' = [finding EXCEPT ![q] = Rescored(q)]
    <3>1. q \in DOMAIN finding => finding'[q].status = "edited"
      BY <2>1 DEF Rescored, BoardTypeOK, FindingTyped, Row
    <3> HIDE DEF q
    <3>2. /\ DOMAIN finding' = DOMAIN finding
          /\ \A p \in DOMAIN finding \ {q} : finding'[p] = finding[p]
      BY <2>1
    <3> QED
      BY <1>1, <3>1, <3>2 DEF RemovedIsGone
  <2> QED
    BY <1>2, <1>6, <2>1 DEF EditMark
<1> QED
  BY <1>2, <1>3, <1>4, <1>5, <1>6, FindingSteps

(* A removal is never undone or rewritten, and an edited finding is never    *)
(* sent back to review, by any later run or late execution.                  *)
THEOREM DecisionsAreFinalHolds == BoardSpec => DecisionsAreFinal
<1> DEFINE Final == \A p \in DOMAIN finding :
         /\ finding[p].status = "removed" =>
              finding'[p] = finding[p] /\ testcase'[finding[p].gone].life = "deleted"
         /\ finding[p].status = "edited" => finding'[p].status = "edited"
<1>1. BoardTypeOK /\ RemovedIsGone /\ [BoardNext]_boardVars => [Final]_boardVars
  <2> SUFFICES ASSUME BoardTypeOK, RemovedIsGone, [BoardNext]_boardVars,
                      NEW p \in DOMAIN finding, finding[p].status \in {"removed", "edited"}
               PROVE  /\ finding[p].status = "removed" =>
                           finding'[p] = finding[p] /\ testcase'[finding[p].gone].life = "deleted"
                      /\ finding[p].status = "edited" => finding'[p].status = "edited"
    OBVIOUS
  <2>1. finding[p].status = "removed" => finding'[p] = finding[p]
    BY DecidedRowSteps, PersistRow DEF Upserted, Swept
  <2>2. finding[p].status = "removed" => testcase'[finding[p].gone].life = "deleted"
    BY DeletedStays DEF BoardTypeOK, RemovedIsGone
  <2>3. finding[p].status = "edited" => finding'[p].status = "edited"
    BY DecidedRowSteps, PersistRow DEF Upserted, NewRow, Reopens, Swept
  <2> QED
    BY <2>1, <2>2, <2>3
<1>2. BoardSpec => []RemovedIsGone
  BY BoardTyping, RemovedIsGoneInit, RemovedIsGoneStep, PTL DEF BoardSpec
<1> QED
  BY <1>1, <1>2, BoardTyping, PTL DEF BoardSpec, DecisionsAreFinal

(* The record of what was removed is written by remove alone *)
LEMMA GoneSteps ==
  ASSUME BoardTypeOK, [BoardNext]_boardVars, NEW p \in DOMAIN finding,
         finding'[p].gone # finding[p].gone
  PROVE  \E c \in p : Remove(p, c)
<1>1. finding[p] \in Row(p)
  BY DEF BoardTypeOK, FindingTyped
<1>2. ASSUME NEW w \in Workers, PersistRun(w) PROVE FALSE
  <2>1. CASE finding'[p] = Upserted(p, snapshot[w], exec[w].id)
    BY <2>1 DEF Upserted, NewRow
  <2>2. CASE finding'[p] = Swept(p)
    BY <1>1, <2>2 DEF Swept, Row
  <2> QED
    BY <1>2, <2>1, <2>2, PersistRow
<1>3. ASSUME NEW q \in Pairs, Keep(q) PROVE FALSE
  BY <1>1, <1>3 DEF Keep, Actionable, Row
<1>4. ASSUME NEW v \in Reviewers, EditMark(v) PROVE FALSE
  BY <1>1, <1>4 DEF EditMark, Rescored, Row
<1>5. PICK q \in Pairs : \E b \in q : Remove(q, b)
  BY <1>2, <1>3, <1>4, FindingSteps
<1>6. q = p
  BY <1>5 DEF Remove, Actionable
<1> QED
  BY <1>5, <1>6

(* Of a group of matching test cases, one is left whatever is removed through *)
(* the group's findings, and by however many reviewers.                       *)
THEOREM RemovalLeavesAMatchHolds == BoardSpec => RemovalLeavesAMatch
<1> DEFINE Left == \A c \in Cases :
         (\E p \in DOMAIN finding : finding[p].gone # c /\ finding'[p].gone = c) =>
           \E d \in Cases \ {c} : /\ testcase'[d].life = "live"
                                  /\ Matches({testcase[c].content, testcase'[d].content})
<1>1. BoardTypeOK /\ ActionableMatches /\ [BoardNext]_boardVars => [Left]_boardVars
  <2> SUFFICES ASSUME BoardTypeOK, ActionableMatches, [BoardNext]_boardVars,
                      NEW c \in Cases, NEW p \in DOMAIN finding,
                      finding[p].gone # c, finding'[p].gone = c
               PROVE  \E d \in Cases \ {c} : /\ testcase'[d].life = "live"
                                             /\ Matches({testcase[c].content, testcase'[d].content})
    OBVIOUS
  <2>1. PICK b \in p : Remove(p, b)
    BY GoneSteps
  <2>2. b = c
    BY <2>1 DEF Remove, Actionable, BoardTypeOK, FindingTyped, Row
  <2>3. c \in p /\ Remove(p, c) /\ p \in Pairs
    BY <2>1, <2>2 DEF BoardTypeOK, FindingTyped
  <2>4. PICK d \in Cases : d # c /\ p = {c, d}
    BY <2>3 DEF Pairs
  <2>5. Live(d) /\ Matches(ContentsNow(p))
    BY <2>3, <2>4 DEF Remove, Actionable, BothLive, ActionableMatches
  <2>6. testcase'[d] = testcase[d]
    BY <2>3, <2>4 DEF Remove, BoardTypeOK, TestcaseTyped
  <2>7. ContentsNow(p) = {testcase[c].content, testcase'[d].content}
    BY <2>4, <2>6 DEF ContentsNow
  <2> QED
    BY <2>4, <2>5, <2>6, <2>7 DEF Live
<1> QED
  BY <1>1, BoardTyping, ActionableMatchesHolds, PTL DEF BoardSpec, RemovalLeavesAMatch

----------------------------------------------------------------------------
(* Everything to review comes from one run: a step other than persist leaves *)
(* no row pending that was not, and persist leaves only its own.             *)

LEMMA PendingStep ==
  ASSUME BoardTypeOK, PendingFromOneRun, [BoardNext]_boardVars
  PROVE  PendingFromOneRun'
<1> DEFINE Still(p) == /\ p \in DOMAIN finding
                       /\ finding[p].status = "pending"
                       /\ finding'[p].run = finding[p].run
<1>1. ASSUME \A p \in DOMAIN finding' : finding'[p].status = "pending" => Still(p)
      PROVE  PendingFromOneRun'
  BY <1>1 DEF PendingFromOneRun
<1> HIDE DEF Still
<1>2. CASE UNCHANGED finding
  BY <1>1, <1>2 DEF Still
<1>3. ASSUME NEW w \in Workers, PersistRun(w) PROVE PendingFromOneRun'
  <2> SUFFICES ASSUME NEW p \in DOMAIN finding', finding'[p].status = "pending"
               PROVE  finding'[p].run = exec[w].id
    BY DEF PendingFromOneRun
  <2> DEFINE up == Upserted(p, snapshot[w], exec[w].id)
  <2>1. finding'[p] = up \/ (p \in DOMAIN finding /\ finding'[p] = Swept(p))
    BY <1>3 DEF PersistRun, WriteFindings
  <2>2. CASE finding'[p] = up
    BY <2>2 DEF Upserted, NewRow
  <2>3. CASE p \in DOMAIN finding /\ finding'[p] = Swept(p)
    <3>1. finding[p] \in Row(p)
      BY <2>3 DEF BoardTypeOK, FindingTyped
    <3> QED
      BY <2>3, <3>1 DEF Swept, Row
  <2> QED
    BY <2>1, <2>2, <2>3
<1>4. ASSUME NEW q \in Pairs, Keep(q) PROVE PendingFromOneRun'
  <2>1. finding[q] \in Row(q)
    BY <1>4 DEF Keep, Actionable, BoardTypeOK, FindingTyped
  <2> QED
    BY <1>1, <1>4, <2>1 DEF Keep, Actionable, Row, Still
<1>5. ASSUME NEW q \in Pairs, NEW c \in q, Remove(q, c) PROVE PendingFromOneRun'
  <2>1. finding[q] \in Row(q)
    BY <1>5 DEF Remove, Actionable, BoardTypeOK, FindingTyped
  <2> QED
    BY <1>1, <1>5, <2>1 DEF Remove, Actionable, Row, Still
<1>6. ASSUME NEW v \in Reviewers, EditMark(v) PROVE PendingFromOneRun'
  <2> DEFINE q == reviewer[v].pair
  <2>1. CASE finding' = [finding EXCEPT ![q] = Rescored(q)]
    <3>1. q \in DOMAIN finding => finding'[q].status = "edited"
      BY <2>1 DEF Rescored, BoardTypeOK, FindingTyped, Row
    <3> HIDE DEF q
    <3>2. /\ DOMAIN finding' = DOMAIN finding
          /\ \A p \in DOMAIN finding \ {q} : finding'[p] = finding[p]
      BY <2>1
    <3> QED
      BY <1>1, <3>1, <3>2 DEF Still
  <2> QED
    BY <1>2, <1>6, <2>1 DEF EditMark
<1> QED
  BY <1>2, <1>3, <1>4, <1>5, <1>6, FindingSteps

(* No finding of an older run is left to review, whatever runs overtook it. *)
THEOREM PendingFromOneRunHolds == BoardSpec => []PendingFromOneRun
<1>1. BoardInit => PendingFromOneRun
  BY DEF BoardInit, PendingFromOneRun
<1> QED
  BY <1>1, PendingStep, BoardTyping, PTL DEF BoardSpec

----------------------------------------------------------------------------
(* What a run leaves behind when nothing changed while it computed *)

(* The run that writes findings and ends is the one persist commits. *)
LEMMA WhoPersists ==
  ASSUME ExecTyped, [BoardNext]_boardVars, NEW w \in Workers, written' # written, exec'[w] # exec[w]
  PROVE  PersistRun(w)
<1>1. PICK v \in Workers : PersistRun(v)
  BY DEF BoardNext, RunNext, ReviewNext, CaseNext, StartRun, ExpireRun, ClaimRun, ReadTestcases,
         AbandonRun, Open, Expire, Begin, Read, Abandon, Keep, Remove, EditLoad, EditRead, EditSave,
         EditMark, EditCrash, CreateTestcase, UpdateTestcase, BulkMove, BulkDelete, UnchangedRuns,
         UnchangedButCases, boardVars, registerVars
<1>2. v = w
  BY <1>1 DEF PersistRun, Commit, ExecTyped
<1> QED
  BY <1>1, <1>2

(* Nothing of a pair has changed since the execution read it. *)
LEMMA UnchangedPair ==
  ASSUME NEW w \in Workers, Unchanged(w), NEW p, p \subseteq DOMAIN snapshot[w]
  PROVE  /\ BothLive(p)
         /\ \A c \in p : snapshot[w][c].content = testcase[c].content /\ snapshot[w][c].suite = testcase[c].suite
<1>1. ASSUME NEW c \in p
      PROVE  /\ Live(c)
             /\ snapshot[w][c].content = testcase[c].content /\ snapshot[w][c].suite = testcase[c].suite
  <2>1. c \in DOMAIN snapshot[w]
    OBVIOUS
  <2>2. c \in {x \in Cases : Live(x)}
    BY <2>1, Zenon DEF Unchanged
  <2>3. snapshot[w][c] = [content |-> testcase[c].content, suite |-> testcase[c].suite]
    BY <2>1, Zenon DEF Unchanged
  <2> QED
    BY <2>2, <2>3
<1> QED
  BY <1>1 DEF BothLive

(* A row written from such a reading is fresh, but for a removed one. *)
LEMMA UpsertedFresh ==
  ASSUME BoardTypeOK, NEW w \in Workers, PersistRun(w), Unchanged(w),
         NEW p \in Pairs, p \subseteq DOMAIN snapshot[w],
         finding'[p] = Upserted(p, snapshot[w], exec[w].id), finding'[p].status # "removed"
  PROVE  Fresh(p)'
<1>1. /\ finding'[p].content = [c \in p |-> snapshot[w][c].content]
      /\ finding'[p].suite = [c \in p |-> snapshot[w][c].suite]
  BY DEF Upserted, NewRow
<1>2. \A c \in p : snapshot[w][c].content = testcase[c].content /\ snapshot[w][c].suite = testcase[c].suite
  BY UnchangedPair
<1>3. finding'[p].suite # Unrecorded
  <2>1. finding'[p].suite \in [p -> Suites]
    BY <1>1, <1>2, PairCases DEF BoardTypeOK, TestcaseTyped
  <2> QED
    BY <2>1, PairAssumption
<1>4. testcase' = testcase
  BY DEF PersistRun
<1> QED
  BY <1>1, <1>2, <1>3, <1>4 DEF Fresh

(* The cut at MaxPairs drops a pair only if that many outrank it. *)
LEMMA UncutReport ==
  ASSUME NEW snap, NEW S \in Proposed(snap), NEW p \in S, Cardinality(Better(p, snap)) < MaxPairs
  PROVE  p \in Report(S, snap)
<1> DEFINE above == {q \in S : Outranks(q, p, snap)}
<1>1. IsFiniteSet(Better(p, snap))
  <2>1. IsFiniteSet(SUBSET Cases)
    BY BoundAssumption, FS_SUBSET
  <2>2. Better(p, snap) \subseteq SUBSET Cases
    BY DEF Better, Matching, Pairs
  <2> QED
    BY <2>1, <2>2, FS_Subset
<1>2. above \subseteq Better(p, snap)
  BY DEF Proposed, Better
<1>3. /\ Cardinality(above) \in Nat /\ Cardinality(Better(p, snap)) \in Nat
      /\ Cardinality(above) <= Cardinality(Better(p, snap))
  BY <1>1, <1>2, FS_Subset, FS_CardinalityType
<1>4. Cardinality(above) < MaxPairs
  BY <1>3, BoundAssumption
<1> QED
  BY <1>4 DEF Report

(* A run whose test cases did not change while it computed leaves a settled  *)
(* board: persist makes every row to review live and current, and every two  *)
(* exact duplicates have a finding that is not obsolete unless MaxPairs      *)
(* better matches went before them, where analyse cuts its list.  A similar  *)
(* pair has one for certain only while no case has more later ones than      *)
(* MAX_CANDIDATES_PER_CASE.                                                  *)
THEOREM RunSettlesBoardHolds == BoardSpec => RunSettlesBoard
<1> DEFINE Certain(snap) ==
             {p \in Matching(snap) : /\ ExactDuplicate(ContentsRead(p, snap)) \/ AllProposed(snap)
                                     /\ Cardinality(Better(p, snap)) < MaxPairs}
           Settled == \A w \in Workers : Commits(w) /\ Unchanged(w) =>
             /\ \A p \in DOMAIN finding' : finding'[p].status = "pending" => BothLive(p) /\ Fresh(p)'
             /\ \A p \in Matching(snapshot[w]) :
                  /\ ExactDuplicate(ContentsRead(p, snapshot[w])) \/ AllProposed(snapshot[w])
                  /\ Cardinality(Better(p, snapshot[w])) < MaxPairs
                  => p \in DOMAIN finding' /\ finding'[p].status # "obsolete"
<1>1. BoardTypeOK /\ [BoardNext]_boardVars => [Settled]_boardVars
  <2> SUFFICES ASSUME BoardTypeOK, [BoardNext]_boardVars, NEW w \in Workers,
                      written' # written, exec'[w] # exec[w], Unchanged(w)
               PROVE  /\ \A p \in DOMAIN finding' : finding'[p].status = "pending" => BothLive(p) /\ Fresh(p)'
                      /\ \A p \in Certain(snapshot[w]) :
                           p \in DOMAIN finding' /\ finding'[p].status # "obsolete"
    BY Zenon DEF Commits
  <2> DEFINE snap == snapshot[w]
  <2>1. PersistRun(w)
    BY WhoPersists DEF BoardTypeOK
  <2>2. PICK S \in Proposed(snap) : WriteFindings(Report(S, snap), snap, exec[w].id)
    BY <2>1 DEF PersistRun
  <2> DEFINE F == Report(S, snap)
  <2>3. finding' = [p \in DOMAIN finding \cup F |-> IF p \in F THEN Upserted(p, snap, exec[w].id) ELSE Swept(p)]
    BY <2>2 DEF WriteFindings
  <2> HIDE DEF F, Certain
  <2>4. ASSUME NEW p \in DOMAIN finding', finding'[p].status = "pending" PROVE BothLive(p) /\ Fresh(p)'
    <3>1. CASE p \in F
      <4>1. p \in Pairs /\ p \subseteq DOMAIN snap
        BY <3>1, ReportMatches DEF F
      <4>2. finding'[p] = Upserted(p, snap, exec[w].id)
        BY <2>3, <3>1
      <4> QED
        BY <2>1, <2>4, <4>1, <4>2, UnchangedPair, UpsertedFresh
    <3>2. CASE p \notin F
      <4>1. p \in DOMAIN finding /\ finding'[p] = Swept(p)
        BY <2>3, <2>4, <3>2
      <4>2. finding[p] \in Row(p)
        BY <4>1 DEF BoardTypeOK, FindingTyped
      <4> QED
        BY <2>4, <4>1, <4>2 DEF Swept, Row
    <3> QED
      BY <3>1, <3>2
  <2>5. ASSUME NEW p \in Certain(snap)
        PROVE  p \in DOMAIN finding' /\ finding'[p].status # "obsolete"
    <3>1. p \in S
      BY DEF Certain, Proposed
    <3>2. p \in F
      BY <3>1, UncutReport DEF F, Certain
    <3>3. finding'[p] = Upserted(p, snap, exec[w].id) /\ p \in DOMAIN finding'
      BY <2>3, <3>2
    <3>4. Upserted(p, snap, exec[w].id).status # "obsolete"
      BY DEF Upserted, NewRow, Reopens
    <3> QED
      BY <3>3, <3>4
  <2> QED
    BY <2>4, <2>5
<1> QED
  BY <1>1, BoardTyping, PTL DEF BoardSpec, RunSettlesBoard

(* rescoreFinding makes an edited finding current, and only a run that       *)
(* commits an old reading makes it stale while no test case changes.         *)
THEOREM EditedStaysCurrentHolds == BoardSpec => EditedStaysCurrent
<1> DEFINE Current == \A p \in DOMAIN finding :
         /\ finding'[p].status = "edited" /\ BothLive(p) /\ testcase' = testcase
         /\ finding[p].status = "edited" => Fresh(p)
         => \/ Fresh(p)'
            \/ \E w \in Workers : exec[w].phase = "read" /\ exec'[w] # exec[w] /\ ~Unchanged(w)
<1>1. BoardTypeOK /\ [BoardNext]_boardVars => [Current]_boardVars
  <2> SUFFICES ASSUME BoardTypeOK, [BoardNext]_boardVars, NEW p \in DOMAIN finding,
                      finding'[p].status = "edited", BothLive(p), testcase' = testcase,
                      finding[p].status = "edited" => Fresh(p)
               PROVE  \/ Fresh(p)'
                      \/ \E w \in Workers : exec[w].phase = "read" /\ exec'[w] # exec[w] /\ ~Unchanged(w)
    OBVIOUS
  <2>1. p \in Pairs /\ p \subseteq Cases /\ finding[p] \in Row(p)
    BY PairCases DEF BoardTypeOK, FindingTyped
  <2>2. ASSUME finding'[p] = finding[p] PROVE Fresh(p)'
    BY <2>2 DEF Fresh
  <2>3. ASSUME NEW w \in Workers, PersistRun(w), Unchanged(w) PROVE Fresh(p)'
    <3>1. CASE p \subseteq DOMAIN snapshot[w] /\ finding'[p] = Upserted(p, snapshot[w], exec[w].id)
      BY <2>1, <2>3, <3>1, UpsertedFresh
    <3>2. CASE finding'[p] = Swept(p)
      <4>1. finding'[p] = finding[p]
        BY <2>1, <3>2 DEF Swept, Row
      <4> QED
        BY <2>2, <4>1
    <3> QED
      BY <2>3, <3>1, <3>2, PersistRow
  <2>4. ASSUME NEW w \in Workers, PersistRun(w) PROVE exec[w].phase = "read" /\ exec'[w] # exec[w]
    BY <2>4 DEF PersistRun, Commit, NoExec, BoardTypeOK, ExecTyped
  <2>5. ASSUME NEW q \in Pairs, Keep(q) \/ \E c \in q : Remove(q, c) PROVE finding'[p] = finding[p]
    <3>1. CASE p = q
      <4>1. CASE Keep(q)
        BY <2>1, <3>1, <4>1 DEF Keep, Row
      <4>2. ASSUME NEW c \in q, Remove(q, c) PROVE finding'[p] = finding[p]
        BY <2>1, <3>1, <4>2 DEF Remove, Row
      <4> QED
        BY <2>5, <4>1, <4>2
    <3>2. CASE p # q
      BY <2>5, <3>2 DEF Keep, Remove
    <3> QED
      BY <3>1, <3>2
  <2>6. ASSUME NEW v \in Reviewers, EditMark(v) PROVE Fresh(p)' \/ finding'[p] = finding[p]
    <3>1. CASE finding'[p] = Rescored(p)
      <4>1. /\ finding'[p].content = [c \in p |-> testcase[c].content]
            /\ finding'[p].suite = [c \in p |-> testcase[c].suite]
        BY <2>1, <3>1 DEF Rescored, Row
      <4>2. finding'[p].suite \in [p -> Suites]
        BY <2>1, <4>1 DEF BoardTypeOK, TestcaseTyped
      <4> QED
        BY <4>1, <4>2, PairAssumption, <2>1 DEF Fresh
    <3> QED
      BY <2>6, <3>1 DEF EditMark
  <2> QED
    BY <2>2, <2>3, <2>4, <2>5, <2>6, FindingSteps
<1> QED
  BY <1>1, BoardTyping, PTL DEF BoardSpec, EditedStaysCurrent
==============================================================================

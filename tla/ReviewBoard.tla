----------------------------- MODULE ReviewBoard -----------------------------
(***************************************************************************)
(* The Review Board of one project: the test cases, the findings (the rows *)
(* of review_recommendations, one per unordered pair of test cases), the   *)
(* analysis that writes the findings, and the reviewers who act on them    *)
(* while analyses run and the rest of the application edits, moves,        *)
(* creates and deletes the same test cases.                                *)
(*                                                                         *)
(* The runs themselves are RunRegister, which AnalysisRuns implements.     *)
(*                                                                         *)
(* Data.  A content stands for the normalised compared fields of a test    *)
(* case, and so for its fingerprint; a suite stands for everything the     *)
(* state fingerprint hashes.  Scoring is a constant: Similarity is defined *)
(* on the sets of one or two contents that reach the threshold, and ranks  *)
(* them.  Test case ids are numbers, for the order findings are listed in. *)
(***************************************************************************)
EXTENDS RunRegister, Integers, FiniteSets

CONSTANTS Cases,       \* test case ids
          Contents,    \* contents a test case can have
          WithSteps,   \* the contents that have at least one step
          Similarity,  \* score of each set of contents found to be similar
          Suites,      \* states a test case can have
          Unrecorded,  \* the state fingerprint of a row older than V143
          NoCase,
          Reviewers,   \* edit requests in flight together
          OldPairs,    \* pairs whose finding was recorded before V143
          MaxPairs,      \* MAX_PAIRS_PER_RUN
          MaxCandidates  \* MAX_CANDIDATES_PER_CASE

ASSUME ContentAssumption ==
    /\ Contents # {} /\ Suites # {}
    /\ WithSteps \subseteq Contents
    /\ DOMAIN Similarity \subseteq SUBSET Contents
    /\ \A K \in DOMAIN Similarity : Similarity[K] \in Nat

ASSUME DistinctAssumption ==
    /\ Cases \subseteq Nat
    /\ NoCase \notin Cases
    /\ NoRun \notin Runs

(* A table has finitely many rows. *)
ASSUME BoundAssumption == MaxPairs \in Nat /\ MaxCandidates \in Nat /\ IsFiniteSet(Cases)

VARIABLES testcase,   \* rows of testcases
          finding,    \* rows of review_recommendations, by pair
          snapshot,   \* what each execution of runAnalysis has read
          reviewer    \* where each edit request is

boardVars == <<registerVars, testcase, finding, snapshot, reviewer>>

Pairs == {p \in SUBSET Cases : \E c, d \in Cases : c # d /\ p = {c, d}}

ASSUME PairAssumption ==
    /\ OldPairs \subseteq Pairs
    /\ \A p \in Pairs : Unrecorded \notin [p -> Suites]

Statuses == {"pending", "kept", "edited", "removed", "obsolete"}

Row(p) == [status : Statuses, content : [p -> Contents],
           suite : [p -> Suites] \cup {Unrecorded},
           run : Runs \cup {NoRun}, gone : p \cup {NoCase}]

Facts == [content : Contents, suite : Suites]

IdleReviewer == [pc |-> "idle"]

EditRequest(points, suites) ==
    [pc : points, pair : Pairs, case : Cases, content : Contents, suite : suites]

ExecTyped ==
    /\ open \subseteq Runs /\ written \in Seq(Runs)
    /\ exec \in [Workers -> [phase : {"none", "claimed", "read"}, id : Runs \cup {NoRun}]]
    /\ \A w \in Workers : exec[w].phase # "none" => exec[w].id \in Runs

TestcaseTyped ==
    testcase \in [Cases -> [life : {"new", "live", "deleted"},
                           content : Contents, suite : Suites]]

FindingTyped ==
    /\ DOMAIN finding \subseteq Pairs
    /\ \A p \in DOMAIN finding : finding[p] \in Row(p)

SnapshotTyped == snapshot \in [Workers -> UNION {[D -> Facts] : D \in SUBSET Cases}]

ReviewerTyped ==
    reviewer \in [Reviewers -> {IdleReviewer} \cup EditRequest({"loaded", "saved"}, {Unrecorded})
                                            \cup EditRequest({"saving"}, Suites)]

BoardTypeOK == ExecTyped /\ TestcaseTyped /\ FindingTyped /\ SnapshotTyped /\ ReviewerTyped

----------------------------------------------------------------------------
(* Scoring: buildFinding, on the set of the contents of a pair *)

ExactDuplicate(K) == \E k \in WithSteps : K = {k}

Matches(K) == ExactDuplicate(K) \/ K \in DOMAIN Similarity

Live(c) == testcase[c].life = "live"

BothLive(p) == \A c \in p : Live(c)

(* staleReasonOf answers null: content and recorded state are the current ones *)
Fresh(p) ==
    /\ \A c \in p : finding[p].content[c] = testcase[c].content
    /\ finding[p].suite # Unrecorded
    /\ \A c \in p : finding[p].suite[c] = testcase[c].suite

ContentsNow(p) == {testcase[c].content : c \in p}

ContentsRead(p, snap) == {snap[c].content : c \in p}

Matching(snap) ==
    {p \in Pairs : p \subseteq DOMAIN snap /\ Matches(ContentsRead(p, snap))}

(* With no more cases than this, no case has more later ones to propose than *)
(* MaxCandidates, and no word is too common to propose any (dfCap is larger). *)
AllProposed(snap) == Cardinality(DOMAIN snap) <= MaxCandidates + 1

(* Exact duplicates left to the index of words as well *)
ProposedByWords(snap) == {S \in SUBSET Matching(snap) : AllProposed(snap) => S = Matching(snap)}

(* What analyse may come to consider: exact duplicates always, by their      *)
(* fingerprint; of the similar pairs, the ones the index of words proposes   *)
(* among the candidates of a case, which is a matter of their other words.   *)
Proposed(snap) ==
    {S \in SUBSET Matching(snap) :
       /\ \A p \in Matching(snap) : ExactDuplicate(ContentsRead(p, snap)) => p \in S
       /\ AllProposed(snap) => S = Matching(snap)}

(* analyse lists exact duplicates first, then by score, then by the two ids *)
Outranks(p, q, snap) ==
    LET K == ContentsRead(p, snap)
        L == ContentsRead(q, snap)
        firstIds == \E c \in p \ q : \A d \in q \ p : c < d
    IN  IF ExactDuplicate(K) \/ ExactDuplicate(L)
        THEN ExactDuplicate(K) /\ (ExactDuplicate(L) => firstIds)
        ELSE \/ Similarity[K] > Similarity[L]
             \/ Similarity[K] = Similarity[L] /\ firstIds

(* ... and keeps the first MaxPairs of them *)
Report(S, snap) ==
    {p \in S : Cardinality({q \in S : Outranks(q, p, snap)}) < MaxPairs}

----------------------------------------------------------------------------
(* Findings written by a run *)

NewRow(p, snap, r) ==
    [status |-> "pending", content |-> [c \in p |-> snap[c].content],
     suite |-> [c \in p |-> snap[c].suite], run |-> r, gone |-> NoCase]

(* REOPENS_FINDING without its comparison of the content fingerprints *)
ReopensObsolete(p, snap) == finding[p].status = "obsolete"

(* REOPENS_FINDING *)
Reopens(p, snap) ==
    \/ finding[p].status = "obsolete"
    \/ /\ finding[p].status # "edited"
       /\ \E c \in p : finding[p].content[c] # snap[c].content

(* The upsert without its WHERE review_status <> 'removed' *)
UpsertedRemoved(p, snap, r) ==
    IF p \notin DOMAIN finding THEN NewRow(p, snap, r)
    ELSE [NewRow(p, snap, r) EXCEPT
            !.status = IF Reopens(p, snap) THEN "pending" ELSE finding[p].status,
            !.gone   = finding[p].gone]

(* INSERT ... ON CONFLICT DO UPDATE ... WHERE review_status <> 'removed' *)
Upserted(p, snap, r) ==
    IF p \notin DOMAIN finding THEN NewRow(p, snap, r)
    ELSE IF finding[p].status = "removed" THEN finding[p]
    ELSE [NewRow(p, snap, r) EXCEPT
            !.status = IF Reopens(p, snap) THEN "pending" ELSE finding[p].status,
            !.gone   = finding[p].gone]

(* No sweep at the end of persist *)
Unswept(p) == finding[p]

(* The sweep: a pending row this run did not write becomes obsolete *)
Swept(p) ==
    IF finding[p].status = "pending"
    THEN [finding[p] EXCEPT !.status = "obsolete"]
    ELSE finding[p]

WriteFindings(F, snap, r) ==
    finding' = [p \in DOMAIN finding \cup F |->
                  IF p \in F THEN Upserted(p, snap, r) ELSE Swept(p)]

----------------------------------------------------------------------------
(* Runs *)

UnchangedBoard == UNCHANGED <<testcase, finding, reviewer>>

StartRun(r) == Open(r) /\ UnchangedBoard /\ UNCHANGED snapshot

ExpireRun(r) == Expire(r) /\ UnchangedBoard /\ UNCHANGED snapshot

ClaimRun(w, r) == Begin(w, r) /\ UnchangedBoard /\ UNCHANGED snapshot

ReadTestcases(w) ==
    /\ Read(w)
    /\ snapshot' = [snapshot EXCEPT ![w] =
                      [c \in {c \in Cases : Live(c)} |->
                         [content |-> testcase[c].content, suite |-> testcase[c].suite]]]
    /\ UnchangedBoard

PersistRun(w) ==
    /\ Commit(w)
    /\ \E S \in Proposed(snapshot[w]) :
         WriteFindings(Report(S, snapshot[w]), snapshot[w], exec[w].id)
    /\ snapshot' = [snapshot EXCEPT ![w] = <<>>]
    /\ UNCHANGED <<testcase, reviewer>>

AbandonRun(w) ==
    /\ Abandon(w)
    /\ snapshot' = [snapshot EXCEPT ![w] = <<>>]
    /\ UnchangedBoard

----------------------------------------------------------------------------
(* Reviewers: keep and remove are one transaction each, on locked rows *)

(* lockPair without its deleted_at IS NULL *)
ActionableDeleted(p) ==
    /\ p \in DOMAIN finding
    /\ finding[p].status = "pending"
    /\ Fresh(p)

(* lockPair, assertPending and assertFresh *)
Actionable(p) ==
    /\ p \in DOMAIN finding
    /\ finding[p].status = "pending"
    /\ BothLive(p)
    /\ Fresh(p)

UnchangedRuns == UNCHANGED <<registerVars, snapshot>>

Keep(p) ==
    /\ Actionable(p)
    /\ finding' = [finding EXCEPT ![p].status = "kept"]
    /\ UnchangedRuns
    /\ UNCHANGED <<testcase, reviewer>>

Remove(p, c) ==
    /\ Actionable(p)
    /\ testcase' = [testcase EXCEPT ![c].life = "deleted"]
    /\ finding' = [finding EXCEPT ![p].status = "removed", ![p].gone = c]
    /\ UnchangedRuns
    /\ UNCHANGED reviewer

(* edit: four separate steps, nothing locked between them *)

(* loadForAction, assertPending, assertFresh, on an unlocked read *)
EditLoad(v, p, c) ==
    /\ reviewer[v].pc = "idle"
    /\ Actionable(p)
    /\ \E k \in Contents :
         reviewer' = [reviewer EXCEPT ![v] = [pc |-> "loaded", pair |-> p, case |-> c,
                                              content |-> k, suite |-> Unrecorded]]
    /\ UnchangedRuns
    /\ UNCHANGED <<testcase, finding>>

(* An edit that carries no suite over *)
EditReadNothing(v) ==
    /\ reviewer[v].pc = "loaded"
    /\ reviewer' = [reviewer EXCEPT ![v].pc = "saving"]
    /\ UnchangedRuns
    /\ UNCHANGED <<testcase, finding>>

(* Reads the suite and owner that the update has to carry over *)
EditRead(v) ==
    LET req == reviewer[v] IN
    /\ req.pc = "loaded"
    /\ reviewer' = [reviewer EXCEPT ![v] =
                      IF Live(req.case)
                      THEN [req EXCEPT !.pc = "saving", !.suite = testcase[req.case].suite]
                      ELSE IdleReviewer]
    /\ UnchangedRuns
    /\ UNCHANGED <<testcase, finding>>

(* updateTestCase: committed on its own, and only if the case is still live *)
EditSave(v) ==
    LET req == reviewer[v] IN
    /\ req.pc = "saving"
    /\ IF Live(req.case)
       THEN /\ testcase' = [testcase EXCEPT ![req.case].content = req.content,
                                            ![req.case].suite = req.suite]
            /\ reviewer' = [reviewer EXCEPT ![v] = [req EXCEPT !.pc = "saved",
                                                               !.suite = Unrecorded]]
       ELSE /\ reviewer' = [reviewer EXCEPT ![v] = IdleReviewer]
            /\ UNCHANGED testcase
    /\ UnchangedRuns
    /\ UNCHANGED finding

(* The re-scored row, still to review *)
RescoredPending(p) ==
    [finding[p] EXCEPT !.content = [c \in p |-> testcase[c].content],
                       !.suite   = [c \in p |-> testcase[c].suite]]

(* The finding marked and not re-scored *)
RescoredNot(p) == [finding[p] EXCEPT !.status = "edited"]

(* rescoreFinding: the row describes both cases as they are now, if both live *)
Rescored(p) ==
    IF BothLive(p)
    THEN [finding[p] EXCEPT !.status  = "edited",
                            !.content = [c \in p |-> testcase[c].content],
                            !.suite   = [c \in p |-> testcase[c].suite]]
    ELSE [finding[p] EXCEPT !.status  = "edited"]

(* markReviewed is conditional on pending: otherwise 409 and a rollback *)
EditMark(v) ==
    LET p == reviewer[v].pair IN
    /\ reviewer[v].pc = "saved"
    /\ finding' = IF finding[p].status = "pending"
                  THEN [finding EXCEPT ![p] = Rescored(p)]
                  ELSE finding
    /\ reviewer' = [reviewer EXCEPT ![v] = IdleReviewer]
    /\ UnchangedRuns
    /\ UNCHANGED testcase

(* The process dies, or a call of the edit fails, between two of its steps *)
EditCrash(v) ==
    /\ reviewer[v].pc # "idle"
    /\ reviewer' = [reviewer EXCEPT ![v] = IdleReviewer]
    /\ UnchangedRuns
    /\ UNCHANGED <<testcase, finding>>

----------------------------------------------------------------------------
(* The rest of the application writes the same test cases *)

UnchangedButCases == UnchangedRuns /\ UNCHANGED <<finding, reviewer>>

CreateTestcase(c) ==
    /\ testcase[c].life = "new"
    /\ \E k \in Contents, s \in Suites :
         testcase' = [testcase EXCEPT ![c] = [life |-> "live", content |-> k, suite |-> s]]
    /\ UnchangedButCases

UpdateTestcase(c) ==
    /\ Live(c)
    /\ \E k \in Contents, s \in Suites :
         testcase' = [testcase EXCEPT ![c].content = k, ![c].suite = s]
    /\ UnchangedButCases

BulkMove(S, s) ==
    /\ testcase' = [c \in Cases |-> IF c \in S /\ Live(c)
                                    THEN [testcase[c] EXCEPT !.suite = s] ELSE testcase[c]]
    /\ UnchangedButCases

BulkDelete(S) ==
    /\ testcase' = [c \in Cases |-> IF c \in S /\ Live(c)
                                    THEN [testcase[c] EXCEPT !.life = "deleted"] ELSE testcase[c]]
    /\ UnchangedButCases

----------------------------------------------------------------------------
(* A row that is not there yet; what it will hold is not looked at *)
NotCreated == [life |-> "new", content |-> CHOOSE k \in Contents : TRUE,
               suite |-> CHOOSE s \in Suites : TRUE]

(* Before the first run: some test cases, and findings older than V143 *)
BoardInit ==
    /\ RegisterInit
    /\ testcase \in [Cases -> {NotCreated} \cup [life : {"live"}, content : Contents, suite : Suites]]
    /\ \E f \in [OldPairs -> {"pending", "kept", "edited", "obsolete"}] :
         finding = [p \in OldPairs |->
                      [status |-> f[p], content |-> [c \in p |-> testcase[c].content],
                       suite |-> Unrecorded, run |-> NoRun, gone |-> NoCase]]
    /\ \A p \in OldPairs : /\ BothLive(p)
                           /\ Matches(ContentsNow(p))
    /\ snapshot = [w \in Workers |-> <<>>]
    /\ reviewer = [v \in Reviewers |-> IdleReviewer]

RunNext ==
    \/ \E r \in Runs : StartRun(r) \/ ExpireRun(r) \/ (\E w \in Workers : ClaimRun(w, r))
    \/ \E w \in Workers : ReadTestcases(w) \/ PersistRun(w) \/ AbandonRun(w)

ReviewNext ==
    \/ \E p \in Pairs : Keep(p) \/ (\E c \in p : Remove(p, c))
    \/ \E v \in Reviewers :
         \/ \E p \in Pairs : \E c \in p : EditLoad(v, p, c)
         \/ EditRead(v) \/ EditSave(v) \/ EditMark(v) \/ EditCrash(v)

CaseNext ==
    \/ \E c \in Cases : CreateTestcase(c) \/ UpdateTestcase(c)
    \/ \E S \in SUBSET Cases : BulkDelete(S) \/ (\E s \in Suites : BulkMove(S, s))

BoardNext == RunNext \/ ReviewNext \/ CaseNext

BoardSpec == BoardInit /\ [][BoardNext]_boardVars

----------------------------------------------------------------------------
(* Properties *)

(* The board never offers an action on a pair that does not match: a finding *)
(* that is to review and not stale is about two contents that are exact      *)
(* duplicates or similar, whatever was edited since the run that wrote it    *)
(* and however many edits were re-scored below the threshold (rescoreFinding *)
(* stores fingerprints of pairs that no longer match).                       *)
ActionableMatches ==
    \A p \in DOMAIN finding :
      Actionable(p) => Matches(ContentsNow(p))

(* Everything to review was found by one and the same run: the latest that   *)
(* completed (the sweep at the end of persist, and every reopening, keep     *)
(* last_run_id and the status together).                                     *)
PendingFromOneRun ==
    \A p, q \in DOMAIN finding :
      finding[p].status = "pending" /\ finding[q].status = "pending"
        => finding[p].run = finding[q].run

(* A removed finding is a record: no later or slower run, and no reviewer,   *)
(* changes it, and the case it removed never comes back.  A finding that was *)
(* edited stays edited (REOPENS_FINDING, markReviewed).                      *)
DecisionsAreFinal ==
    [][\A p \in DOMAIN finding :
         /\ finding[p].status = "removed" =>
              finding'[p] = finding[p] /\ testcase'[finding[p].gone].life = "deleted"
         /\ finding[p].status = "edited" => finding'[p].status = "edited"]_boardVars

(* While a finding stays kept, its fingerprints are the ones its reviewer    *)
(* saw: a run that saw other content reopens it instead of passing the       *)
(* verdict on to content nobody looked at.                                   *)
KeptMeansSeen ==
    [][\A p \in DOMAIN finding :
         finding[p].status = "kept" /\ finding'[p].status = "kept"
           => finding'[p].content = finding[p].content]_boardVars

(* A removal never takes the last copy: the other case of the pair is live   *)
(* and matches the removed one at that moment, so a group of duplicates can  *)
(* not be deleted in full through its findings.                              *)
RemovalLeavesAMatch ==
    [][\A c \in Cases :
         (\E p \in DOMAIN finding : finding[p].gone # c /\ finding'[p].gone = c) =>
           \E d \in Cases \ {c} : /\ testcase'[d].life = "live"
                                  /\ Matches({testcase[c].content, testcase'[d].content})]_boardVars

(* The test cases did not change while the run computed *)
Unchanged(w) ==
    /\ DOMAIN snapshot[w] = {c \in Cases : Live(c)}
    /\ \A c \in DOMAIN snapshot[w] :
         snapshot[w][c] = [content |-> testcase[c].content, suite |-> testcase[c].suite]

(* The step in which persist commits what the run of w has found *)
Commits(w) == exec[w].phase = "read" /\ exec'[w] # exec[w] /\ written' # written

(* The matches that go before p in the list of a run *)
Better(p, snap) == {q \in Matching(snap) : Outranks(q, p, snap)}

(* A run nothing overtook leaves the board settled: what is to review is     *)
(* live and actionable, and a pair of exact duplicates is on the board, and  *)
(* stays there, unless MaxPairs better matches are before it in the list; so *)
(* is a similar pair if there are no more cases than all propose each other. *)
(* "Pending pairs this run no longer finds" (persist) are no others.         *)
RunSettlesBoard ==
    [][\A w \in Workers : Commits(w) /\ Unchanged(w) =>
         /\ \A p \in DOMAIN finding' : finding'[p].status = "pending" => BothLive(p) /\ Fresh(p)'
         /\ \A p \in Matching(snapshot[w]) :
              /\ ExactDuplicate(ContentsRead(p, snapshot[w])) \/ AllProposed(snapshot[w])
              /\ Cardinality(Better(p, snapshot[w])) < MaxPairs
              => p \in DOMAIN finding' /\ finding'[p].status # "obsolete"]_boardVars

(* "an edited finding is not left reading 'changed since analysis'"          *)
(* (rescoreFinding): a finding is fresh when it is marked as edited, and it  *)
(* stays so while no test case changes, whatever other runs and reviews do,  *)
(* unless a run commits what it had read before a test case changed.         *)
EditedStaysCurrent ==
    [][\A p \in DOMAIN finding :
         /\ finding'[p].status = "edited" /\ BothLive(p) /\ testcase' = testcase
         /\ finding[p].status = "edited" => Fresh(p)
         => \/ Fresh(p)'
            \/ \E w \in Workers : exec[w].phase = "read" /\ exec'[w] # exec[w] /\ ~Unchanged(w)]_boardVars
==============================================================================

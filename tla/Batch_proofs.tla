---------------------------- MODULE Batch_proofs ----------------------------
(***************************************************************************)
(* Proofs about Batch: what the items and the report of a batch show, for  *)
(* any number of files, versions, requests and workers.                    *)
(***************************************************************************)
EXTENDS Batch, TLAPS

(* Requests that are not in flight work on nothing, and the rows of a batch   *)
(* come before the work on it.                                                *)
Orderly ==
    /\ \A q \in Request : ~InFlight(q) => \A i \in Item : req[q].at[i] = "left"
    /\ batch = None => \A q \in Request : req[q].phase = "new"
    /\ \A i \in Item : batch = None <=> item[i] = None
    /\ \A q \in Request, i \in Item :
          req[q].at[i] \in {"started", "assessed", "failed"} => req[q].allow # None

Base == TypeOK /\ Orderly

\* A step of q on one item changes the state of that item in the request only.
LEMMA Advanced ==
    ASSUME TypeOK, NEW q \in Request, NEW i \in Item,
           NEW to \in {"selected", "started", "assessed", "failed", "left"},
           Advance(q, i, to)
    PROVE  /\ req' \in [Request -> Work]
           /\ \A p \in Request :
                 /\ req'[p].phase = req[p].phase
                 /\ req'[p].allow = req[p].allow
                 /\ req'[p].width = req[p].width
                 /\ req'[p].collected = req[p].collected
           /\ \A p \in Request, j \in Item :
                 req'[p].at[j] = IF p = q /\ j = i THEN to ELSE req[p].at[j]
BY DEF TypeOK, Work, Advance

\* A request that begins holds the items it selected, and nothing else changes.
LEMMA Begun ==
    ASSUME TypeOK, NEW q \in Request, NEW S \in SUBSET Item,
           NEW width \in Nat, NEW allow \in {None} \cup SUBSET Version,
           Begin(q, S, width, allow)
    PROVE  /\ req' \in [Request -> Work]
           /\ \A p \in Request : p # q => req'[p] = req[p]
           /\ req'[q].phase = "inflight"
           /\ req'[q].allow = allow
           /\ req'[q].collected = None
           /\ \A i \in Item : req'[q].at[i] = IF i \in S THEN "selected" ELSE "left"
           /\ overlapped' \in BOOLEAN
BY DEF TypeOK, Work, Begin

\* The first state is well formed and orderly.
LEMMA BaseInit == Init => Base
<1> SUFFICES ASSUME Init PROVE Base
    OBVIOUS
<1>1. Idle("new") \in Work
    BY DEF Idle, Work
<1>2. TypeOK
    BY <1>1 DEF Init, TypeOK
<1>3. Orderly
    BY DEF Init, Orderly, Idle, InFlight
<1> QED
    BY <1>2, <1>3 DEF Base

\* A request that ended holds nothing.
LEMMA Ended ==
    ASSUME TypeOK, NEW q \in Request, req' = [req EXCEPT ![q] = Idle("ended")]
    PROVE  /\ req' \in [Request -> Work]
           /\ \A p \in Request : p # q => req'[p] = req[p]
           /\ req'[q].phase = "ended"
           /\ req'[q].collected = None
           /\ \A i \in Item : req'[q].at[i] = "left"
<1>1. Idle("ended") \in Work
    BY DEF Idle, Work
<1>2. /\ Idle("ended").phase = "ended"
      /\ Idle("ended").collected = None
      /\ \A i \in Item : Idle("ended").at[i] = "left"
    BY DEF Idle
<1> QED
    BY <1>1, <1>2 DEF TypeOK

\* Rows, requests and their order survive every step.
LEMMA BaseNext == Base /\ [Next]_vars => Base'
<1> SUFFICES ASSUME Base, [Next]_vars PROVE Base'
    OBVIOUS
<1> USE DEF Base
<1>1. ASSUME NEW v \in Version, Approve(v) PROVE Base'
    BY <1>1 DEF Approve, TypeOK, Orderly, InFlight
<1>2. ASSUME NEW q \in Request, Create(q) PROVE Base'
    <2> PICK listed \in Listings :
            /\ batch' = [snapshot |-> listed, summary |-> {}, by |-> q]
            /\ Begin(q, Item, Workers, listed)
        BY <1>2 DEF Create
    <2>1. listed \in SUBSET Version
        BY DEF Listings, TypeOK
    <2>2. listed # None
        BY <2>1, RowsAssumption
    <2>3. batch' \in BatchRow
        BY <2>1 DEF BatchRow
    <2>4. batch' # None
        BY <2>3, RowsAssumption
    <2> DEFINE row == [status |-> "QUEUED", run |-> None]
    <2>5. row \in ItemRow
        BY DEF ItemRow, ItemStatus
    <2>6. row # None
        BY <2>5, RowsAssumption
    <2>7. item' = [i \in Item |-> row]
        BY <1>2 DEF Create
    <2> HIDE DEF row
    <2>8. Workers \in Nat
        BY WorkersAssumption
    <2>a. /\ req' \in [Request -> Work]
          /\ overlapped' \in BOOLEAN
        BY <2>1, <2>8, Begun
    <2>b. item' \in [Item -> ItemRow \cup {None}]
        BY <2>5, <2>7
    <2>9. TypeOK'
        BY <1>2, <2>3, <2>a, <2>b DEF Create, TypeOK
    <2>10. Orderly'
        BY <1>2, <2>1, <2>2, <2>4, <2>6, <2>7, <2>8, Begun DEF Create, Orderly, InFlight
    <2> QED
        BY <2>9, <2>10
<1>3. ASSUME NEW q \in Request, Retry(q) PROVE Base'
    <2> PICK S \in {FailedItems} \cup {FailedItems \cap {i} : i \in Item} :
            Begin(q, S, 1, None)
        BY <1>3 DEF Retry
    <2>1. S \in SUBSET Item
        BY DEF FailedItems
    <2>a. /\ req' \in [Request -> Work]
          /\ \A p \in Request : p # q => req'[p] = req[p]
          /\ req'[q].phase = "inflight"
          /\ \A i \in Item : req'[q].at[i] \in {"selected", "left"}
          /\ overlapped' \in BOOLEAN
        BY <2>1, Begun
    <2>2. TypeOK'
        BY <1>3, <2>a DEF Retry, TypeOK
    <2>3. Orderly'
        BY <1>3, <2>a DEF Retry, Orderly, InFlight
    <2> QED
        BY <2>2, <2>3
<1>4. ASSUME NEW q \in Request, ListAgain(q) PROVE Base'
    <2> PICK listed \in Listings : req' = [req EXCEPT ![q].allow = listed]
        BY <1>4 DEF ListAgain
    <2>1. listed \in SUBSET Version
        BY DEF Listings, TypeOK
    <2>2. listed # None
        BY <2>1, RowsAssumption
    <2>3. /\ req' \in [Request -> Work]
          /\ \A p \in Request : /\ req'[p].phase = req[p].phase
                               /\ req'[p].at = req[p].at
                               /\ req[p].allow # None => req'[p].allow # None
        BY <2>1, <2>2 DEF TypeOK, Work
    <2>4. TypeOK'
        BY <1>4, <2>3 DEF ListAgain, TypeOK
    <2>5. Orderly'
        BY <1>4, <2>3 DEF ListAgain, Orderly, InFlight
    <2> QED
        BY <2>4, <2>5
<1>5. ASSUME NEW q \in Request, NEW i \in Item, Start(q, i) PROVE Base'
    <2>1. item[i] \in ItemRow
        BY <1>5 DEF Start, TypeOK, Orderly, InFlight
    <2> DEFINE row == [item[i] EXCEPT !.status = "PROCESSING"]
    <2>2. row \in ItemRow
        BY <2>1 DEF ItemRow, ItemStatus
    <2>3. row # None
        BY <2>2, RowsAssumption
    <2>4. item' = [item EXCEPT ![i] = row]
        BY <1>5 DEF Start
    <2> HIDE DEF row
    <2>a. item' \in [Item -> ItemRow \cup {None}]
        BY <2>2, <2>4 DEF TypeOK
    <2>b. req' \in [Request -> Work]
        BY <1>5, Advanced DEF Start
    <2>5. TypeOK'
        BY <1>5, <2>a, <2>b DEF Start, TypeOK
    <2>6. Orderly'
        BY <1>5, <2>3, <2>4, Advanced DEF Start, TypeOK, Orderly, InFlight
    <2> QED
        BY <2>5, <2>6
<1>6. ASSUME NEW q \in Request, NEW i \in Item, Assess(q, i) PROVE Base'
    <2>1. NewRun(q, "READY", Cited(q, kb)) \in RunRow
        BY <1>6 DEF Assess, NewRun, Cited, RunRow, TypeOK, Orderly, InFlight, BatchRow,
                    Work
    <2>2. run' \in [Run -> RunRow \cup {None}]
        BY <1>6, <2>1 DEF Assess, TypeOK
    <2>3. TypeOK'
        BY <1>6, <2>2, Advanced DEF Assess, TypeOK
    <2>4. Orderly'
        BY <1>6, Advanced DEF Assess, TypeOK, Orderly, InFlight
    <2> QED
        BY <2>3, <2>4
<1>7. ASSUME NEW q \in Request, NEW i \in Item, AssessFails(q, i) PROVE Base'
    <2>1. NewRun(q, "FAILED", {}) \in RunRow
        BY <1>7 DEF AssessFails, NewRun, RunRow, TypeOK, Orderly, InFlight, BatchRow, Work
    <2>2. run' \in [Run -> RunRow \cup {None}]
        BY <1>7, <2>1 DEF AssessFails, TypeOK
    <2>3. TypeOK'
        BY <1>7, <2>2, Advanced DEF AssessFails, TypeOK
    <2>a. /\ \A p \in Request : /\ req'[p].phase = req[p].phase
                               /\ req'[p].allow = req[p].allow
          /\ \A p \in Request, j \in Item :
                req'[p].at[j] = IF p = q /\ j = i THEN "failed" ELSE req[p].at[j]
        BY <1>7, Advanced DEF AssessFails
    <2>4. Orderly'
        BY <1>7, <2>a DEF AssessFails, Orderly, InFlight
    <2> QED
        BY <2>3, <2>4
<1>8. ASSUME NEW q \in Request, NEW i \in Item, Complete(q, i) PROVE Base'
    <2> DEFINE row == [status |-> "COMPLETED", run |-> <<q, i>>]
    <2>1. row \in ItemRow
        BY DEF ItemRow, ItemStatus, Run
    <2>2. row # None
        BY <2>1, RowsAssumption
    <2>3. item' = [item EXCEPT ![i] = row]
        BY <1>8 DEF Complete
    <2> HIDE DEF row
    <2>a. item' \in [Item -> ItemRow \cup {None}]
        BY <2>1, <2>3 DEF TypeOK
    <2>b. req' \in [Request -> Work]
        BY <1>8, Advanced DEF Complete
    <2>4. TypeOK'
        BY <1>8, <2>a, <2>b DEF Complete, TypeOK
    <2>c. batch # None
        BY <1>8 DEF Complete, Orderly, InFlight
    <2>d. \A j \in Item : item'[j] # None
        BY <2>2, <2>3, <2>c DEF TypeOK, Orderly
    <2>e. \A j \in Item : batch' = None <=> item'[j] = None
        BY <1>8, <2>c, <2>d DEF Complete
    <2>f. /\ \A p \in Request : /\ req'[p].phase = req[p].phase
                               /\ req'[p].allow = req[p].allow
          /\ \A p \in Request, j \in Item :
                req'[p].at[j] = IF p = q /\ j = i THEN "left" ELSE req[p].at[j]
        BY <1>8, Advanced DEF Complete
    <2>5. Orderly'
        BY <1>8, <2>c, <2>e, <2>f DEF Complete, Orderly, InFlight
    <2> QED
        BY <2>4, <2>5
<1>9. ASSUME NEW q \in Request, NEW i \in Item, CompleteFails(q, i) PROVE Base'
    <2>1. TypeOK'
        BY <1>9, Advanced DEF CompleteFails, TypeOK
    <2>2. Orderly'
        BY <1>9, Advanced DEF CompleteFails, TypeOK, Orderly, InFlight
    <2> QED
        BY <2>1, <2>2
<1>10. ASSUME NEW q \in Request, NEW i \in Item, Fail(q, i) PROVE Base'
    <2>1. item[i] \in ItemRow
        BY <1>10 DEF Fail, TypeOK, Orderly, InFlight
    <2> DEFINE row == [item[i] EXCEPT !.status = "FAILED"]
    <2>2. row \in ItemRow
        BY <2>1 DEF ItemRow, ItemStatus
    <2>3. row # None
        BY <2>2, RowsAssumption
    <2>4. item' = [item EXCEPT ![i] = row]
        BY <1>10 DEF Fail
    <2> HIDE DEF row
    <2>a. item' \in [Item -> ItemRow \cup {None}]
        BY <2>2, <2>4 DEF TypeOK
    <2>b. req' \in [Request -> Work]
        BY <1>10, Advanced DEF Fail
    <2>5. TypeOK'
        BY <1>10, <2>a, <2>b DEF Fail, TypeOK
    <2>c. batch # None
        BY <1>10 DEF Fail, Orderly, InFlight
    <2>d. \A j \in Item : item'[j] # None
        BY <2>3, <2>4, <2>c DEF TypeOK, Orderly
    <2>6. Orderly'
        BY <1>10, <2>c, <2>d, Advanced DEF Fail, Orderly, InFlight
    <2> QED
        BY <2>5, <2>6
<1>11. ASSUME NEW q \in Request, Collect(q) PROVE Base'
    <2>1. CompletedRuns \in SUBSET Run
        BY DEF CompletedRuns, ReportedRuns
    <2> QED
        BY <1>11, <2>1 DEF Collect, TypeOK, Orderly, InFlight, Work
<1>12. ASSUME NEW q \in Request, Report(q) PROVE Base'
    <2>1. batch \in BatchRow
        BY <1>12 DEF Report, TypeOK, Orderly, InFlight
    <2>2. req[q].collected \in SUBSET Run
        BY <1>12 DEF Report, TypeOK, Work
    <2>3. batch' \in BatchRow
        BY <1>12, <2>1, <2>2 DEF Report, NewSummary, BatchRow
    <2>4. /\ batch # None
          /\ batch' # None
        BY <2>1, <2>3, RowsAssumption
    <2>5. TypeOK'
        BY <1>12, <2>3, Ended DEF Report, TypeOK
    <2>a. /\ \A p \in Request : p # q => req'[p] = req[p]
          /\ req'[q].phase = "ended"
          /\ \A i \in Item : req'[q].at[i] = "left"
        BY <1>12, Ended DEF Report
    <2>6. Orderly'
        BY <1>12, <2>4, <2>a DEF Report, Orderly, InFlight
    <2> QED
        BY <2>5, <2>6
<1>13. ASSUME NEW q \in Request, Crash(q) PROVE Base'
    <2>1. TypeOK'
        BY <1>13, Ended DEF Crash, TypeOK
    <2>a. /\ \A p \in Request : p # q => req'[p] = req[p]
          /\ req'[q].phase = "ended"
          /\ \A i \in Item : req'[q].at[i] = "left"
        BY <1>13, Ended DEF Crash
    <2>2. Orderly'
        BY <1>13, <2>a DEF Crash, Orderly, InFlight
    <2> QED
        BY <2>1, <2>2
<1>14. CASE UNCHANGED vars
    BY <1>14 DEF vars, TypeOK, Orderly, InFlight
<1> QED
    BY <1>1, <1>2, <1>3, <1>4, <1>5, <1>6, <1>7, <1>8, <1>9, <1>10, <1>11, <1>12,
       <1>13, <1>14 DEF Next, Proceed

\* Rows and requests stay well formed.
THEOREM TypeCorrect == Spec => []TypeOK
<1>1. Base => TypeOK
    BY DEF Base
<1> QED
    BY BaseInit, BaseNext, <1>1, PTL DEF Spec

-----------------------------------------------------------------------------
(* Runs *)

\* A request has a run for a file only once it has assessed it, and has one with a
\* report when it is about to complete the item.
Runs ==
    /\ \A q \in Request, i \in Item :
          req[q].phase = "new" \/ req[q].at[i] \in {"selected", "started"}
              => run[<<q, i>>] = None
    /\ \A q \in Request, i \in Item :
          req[q].at[i] = "assessed" => <<q, i>> \in ReportedRuns

\* A stored run is locked.
RunsLocked == \A r \in Run : run[r] # None => run'[r] = run[r]

\* No request has run anything at first.
LEMMA RunsInit == Init => Runs
BY DEF Init, Runs, Idle, Run

\* Locked runs keep their reports.
LEMMA ReportedStay ==
    ASSUME RunsLocked PROVE ReportedRuns \subseteq ReportedRuns'
BY DEF RunsLocked, ReportedRuns

\* No step changes a run that is stored, and the requests stay in step with them.
LEMMA RunsNext == Base /\ Runs /\ [Next]_vars => Runs' /\ RunsLocked
<1> SUFFICES ASSUME Base, Runs, [Next]_vars PROVE Runs' /\ RunsLocked
    OBVIOUS
<1>0. TypeOK /\ Orderly
    BY DEF Base
<1>1. ASSUME run' = run,
             \A q \in Request, i \in Item :
                 /\ req'[q].phase = "new" => req[q].phase = "new"
                 /\ req'[q].at[i] \in {"selected", "started"} =>
                        req[q].phase = "new" \/ req[q].at[i] \in {"selected", "started"}
                 /\ req'[q].at[i] = "assessed" => req[q].at[i] = "assessed"
      PROVE  Runs' /\ RunsLocked
    BY <1>1 DEF Runs, RunsLocked, ReportedRuns
<1>2. ASSUME NEW q \in Request, NEW i \in Item, NEW row, row # None,
             req[q].at[i] = "started",
             run' = [run EXCEPT ![<<q, i>>] = row],
             NEW to \in {"assessed", "failed"}, Advance(q, i, to),
             to = "assessed" => row.state = "READY"
      PROVE  Runs' /\ RunsLocked
    <2>1. /\ <<q, i>> \in Run
          /\ run[<<q, i>>] = None
        BY <1>2 DEF Runs, Run
    <2>2. \A p \in Request, j \in Item :
              <<p, j>> \in Run /\ (<<p, j>> = <<q, i>> <=> p = q /\ j = i)
        BY DEF Run
    <2>3. \A r \in Run : run'[r] = IF r = <<q, i>> THEN row ELSE run[r]
        BY <1>0, <1>2 DEF TypeOK
    <2>4. /\ \A p \in Request : req'[p].phase = req[p].phase
          /\ \A p \in Request, j \in Item :
                req'[p].at[j] = IF p = q /\ j = i THEN to ELSE req[p].at[j]
        BY <1>0, <1>2, Advanced
    <2>5. req[q].phase # "new"
        BY <1>0, <1>2 DEF Orderly, InFlight
    <2>6. RunsLocked
        BY <2>1, <2>3 DEF RunsLocked
    <2>7. to = "assessed" => <<q, i>> \in ReportedRuns'
        BY <1>2, <2>1, <2>3 DEF ReportedRuns
    <2>8. \A p \in Request, j \in Item :
              req'[p].phase = "new" \/ req'[p].at[j] \in {"selected", "started"}
                  => run'[<<p, j>>] = None
        BY <2>2, <2>3, <2>4, <2>5 DEF Runs
    <2>9. \A p \in Request, j \in Item :
              req'[p].at[j] = "assessed" => <<p, j>> \in ReportedRuns'
        BY <2>4, <2>6, <2>7, ReportedStay DEF Runs
    <2> QED
        BY <2>6, <2>8, <2>9 DEF Runs
<1>3. ASSUME NEW v \in Version, Approve(v) PROVE Runs' /\ RunsLocked
    BY <1>1, <1>3 DEF Approve
<1>4. ASSUME NEW q \in Request, Create(q) PROVE Runs' /\ RunsLocked
    <2> PICK listed \in Listings : Begin(q, Item, Workers, listed)
        BY <1>4 DEF Create
    <2>1. listed \in SUBSET Version /\ Workers \in Nat
        BY <1>0, WorkersAssumption DEF Listings, TypeOK
    <2>2. /\ \A p \in Request : p # q => req'[p] = req[p]
          /\ req'[q].phase = "inflight"
          /\ \A i \in Item : req'[q].at[i] = "selected"
        BY <1>0, <2>1, Begun
    <2> QED
        BY <1>1, <1>4, <2>2 DEF Create
<1>5. ASSUME NEW q \in Request, Retry(q) PROVE Runs' /\ RunsLocked
    <2> PICK S \in SUBSET Item : Begin(q, S, 1, None)
        BY <1>5 DEF Retry, FailedItems
    <2>1. /\ \A p \in Request : p # q => req'[p] = req[p]
          /\ req'[q].phase = "inflight"
          /\ \A i \in Item : req'[q].at[i] = IF i \in S THEN "selected" ELSE "left"
        BY <1>0, Begun
    <2> QED
        BY <1>1, <1>5, <2>1 DEF Retry
<1>6. ASSUME NEW q \in Request, ListAgain(q) PROVE Runs' /\ RunsLocked
    <2>1. \A p \in Request : /\ req'[p].phase = req[p].phase
                             /\ req'[p].at = req[p].at
        BY <1>0, <1>6 DEF ListAgain, TypeOK, Work
    <2> QED
        BY <1>1, <1>6, <2>1 DEF ListAgain
<1>7. ASSUME NEW q \in Request, NEW i \in Item, Start(q, i) PROVE Runs' /\ RunsLocked
    BY <1>0, <1>1, <1>7, Advanced DEF Start
<1>8. ASSUME NEW q \in Request, NEW i \in Item, Assess(q, i) PROVE Runs' /\ RunsLocked
    <2> DEFINE row == NewRun(q, "READY", Cited(q, kb))
    <2>1. row \in RunRow /\ row.state = "READY"
        BY <1>0, <1>8 DEF Assess, NewRun, Cited, RunRow, TypeOK, Orderly, InFlight,
                          BatchRow, Work
    <2>2. row # None
        BY <2>1, RowsAssumption
    <2>3. run' = [run EXCEPT ![<<q, i>>] = row]
        BY <1>8 DEF Assess
    <2> HIDE DEF row
    <2> QED
        BY <1>2, <1>8, <2>1, <2>2, <2>3 DEF Assess
<1>9. ASSUME NEW q \in Request, NEW i \in Item, AssessFails(q, i) PROVE Runs' /\ RunsLocked
    <2> DEFINE row == NewRun(q, "FAILED", {})
    <2>1. row \in RunRow
        BY <1>0, <1>9 DEF AssessFails, NewRun, RunRow, TypeOK, Orderly, InFlight,
                          BatchRow, Work
    <2>2. row # None
        BY <2>1, RowsAssumption
    <2>3. run' = run \/ run' = [run EXCEPT ![<<q, i>>] = row]
        BY <1>9 DEF AssessFails
    <2> HIDE DEF row
    <2>4. CASE run' = run
        BY <1>0, <1>1, <1>9, <2>4, Advanced DEF AssessFails
    <2>5. CASE run' = [run EXCEPT ![<<q, i>>] = row]
        BY <1>2, <1>9, <2>2, <2>5 DEF AssessFails
    <2> QED
        BY <2>3, <2>4, <2>5
<1>10. ASSUME NEW q \in Request, NEW i \in Item,
              Complete(q, i) \/ CompleteFails(q, i) \/ Fail(q, i)
       PROVE  Runs' /\ RunsLocked
    BY <1>0, <1>1, <1>10, Advanced DEF Complete, CompleteFails, Fail
<1>11. ASSUME NEW q \in Request, Collect(q) PROVE Runs' /\ RunsLocked
    <2>1. \A p \in Request : /\ req'[p].phase = req[p].phase
                             /\ req'[p].at = req[p].at
        BY <1>0, <1>11 DEF Collect, TypeOK, Work
    <2> QED
        BY <1>1, <1>11, <2>1 DEF Collect
<1>12. ASSUME NEW q \in Request, Report(q) \/ Crash(q) PROVE Runs' /\ RunsLocked
    <2>1. /\ \A p \in Request : p # q => req'[p] = req[p]
          /\ req'[q].phase = "ended"
          /\ \A i \in Item : req'[q].at[i] = "left"
        BY <1>0, <1>12, Ended DEF Report, Crash
    <2> QED
        BY <1>1, <1>12, <2>1 DEF Report, Crash
<1>13. CASE UNCHANGED vars
    BY <1>1, <1>13 DEF vars
<1> QED
    BY <1>3, <1>4, <1>5, <1>6, <1>7, <1>8, <1>9, <1>10, <1>11, <1>12, <1>13
       DEF Next, Proceed

-----------------------------------------------------------------------------
(* What items and report show *)

\* S holds at most one run of each file.
Distinct(S) == \A r, s \in S : ItemOf(r) = ItemOf(s) => r = s

\* What a request collected is fit to be reported.
Collected ==
    \A q \in Request : req[q].collected # None =>
        /\ req[q].collected \subseteq ReportedRuns
        /\ Distinct(req[q].collected)

\* What the requests in flight may cite.  The snapshot stays approved, so what a
\* retry lists later holds it.
Frozen ==
    /\ batch # None => /\ batch.snapshot \subseteq kb
                       /\ req[batch.by].phase # "new"
    /\ \A q \in Request : InFlight(q) /\ req[q].allow # None =>
          IF q = batch.by THEN req[q].allow = batch.snapshot
                          ELSE req[q].allow = {} \/ batch.snapshot \subseteq req[q].allow
    /\ \A q \in Request : InFlight(q) /\ q = batch.by => req[q].allow # None

Honest == OwnRun /\ Collected /\ CountedOnce /\ Frozen /\ FrozenEvidence

BatchInv == Base /\ Runs /\ Honest

\* There is nothing to show at first.
LEMMA HonestInit == Init => Honest
<1> SUFFICES ASSUME Init PROVE Honest
    OBVIOUS
<1>1. OwnRun
    BY RowsAssumption DEF Init, OwnRun, Status, ItemStatus
<1>2. Collected /\ CountedOnce /\ Frozen /\ FrozenEvidence
    BY DEF Init, Collected, CountedOnce, Frozen, FrozenEvidence, ReportedRuns, Idle,
           InFlight
<1> QED
    BY <1>1, <1>2 DEF Honest

\* The runs of the completed items are of different files.
LEMMA CompletedOnce == OwnRun => CompletedRuns \subseteq ReportedRuns /\ Distinct(CompletedRuns)
<1> SUFFICES ASSUME OwnRun PROVE CompletedRuns \subseteq ReportedRuns /\ Distinct(CompletedRuns)
    OBVIOUS
<1>1. CompletedRuns \subseteq ReportedRuns
    BY DEF CompletedRuns
<1>2. \A r \in CompletedRuns : r = item[ItemOf(r)].run
    BY DEF CompletedRuns, OwnRun
<1> QED
    BY <1>1, <1>2 DEF Distinct

\* The items show their own runs after every step.
LEMMA OwnRunNext == BatchInv /\ [Next]_vars => OwnRun'
<1> SUFFICES ASSUME BatchInv, [Next]_vars PROVE OwnRun'
    OBVIOUS
<1>0. TypeOK /\ Orderly /\ Runs /\ OwnRun /\ ReportedRuns \subseteq ReportedRuns'
    BY RunsNext, ReportedStay DEF BatchInv, Base, Honest
<1>1. CASE item' = item
    BY <1>0, <1>1 DEF OwnRun, Status
<1>2. ASSUME NEW q \in Request, Create(q) PROVE OwnRun'
    BY <1>2, RowsAssumption DEF Create, OwnRun, Status, ItemStatus
<1>3. ASSUME NEW i \in Item, NEW status \in {"PROCESSING", "FAILED"}, item[i] \in ItemRow,
             item' = [item EXCEPT ![i].status = status]
      PROVE  OwnRun'
    <2>1. item'[i].status = status
        BY <1>0, <1>3 DEF TypeOK, ItemRow
    <2>2. \A j \in Item : j # i => item'[j] = item[j]
        BY <1>0, <1>3 DEF TypeOK
    <2> QED
        BY <1>0, <1>3, <2>1, <2>2, RowsAssumption DEF OwnRun, Status, ItemStatus
<1>4. ASSUME NEW q \in Request, NEW i \in Item, Start(q, i) PROVE OwnRun'
    <2>1. item[i] \in ItemRow
        BY <1>0, <1>4 DEF Start, TypeOK, Orderly, InFlight
    <2> QED
        BY <1>3, <1>4, <2>1 DEF Start
<1>5. ASSUME NEW q \in Request, NEW i \in Item, Fail(q, i) PROVE OwnRun'
    <2>1. item[i] \in ItemRow
        BY <1>0, <1>5 DEF Fail, TypeOK, Orderly, InFlight
    <2> QED
        BY <1>3, <1>5, <2>1 DEF Fail
<1>6. ASSUME NEW q \in Request, NEW i \in Item, Complete(q, i) PROVE OwnRun'
    <2>1. <<q, i>> \in ReportedRuns'
        BY <1>0, <1>6 DEF Complete, Runs
    <2>2. ItemOf(<<q, i>>) = i
        BY DEF ItemOf
    <2>3. item'[i] = [status |-> "COMPLETED", run |-> <<q, i>>]
        BY <1>0, <1>6 DEF Complete, TypeOK
    <2>4. \A j \in Item : j # i => item'[j] = item[j]
        BY <1>0, <1>6 DEF Complete, TypeOK
    <2> QED
        BY <1>0, <2>1, <2>2, <2>3, <2>4 DEF OwnRun, Status
<1> QED
    BY <1>1, <1>2, <1>4, <1>5, <1>6
       DEF Next, Proceed, vars, Approve, Retry, ListAgain, Assess, AssessFails,
           CompleteFails, Collect, Report, Crash

\* Requests collect, and reports add up, each file once.
LEMMA CountedNext == BatchInv /\ [Next]_vars => Collected' /\ CountedOnce'
<1> SUFFICES ASSUME BatchInv, [Next]_vars PROVE Collected' /\ CountedOnce'
    OBVIOUS
<1>0. /\ TypeOK /\ Orderly /\ OwnRun /\ Collected /\ CountedOnce
      /\ ReportedRuns \subseteq ReportedRuns'
    BY RunsNext, ReportedStay DEF BatchInv, Base, Honest
<1>1. ASSUME \A q \in Request : req'[q].collected \in {req[q].collected, None}
      PROVE  Collected'
    BY <1>0, <1>1 DEF Collected
<1>2. ASSUME batch' = batch PROVE CountedOnce'
    BY <1>0, <1>2 DEF CountedOnce
<1>3. ASSUME NEW v \in Version, Approve(v) PROVE Collected' /\ CountedOnce'
    BY <1>1, <1>2, <1>3 DEF Approve
<1>4. ASSUME NEW q \in Request, Create(q) PROVE Collected' /\ CountedOnce'
    <2> PICK listed \in Listings :
            /\ batch' = [snapshot |-> listed, summary |-> {}, by |-> q]
            /\ Begin(q, Item, Workers, listed)
        BY <1>4 DEF Create
    <2>1. listed \in SUBSET Version /\ Workers \in Nat
        BY <1>0, WorkersAssumption DEF Listings, TypeOK
    <2>2. /\ \A p \in Request : p # q => req'[p] = req[p]
          /\ req'[q].collected = None
        BY <1>0, <2>1, Begun
    <2>3. CountedOnce'
        BY DEF CountedOnce
    <2> QED
        BY <1>1, <2>2, <2>3
<1>5. ASSUME NEW q \in Request, Retry(q) PROVE Collected' /\ CountedOnce'
    <2> PICK S \in SUBSET Item : Begin(q, S, 1, None)
        BY <1>5 DEF Retry, FailedItems
    <2>1. /\ \A p \in Request : p # q => req'[p] = req[p]
          /\ req'[q].collected = None
        BY <1>0, Begun
    <2> QED
        BY <1>1, <1>2, <1>5, <2>1 DEF Retry
<1>6. ASSUME NEW q \in Request, ListAgain(q) PROVE Collected' /\ CountedOnce'
    <2>1. \A p \in Request : req'[p].collected = req[p].collected
        BY <1>0, <1>6 DEF ListAgain, TypeOK, Work
    <2> QED
        BY <1>1, <1>2, <1>6, <2>1 DEF ListAgain
<1>7. ASSUME NEW q \in Request, NEW i \in Item, batch' = batch,
             NEW to \in {"started", "assessed", "failed", "left"}, Advance(q, i, to)
      PROVE  Collected' /\ CountedOnce'
    <2>1. \A p \in Request : req'[p].collected = req[p].collected
        BY <1>0, <1>7, Advanced
    <2> QED
        BY <1>1, <1>2, <1>7, <2>1
<1>8. ASSUME NEW q \in Request, NEW i \in Item,
             \/ Start(q, i) \/ Assess(q, i) \/ AssessFails(q, i)
             \/ Complete(q, i) \/ CompleteFails(q, i) \/ Fail(q, i)
      PROVE  Collected' /\ CountedOnce'
    BY <1>7, <1>8 DEF Start, Assess, AssessFails, Complete, CompleteFails, Fail
<1>9. ASSUME NEW q \in Request, Collect(q) PROVE Collected' /\ CountedOnce'
    <2>1. /\ \A p \in Request : p # q => req'[p] = req[p]
          /\ req'[q].collected = CompletedRuns
        BY <1>0, <1>9 DEF Collect, TypeOK, Work
    <2>2. CompletedRuns \subseteq ReportedRuns /\ Distinct(CompletedRuns)
        BY <1>0, CompletedOnce
    <2>3. Collected'
        BY <1>0, <2>1, <2>2 DEF Collected
    <2> QED
        BY <1>2, <1>9, <2>3 DEF Collect
<1>10. ASSUME NEW q \in Request, Report(q) PROVE Collected' /\ CountedOnce'
    <2>1. /\ \A p \in Request : p # q => req'[p] = req[p]
          /\ req'[q].collected = None
        BY <1>0, <1>10, Ended DEF Report
    <2>2. batch \in BatchRow
        BY <1>0, <1>10 DEF Report, TypeOK, Orderly, InFlight
    <2>3. batch'.summary = req[q].collected
        BY <1>10, <2>2 DEF Report, NewSummary, BatchRow
    <2>4. CountedOnce'
        BY <1>0, <1>10, <2>3 DEF Report, Collected, CountedOnce, Distinct
    <2> QED
        BY <1>1, <2>1, <2>4
<1>11. ASSUME NEW q \in Request, Crash(q) PROVE Collected' /\ CountedOnce'
    <2>1. /\ \A p \in Request : p # q => req'[p] = req[p]
          /\ req'[q].collected = None
        BY <1>0, <1>11, Ended DEF Crash
    <2> QED
        BY <1>1, <1>2, <1>11, <2>1 DEF Crash
<1>12. CASE UNCHANGED vars
    BY <1>1, <1>2, <1>12 DEF vars
<1> QED
    BY <1>3, <1>4, <1>5, <1>6, <1>8, <1>9, <1>10, <1>11, <1>12 DEF Next, Proceed

\* The lists of the requests keep in step with the snapshot of the batch.
LEMMA FrozenNext == BatchInv /\ [Next]_vars => Frozen'
<1> SUFFICES ASSUME BatchInv, [Next]_vars PROVE Frozen'
    OBVIOUS
<1>0. TypeOK /\ Orderly /\ Frozen
    BY DEF BatchInv, Base, Honest
<1>1. ASSUME NEW v \in Version, Approve(v) PROVE Frozen'
    BY <1>0, <1>1 DEF Approve, Frozen, InFlight
<1>2. ASSUME NEW q \in Request, Create(q) PROVE Frozen'
    <2> PICK listed \in Listings :
            /\ batch' = [snapshot |-> listed, summary |-> {}, by |-> q]
            /\ Begin(q, Item, Workers, listed)
        BY <1>2 DEF Create
    <2>1. /\ listed \in SUBSET Version /\ Workers \in Nat
          /\ listed \subseteq kb
        BY <1>0, WorkersAssumption DEF Listings, TypeOK
    <2>2. listed # None
        BY <2>1, RowsAssumption
    <2>3. /\ \A p \in Request : p # q => req'[p] = req[p]
          /\ req'[q].phase = "inflight"
          /\ req'[q].allow = listed
        BY <1>0, <2>1, Begun
    <2>4. \A p \in Request : p # q => ~InFlight(p)'
        BY <1>0, <1>2, <2>3 DEF Create, Orderly, InFlight
    <2> QED
        BY <1>2, <2>1, <2>2, <2>3, <2>4 DEF Create, Frozen
<1>3. ASSUME NEW q \in Request, Retry(q) PROVE Frozen'
    <2> PICK S \in SUBSET Item : Begin(q, S, 1, None)
        BY <1>3 DEF Retry, FailedItems
    <2>1. /\ \A p \in Request : p # q => req'[p] = req[p]
          /\ req'[q].phase = "inflight"
          /\ req'[q].allow = None
        BY <1>0, Begun
    <2>2. batch # None /\ q # batch.by
        BY <1>0, <1>3 DEF Retry, Frozen
    <2>3. batch.by \in Request
        BY <1>0, <2>2 DEF TypeOK, BatchRow
    <2>4. UNCHANGED <<kb, batch>>
        BY <1>3 DEF Retry
    <2>5. /\ InFlight(q)' /\ req'[q].allow = None
          /\ \A p \in Request : p # q => (InFlight(p)' <=> InFlight(p))
        BY <2>1 DEF InFlight
    <2> QED
        BY <1>0, <2>1, <2>2, <2>3, <2>4, <2>5 DEF Frozen
<1>4. ASSUME NEW q \in Request, ListAgain(q) PROVE Frozen'
    <2> PICK listed \in Listings : req' = [req EXCEPT ![q].allow = listed]
        BY <1>4 DEF ListAgain
    <2>1. /\ \A p \in Request : p # q => req'[p] = req[p]
          /\ req'[q].phase = req[q].phase
          /\ req'[q].allow = listed
        BY <1>0 DEF TypeOK, Work
    <2>2. batch # None
        BY <1>0, <1>4 DEF ListAgain, Orderly, InFlight
    <2>3. q # batch.by
        BY <1>0, <1>4 DEF ListAgain, Frozen
    <2>4. listed = {} \/ batch.snapshot \subseteq listed
        BY <1>0, <2>2 DEF Listings, Frozen
    <2>5. \A p \in Request : req'[p].phase = req[p].phase
        BY <2>1
    <2>6. batch.by \in Request
        BY <1>0, <2>2 DEF TypeOK, BatchRow
    <2> QED
        BY <1>0, <1>4, <2>1, <2>2, <2>3, <2>4, <2>5, <2>6 DEF ListAgain, Frozen, InFlight
<1>5. ASSUME UNCHANGED <<kb, batch>>,
             \A p \in Request : /\ req'[p].phase = req[p].phase
                                /\ req'[p].allow = req[p].allow
      PROVE  Frozen'
    <2>1. batch # None => batch.by \in Request
        BY <1>0 DEF TypeOK, BatchRow
    <2> QED
        BY <1>0, <1>5, <2>1 DEF Frozen, InFlight
<1>6. ASSUME NEW q \in Request, NEW i \in Item,
             \/ Start(q, i) \/ Assess(q, i) \/ AssessFails(q, i)
             \/ Complete(q, i) \/ CompleteFails(q, i) \/ Fail(q, i)
      PROVE  Frozen'
    <2>1. PICK to \in {"started", "assessed", "failed", "left"} : Advance(q, i, to)
        BY <1>6 DEF Start, Assess, AssessFails, Complete, CompleteFails, Fail
    <2>2. \A p \in Request : /\ req'[p].phase = req[p].phase
                             /\ req'[p].allow = req[p].allow
        BY <1>0, <2>1, Advanced
    <2> QED
        BY <1>5, <1>6, <2>2 DEF Start, Assess, AssessFails, Complete, CompleteFails, Fail
<1>7. ASSUME NEW q \in Request, Collect(q) PROVE Frozen'
    <2>1. \A p \in Request : /\ req'[p].phase = req[p].phase
                             /\ req'[p].allow = req[p].allow
        BY <1>0, <1>7 DEF Collect, TypeOK, Work
    <2> QED
        BY <1>5, <1>7, <2>1 DEF Collect
<1>8. ASSUME NEW q \in Request, Report(q) \/ Crash(q) PROVE Frozen'
    <2>1. /\ \A p \in Request : p # q => req'[p] = req[p]
          /\ req'[q].phase = "ended"
        BY <1>0, <1>8, Ended DEF Report, Crash
    <2>2. batch \in BatchRow
        BY <1>0, <1>8 DEF Report, Crash, TypeOK, Orderly, InFlight
    <2>3. batch # None
        BY <2>2, RowsAssumption
    <2>4. batch'.snapshot = batch.snapshot /\ batch'.by = batch.by
        BY <1>8, <2>2 DEF Report, Crash, BatchRow
    <2>5. batch.by \in Request
        BY <2>2 DEF BatchRow
    <2> QED
        BY <1>0, <1>8, <2>1, <2>3, <2>4, <2>5 DEF Report, Crash, Frozen, InFlight
<1>9. CASE UNCHANGED vars
    BY <1>5, <1>9 DEF vars
<1> QED
    BY <1>1, <1>2, <1>3, <1>4, <1>6, <1>7, <1>8, <1>9 DEF Next, Proceed

\* A run that is stored may cite what its request holds it to.
LEMMA FrozenEvidenceNext == BatchInv /\ [Next]_vars => FrozenEvidence'
<1> SUFFICES ASSUME BatchInv, [Next]_vars PROVE FrozenEvidence'
    OBVIOUS
<1>0. TypeOK /\ Orderly /\ Runs /\ Frozen /\ FrozenEvidence
    BY DEF BatchInv, Base, Honest
<1>1. ASSUME run' = run, batch' = batch PROVE FrozenEvidence'
    BY <1>0, <1>1 DEF FrozenEvidence, ReportedRuns
<1>2. ASSUME NEW q \in Request, Create(q) PROVE FrozenEvidence'
    <2>1. \A p \in Request, i \in Item : run[<<p, i>>] = None
        BY <1>0, <1>2 DEF Create, Orderly, Runs
    <2>2. \A r \in Run : run'[r] = None
        BY <1>2, <2>1 DEF Create, Run
    <2> QED
        BY <2>2 DEF FrozenEvidence, ReportedRuns
<1>3. ASSUME NEW q \in Request, NEW i \in Item, Assess(q, i) PROVE FrozenEvidence'
    <2>1. batch \in BatchRow /\ batch # None
        BY <1>0, <1>3, RowsAssumption DEF Assess, TypeOK, Orderly, InFlight
    <2>2. req[q].allow # None /\ req[q].allow \in SUBSET Version
        BY <1>0, <1>3 DEF Assess, TypeOK, Work, Orderly
    <2> DEFINE cites == Cited(q, kb)
    <2>3. /\ batch.snapshot \subseteq cites
          /\ q = batch.by /\ batch.snapshot # {} => cites = batch.snapshot
        BY <1>0, <1>3, <2>1, <2>2 DEF Assess, Cited, Frozen
    <2> HIDE DEF cites
    <2>4. run' = [run EXCEPT ![<<q, i>>] = NewRun(q, "READY", cites)]
        BY <1>3 DEF Assess, cites
    <2>5. NewRun(q, "READY", cites).cites = cites
        BY DEF NewRun
    <2>6. <<q, i>> \in Run /\ RequestOf(<<q, i>>) = q
        BY DEF Run, RequestOf
    <2>7. \A r \in Run : run'[r] = IF r = <<q, i>> THEN NewRun(q, "READY", cites) ELSE run[r]
        BY <1>0, <2>4 DEF TypeOK
    <2>8. batch' = batch
        BY <1>3 DEF Assess
    <2> HIDE DEF NewRun
    <2>9. \A r \in ReportedRuns' : r # <<q, i>> => r \in ReportedRuns /\ run'[r] = run[r]
        BY <2>7 DEF ReportedRuns
    <2>10. ASSUME NEW r \in ReportedRuns'
           PROVE  /\ batch.snapshot \subseteq run'[r].cites
                  /\ RequestOf(r) = batch.by /\ batch.snapshot # {}
                        => run'[r].cites = batch.snapshot
        <3>1. CASE r = <<q, i>>
            BY <2>3, <2>5, <2>6, <2>7, <3>1
        <3>2. CASE r # <<q, i>>
            BY <1>0, <2>9, <3>2 DEF FrozenEvidence
        <3> QED
            BY <3>1, <3>2
    <2> QED
        BY <2>8, <2>10 DEF FrozenEvidence
<1>4. ASSUME NEW q \in Request, NEW i \in Item, AssessFails(q, i) PROVE FrozenEvidence'
    <2>1. \A r \in Run : run'[r] = run[r] \/ run'[r].state = "FAILED"
        BY <1>0, <1>4 DEF AssessFails, NewRun, TypeOK
    <2>2. \A r \in ReportedRuns' : r \in ReportedRuns /\ run'[r] = run[r]
        BY <2>1 DEF ReportedRuns
    <2> QED
        BY <1>0, <1>4, <2>2 DEF AssessFails, FrozenEvidence
<1>5. ASSUME NEW q \in Request, Report(q) PROVE FrozenEvidence'
    <2>1. batch \in BatchRow
        BY <1>0, <1>5 DEF Report, TypeOK, Orderly, InFlight
    <2>2. batch'.snapshot = batch.snapshot /\ batch'.by = batch.by
        BY <1>5, <2>1 DEF Report, BatchRow
    <2> QED
        BY <1>0, <1>5, <2>2 DEF Report, FrozenEvidence, ReportedRuns
<1> QED
    BY <1>1, <1>2, <1>3, <1>4, <1>5
       DEF Next, Proceed, vars, Approve, Retry, ListAgain, Start, Complete,
           CompleteFails, Fail, Collect, Crash

\* The inductive invariant.
LEMMA Invariant == Spec => []BatchInv
<1>1. Init => BatchInv
    BY BaseInit, RunsInit, HonestInit DEF BatchInv
<1>2. BatchInv /\ [Next]_vars => BatchInv'
    <2> SUFFICES ASSUME BatchInv, [Next]_vars PROVE BatchInv'
        OBVIOUS
    <2>1. Base' /\ Runs'
        BY BaseNext, RunsNext DEF BatchInv
    <2>2. Honest'
        BY OwnRunNext, CountedNext, FrozenNext, FrozenEvidenceNext DEF Honest
    <2> QED
        BY <2>1, <2>2 DEF BatchInv
<1> QED
    BY <1>1, <1>2, PTL DEF Spec

\* A completed item shows a run of its own file that has a report, whatever overlaps
\* or fails.
THEOREM Attributed == Spec => []OwnRun
<1>1. BatchInv => OwnRun
    BY DEF BatchInv, Honest
<1> QED
    BY Invariant, <1>1, PTL

\* The report of a batch counts each file at most once.
THEOREM Counted == Spec => []CountedOnce
<1>1. BatchInv => CountedOnce
    BY DEF BatchInv, Honest
<1> QED
    BY Invariant, <1>1, PTL

\* The request of a batch judges every file by the frozen snapshot, a retry by no
\* less, for any number of overlapping requests and however the knowledge base grows.
THEOREM EvidenceFrozen == Spec => []FrozenEvidence
<1>1. BatchInv => FrozenEvidence
    BY DEF BatchInv, Honest
<1> QED
    BY Invariant, <1>1, PTL

-----------------------------------------------------------------------------
(* Requests that do not overlap *)

\* Unless requests overlapped, there is one at a time and it works on no completed
\* item.
Alone ==
    ~overlapped =>
        /\ \A p, q \in Request : InFlight(p) /\ InFlight(q) => p = q
        /\ \A q \in Request, i \in Item :
              req[q].at[i] # "left" => Status(i) # "COMPLETED"

\* Nobody is at work at first.
LEMMA AloneInit == Init => Alone
BY DEF Init, Alone, Idle, InFlight

\* A request that works on an item is in flight, and the only one that does.
LEMMA OnlyWorker ==
    ASSUME Base, Alone, ~overlapped, NEW q \in Request, InFlight(q),
           NEW p \in Request, p # q, NEW i \in Item
    PROVE  req[p].at[i] = "left"
BY DEF Base, Orderly, Alone

\* A request that begins alone works alone until another begins.
LEMMA AloneNext == Base /\ Alone /\ [Next]_vars => Alone'
<1> SUFFICES ASSUME Base, Alone, [Next]_vars PROVE Alone'
    OBVIOUS
<1>0. TypeOK /\ Orderly
    BY DEF Base
<1>1. ASSUME overlapped' = overlapped,
             \A q \in Request : req'[q].phase \in {req[q].phase, "ended"},
             ~overlapped => \A q \in Request, i \in Item :
                 req'[q].at[i] # "left" => Status(i)' # "COMPLETED"
      PROVE  Alone'
    BY <1>1 DEF Alone, InFlight
<1>2. ASSUME overlapped' = overlapped, item' = item,
             \A q \in Request : req'[q].phase \in {req[q].phase, "ended"},
             \A q \in Request, i \in Item : req'[q].at[i] # "left" => req[q].at[i] # "left"
      PROVE  Alone'
    <2>1. \A i \in Item : Status(i)' = Status(i)
        BY <1>2 DEF Status
    <2> QED
        BY <1>1, <1>2, <2>1 DEF Alone
<1>3. ASSUME NEW v \in Version, Approve(v) PROVE Alone'
    BY <1>2, <1>3 DEF Approve
<1>4. ASSUME NEW q \in Request, NEW S \in SUBSET Item, NEW width \in Nat,
             NEW allow \in {None} \cup SUBSET Version, Begin(q, S, width, allow),
             \A i \in S : Status(i)' # "COMPLETED"
      PROVE  Alone'
    <2>1. /\ \A p \in Request : p # q => req'[p] = req[p]
          /\ \A i \in Item : req'[q].at[i] = IF i \in S THEN "selected" ELSE "left"
        BY <1>0, <1>4, Begun
    <2>2. overlapped' = (overlapped \/ \E p \in Request : InFlight(p))
        BY <1>4 DEF Begin
    <2> SUFFICES ASSUME ~overlapped'
                 PROVE  /\ \A p, r \in Request : InFlight(p)' /\ InFlight(r)' => p = r
                        /\ \A p \in Request, i \in Item :
                              req'[p].at[i] # "left" => Status(i)' # "COMPLETED"
        BY DEF Alone
    <2>3. \A p \in Request : ~InFlight(p)
        BY <2>2
    <2>4. \A p \in Request : p # q => ~InFlight(p)'
        BY <2>1, <2>3 DEF InFlight
    <2>5. \A p \in Request, i \in Item :
              req'[p].at[i] # "left" => Status(i)' # "COMPLETED"
        BY <1>0, <1>4, <2>1, <2>3 DEF Orderly
    <2> QED
        BY <2>4, <2>5
<1>5. ASSUME NEW q \in Request, Create(q) PROVE Alone'
    <2> PICK listed \in Listings : Begin(q, Item, Workers, listed)
        BY <1>5 DEF Create
    <2>1. listed \in SUBSET Version /\ Workers \in Nat
        BY <1>0, WorkersAssumption DEF Listings, TypeOK
    <2>2. \A i \in Item : Status(i)' # "COMPLETED"
        BY <1>5, RowsAssumption DEF Create, Status, ItemStatus
    <2> QED
        BY <1>4, <2>1, <2>2
<1>6. ASSUME NEW q \in Request, Retry(q) PROVE Alone'
    <2>1. PICK S \in SUBSET Item : Begin(q, S, 1, None) /\ S \subseteq FailedItems
        BY <1>6 DEF Retry, FailedItems
    <2>2. \A i \in S : Status(i)' # "COMPLETED"
        BY <1>6, <2>1 DEF Retry, FailedItems, Status
    <2> QED
        BY <1>4, <2>1, <2>2
<1>7. ASSUME NEW q \in Request, ListAgain(q) \/ Collect(q) PROVE Alone'
    <2>1. \A p \in Request : /\ req'[p].phase = req[p].phase
                             /\ req'[p].at = req[p].at
        BY <1>0, <1>7 DEF ListAgain, Collect, TypeOK, Work
    <2> QED
        BY <1>2, <1>7, <2>1 DEF ListAgain, Collect
<1>8. ASSUME NEW q \in Request, NEW i \in Item,
             Assess(q, i) \/ AssessFails(q, i) \/ CompleteFails(q, i)
      PROVE  Alone'
    BY <1>0, <1>2, <1>8, Advanced DEF Assess, AssessFails, CompleteFails
<1>9. ASSUME NEW q \in Request, NEW i \in Item, Start(q, i) PROVE Alone'
    <2>1. item[i] \in ItemRow
        BY <1>0, <1>9 DEF Start, TypeOK, Orderly, InFlight
    <2>2. item'[i].status = "PROCESSING"
        BY <1>0, <1>9, <2>1 DEF Start, TypeOK, ItemRow
    <2>3. \A j \in Item : j # i => item'[j] = item[j]
        BY <1>0, <1>9 DEF Start, TypeOK
    <2>4. \A j \in Item : IF j = i THEN Status(j)' # "COMPLETED" ELSE Status(j)' = Status(j)
        BY <2>2, <2>3, RowsAssumption DEF Status, ItemStatus
    <2>5. \A p \in Request, j \in Item :
              req'[p].at[j] = IF p = q /\ j = i THEN "started" ELSE req[p].at[j]
        BY <1>0, <1>9, Advanced DEF Start
    <2>6. \A p \in Request : req'[p].phase = req[p].phase
        BY <1>0, <1>9, Advanced DEF Start
    <2>7. ~overlapped => \A p \in Request, j \in Item :
              req'[p].at[j] # "left" => Status(j)' # "COMPLETED"
        BY <2>4, <2>5 DEF Alone
    <2> QED
        BY <1>1, <1>9, <2>6, <2>7 DEF Start
<1>10. ASSUME NEW q \in Request, NEW i \in Item, Complete(q, i) \/ Fail(q, i)
       PROVE  Alone'
    <2>1. \A j \in Item : j # i => item'[j] = item[j]
        BY <1>0, <1>10 DEF Complete, Fail, TypeOK
    <2>2. \A j \in Item : j # i => Status(j)' = Status(j)
        BY <2>1 DEF Status
    <2>3. \A p \in Request, j \in Item :
              req'[p].at[j] = IF p = q /\ j = i THEN "left" ELSE req[p].at[j]
        BY <1>0, <1>10, Advanced DEF Complete, Fail
    <2>4. \A p \in Request : req'[p].phase = req[p].phase
        BY <1>0, <1>10, Advanced DEF Complete, Fail
    <2>5. InFlight(q)
        BY <1>10 DEF Complete, Fail
    <2>6. ~overlapped => \A p \in Request : req'[p].at[i] = "left"
        BY <2>3, <2>5, OnlyWorker
    <2>7. ~overlapped => \A p \in Request, j \in Item :
              req'[p].at[j] # "left" => Status(j)' # "COMPLETED"
        BY <2>2, <2>3, <2>6 DEF Alone
    <2> QED
        BY <1>1, <1>10, <2>4, <2>7 DEF Complete, Fail
<1>11. ASSUME NEW q \in Request, Report(q) \/ Crash(q) PROVE Alone'
    <2>1. /\ \A p \in Request : p # q => req'[p] = req[p]
          /\ req'[q].phase = "ended"
          /\ \A i \in Item : req'[q].at[i] = "left"
        BY <1>0, <1>11, Ended DEF Report, Crash
    <2> QED
        BY <1>2, <1>11, <2>1 DEF Report, Crash
<1>12. CASE UNCHANGED vars
    BY <1>2, <1>12 DEF vars
<1> QED
    BY <1>3, <1>5, <1>6, <1>7, <1>8, <1>9, <1>10, <1>11, <1>12 DEF Next, Proceed

\* One request at a time leaves the completed items alone: a retry runs the failed
\* items again and no others.
THEOREM CompletedItemsStay == Spec => CompletedStays
<1>1. Init => Base /\ Alone
    BY BaseInit, AloneInit
<1>2. Base /\ Alone /\ [Next]_vars => (Base /\ Alone)'
    BY BaseNext, AloneNext
<1> DEFINE Stays == ~overlapped' => \A i \in Item : Status(i) = "COMPLETED" => item'[i] = item[i]
<1>3. Base /\ Alone /\ [Next]_vars => [Stays]_vars
    <2> SUFFICES ASSUME Base, Alone, Next, ~overlapped',
                        NEW i \in Item, Status(i) = "COMPLETED"
                 PROVE  item'[i] = item[i]
        OBVIOUS
    <2>1. ~overlapped
        BY DEF Next, Proceed, Approve, Create, Retry, Begin, ListAgain, Start, Assess,
               AssessFails, Complete, CompleteFails, Fail, Collect, Report, Crash
    <2>2. item[i] # None
        BY RowsAssumption DEF Status, ItemStatus
    <2>3. batch # None
        BY <2>2 DEF Base, Orderly
    <2>4. \A q \in Request : req[q].at[i] = "left"
        BY <2>1 DEF Alone
    <2>5. ASSUME NEW q \in Request, NEW j \in Item,
                 Start(q, j) \/ Complete(q, j) \/ Fail(q, j)
          PROVE  item'[i] = item[i]
        BY <2>4, <2>5 DEF Start, Complete, Fail, Base, TypeOK
    <2>6. CASE item' = item
        BY <2>6
    <2> QED
        BY <2>3, <2>5, <2>6
           DEF Next, Proceed, Approve, Create, Retry, ListAgain, Assess, AssessFails,
               CompleteFails, Collect, Report, Crash
<1> QED
    BY <1>1, <1>2, <1>3, PTL DEF Spec, CompletedStays

\* Unless requests overlapped, what a request collected is what there is to report,
\* and the report of a request that was not cut short says just that.
Summed ==
    ~overlapped =>
        /\ \A q \in Request : req[q].collected # None =>
              /\ InFlight(q)
              /\ \A i \in Item : req[q].at[i] = "left"
              /\ req[q].collected = CompletedRuns
        /\ SummaryCurrent

\* There is nothing to report at first.
LEMMA SummedInit == Init => Summed
BY DEF Init, Summed, SummaryCurrent, Idle

\* Between what a request collects and what it reports, no item changes.
LEMMA SummedNext == Base /\ Alone /\ Summed /\ [Next]_vars => Summed'
<1> SUFFICES ASSUME Base, Alone, Summed, [Next]_vars PROVE Summed'
    OBVIOUS
<1>0. TypeOK /\ Orderly
    BY DEF Base
<1>a. ASSUME item' = item, run' = run PROVE CompletedRuns' = CompletedRuns
    BY <1>a DEF CompletedRuns, ReportedRuns, Status
<1>1. ASSUME NEW q \in Request, InFlight(q)',
             ~overlapped' => \A p \in Request : req'[p].collected = None
      PROVE  Summed'
    BY <1>1 DEF Summed, SummaryCurrent
<1>2. ASSUME UNCHANGED <<batch, item, run, overlapped, crashed>>,
             \A q \in Request : /\ req'[q].phase = req[q].phase
                                /\ req'[q].at = req[q].at
                                /\ req'[q].collected = req[q].collected
      PROVE  Summed'
    <2>1. \A q \in Request : InFlight(q)' <=> InFlight(q)
        BY <1>2 DEF InFlight
    <2> QED
        BY <1>2, <1>a, <2>1 DEF Summed, SummaryCurrent
<1>3. ASSUME NEW v \in Version, Approve(v) PROVE Summed'
    BY <1>2, <1>3 DEF Approve
<1>4. ASSUME NEW q \in Request, NEW S \in SUBSET Item, NEW width \in Nat,
             NEW allow \in {None} \cup SUBSET Version, Begin(q, S, width, allow)
      PROVE  Summed'
    <2>1. /\ \A p \in Request : p # q => req'[p] = req[p]
          /\ req'[q].phase = "inflight"
          /\ req'[q].collected = None
        BY <1>0, <1>4, Begun
    <2>2. ~overlapped' => ~overlapped /\ \A p \in Request : ~InFlight(p)
        BY <1>4 DEF Begin
    <2>3. ~overlapped' => \A p \in Request : req'[p].collected = None
        BY <2>1, <2>2 DEF Summed
    <2> QED
        BY <1>1, <2>1, <2>3 DEF InFlight
<1>5. ASSUME NEW q \in Request, Create(q) PROVE Summed'
    <2> PICK listed \in Listings : Begin(q, Item, Workers, listed)
        BY <1>5 DEF Create
    <2>1. listed \in SUBSET Version /\ Workers \in Nat
        BY <1>0, WorkersAssumption DEF Listings, TypeOK
    <2> QED
        BY <1>4, <2>1
<1>6. ASSUME NEW q \in Request, Retry(q) PROVE Summed'
    <2> PICK S \in SUBSET Item : Begin(q, S, 1, None)
        BY <1>6 DEF Retry, FailedItems
    <2> QED
        BY <1>4
<1>7. ASSUME NEW q \in Request, ListAgain(q) PROVE Summed'
    <2>1. \A p \in Request : /\ req'[p].phase = req[p].phase
                             /\ req'[p].at = req[p].at
                             /\ req'[p].collected = req[p].collected
        BY <1>0, <1>7 DEF ListAgain, TypeOK, Work
    <2> QED
        BY <1>2, <1>7, <2>1 DEF ListAgain
<1>8. ASSUME NEW q \in Request, NEW i \in Item, InFlight(q), req[q].at[i] # "left",
             overlapped' = overlapped,
             NEW to \in {"started", "assessed", "failed", "left"}, Advance(q, i, to)
      PROVE  Summed'
    <2>1. \A p \in Request : /\ req'[p].phase = req[p].phase
                             /\ req'[p].collected = req[p].collected
        BY <1>0, <1>8, Advanced
    <2>2. ~overlapped => \A p \in Request : req[p].collected = None
        BY <1>8 DEF Summed, Alone
    <2>3. InFlight(q)'
        BY <1>8, <2>1 DEF InFlight
    <2> QED
        BY <1>1, <1>8, <2>1, <2>2, <2>3
<1>9. ASSUME NEW q \in Request, NEW i \in Item,
             \/ Start(q, i) \/ Assess(q, i) \/ AssessFails(q, i)
             \/ Complete(q, i) \/ CompleteFails(q, i) \/ Fail(q, i)
      PROVE  Summed'
    BY <1>8, <1>9 DEF Start, Assess, AssessFails, Complete, CompleteFails, Fail
<1>10. ASSUME NEW q \in Request, Collect(q) PROVE Summed'
    <2>1. /\ \A p \in Request : p # q => req'[p] = req[p]
          /\ req'[q].phase = req[q].phase
          /\ req'[q].at = req[q].at
          /\ req'[q].collected = CompletedRuns
        BY <1>0, <1>10 DEF Collect, TypeOK, Work
    <2>2. InFlight(q)'
        BY <1>10, <2>1 DEF Collect, InFlight
    <2>3. \A p \in Request : p # q => (InFlight(p)' <=> InFlight(p))
        BY <2>1 DEF InFlight
    <2>4. CompletedRuns' = CompletedRuns
        BY <1>10, <1>a DEF Collect
    <2>5. \A i \in Item : req[q].at[i] = "left"
        BY <1>10 DEF Collect
    <2> QED
        BY <1>10, <2>1, <2>2, <2>3, <2>4, <2>5 DEF Collect, Summed, SummaryCurrent
<1>11. ASSUME NEW q \in Request, Report(q) PROVE Summed'
    <2>1. /\ \A p \in Request : p # q => req'[p] = req[p]
          /\ req'[q].phase = "ended"
          /\ req'[q].collected = None
        BY <1>0, <1>11, Ended DEF Report
    <2>2. batch \in BatchRow
        BY <1>0, <1>11 DEF Report, TypeOK, Orderly, InFlight
    <2>3. batch'.summary = req[q].collected
        BY <1>11, <2>2 DEF Report, NewSummary, BatchRow
    <2>4. CompletedRuns' = CompletedRuns
        BY <1>11, <1>a DEF Report
    <2>5. ~overlapped => req[q].collected = CompletedRuns
        BY <1>11 DEF Report, Summed
    <2>6. \A p \in Request : p # q => (InFlight(p)' <=> InFlight(p))
        BY <2>1 DEF InFlight
    <2> QED
        BY <1>11, <2>1, <2>3, <2>4, <2>5, <2>6 DEF Report, Summed, SummaryCurrent
<1>12. ASSUME NEW q \in Request, Crash(q) PROVE Summed'
    <2>1. /\ \A p \in Request : p # q => req'[p] = req[p]
          /\ req'[q].collected = None
        BY <1>0, <1>12, Ended DEF Crash
    <2>2. CompletedRuns' = CompletedRuns
        BY <1>12, <1>a DEF Crash
    <2>3. \A p \in Request : p # q => (InFlight(p)' <=> InFlight(p))
        BY <2>1 DEF InFlight
    <2> QED
        BY <1>12, <2>1, <2>2, <2>3 DEF Crash, Summed, SummaryCurrent
<1>13. CASE UNCHANGED vars
    BY <1>2, <1>13 DEF vars
<1> QED
    BY <1>3, <1>5, <1>6, <1>7, <1>9, <1>10, <1>11, <1>12, <1>13 DEF Next, Proceed

\* The summary of a batch at rest adds up its completed items, unless requests
\* overlapped or one was cut short.
THEOREM SummaryAddsUp == Spec => []SummaryCurrent
<1>1. Init => Base /\ Alone /\ Summed
    BY BaseInit, AloneInit, SummedInit
<1>2. Base /\ Alone /\ Summed /\ [Next]_vars => (Base /\ Alone /\ Summed)'
    BY BaseNext, AloneNext, SummedNext
<1>3. Summed => SummaryCurrent
    BY DEF Summed, SummaryCurrent
<1> QED
    BY <1>1, <1>2, <1>3, PTL DEF Spec
=============================================================================

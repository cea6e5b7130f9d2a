---------------------------- MODULE Crawl_proofs -----------------------------
(***************************************************************************)
(* Proofs about Crawl: its types, what a run may ask of a site, what the   *)
(* checkpoint says after any number of kills, what becomes of the text of  *)
(* PDF files, and that the crawl implements Ledger.                        *)
(***************************************************************************)
EXTENDS Crawl, SequenceTheorems, FiniteSetTheorems, FunctionTheorems, TLAPS

-----------------------------------------------------------------------------
(* Types *)

\* The fields of a process.
LEMMA RunFields ==
    ASSUME NEW r \in Run
    PROVE  /\ r.program \in {"crawl", "pdf"}
           /\ r.at \in {"next", "prime", "get", "try", "write", "got", "missed",
                        "parsed"}
           /\ r.page \in Page \cup {None} /\ r.kind \in {"listing", "page", "pdf"}
           /\ r.robots \in BOOLEAN
           /\ r.count \in Nat /\ r.tries \in Nat /\ r.new \in Nat
           /\ r.copy \in Copy \cup {None} /\ r.ahead \in Seq(Listing)
           /\ r.links \in SUBSET (Nat \X Url) /\ r.yielded \in SUBSET Url
           /\ r.scanned \in Nat /\ r.pass \in {"index", "amendments", "all"}
           /\ r.todo \in SUBSET Url /\ r.of \in Url \cup {None}
           /\ r # None
  BY NoneAssumption DEF Run

\* A process that goes on, with a page in hand, after a request, or with its page put
\* away, is well formed.
LEMMA EditType ==
    ASSUME NEW r \in Run,
           NEW at \in {"next", "prime", "get", "try", "write", "got", "missed",
                      "parsed"},
           NEW n \in Nat, NEW m \in Nat
    PROVE  /\ [r EXCEPT !.at = at] \in Run
           /\ [r EXCEPT !.at = "next", !.page = None, !.copy = None] \in Run
           /\ [r EXCEPT !.at = "next", !.page = None, !.copy = None, !.new = n] \in Run
           /\ [r EXCEPT !.count = n, !.at = at] \in Run
           /\ [r EXCEPT !.count = n, !.tries = m, !.at = at] \in Run
           /\ \A copy \in Copy : [r EXCEPT !.count = n, !.at = at, !.copy = copy] \in Run
           /\ \A u \in Url : [r EXCEPT !.page = u, !.kind = "page", !.tries = n,
                                      !.at = at] \in Run
<1> USE DEF Run
<1>1. [r EXCEPT !.at = at] \in Run
  OBVIOUS
<1>2. [r EXCEPT !.at = "next", !.page = None, !.copy = None] \in Run
  OBVIOUS
<1>3. [r EXCEPT !.at = "next", !.page = None, !.copy = None, !.new = n] \in Run
  OBVIOUS
<1>4. [r EXCEPT !.count = n, !.at = at] \in Run
  OBVIOUS
<1>5. [r EXCEPT !.count = n, !.tries = m, !.at = at] \in Run
  OBVIOUS
<1>6. \A copy \in Copy : [r EXCEPT !.count = n, !.at = at, !.copy = copy] \in Run
  OBVIOUS
<1>7. \A u \in Url : [r EXCEPT !.page = u, !.kind = "page", !.tries = n, !.at = at] \in Run
  BY DEF Page
<1> HIDE DEF Run
<1> QED
  BY <1>1, <1>2, <1>3, <1>4, <1>5, <1>6, <1>7

\* A process that starts is well formed.
LEMMA FreshType ==
    ASSUME NEW program \in {"crawl", "pdf"}, NEW ahead \in Seq(Listing),
           NEW pass \in {"index", "amendments", "all"}, NEW todo \in SUBSET Url,
           NEW robots \in BOOLEAN
    PROVE  Fresh(program, ahead, pass, todo, robots) \in Run
  BY DEF Fresh, Run

\* There is a first listing; the walk may start with it or with all.
LEMMA ListingsType ==
    /\ Listings \in Seq(Listing)
    /\ Head(Listings) \in Listing
    /\ <<Head(Listings)>> \in Seq(Listing)
    /\ Tail(Listings) \in Seq(Listing)
    /\ Len(Listings) \in Nat \ {0}
    /\ Len(Tail(Listings)) = Len(Listings) - 1
<1>1. Listings \in Seq(Listing) /\ Listings # << >>
  BY CrawlAssumption
<1> QED
  BY <1>1, HeadTailProperties, EmptySeq

\* What an index or a listing shows is a sequence of its kind.
LEMMA PrefixType ==
    ASSUME NEW S, NEW s \in Seq(S), NEW n \in 0..Len(s)
    PROVE  SubSeq(s, 1, n) \in Seq(S)
<1>1. \A i \in 1..n : s[i] \in S
  BY LenProperties
<1> QED
  BY <1>1, SubSeqProperties, n \in Int

\* The listings an index leads to are listings.
LEMMA ChildrenType ==
    ASSUME run \in Run, NEW n \in 0..Len(Listings) - 1
    PROVE  Children(n) \in Seq(Listing)
<1>1. SubSeq(Tail(Listings), 1, n) \in Seq(Listing)
  BY ListingsType, PrefixType
<1> QED
  BY <1>1, ListingsType DEF Children

\* The links that a listing shows: finitely many pages, each at its position.
LEMMA LinksType ==
    ASSUME run \in Run, NEW g \in Listing, NEW n \in 0..Len(LinksOf[g])
    PROVE  LinksIn(g, n) \in SUBSET (Nat \X Url) /\ IsFiniteSet(LinksIn(g, n))
<1> DEFINE shown == IF run.copy = "torn" THEN SubSeq(LinksOf[g], 1, n) ELSE LinksOf[g]
           all == IF source = "shb" THEN <<g>> \o shown ELSE shown
           pairs == {<<i, all[i]>> : i \in DOMAIN all}
<1>1. LinksOf[g] \in Seq(Page)
  BY CrawlAssumption, SeqMonotonic DEF Page
<1>2. shown \in Seq(Page)
  BY <1>1, PrefixType
<1>3. all \in Seq(Page)
  <2>1. <<g>> \in Seq(Page)
    BY DEF Page
  <2> HIDE DEF shown
  <2> QED
    BY <1>2, <2>1, ConcatProperties
<1> HIDE DEF all
<1>4. DOMAIN all = 1..Len(all) /\ Len(all) \in Nat
  BY <1>3, LenProperties
<1>5. IsFiniteSet(pairs)
  <2> DEFINE f == [i \in DOMAIN all |-> <<i, all[i]>>]
  <2>1. f \in Surjection(DOMAIN all, pairs)
    BY DEF Surjection
  <2>2. IsFiniteSet(DOMAIN all)
    BY <1>4, FS_Interval
  <2> QED
    BY <2>1, <2>2, FS_Surjection
<1>6. LinksIn(g, n) \subseteq pairs
  BY DEF LinksIn, all
<1>7. \A l \in LinksIn(g, n) : l \in Nat \X Url
  BY <1>4, CrawlAssumption DEF LinksIn, all
<1> QED
  BY <1>5, <1>6, <1>7, FS_Subset

\* What a process may rely on while it has a page in hand: the page is of the kind it
\* is taken for; a detail page is not done; a PDF file is that of an item on disk, as
\* are those ahead; and a copy that was read is there.
Process ==
    run # None =>
        /\ run.program = "crawl" => run.todo = {}
        /\ \A u \in run.todo : item[u] # None /\ item[u].pdf \in Pdf
        /\ run.at # "next" =>
             /\ run.kind = "listing" => run.page \in Listing
             /\ run.kind = "page" => /\ run.page \in Url /\ run.page \notin done
                                    /\ run.program = "crawl"
             /\ run.kind = "pdf" => /\ run.page \in Pdf /\ run.of \in Url
                                   /\ item[run.of] # None
                                   /\ item[run.of].pdf = run.page
        /\ run.at \in {"write", "got"} => run.copy \in Copy

\* Every step leaves a well-formed process, or none.
LEMMA RunType == ASSUME TypeOK, Process, Next PROVE run' \in Run \cup {None}
<1>0. run \in Run \cup {None}
  BY DEF TypeOK
<1>1. CASE StartCrawl
  <2>1. FirstListings \in Seq(Listing) /\ FirstPass \in {"index", "amendments", "all"}
    BY ListingsType DEF FirstListings, FirstPass
  <2> QED
    BY <1>1, <2>1, FreshType DEF StartCrawl
<1>2. CASE StartPdf
  <2>1. << >> \in Seq(Listing) /\ PdfTodo \in SUBSET Url
    BY EmptySeq DEF PdfTodo
  <2> QED
    BY <1>2, <2>1, FreshType DEF StartPdf
<1>3. CASE Kill \/ StopCrawl \/ GetOverBudget \/ StopPdf
  BY <1>3 DEF Kill, StopCrawl, GetOverBudget, StopPdf
<1>4. CASE SecondPass \/ OpenListing
  <2>1. run \in Run
    BY <1>0, <1>4 DEF SecondPass, OpenListing, Choosing, At
  <2>2. CASE SecondPass
    BY <2>1, <2>2, ListingsType DEF SecondPass, Run
  <2>3. CASE OpenListing
    <3>1. Head(run.ahead) \in Listing /\ Tail(run.ahead) \in Seq(Listing)
      BY <2>1, <2>3, RunFields, HeadTailProperties DEF OpenListing
    <3> QED
      BY <2>1, <2>3, <3>1 DEF OpenListing, Run, Page
  <2> QED
    BY <1>4, <2>2, <2>3
<1>5. CASE PassOver \/ Yield
  <2>1. run \in Run
    BY <1>0, <1>5 DEF PassOver, Yield, Choosing, At
  <2>2. \A l \in NextLinks : l[2] \in Url
    BY <2>1, RunFields DEF NextLinks
  <2>3. CASE PassOver
    BY <2>1, <2>3 DEF PassOver, NextLinks, Run
  <2>4. CASE Yield
    <3>1. PICK l \in NextLinks :
             run' = IF l[2] \in Skipped
                    THEN [run EXCEPT !.links = @ \ {l}, !.yielded = @ \cup {l[2]}]
                    ELSE [[run EXCEPT !.links = @ \ {l}, !.yielded = @ \cup {l[2]}]
                            EXCEPT !.page = l[2], !.kind = "page", !.tries = 0,
                                   !.at = IF WantsStub(l[2]) THEN "prime" ELSE "get"]
      BY <2>4 DEF Yield
    <3>2. [run EXCEPT !.links = @ \ {l}, !.yielded = @ \cup {l[2]}] \in Run
      BY <2>1, <2>2 DEF Run
    <3> QED
      BY <2>2, <3>1, <3>2, EditType
  <2> QED
    BY <1>5, <2>3, <2>4
<1>6. CASE PrimeOpen \/ PrimeClose \/ CacheOpen \/ CacheClose
  <2>1. run \in Run
    BY <1>0, <1>6 DEF PrimeOpen, PrimeClose, CacheOpen, CacheClose, At
  <2>2. CASE PrimeOpen \/ CacheOpen
    BY <2>1, <2>2 DEF PrimeOpen, CacheOpen
  <2>3. CASE PrimeClose
    BY <2>1, <2>3, EditType DEF PrimeClose
  <2>4. CASE CacheClose
    BY <2>1, <2>4, EditType DEF CacheClose
  <2> QED
    BY <1>6, <2>2, <2>3, <2>4
<1>7. CASE GetCached
  <2>1. run \in Run
    BY <1>0, <1>7 DEF GetCached, At
  <2>2. raw[run.page] \in Copy \cup {None}
    BY <1>7, <2>1, RunFields DEF GetCached, TypeOK, Process, At, Page
  <2> QED
    BY <1>7, <2>1, <2>2 DEF GetCached, Run
<1>8. CASE GetDisallowed \/ GetAllowed \/ TryOk \/ TryRefused \/ TryAgain
  <2>1. run \in Run
    BY <1>0, <1>8 DEF GetDisallowed, GetAllowed, TryOk, TryRefused, TryAgain, At
  <2>2. Answers \subseteq Copy
    BY DEF Answers, Copy
  <2>3. CASE GetDisallowed \/ GetAllowed
    BY <2>1, <2>3, EditType DEF GetDisallowed, GetAllowed
  <2>4. run.count + 1 \in Nat /\ run.tries + 1 \in Nat
    BY <2>1, RunFields
  <2> DEFINE n == run.count + 1
             m == run.tries + 1
             next == IF MoreTries THEN "try" ELSE "missed"
  <2>5. n \in Nat /\ m \in Nat
    BY <2>4
  <2>6. next \in {"try", "missed"}
    OBVIOUS
  <2>7. CASE TryRefused
    <3>1. run' = [run EXCEPT !.count = n, !.at = "missed"]
      BY <2>7 DEF TryRefused
    <3> HIDE DEF n
    <3> QED
      BY <2>1, <2>5, <3>1, EditType
  <2>8. CASE TryOk
    <3>1. PICK copy \in Answers :
             run' = [run EXCEPT !.count = n, !.at = "write", !.copy = copy]
      BY <2>8 DEF TryOk
    <3> HIDE DEF n
    <3> QED
      BY <2>1, <2>2, <2>5, <3>1, EditType
  <2>9. CASE TryAgain
    <3>1. run' = [run EXCEPT !.count = n, !.tries = m, !.at = next]
      BY <2>9 DEF TryAgain
    <3> HIDE DEF n, m, next
    <3> QED
      BY <2>1, <2>5, <2>6, <3>1, EditType
  <2> QED
    BY <1>8, <2>3, <2>7, <2>8, <2>9
<1>9. CASE ReadIndex \/ ReadListing \/ MissListing
  <2>1. run \in Run /\ run.kind = "listing"
    BY <1>0, <1>9 DEF ReadIndex, ReadListing, MissListing, At, Holds
  <2>2. ASSUME NEW ahead \in Seq(Listing), NEW links \in SUBSET (Nat \X Url),
               NEW scanned \in Nat
        PROVE  Listed(ahead, links, scanned) \in Run
    BY <2>1 DEF Listed, Run
  <2>3. << >> \in Seq(Listing) /\ run.ahead \in Seq(Listing) /\ run.scanned \in Nat
    BY <2>1, RunFields, EmptySeq
  <2>4. CASE ReadIndex
    BY <2>1, <2>2, <2>4, ChildrenType DEF ReadIndex
  <2>5. CASE MissListing
    <3> DEFINE ahead == CASE run.pass = "index" -> <<Head(Listings)>>
                          [] source = "sbv" -> << >>
                          [] source = "shb" /\ run.page = Head(Listings) -> << >>
                          [] OTHER -> run.ahead
    <3>1. ahead \in Seq(Listing)
      BY <2>3, ListingsType
    <3>2. run' = Listed(ahead, {}, run.scanned)
      BY <2>5 DEF MissListing
    <3> HIDE DEF ahead
    <3> QED
      BY <2>2, <2>3, <3>1, <3>2
  <2>6. CASE ReadListing
    <3>1. PICK n \in 0..Len(LinksOf[run.page]) :
             LET links == IF run.copy = "challenge" THEN {} ELSE LinksIn(run.page, n)
                 scan == Scan(links)
             IN  run' = Listed(IF WalkEnds(n, links) THEN << >> ELSE run.ahead,
                               {l \in scan : InPass(l[2])},
                               run.scanned + Cardinality(scan))
      BY <2>6 DEF ReadListing
    <3> DEFINE links == IF run.copy = "challenge" THEN {} ELSE LinksIn(run.page, n)
               scan == Scan(links)
    <3>2. run.page \in Listing
      BY <2>6, <2>1, <1>0 DEF ReadListing, Process, At
    <3>3. links \in SUBSET (Nat \X Url) /\ IsFiniteSet(links)
      BY <2>1, <3>2, LinksType, FS_EmptySet
    <3>4. scan \in SUBSET links
      BY DEF Scan
    <3>5. Cardinality(scan) \in Nat
      BY <3>3, <3>4, FS_Subset, FS_CardinalityType
    <3> HIDE DEF links, scan
    <3>6. {l \in scan : InPass(l[2])} \in SUBSET (Nat \X Url)
      BY <3>3, <3>4
    <3>7. run.scanned + Cardinality(scan) \in Nat
      BY <2>3, <3>5
    <3>8. (IF WalkEnds(n, links) THEN << >> ELSE run.ahead) \in Seq(Listing)
      BY <2>3
    <3> QED
      BY <2>2, <3>1, <3>6, <3>7, <3>8 DEF links, scan
  <2> QED
    BY <1>9, <2>4, <2>5, <2>6
<1>10. CASE \E u \in Url : TakePdf(u)
  <2>1. PICK u \in Url : TakePdf(u)
    BY <1>10
  <2>2. run \in Run
    BY <1>0, <2>1 DEF TakePdf, At
  <2>3. item[u].pdf \in Pdf
    BY <2>1, <2>2, RunFields DEF TakePdf, Process
  <2> QED
    BY <2>1, <2>2, <2>3 DEF TakePdf, Run, Page
<1>11. CASE MarkFailed \/ MarkPdfFailed \/ MarkPdfDone
  <2>1. run \in Run
    BY <1>0, <1>11 DEF MarkFailed, MarkPdfFailed, MarkPdfDone, Holds
  <2> QED
    BY <1>11, <2>1, EditType DEF MarkFailed, MarkPdfFailed, MarkPdfDone, Proceed
<1>12. CASE WriteItem \/ WriteText
  <2>1. run \in Run
    BY <1>0, <1>12 DEF WriteItem, WriteText, Holds
  <2> QED
    BY <1>12, <2>1, EditType DEF WriteItem, WriteText
<1>13. CASE MarkDone
  <2>1. run \in Run
    BY <1>0, <1>13 DEF MarkDone, Holds
  <2> DEFINE n == run.new + 1
  <2>2. n \in Nat
    BY <2>1, RunFields
  <2>3. run' = [run EXCEPT !.at = "next", !.page = None, !.copy = None, !.new = n]
    BY <1>13 DEF MarkDone
  <2> HIDE DEF n
  <2> QED
    BY <2>1, <2>2, <2>3, EditType
<1> QED
  BY <1>1, <1>2, <1>3, <1>4, <1>5, <1>6, <1>7, <1>8, <1>9, <1>10, <1>11, <1>12, <1>13
  DEF Next, Work

\* The rest of what a step leaves is well formed: what the disk holds.
LEMMA DiskType ==
    ASSUME TypeOK, Process, Next
    PROVE  /\ raw' \in [Page -> Copy \cup {None}] /\ item' \in [Url -> Item \cup {None}]
           /\ source' = source /\ crashes' \in 0..MaxCrashes
           /\ done' \subseteq Url /\ failed' \subseteq Url
           /\ pdfDone' \subseteq Pdf /\ pdfFailed' \subseteq Pdf
<1>0. run \in Run \cup {None}
  BY DEF TypeOK
<1>1. CASE Kill
  BY <1>1, CrawlAssumption DEF Kill, TypeOK, disk
<1>2. CASE PrimeOpen \/ PrimeClose \/ CacheOpen \/ CacheClose
  <2>1. run.page \in Page /\ "torn" \in Copy /\ "whole" \in Copy
    BY <1>0, <1>2, RunFields DEF PrimeOpen, PrimeClose, CacheOpen, CacheClose, At, Process,
                                Page, Copy
  <2>2. CacheClose => run.copy \in Copy
    BY DEF CacheClose, At, Process
  <2> QED
    BY <1>2, <2>1, <2>2 DEF PrimeOpen, PrimeClose, CacheOpen, CacheClose, TypeOK
<1>3. CASE MarkFailed \/ MarkDone
  <2>1. run.page \in Url
    BY <1>0, <1>3, RunFields DEF MarkFailed, MarkDone, At, Holds, Process
  <2> QED
    BY <1>3, <2>1 DEF MarkFailed, MarkDone, FailedLeft, TypeOK
<1>4. CASE WriteItem
  <2>1. run \in Run /\ run.page \in Url /\ run.copy \in Copy
    BY <1>0, <1>4, RunFields DEF WriteItem, At, Holds, Process
  <2>2. Parse \subseteq Item \cup {None}
    <3>1. PdfOf[run.page] \in Pdf \cup {None}
      BY <2>1, CrawlAssumption
    <3>2. \A f \in Pdf \cup {None} : [page |-> run.copy, pdf |-> f, text |-> FALSE] \in Item
      BY <2>1 DEF Item
    <3>3. ParseVbpl \cup ParseTvpl \cup ParseShb \subseteq Item \cup {None}
      BY <3>2 DEF ParseVbpl, ParseTvpl, ParseShb
    <3>4. FindPdf(run.page) \subseteq Pdf \cup {None}
      BY <3>1 DEF FindPdf
    <3>5. ParseSbv \subseteq Item \cup {None}
      BY <3>2, <3>4 DEF ParseSbv
    <3> QED
      BY <3>3, <3>5 DEF Parse
  <2>3. PICK parsed \in Parse \ {None} : item' = [item EXCEPT ![run.page] = parsed]
    BY <1>4 DEF WriteItem
  <2>4. item' \in [Url -> Item \cup {None}]
    BY <2>2, <2>3 DEF TypeOK
  <2> QED
    BY <1>4, <2>4 DEF WriteItem, TypeOK
<1>5. CASE WriteText
  <2>1. run.of \in Url /\ item[run.of] \in Item
    BY <1>0, <1>5, RunFields DEF WriteText, At, Holds, Process, TypeOK
  <2>2. [item[run.of] EXCEPT !.text = TRUE] \in Item
    BY <2>1 DEF Item
  <2>3. item' = [item EXCEPT ![run.of] = [item[run.of] EXCEPT !.text = TRUE]]
    BY <1>5 DEF WriteText
  <2>4. item' \in [Url -> Item \cup {None}]
    BY <2>2, <2>3 DEF TypeOK
  <2> QED
    BY <1>5, <2>4 DEF WriteText, TypeOK
<1>6. CASE MarkPdfFailed \/ MarkPdfDone
  <2>1. run.page \in Pdf
    BY <1>0, <1>6, RunFields DEF MarkPdfFailed, MarkPdfDone, At, Holds, Process
  <2> QED
    BY <1>6, <2>1 DEF MarkPdfFailed, MarkPdfDone, TypeOK
<1>7. CASE UNCHANGED <<disk, crashes>>
  BY <1>7 DEF disk, TypeOK
<1> QED
  BY <1>1, <1>2, <1>3, <1>4, <1>5, <1>6, <1>7
  DEF Next, Work, StartCrawl, StartPdf, StopCrawl, SecondPass, OpenListing, PassOver, Yield,
      GetCached, GetDisallowed, GetOverBudget, GetAllowed, TryOk, TryRefused, TryAgain,
      ReadIndex, ReadListing, MissListing, StopPdf, TakePdf

\* The program goes on, with no items ahead but those it had.
Same(r, s) == r.program = s.program /\ r.todo \subseteq s.todo

\* A step of a process that goes on takes a page in hand, keeps the one it has, or puts
\* it away.
LEMMA Hand ==
    ASSUME TypeOK, Process, Next, run # None, run' # None
    PROVE  /\ run \in Run /\ run' \in Run /\ Same(run', run)
           /\ \/ run'.at = "next"
              \/ /\ run.at = "next" /\ run'.kind = "listing" /\ run'.page \in Listing
                 /\ run'.at = "get" /\ OpenListing
              \/ /\ run.at = "next" /\ run'.kind = "page" /\ run'.page \in Url \ done
                 /\ run'.program = "crawl" /\ run'.at \in {"get", "prime"} /\ Yield
              \/ /\ run.at = "next" /\ run'.kind = "pdf" /\ run'.of \in run.todo
                 /\ run'.page = item[run'.of].pdf /\ run'.at = "get"
                 /\ \E u \in Url : TakePdf(u)
              \/ /\ run.at # "next" /\ run'.at # "next" /\ run'.page = run.page
                 /\ run'.kind = run.kind /\ run'.of = run.of
<1>0. run \in Run /\ run' \in Run
  BY RunType DEF TypeOK
<1>1. CASE StartCrawl \/ StartPdf \/ Kill \/ StopCrawl \/ GetOverBudget \/ StopPdf
  BY <1>1 DEF StartCrawl, StartPdf, Kill, StopCrawl, GetOverBudget, StopPdf
<1>2. CASE SecondPass \/ PassOver
  BY <1>0, <1>2 DEF SecondPass, PassOver, Choosing, At, Run, Same
<1>3. CASE OpenListing
  <2>1. Head(run.ahead) \in Listing
    BY <1>0, <1>3, RunFields, HeadTailProperties DEF OpenListing
  <2> QED
    BY <1>0, <1>3, <2>1 DEF OpenListing, Choosing, At, Run, Same
<1>4. CASE Yield
  <2>1. PICK l \in NextLinks :
           run' = IF l[2] \in Skipped
                  THEN [run EXCEPT !.links = @ \ {l}, !.yielded = @ \cup {l[2]}]
                  ELSE [[run EXCEPT !.links = @ \ {l}, !.yielded = @ \cup {l[2]}]
                          EXCEPT !.page = l[2], !.kind = "page", !.tries = 0,
                                 !.at = IF WantsStub(l[2]) THEN "prime" ELSE "get"]
    BY <1>4 DEF Yield
  <2>2. l[2] \in Url
    BY <1>0, RunFields DEF NextLinks
  <2>3. run.at = "next" /\ run.program = "crawl"
    BY <1>4 DEF Yield, Choosing, At, Running
  <2>4. CASE l[2] \in Skipped
    BY <1>0, <2>1, <2>3, <2>4 DEF Run, Same
  <2>5. CASE l[2] \notin Skipped
    BY <1>0, <1>4, <2>1, <2>2, <2>3, <2>5 DEF Run, Same, Skipped
  <2> QED
    BY <2>4, <2>5
<1>5. CASE PrimeOpen \/ CacheOpen
  BY <1>0, <1>5 DEF PrimeOpen, CacheOpen, At, Same
<1>6. CASE PrimeClose \/ CacheClose
  BY <1>0, <1>6 DEF PrimeClose, CacheClose, At, Same, Run
<1>7. CASE GetCached \/ GetDisallowed \/ GetAllowed
  BY <1>0, <1>7 DEF GetCached, GetDisallowed, GetAllowed, At, Same, Run
<1>8. CASE TryOk \/ TryRefused \/ TryAgain
  BY <1>0, <1>8 DEF TryOk, TryRefused, TryAgain, At, Same, Run
<1>9. CASE ReadIndex \/ ReadListing \/ MissListing
  <2>1. \E ahead, links, scanned : run' = Listed(ahead, links, scanned)
    BY <1>9 DEF ReadIndex, ReadListing, MissListing
  <2> QED
    BY <1>0, <2>1 DEF Listed, Same, Run
<1>10. CASE \E u \in Url : TakePdf(u)
  <2>1. PICK u \in Url : TakePdf(u)
    BY <1>10
  <2> QED
    BY <1>0, <2>1 DEF TakePdf, At, Same, Run
<1>11. CASE MarkFailed \/ MarkPdfFailed \/ MarkPdfDone \/ MarkDone
  BY <1>0, <1>11 DEF MarkFailed, MarkPdfFailed, MarkPdfDone, MarkDone, Proceed, Same, Run
<1>12. CASE WriteItem \/ WriteText
  BY <1>0, <1>12 DEF WriteItem, WriteText, At, Same, Run
<1> QED
  BY <1>1, <1>2, <1>3, <1>4, <1>5, <1>6, <1>7, <1>8, <1>9, <1>10, <1>11, <1>12
  DEF Next, Work

\* An item, once stored, stays, with the file it names unless it is written anew.
LEMMA ItemsKept ==
    ASSUME TypeOK, Process, Next, NEW u \in Url, item[u] # None
    PROVE  /\ item'[u] # None
           /\ ~(WriteItem /\ u = run.page) =>
                /\ item'[u].pdf = item[u].pdf /\ item'[u].page = item[u].page
                /\ item[u].text => item'[u].text
<1>1. CASE WriteItem
  <2>1. PICK parsed \in Parse \ {None} : item' = [item EXCEPT ![run.page] = parsed]
    BY <1>1 DEF WriteItem
  <2> QED
    BY <1>1, <2>1 DEF TypeOK
<1>2. CASE WriteText
  <2>1. run.of \in Url /\ item[run.of] \in Item
    BY <1>2 DEF WriteText, At, Holds, Process, TypeOK
  <2>2. [item[run.of] EXCEPT !.text = TRUE] \in Item
    BY <2>1 DEF Item
  <2>3. item' = [item EXCEPT ![run.of] = [item[run.of] EXCEPT !.text = TRUE]]
    BY <1>2 DEF WriteText
  <2>4. item[u] \in Item /\ item' \in [Url -> Item \cup {None}]
    BY <2>1, <2>2, <2>3 DEF TypeOK
  <2>5. CASE u = run.of
    <3>1. item'[u] = [item[u] EXCEPT !.text = TRUE]
      BY <2>1, <2>3, <2>5 DEF TypeOK
    <3>2. item'[u] \in Item /\ item'[u].pdf = item[u].pdf /\ item'[u].page = item[u].page
      BY <2>4, <3>1 DEF Item
    <3>3. item'[u].text
      BY <2>4, <3>1 DEF Item
    <3> QED
      BY <3>2, <3>3, NoneAssumption
  <2>6. CASE u # run.of
    <3>1. item'[u] = item[u]
      BY <2>3, <2>6 DEF TypeOK
    <3> QED
      BY <3>1
  <2> QED
    BY <2>5, <2>6
<1>3. CASE UNCHANGED item
  BY <1>3
<1> QED
  BY <1>1, <1>2, <1>3
  DEF Next, Work, StartCrawl, StartPdf, Kill, StopCrawl, SecondPass, OpenListing, PassOver,
      Yield, PrimeOpen, PrimeClose, GetCached, GetDisallowed, GetOverBudget, GetAllowed,
      TryOk, TryRefused, TryAgain, CacheOpen, CacheClose, ReadIndex, ReadListing,
      MissListing, MarkFailed, MarkDone, StopPdf, TakePdf, MarkPdfFailed, MarkPdfDone, disk

\* Where a copy that is read or to be written comes from: the cache, or an answer.
LEMMA CopyKept ==
    ASSUME TypeOK, Process, Next, run # None, run' # None, run'.at \in {"write", "got"}
    PROVE  \/ run.at \in {"write", "got"} /\ run'.copy = run.copy
           \/ GetCached /\ run'.copy = raw[run.page] /\ run'.copy \in Copy
           \/ TryOk /\ run'.copy \in Answers
<1>0. run \in Run /\ run' \in Run
  BY RunType DEF TypeOK
<1>1. CASE StartCrawl \/ StartPdf \/ Kill \/ StopCrawl \/ GetOverBudget \/ StopPdf
  BY <1>1 DEF StartCrawl, StartPdf, Kill, StopCrawl, GetOverBudget, StopPdf
<1>2. CASE GetCached
  <2>1. raw[run.page] \in Copy
    BY <1>0, <1>2, RunFields DEF GetCached, TypeOK, Process, At, Page
  <2> QED
    BY <1>0, <1>2, <2>1 DEF GetCached, Run
<1>3. CASE TryOk
  BY <1>0, <1>3 DEF TryOk, Run
<1>4. CASE PrimeOpen \/ CacheOpen \/ CacheClose
  BY <1>0, <1>4 DEF PrimeOpen, CacheOpen, CacheClose, At, Run
<1>5. CASE SecondPass \/ PassOver \/ OpenListing \/ Yield \/ (\E u \in Url : TakePdf(u))
  <2>1. run.at = "next"
    BY <1>5 DEF SecondPass, PassOver, OpenListing, Yield, TakePdf, Choosing, At
  <2> QED
    BY <2>1, Hand
<1>6. CASE ReadIndex \/ ReadListing \/ MissListing
  <2>1. \E ahead, links, scanned : run' = Listed(ahead, links, scanned)
    BY <1>6 DEF ReadIndex, ReadListing, MissListing
  <2> QED
    BY <1>0, <2>1 DEF Listed, Run
<1>7. CASE MarkFailed \/ MarkDone \/ MarkPdfFailed \/ MarkPdfDone
  BY <1>0, <1>7 DEF MarkFailed, MarkDone, MarkPdfFailed, MarkPdfDone, Proceed, Run
<1>8. CASE PrimeClose \/ GetDisallowed \/ GetAllowed \/ WriteItem \/ WriteText
  BY <1>0, <1>8 DEF PrimeClose, GetDisallowed, GetAllowed, WriteItem, WriteText, Run
<1>9. CASE TryRefused \/ TryAgain
  BY <1>0, <1>9 DEF TryRefused, TryAgain, Run
<1> QED
  BY <1>1, <1>2, <1>3, <1>4, <1>5, <1>6, <1>7, <1>8, <1>9 DEF Next, Work

\* Only an entry in the checkpoint makes a page done, and the page is then put away.
LEMMA DoneGrows ==
    ASSUME TypeOK, Process, Next
    PROVE  done' = done \/ (MarkDone /\ done' = done \cup {run.page} /\ run'.at = "next")
<1>1. CASE MarkDone
  <2>1. run \in Run
    BY <1>1 DEF MarkDone, At, TypeOK
  <2> QED
    BY <1>1, <2>1 DEF MarkDone, Run
<1>2. CASE UNCHANGED done
  BY <1>2
<1> QED
  BY <1>1, <1>2
  DEF Next, Work, StartCrawl, StartPdf, Kill, StopCrawl, SecondPass, OpenListing, PassOver,
      Yield, PrimeOpen, PrimeClose, GetCached, GetDisallowed, GetOverBudget, GetAllowed,
      TryOk, TryRefused, TryAgain, CacheOpen, CacheClose, ReadIndex, ReadListing,
      MissListing, MarkFailed, WriteItem, StopPdf, TakePdf, MarkPdfFailed, WriteText,
      MarkPdfDone, disk

\* A step keeps what a process relies on.
LEMMA ProcessKept == ASSUME TypeOK, Process, Next PROVE Process'
<1>1. CASE run' = None
  BY <1>1 DEF Process
<1>2. CASE run = None /\ run' # None
  <2>1. CASE StartCrawl
    BY <2>1 DEF StartCrawl, Process, Fresh
  <2>2. CASE StartPdf
    <3>1. \A u \in PdfTodo : item[u] # None /\ item[u].pdf \in Pdf
      BY DEF PdfTodo, TypeOK, Item
    <3> QED
      BY <2>2, <3>1 DEF StartPdf, Process, Fresh, disk
  <2> QED
    BY <1>2, <2>1, <2>2
    DEF Next, Work, Kill, StopCrawl, SecondPass, OpenListing, PassOver,
        Yield, PrimeOpen, PrimeClose, GetCached, GetDisallowed, GetOverBudget, GetAllowed,
        TryOk, TryRefused, TryAgain, CacheOpen, CacheClose, ReadIndex, ReadListing,
        MissListing, MarkFailed, MarkDone, WriteItem, StopPdf, TakePdf, MarkPdfFailed,
        WriteText, MarkPdfDone, Choosing, At, Holds
<1>3. CASE run # None /\ run' # None
  <2>1. run.todo \subseteq Url /\ run'.todo \subseteq run.todo /\ run'.program = run.program
    BY <1>3, Hand, RunFields DEF Same
  <2>2. WriteItem => run.program = "crawl" /\ run.kind = "page" /\ run.at # "next"
    BY DEF WriteItem, At, Holds, Process
  <2>3. \A u \in run'.todo : item'[u] # None /\ item'[u].pdf \in Pdf
    BY <1>3, <2>1, <2>2, ItemsKept DEF Process
  <2>4. run'.at \in {"write", "got"} => run'.copy \in Copy
    <3>1. Answers \subseteq Copy
      BY DEF Answers, Copy
    <3> QED
      BY <1>3, <3>1, CopyKept DEF Process
  <2>5. ASSUME run'.at # "next", run'.kind = "page"
        PROVE  run'.page \in Url /\ run'.page \notin done' /\ run'.program = "crawl"
    BY <1>3, <2>1, <2>5, Hand, DoneGrows DEF Process
  <2>6. ASSUME run'.at # "next", run'.kind = "listing"
        PROVE  run'.page \in Listing
    BY <1>3, <2>6, Hand DEF Process
  <2>7. ASSUME run'.at # "next", run'.kind = "pdf"
        PROVE  /\ run'.page \in Pdf /\ run'.of \in Url
               /\ item'[run'.of] # None /\ item'[run'.of].pdf = run'.page
    <3>1. CASE run.at = "next"
      <4>1. run'.of \in run.todo /\ run'.page = item[run'.of].pdf /\ ~WriteItem
        BY <1>3, <2>2, <2>7, <3>1, Hand
      <4> QED
        BY <2>1, <4>1, <1>3, ItemsKept DEF Process
    <3>2. CASE run.at # "next"
      <4>1. run.kind = "pdf" /\ run'.of = run.of /\ run'.page = run.page /\ ~WriteItem
        BY <1>3, <2>2, <2>7, <3>2, Hand
      <4> QED
        BY <4>1, <1>3, <3>2, ItemsKept DEF Process
    <3> QED
      BY <3>1, <3>2
  <2>8. run'.program = "crawl" => run'.todo = {}
    BY <1>3, <2>1 DEF Process
  <2> QED
    BY <2>3, <2>4, <2>5, <2>6, <2>7, <2>8 DEF Process
<1> QED
  BY <1>1, <1>2, <1>3

\* TypeCorrect: the crawl, its process and its files are always of their types, and a
\* page in hand is always of the kind that run_source or harvest takes it for.
THEOREM TypeCorrect == Spec => [](TypeOK /\ Process)
<1>1. Init => TypeOK /\ Process
  BY CrawlAssumption DEF Init, TypeOK, Process
<1>2. TypeOK /\ Process /\ [Next]_vars => (TypeOK /\ Process)'
  <2> SUFFICES ASSUME TypeOK, Process, [Next]_vars PROVE (TypeOK /\ Process)'
    OBVIOUS
  <2>1. CASE Next
    BY <2>1, RunType, DiskType, ProcessKept DEF TypeOK
  <2>2. CASE UNCHANGED vars
    BY <2>2 DEF vars, disk, TypeOK, Process
  <2> QED
    BY <2>1, <2>2
<1> QED
  BY <1>1, <1>2, PTL DEF Spec

-----------------------------------------------------------------------------
(* The checkpoint *)

\* Only shb takes in the page of a bot guard.
Guarded ==
    /\ \A g \in Page : raw[g] = "challenge" => source = "shb"
    /\ run # None /\ run.at \in {"write", "got"} /\ run.copy = "challenge"
          => source = "shb"

Sound(u) == item[u] # None /\ (item[u].page = "challenge" => u \in Files)

\* A page whose item is written and whose entry is not: the item is there, made of what
\* was read, or with the text of its file.
Parsed ==
    run # None /\ run.at = "parsed" =>
        /\ run.kind = "page" => Sound(run.page)
        /\ run.kind = "pdf" => item[run.of].text

Checkpoint == Guarded /\ Parsed /\ CheckpointSound

\* A page becomes parsed when its item is written, or the text of its file.
LEMMA ParsedFrom ==
    ASSUME TypeOK, Process, Next, run' # None, run'.at = "parsed"
    PROVE  (WriteItem \/ WriteText) /\ run'.page = run.page /\ run'.kind = run.kind
                                    /\ run'.of = run.of /\ run.at = "got" /\ run # None
<1>0. run \in Run \cup {None} /\ run' \in Run
  BY RunType DEF TypeOK
<1>1. CASE StartCrawl \/ StartPdf \/ Kill \/ StopCrawl \/ GetOverBudget \/ StopPdf
  BY <1>1 DEF StartCrawl, StartPdf, Kill, StopCrawl, GetOverBudget, StopPdf, Fresh
<1>2. CASE SecondPass \/ PassOver \/ OpenListing \/ Yield \/ (\E u \in Url : TakePdf(u))
  <2>1. run # None /\ run.at = "next"
    BY <1>2 DEF SecondPass, PassOver, OpenListing, Yield, TakePdf, Choosing, At
  <2> QED
    BY <2>1, Hand
<1>3. CASE PrimeOpen \/ PrimeClose \/ CacheOpen \/ CacheClose
  BY <1>0, <1>3 DEF PrimeOpen, PrimeClose, CacheOpen, CacheClose, At, Run
<1>4. CASE GetCached \/ GetDisallowed \/ GetAllowed \/ TryOk \/ TryRefused \/ TryAgain
  BY <1>0, <1>4 DEF GetCached, GetDisallowed, GetAllowed, TryOk, TryRefused, TryAgain, At, Run
<1>5. CASE ReadIndex \/ ReadListing \/ MissListing
  <2>1. run # None /\ \E ahead, links, scanned : run' = Listed(ahead, links, scanned)
    BY <1>5 DEF ReadIndex, ReadListing, MissListing, At
  <2> QED
    BY <1>0, <2>1 DEF Listed, Run
<1>6. CASE MarkFailed \/ MarkDone \/ MarkPdfFailed \/ MarkPdfDone
  BY <1>0, <1>6 DEF MarkFailed, MarkDone, MarkPdfFailed, MarkPdfDone, Proceed, Holds, Run
<1>7. CASE WriteItem \/ WriteText
  BY <1>0, <1>7 DEF WriteItem, WriteText, At, Run
<1> QED
  BY <1>1, <1>2, <1>3, <1>4, <1>5, <1>6, <1>7 DEF Next, Work

\* What parsing makes of a page that was read: an item of a challenge only when the page
\* is a file.
LEMMA ParseSound ==
    ASSUME TypeOK, Process, Guarded, At("got"), Holds("page"), NEW parsed \in Parse \ {None}
    PROVE  parsed.page = "challenge" => run.page \in Files
<1>1. parsed.page = run.copy
  BY DEF Parse, ParseVbpl, ParseTvpl, ParseShb, ParseSbv
<1>2. source # "shb" => run.copy # "challenge"
  BY DEF Guarded, At
<1>3. source = "shb" => (run.page \in Files \/ run.copy # "challenge")
  BY DEF Parse, ParseShb
<1> QED
  BY <1>1, <1>2, <1>3

\* A step lets in the page of a bot guard at shb only.
LEMMA GuardedKept == ASSUME TypeOK, Process, Guarded, Next PROVE Guarded'
<1>0. source' = source
  BY DiskType
<1>1. \A g \in Page : raw'[g] = "challenge" => source = "shb"
  <2>1. CASE PrimeOpen \/ PrimeClose \/ CacheOpen
    BY <2>1 DEF PrimeOpen, PrimeClose, CacheOpen, TypeOK, Guarded
  <2>2. CASE CacheClose
    BY <2>2 DEF CacheClose, TypeOK, Guarded, At
  <2>3. CASE UNCHANGED raw
    BY <2>3 DEF Guarded
  <2> QED
    BY <2>1, <2>2, <2>3
    DEF Next, Work, StartCrawl, StartPdf, Kill, StopCrawl, SecondPass, OpenListing, PassOver,
        Yield, GetCached, GetDisallowed, GetOverBudget, GetAllowed, TryOk, TryRefused,
        TryAgain, ReadIndex, ReadListing, MissListing, MarkFailed, WriteItem, MarkDone,
        StopPdf, TakePdf, MarkPdfFailed, WriteText, MarkPdfDone, disk
<1>2. run' # None /\ run'.at \in {"write", "got"} /\ run'.copy = "challenge"
          => source = "shb"
  <2> SUFFICES ASSUME run' # None, run'.at \in {"write", "got"}, run'.copy = "challenge"
               PROVE  source = "shb"
    OBVIOUS
  <2>1. CASE run = None
    BY <2>1 DEF Next, Work, StartCrawl, StartPdf, Kill, StopCrawl, SecondPass, OpenListing,
        PassOver, Yield, PrimeOpen, PrimeClose, GetCached, GetDisallowed, GetOverBudget,
        GetAllowed, TryOk, TryRefused, TryAgain, CacheOpen, CacheClose, ReadIndex,
        ReadListing, MissListing, MarkFailed, MarkDone, WriteItem, StopPdf, TakePdf,
        MarkPdfFailed, WriteText, MarkPdfDone, Choosing, At, Holds, Fresh
  <2>2. CASE run # None
    <3>1. GetCached => run.page \in Page
      <4>1. GetCached => run.at = "get"
        BY DEF GetCached, At
      <4>2. run \in Run
        BY <2>2 DEF TypeOK
      <4> QED
        BY <2>2, <4>1, <4>2, RunFields DEF Process, Page
    <3> QED
      BY <2>2, <3>1, CopyKept DEF Guarded, Answers
  <2> QED
    BY <2>1, <2>2
<1> QED
  BY <1>0, <1>1, <1>2 DEF Guarded

\* The item that is in hand when a step has written it, or its text, is sound.
LEMMA ParsedKept == ASSUME TypeOK, Process, Guarded, Next PROVE Parsed'
<1> SUFFICES ASSUME run' # None, run'.at = "parsed"
             PROVE  /\ run'.kind = "page" =>
                         /\ item'[run'.page] # None
                         /\ item'[run'.page].page = "challenge" => run'.page \in Files
                    /\ run'.kind = "pdf" => item'[run'.of].text
  BY DEF Parsed, Sound
<1>1. (WriteItem \/ WriteText) /\ run'.page = run.page /\ run'.kind = run.kind
      /\ run'.of = run.of
  BY ParsedFrom
<1>2. CASE WriteItem
  <2>1. run.kind = "page" /\ run.page \in Url
    BY <1>2 DEF WriteItem, At, Holds, Process
  <2>2. PICK parsed \in Parse \ {None} : item' = [item EXCEPT ![run.page] = parsed]
    BY <1>2 DEF WriteItem
  <2>3. parsed.page = "challenge" => run.page \in Files
    BY <1>2, ParseSound DEF WriteItem
  <2> QED
    BY <1>1, <2>1, <2>2, <2>3 DEF Sound, TypeOK
<1>3. CASE WriteText
  <2>1. run.kind = "pdf" /\ run.of \in Url /\ item[run.of] \in Item
    BY <1>3 DEF WriteText, At, Holds, Process, TypeOK
  <2>2. item'[run.of] = [item[run.of] EXCEPT !.text = TRUE]
    BY <1>3, <2>1 DEF WriteText, TypeOK
  <2>3. item'[run.of].text
    BY <2>1, <2>2 DEF Item
  <2> QED
    BY <1>1, <2>1, <2>3
<1> QED
  BY <1>1, <1>2, <1>3

\* A step keeps what the checkpoint says true: a page enters it with its item in store,
\* and the item of a page that is done is never written anew.
LEMMA CheckpointKept ==
    ASSUME TypeOK, Process, Checkpoint, Next
    PROVE  CheckpointSound'
<1>1. done' \cap failed' = {}
  <2>1. CASE MarkFailed
    <3>1. run.page \notin done
      BY <2>1 DEF MarkFailed, Holds, At, Process
    <3> QED
      BY <2>1, <3>1 DEF MarkFailed, Checkpoint, CheckpointSound
  <2>2. CASE MarkDone
    BY <2>2 DEF MarkDone, FailedLeft, Checkpoint, CheckpointSound
  <2>3. CASE UNCHANGED <<done, failed>>
    BY <2>3 DEF Checkpoint, CheckpointSound
  <2> QED
    BY <2>1, <2>2, <2>3
    DEF Next, Work, StartCrawl, StartPdf, Kill, StopCrawl, SecondPass, OpenListing, PassOver,
        Yield, PrimeOpen, PrimeClose, GetCached, GetDisallowed, GetOverBudget, GetAllowed,
        TryOk, TryRefused, TryAgain, CacheOpen, CacheClose, ReadIndex, ReadListing,
        MissListing, WriteItem, StopPdf, TakePdf, MarkPdfFailed, WriteText, MarkPdfDone, disk
<1>2. ASSUME NEW u \in done'
      PROVE  item'[u] # None /\ (item'[u].page = "challenge" => u \in Files)
  <2>1. u \in Url /\ Sound(u) /\ ~(WriteItem /\ u = run.page)
    <3>1. CASE u \in done
      <4>1. WriteItem => run.page \notin done
        BY DEF WriteItem, Holds, At, Process
      <4> QED
        BY <3>1, <4>1 DEF Checkpoint, CheckpointSound, Sound, TypeOK
    <3>2. CASE u \notin done
      <4>1. MarkDone /\ u = run.page
        BY <1>2, <3>2, DoneGrows
      <4>2. Sound(u) /\ u \in Url
        BY <4>1 DEF MarkDone, Holds, At, Process, Checkpoint, Parsed
      <4>3. ~WriteItem
        BY <4>1 DEF MarkDone, WriteItem, At
      <4> QED
        BY <4>2, <4>3
    <3> QED
      BY <3>1, <3>2
  <2> QED
    BY <2>1, ItemsKept DEF Sound
<1> QED
  BY <1>1, <1>2 DEF CheckpointSound

\* The checkpoint, what it rests on included, is always sound.
LEMMA Resumed == Spec => []Checkpoint
<1>1. Init => Checkpoint
  BY NoneAssumption DEF Init, Copy, Checkpoint, Guarded, Parsed, CheckpointSound
<1>2. TypeOK /\ Process /\ Checkpoint /\ [Next]_vars => Checkpoint'
  <2> SUFFICES ASSUME TypeOK, Process, Checkpoint, [Next]_vars PROVE Checkpoint'
    OBVIOUS
  <2>1. CASE Next
    BY <2>1, GuardedKept, ParsedKept, CheckpointKept DEF Checkpoint
  <2>2. CASE UNCHANGED vars
    BY <2>2 DEF vars, disk, Checkpoint, Guarded, Parsed, Sound, CheckpointSound
  <2> QED
    BY <2>1, <2>2
<1> QED
  BY <1>1, <1>2, TypeCorrect, PTL DEF Spec

\* Resumable: whatever page a process was killed at, and however often, a page of the
\* checkpoint is done or failed and not both, and one that is done has its item, which
\* was not made of the page of a bot guard unless the page is a file.
THEOREM Resumable == Spec => []CheckpointSound
<1>1. Checkpoint => CheckpointSound
  BY DEF Checkpoint
<1> QED
  BY <1>1, Resumed, PTL

-----------------------------------------------------------------------------
(* The ledger *)

\* What an item's being stored, and the two marks, do to the items in store.
LEMMA StoreSteps ==
    ASSUME TypeOK, Process, Next
    PROVE  \/ /\ UNCHANGED <<done, failed>>
              /\ \/ \A u \in Url : item[u] = None <=> item'[u] = None
                 \/ /\ run.page \in Url \ done /\ item'[run.page] # None
                    /\ \A u \in Url \ {run.page} : item'[u] = item[u]
           \/ /\ UNCHANGED item /\ run.page \in Url \ done
              /\ \/ MarkFailed /\ failed' = failed \cup {run.page} /\ done' = done
                 \/ MarkDone /\ done' = done \cup {run.page} /\ failed' = failed \ {run.page}
<1>1. CASE WriteItem
  <2>1. run.page \in Url \ done
    BY <1>1 DEF WriteItem, At, Holds, Process
  <2>2. PICK parsed \in Parse \ {None} : item' = [item EXCEPT ![run.page] = parsed]
    BY <1>1 DEF WriteItem
  <2> QED
    BY <1>1, <2>1, <2>2 DEF WriteItem, TypeOK
<1>2. CASE WriteText
  <2>1. run.of \in Url /\ item[run.of] # None
    BY <1>2 DEF WriteText, At, Holds, Process
  <2>2. item'[run.of] # None
    BY <1>2, <2>1, ItemsKept
  <2>3. \A u \in Url : item[u] = None <=> item'[u] = None
    BY <1>2, <2>1, <2>2 DEF WriteText, TypeOK
  <2> QED
    BY <1>2, <2>3 DEF WriteText
<1>3. CASE MarkFailed
  BY <1>3 DEF MarkFailed, At, Holds, Process
<1>4. CASE MarkDone
  BY <1>4 DEF MarkDone, At, Holds, Process, FailedLeft
<1>5. CASE UNCHANGED <<item, done, failed>>
  BY <1>5
<1> QED
  BY <1>1, <1>2, <1>3, <1>4, <1>5
  DEF Next, Work, StartCrawl, StartPdf, Kill, StopCrawl, SecondPass, OpenListing, PassOver,
      Yield, PrimeOpen, PrimeClose, GetCached, GetDisallowed, GetOverBudget, GetAllowed,
      TryOk, TryRefused, TryAgain, CacheOpen, CacheClose, ReadIndex, ReadListing,
      MissListing, StopPdf, TakePdf, MarkPdfFailed, MarkPdfDone, disk

\* CrawlImplementsLedger: every step of the crawl, a kill included, stores the item of a
\* page that is not done, marks such a page failed, marks it done with its item in
\* store, or leaves the ledger as it is.
THEOREM CrawlImplementsLedger == Spec => ImplementsLedger
<1> DEFINE status == [u \in Url |-> IF u \in done THEN "done"
                                    ELSE IF u \in failed THEN "failed" ELSE "new"]
           stored == {u \in Url : item[u] # None}
<1>1. Init => LG!Init
  BY DEF Init, LG!Init
<1>2. TypeOK /\ Process /\ Checkpoint /\ [Next]_vars => [LG!Next]_<<status, stored>>
  <2> SUFFICES ASSUME TypeOK, Process, Checkpoint, Next
               PROVE  LG!Next \/ UNCHANGED <<status, stored>>
    BY DEF vars, disk
  <2> DEFINE u == run.page
  <2>1. CASE /\ UNCHANGED <<done, failed>>
             /\ \A v \in Url : item[v] = None <=> item'[v] = None
    BY <2>1
  <2>2. CASE /\ UNCHANGED <<done, failed>> /\ u \in Url \ done /\ item'[u] # None
             /\ \A v \in Url \ {u} : item'[v] = item[v]
    <3>1. stored' = stored \cup {u}
      BY <2>2
    <3>2. status' = status /\ status[u] # "done"
      BY <2>2
    <3> QED
      BY <2>2, <3>1, <3>2 DEF LG!Next, LG!Store
  <2>3. CASE /\ UNCHANGED item /\ u \in Url \ done
             /\ failed' = failed \cup {u} /\ done' = done
    <3>1. status' = [status EXCEPT ![u] = "failed"] /\ status[u] # "done"
      BY <2>3
    <3>2. stored' = stored
      BY <2>3
    <3> QED
      BY <2>3, <3>1, <3>2 DEF LG!Next, LG!Fail
  <2>4. CASE /\ UNCHANGED item /\ u \in Url \ done /\ MarkDone
             /\ done' = done \cup {u} /\ failed' = failed \ {u}
    <3>1. status' = [status EXCEPT ![u] = "done"] /\ status[u] # "done"
      BY <2>4
    <3>2. u \in stored
      BY <2>4 DEF MarkDone, At, Holds, Checkpoint, Parsed, Sound
    <3>3. stored' = stored
      BY <2>4
    <3> QED
      BY <2>4, <3>1, <3>2, <3>3 DEF LG!Next, LG!Finish
  <2> HIDE DEF status, stored
  <2> QED
    BY <2>1, <2>2, <2>3, <2>4, StoreSteps
<1>3. Spec => []Checkpoint
  BY Resumed
<1> QED
  BY <1>1, <1>2, <1>3, TypeCorrect, PTL DEF Spec, ImplementsLedger, LG!Spec

-----------------------------------------------------------------------------
(* The text of PDF files *)

\* As long as no process was killed, an item in store is that of a page that is done or
\* about to be marked.
Texts ==
    crashes = 0 =>
        \A u \in Url : item[u] # None =>
            u \in done \/ (run # None /\ run.at = "parsed" /\ run.kind = "page"
                           /\ run.page = u)

\* A page that is parsed is marked next, or the process is killed.
LEMMA MarkedNext ==
    ASSUME TypeOK, Process, Next, At("parsed")
    PROVE  Kill \/ MarkDone \/ MarkPdfDone
  BY DEF Next, Work, StartCrawl, StartPdf, StopCrawl, SecondPass, OpenListing, PassOver,
      Yield, PrimeOpen, PrimeClose, GetCached, GetDisallowed, GetOverBudget, GetAllowed,
      TryOk, TryRefused, TryAgain, CacheOpen, CacheClose, ReadIndex, ReadListing,
      MissListing, MarkFailed, WriteItem, StopPdf, TakePdf, MarkPdfFailed, WriteText,
      At, Choosing

\* Kills are counted.
LEMMA KillsCounted ==
    ASSUME TypeOK, Next, crashes' = 0 PROVE crashes = 0 /\ ~Kill
<1>1. CASE Kill
  BY <1>1, CrawlAssumption DEF Kill, TypeOK
<1>2. CASE UNCHANGED crashes
  BY <1>2, CrawlAssumption DEF Kill, TypeOK
<1> QED
  BY <1>1, <1>2
  DEF Next, Work, StartCrawl, StartPdf, StopCrawl, SecondPass, OpenListing, PassOver,
      Yield, PrimeOpen, PrimeClose, GetCached, GetDisallowed, GetOverBudget, GetAllowed,
      TryOk, TryRefused, TryAgain, CacheOpen, CacheClose, ReadIndex, ReadListing,
      MissListing, MarkFailed, WriteItem, MarkDone, StopPdf, TakePdf, MarkPdfFailed,
      WriteText, MarkPdfDone

\* A file enters the checkpoint when its text is in the item.
LEMMA PdfDoneGrows ==
    ASSUME Next PROVE pdfDone' = pdfDone \/ (MarkPdfDone /\ pdfDone' = pdfDone \cup {run.page})
  BY DEF Next, Work, StartCrawl, StartPdf, Kill, StopCrawl, SecondPass, OpenListing,
      PassOver, Yield, PrimeOpen, PrimeClose, GetCached, GetDisallowed, GetOverBudget,
      GetAllowed, TryOk, TryRefused, TryAgain, CacheOpen, CacheClose, ReadIndex,
      ReadListing, MissListing, MarkFailed, WriteItem, MarkDone, StopPdf, TakePdf,
      MarkPdfFailed, WriteText, MarkPdfDone, disk

\* The text of a PDF file is in its item as long as no process was killed: a crawl
\* writes an item anew only when its page is not done, and no such page has an item.
THEOREM TextStays == Spec => []TextKept
<1>1. Init => Texts /\ TextKept
  BY DEF Init, Texts, TextKept
<1>2. TypeOK /\ Process /\ Checkpoint /\ Texts /\ TextKept /\ [Next]_vars
        => (Texts /\ TextKept)'
  <2> SUFFICES ASSUME TypeOK, Process, Checkpoint, Texts, TextKept, [Next]_vars,
                      crashes' = 0
               PROVE  /\ \A u \in Url : item'[u] # None =>
                           u \in done' \/ (run' # None /\ run'.at = "parsed"
                                           /\ run'.kind = "page" /\ run'.page = u)
                      /\ \A f \in pdfDone' : \E u \in Url :
                           item'[u] # None /\ item'[u].pdf = f /\ item'[u].text
    BY DEF Texts, TextKept
  <2>1. CASE UNCHANGED vars
    BY <2>1 DEF vars, disk, Texts, TextKept
  <2>2. CASE Next
    <3>1. crashes = 0 /\ ~Kill
      BY <2>2, KillsCounted
    <3>2. ASSUME NEW u \in Url, item'[u] # None, u \notin done'
          PROVE  run' # None /\ run'.at = "parsed" /\ run'.kind = "page" /\ run'.page = u
      <4>1. u \notin done /\ ~(MarkDone /\ run.page = u)
        BY <2>2, <3>2, DoneGrows DEF MarkDone
      <4>2. item[u] = None
        <5> SUFFICES ASSUME item[u] # None PROVE FALSE
          OBVIOUS
        <5>1. At("parsed") /\ run.kind = "page" /\ run.page = u
          BY <3>1, <4>1 DEF Texts, At
        <5> QED
          BY <2>2, <3>1, <4>1, <5>1, MarkedNext DEF MarkPdfDone, Holds
      <4>3. WriteItem /\ run.page = u
        <5>1. CASE WriteItem
          BY <3>2, <4>2, <5>1 DEF WriteItem, TypeOK
        <5>2. CASE WriteText
          BY <3>2, <4>2, <5>2 DEF WriteText, TypeOK, At, Holds, Process
        <5>3. CASE UNCHANGED item
          BY <3>2, <4>2, <5>3
        <5> QED
          BY <2>2, <5>1, <5>2, <5>3
          DEF Next, Work, StartCrawl, StartPdf, Kill, StopCrawl, SecondPass, OpenListing,
              PassOver, Yield, PrimeOpen, PrimeClose, GetCached, GetDisallowed,
              GetOverBudget, GetAllowed, TryOk, TryRefused, TryAgain, CacheOpen,
              CacheClose, ReadIndex, ReadListing, MissListing, MarkFailed, MarkDone,
              StopPdf, TakePdf, MarkPdfFailed, MarkPdfDone, disk
      <4>4. run \in Run
        BY <4>3 DEF WriteItem, At, TypeOK
      <4> QED
        BY <4>3, <4>4, NoneAssumption DEF WriteItem, Holds, Run
    <3>3. ASSUME NEW f \in pdfDone'
          PROVE  \E u \in Url : item'[u] # None /\ item'[u].pdf = f /\ item'[u].text
      <4>1. PICK u \in Url : item[u] # None /\ item[u].pdf = f /\ item[u].text
        <5>1. CASE f \in pdfDone
          BY <3>1, <5>1 DEF TextKept
        <5>2. CASE f \notin pdfDone
          <6>1. MarkPdfDone /\ f = run.page
            BY <2>2, <3>3, <5>2, PdfDoneGrows
          <6>2. run.of \in Url /\ item[run.of] # None /\ item[run.of].pdf = f
            BY <6>1 DEF MarkPdfDone, At, Holds, Process
          <6>3. item[run.of].text
            BY <6>1 DEF MarkPdfDone, At, Holds, Checkpoint, Parsed
          <6> QED
            BY <6>2, <6>3
        <5> QED
          BY <5>1, <5>2
      <4>2. ~(WriteItem /\ u = run.page)
        BY <3>1, <4>1 DEF WriteItem, At, Holds, Process, Texts
      <4> QED
        BY <2>2, <4>1, <4>2, ItemsKept
    <3> QED
      BY <3>2, <3>3
  <2> QED
    BY <2>1, <2>2
<1>3. Spec => []Checkpoint
  BY Resumed
<1> QED
  BY <1>1, <1>2, <1>3, TypeCorrect, PTL DEF Spec

-----------------------------------------------------------------------------
(* What a run asks of a site *)

\* The requests of a run: a page is begun within the budget, and each of its attempts
\* after the first may go one request beyond it.  A detail page of thuvienphapluat is in
\* the cache before it is got.
Asked ==
    run # None =>
        /\ run.at \in {"prime", "get"} => run.tries = 0
        /\ run.at = "try" => /\ run.count + 1 <= MaxRequests + run.tries
                            /\ run.tries + 1 <= MaxRetries
        /\ run.count <= MaxRequests + MaxRetries - 1
        /\ source = "thuvienphapluat" /\ run.kind = "page" =>
             /\ run.at = "get" => raw[run.page] # None
             /\ run.at # "try"

\* What a step does to the count of requests, when it is not itself a request.
LEMMA CountKept ==
    ASSUME TypeOK, Process, Next, run # None, run' # None, run.at # "try"
    PROVE  /\ run'.count = run.count
           /\ run'.at = "try" => GetAllowed /\ run'.tries = run.tries /\ run'.kind = run.kind
           /\ run'.at \in {"prime", "get"} => run'.tries = 0 \/ (run'.tries = run.tries
                                                  /\ run.at \in {"prime", "get"})
           /\ run'.at = "get" /\ run'.kind = "page" =>
                \/ Yield /\ ~WantsStub(run'.page)
                \/ PrimeClose /\ run'.page = run.page /\ run.page \in Page
<1>0. run \in Run /\ run' \in Run
  BY RunType DEF TypeOK
<1>1. CASE StartCrawl \/ StartPdf \/ Kill \/ StopCrawl \/ GetOverBudget \/ StopPdf
  BY <1>1 DEF StartCrawl, StartPdf, Kill, StopCrawl, GetOverBudget, StopPdf
<1>2. CASE SecondPass \/ PassOver
  BY <1>0, <1>2 DEF SecondPass, PassOver, Choosing, At, Run
<1>3. CASE OpenListing
  BY <1>0, <1>3 DEF OpenListing, Run
<1>4. CASE Yield
  <2>1. PICK l \in NextLinks :
           run' = IF l[2] \in Skipped
                  THEN [run EXCEPT !.links = @ \ {l}, !.yielded = @ \cup {l[2]}]
                  ELSE [[run EXCEPT !.links = @ \ {l}, !.yielded = @ \cup {l[2]}]
                          EXCEPT !.page = l[2], !.kind = "page", !.tries = 0,
                                 !.at = IF WantsStub(l[2]) THEN "prime" ELSE "get"]
    BY <1>4 DEF Yield
  <2>2. run.at = "next"
    BY <1>4 DEF Yield, Choosing, At
  <2>3. CASE l[2] \in Skipped
    BY <1>0, <2>1, <2>2, <2>3 DEF Run
  <2>4. CASE l[2] \notin Skipped
    <3>1. /\ run'.count = run.count /\ run'.tries = 0 /\ run'.page = l[2]
          /\ run'.at = IF WantsStub(l[2]) THEN "prime" ELSE "get"
      BY <1>0, <2>1, <2>4 DEF Run
    <3> QED
      BY <1>4, <3>1
  <2> QED
    BY <2>3, <2>4
<1>5. CASE PrimeOpen
  BY <1>0, <1>5 DEF PrimeOpen, At, Run
<1>6. CASE PrimeClose
  <2>1. run.page \in Page
    BY <1>0, <1>6, RunFields DEF PrimeClose, At, Process, Page
  <2> QED
    BY <1>0, <1>6, <2>1 DEF PrimeClose, At, Run
<1>7. CASE GetCached \/ GetDisallowed \/ GetAllowed
  BY <1>0, <1>7 DEF GetCached, GetDisallowed, GetAllowed, At, Run
<1>8. CASE TryOk \/ TryRefused \/ TryAgain
  BY <1>8 DEF TryOk, TryRefused, TryAgain, At
<1>9. CASE CacheOpen \/ CacheClose
  BY <1>0, <1>9 DEF CacheOpen, CacheClose, At, Run
<1>10. CASE ReadIndex \/ ReadListing \/ MissListing
  <2>1. \E ahead, links, scanned : run' = Listed(ahead, links, scanned)
    BY <1>10 DEF ReadIndex, ReadListing, MissListing
  <2> QED
    BY <1>0, <2>1 DEF Listed, Run
<1>11. CASE \E u \in Url : TakePdf(u)
  <2>1. PICK u \in Url : TakePdf(u)
    BY <1>11
  <2> QED
    BY <1>0, <2>1 DEF TakePdf, At, Run
<1>12. CASE MarkFailed \/ MarkDone \/ MarkPdfFailed \/ MarkPdfDone
  BY <1>0, <1>12 DEF MarkFailed, MarkDone, MarkPdfFailed, MarkPdfDone, Proceed, Run
<1>13. CASE WriteItem \/ WriteText
  BY <1>0, <1>13 DEF WriteItem, WriteText, Run
<1> QED
  BY <1>1, <1>2, <1>3, <1>4, <1>5, <1>6, <1>7, <1>8, <1>9, <1>10, <1>11, <1>12, <1>13
  DEF Next, Work

\* What a request does: it is counted, and tried again only as often as allowed.
LEMMA TryStep ==
    ASSUME TypeOK, Process, Next, run' # None, At("try")
    PROVE  /\ run'.count = run.count + 1 /\ run'.kind = run.kind
           /\ \/ run'.at \in {"write", "missed"}
              \/ run'.at = "try" /\ MoreTries /\ run'.tries = run.tries + 1
<1>0. run \in Run
  BY DEF At, TypeOK
<1>1. Kill \/ TryOk \/ TryRefused \/ TryAgain
  BY DEF Next, Work, StartCrawl, StartPdf, StopCrawl, SecondPass, OpenListing, PassOver,
      Yield, PrimeOpen, PrimeClose, GetCached, GetDisallowed, GetOverBudget, GetAllowed,
      CacheOpen, CacheClose, ReadIndex, ReadListing, MissListing, MarkFailed, WriteItem,
      MarkDone, StopPdf, TakePdf, MarkPdfFailed, WriteText, MarkPdfDone, At, Choosing
<1> QED
  BY <1>0, <1>1 DEF Kill, TryOk, TryRefused, TryAgain, Run

\* A step keeps what a run has asked within bounds.
LEMMA AskedKept == ASSUME TypeOK, Process, Asked, Next PROVE Asked'
<1> DEFINE bound == MaxRequests + MaxRetries - 1
<1>0. /\ MaxRequests \in Nat /\ MaxRetries \in Nat \ {0} /\ source' = source
      /\ bound \in Nat
  BY CrawlAssumption, DiskType
<1>1. CASE run' = None
  BY <1>1 DEF Asked
<1>2. CASE run = None /\ run' # None
  <2>1. StartCrawl \/ StartPdf
    BY <1>2 DEF Next, Work, Kill, StopCrawl, SecondPass, OpenListing, PassOver,
        Yield, PrimeOpen, PrimeClose, GetCached, GetDisallowed, GetOverBudget, GetAllowed,
        TryOk, TryRefused, TryAgain, CacheOpen, CacheClose, ReadIndex, ReadListing,
        MissListing, MarkFailed, MarkDone, WriteItem, StopPdf, TakePdf, MarkPdfFailed,
        WriteText, MarkPdfDone, Choosing, At, Holds
  <2>2. run'.at = "next" /\ run'.count = 0
    BY <2>1 DEF StartCrawl, StartPdf, Fresh
  <2> QED
    BY <1>0, <2>2 DEF Asked
<1>3. CASE run # None /\ run' # None /\ run.at = "try"
  <2>1. run.count \in Nat /\ run.tries \in Nat
    BY <1>3, RunFields DEF TypeOK
  <2>2. /\ run'.count = run.count + 1 /\ run'.kind = run.kind
        /\ \/ run'.at \in {"write", "missed"}
           \/ run'.at = "try" /\ MoreTries /\ run'.tries = run.tries + 1
    BY <1>3, TryStep DEF At
  <2>3. run.count + 1 <= MaxRequests + run.tries /\ run.tries + 1 <= MaxRetries
    BY <1>3 DEF Asked
  <2>4. run'.count <= MaxRequests + MaxRetries - 1
    BY <1>0, <2>1, <2>2, <2>3
  <2>5. run'.at = "try" => /\ run'.count + 1 <= MaxRequests + run'.tries
                          /\ run'.tries + 1 <= MaxRetries
    BY <1>0, <2>1, <2>2, <2>3 DEF MoreTries
  <2>6. ~(source = "thuvienphapluat" /\ run.kind = "page")
    BY <1>3 DEF Asked
  <2> QED
    BY <1>0, <2>2, <2>4, <2>5, <2>6 DEF Asked
<1>4. CASE run # None /\ run' # None /\ run.at # "try"
  <2>1. run.count \in Nat /\ run.tries \in Nat
    BY <1>4, RunFields DEF TypeOK
  <2>2. /\ run'.count = run.count
        /\ run'.at = "try" => GetAllowed /\ run'.tries = run.tries /\ run'.kind = run.kind
        /\ run'.at \in {"prime", "get"} => run'.tries = 0 \/ (run'.tries = run.tries
                                               /\ run.at \in {"prime", "get"})
        /\ run'.at = "get" /\ run'.kind = "page" =>
             \/ Yield /\ ~WantsStub(run'.page)
             \/ PrimeClose /\ run'.page = run.page /\ run.page \in Page
    BY <1>4, CountKept
  <2>3. run'.at = "try" => /\ run'.count + 1 <= MaxRequests + run'.tries
                          /\ run'.tries + 1 <= MaxRetries
                          /\ ~(source = "thuvienphapluat" /\ run'.kind = "page")
    <3> SUFFICES ASSUME run'.at = "try"
                 PROVE  /\ run'.count + 1 <= MaxRequests + run'.tries
                        /\ run'.tries + 1 <= MaxRetries
                        /\ ~(source = "thuvienphapluat" /\ run'.kind = "page")
      OBVIOUS
    <3>1. run.at = "get" /\ raw[run.page] = None /\ run.count < MaxRequests
      BY <2>2 DEF GetAllowed, At, WithinBudget
    <3>2. run.tries = 0 /\ ~(source = "thuvienphapluat" /\ run.kind = "page")
      BY <1>4, <3>1 DEF Asked
    <3> QED
      BY <1>0, <2>1, <2>2, <3>1, <3>2
  <2>4. source = "thuvienphapluat" /\ run'.kind = "page" /\ run'.at = "get"
          => raw'[run'.page] # None
    <3>1. CASE Yield
      BY <2>2, <3>1, NoneAssumption
      DEF Yield, WantsStub, disk, PrimeClose, Choosing, At
    <3>2. CASE PrimeClose
      BY <2>2, <3>2, NoneAssumption DEF PrimeClose, TypeOK, Copy, Yield, Choosing, At
    <3> QED
      BY <2>2, <3>1, <3>2
  <2>5. run'.at \in {"prime", "get"} => run'.tries = 0
    BY <1>4, <2>2 DEF Asked
  <2>6. run'.count <= MaxRequests + MaxRetries - 1
    BY <1>4, <2>2 DEF Asked
  <2> QED
    BY <1>0, <2>3, <2>4, <2>5, <2>6 DEF Asked
<1> QED
  BY <1>1, <1>2, <1>3, <1>4

\* Politeness: a run makes at most MaxRetries - 1 requests more than its budget, however
\* its requests end, and never asks thuvienphapluat for a detail page, whatever an
\* earlier process left in the cache.
THEOREM Politeness == Spec => []Polite
<1>1. Init => Asked
  BY DEF Init, Asked
<1>2. TypeOK /\ Process /\ Asked /\ [Next]_vars => Asked'
  <2> SUFFICES ASSUME TypeOK, Process, Asked, [Next]_vars PROVE Asked'
    OBVIOUS
  <2>1. CASE UNCHANGED vars
    BY <2>1 DEF vars, disk, Asked
  <2> QED
    BY <2>1, AskedKept
<1>3. Asked => Polite
  BY DEF Asked, Polite
<1> QED
  BY <1>1, <1>2, <1>3, TypeCorrect, PTL DEF Spec
=============================================================================

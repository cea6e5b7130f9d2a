------------------------------- MODULE Crawl --------------------------------
(***************************************************************************)
(* The crawler: four sources, each a generator of pages (crawl/sources), a *)
(* run loop with a checkpoint (crawl/base.py, checkpoint.py), a client     *)
(* with a cache on disk, retries and a budget of requests                  *)
(* (http_client.py), and the run that replaces the text of items by that   *)
(* of their PDF files (sbv_fulltext.py).                                   *)
(*                                                                         *)
(* A behaviour is that of one source, whose files no other source touches. *)
(* One process runs at a time and may be killed between any two steps.     *)
(* What it holds in memory is then lost; files stay as they are.  The      *)
(* checkpoint and the items are replaced atomically, the cache is not.     *)
(***************************************************************************)
EXTENDS Naturals, FiniteSets, Sequences

CONSTANTS
    Url,            \* detail pages
    Listing,        \* sitemaps and listing pages
    Pdf,            \* PDF files
    PdfOf,          \* PdfOf[u]: the file that the text of page u links to, or None
    Listings,       \* the listings in the order in which they are walked
    LinksOf,        \* LinksOf[g]: the pages that listing g names, in order
    Wanted,         \* pages that pass the filters of the source
    Amending,       \* pages whose address speaks of an amendment
    Files,          \* pages that are files by their address
    Disallowed,     \* pages that robots.txt keeps crawlers off
    MaxRequests, MaxRetries, Limit, ScanCap,
    MaxCrashes,     \* bound: how often a process is killed
    None

Page == Url \cup Listing \cup Pdf

ASSUME CrawlAssumption ==
    /\ PdfOf \in [Url -> Pdf \cup {None}]
    /\ Listings \in Seq(Listing) /\ Listings # << >>
    /\ LinksOf \in [Listing -> Seq(Url)]
    /\ Wanted \subseteq Url /\ Amending \subseteq Url /\ Files \subseteq Url
    /\ Disallowed \subseteq Page
    /\ MaxRequests \in Nat /\ MaxRetries \in Nat \ {0} /\ Limit \in Nat
    /\ ScanCap \in Nat /\ MaxCrashes \in Nat
    /\ Url \cap Pdf = {} /\ Listing \cap Pdf = {}
    /\ None \notin Page

VARIABLES
    source,     \* whose files these are
    raw,        \* raw[g]: the copy of page g in the cache
    item,       \* item[u]: the stored item of page u
    done, failed,           \* the checkpoint of the crawl
    pdfDone, pdfFailed,     \* the checkpoint of the PDF run
    run,        \* the process, or None
    crashes     \* how often a process was killed

disk == <<source, raw, item, done, failed, pdfDone, pdfFailed>>
vars == <<disk, run, crashes>>

\* A `challenge' is a page of a bot guard that was served with status 200.
Copy == {"whole", "torn", "challenge"}

\* `pdf' is the file that parsing found in the page.  `text': the item carries what
\* the PDF run made of it, the text or a mark that it is garbled.
Item == [page : Copy, pdf : Pdf \cup {None}, text : BOOLEAN]

\* A process: the page in hand, what it is taken for and where it is with it, the
\* robots.txt it could or could not read, the requests and the attempts made, the
\* new items; of discover, the listings ahead, the links ahead in this one, each with
\* its position, what was yielded and scanned, and the pass; of the PDF run, the items
\* ahead.
Run == [program : {"crawl", "pdf"}, at : {"next", "prime", "get", "try", "write",
                                          "got", "missed", "parsed"},
        page : Page \cup {None}, kind : {"listing", "page", "pdf"}, robots : BOOLEAN,
        count : Nat, tries : Nat, new : Nat, copy : Copy \cup {None},
        ahead : Seq(Listing), links : SUBSET (Nat \X Url), yielded : SUBSET Url, scanned : Nat,
        pass : {"index", "amendments", "all"},
        todo : SUBSET Url, of : Url \cup {None}]

ASSUME NoneAssumption == None \notin Copy \cup Item \cup Run

TypeOK ==
    /\ source \in {"vbpl", "thuvienphapluat", "shb", "sbv"}
    /\ raw \in [Page -> Copy \cup {None}]
    /\ item \in [Url -> Item \cup {None}]
    /\ done \subseteq Url /\ failed \subseteq Url
    /\ pdfDone \subseteq Pdf /\ pdfFailed \subseteq Pdf
    /\ run \in Run \cup {None}
    /\ crashes \in 0..MaxCrashes

Init ==
    /\ source \in {"vbpl", "thuvienphapluat", "shb", "sbv"}
    /\ raw = [g \in Page |-> None]
    /\ item = [u \in Url |-> None]
    /\ done = {} /\ failed = {} /\ pdfDone = {} /\ pdfFailed = {}
    /\ run = None
    /\ crashes = 0

Running(program) == run # None /\ run.program = program
At(step) == run # None /\ run.at = step
Holds(kind) == run # None /\ run.kind = kind

-----------------------------------------------------------------------------
(* Start and end                                                              *)

Fresh(program, ahead, pass, todo, robots) ==
    [program |-> program, at |-> "next", page |-> None, kind |-> "page",
     robots |-> robots, count |-> 0, tries |-> 0, new |-> 0, copy |-> None,
     ahead |-> ahead, links |-> {}, yielded |-> {}, scanned |-> 0, pass |-> pass,
     todo |-> todo, of |-> None]

\* thuvienphapluat starts from an index of sitemaps, vbpl with a pass that looks for
\* amendments.
FirstListings == IF source = "thuvienphapluat" THEN <<Head(Listings)>> ELSE Listings
FirstPass == CASE source = "thuvienphapluat" -> "index"
               [] source = "vbpl" -> "amendments"
               [] OTHER -> "all"

\* A robots.txt that cannot be read allows everything.
StartCrawl ==
    /\ run = None
    /\ \E robots \in BOOLEAN :
         run' = Fresh("crawl", FirstListings, FirstPass, {}, robots)
    /\ UNCHANGED <<disk, crashes>>

\* load_items: the items on disk that have a PDF file.
PdfTodo == {u \in Url : item[u] # None /\ item[u].pdf # None}

StartPdf ==
    /\ run = None
    /\ source = "sbv"
    /\ PdfTodo # {}
    /\ \E robots \in BOOLEAN : run' = Fresh("pdf", << >>, "all", PdfTodo, robots)
    /\ UNCHANGED <<disk, crashes>>

Kill ==
    /\ run # None
    /\ crashes < MaxCrashes
    /\ run' = None
    /\ crashes' = crashes + 1
    /\ UNCHANGED disk

-----------------------------------------------------------------------------
(* Source.discover and the head of the loop of run_source                     *)

\* All sources but vbpl count what they have yielded, done or not, and stop at the
\* limit; vbpl looks at the limit between its passes.
YieldedEnough == Cardinality(run.yielded) >= Limit

Walked == run.links = {} /\ run.ahead = << >>

DiscoverEnds ==
    \/ source # "vbpl" /\ YieldedEnough
    \/ Walked /\ (run.pass # "amendments" \/ YieldedEnough)

Choosing == At("next") /\ Running("crawl")

\* The link ahead.
NextLinks == {l \in run.links : \A m \in run.links : l[1] <= m[1]}

\* The loop is through, or has collected as many new items as it may when it is
\* offered one more.
StopCrawl ==
    /\ Choosing
    /\ \/ DiscoverEnds
       \/ /\ \E l \in NextLinks : l[2] \notin run.yielded
          /\ run.new >= Limit
    /\ run' = None
    /\ UNCHANGED <<disk, crashes>>

SecondPass ==
    /\ Choosing
    /\ Walked /\ run.pass = "amendments" /\ ~YieldedEnough
    /\ run' = [run EXCEPT !.pass = "all", !.ahead = Listings, !.scanned = 0]
    /\ UNCHANGED <<disk, crashes>>

OpenListing ==
    /\ Choosing
    /\ ~DiscoverEnds
    /\ run.links = {} /\ run.ahead # << >>
    /\ run' = [run EXCEPT !.ahead = Tail(@), !.page = Head(run.ahead),
                          !.kind = "listing", !.at = "get", !.tries = 0]
    /\ UNCHANGED <<disk, crashes>>

PassOver ==
    /\ Choosing
    /\ ~DiscoverEnds
    /\ \E l \in NextLinks :
         /\ l[2] \in run.yielded
         /\ run' = [run EXCEPT !.links = @ \ {l}]
    /\ UNCHANGED <<disk, crashes>>

\* No page is skipped.
NoneSkipped == {}

\* is_done
Skipped == done

\* No page gets a stub.
NoStub(u) == FALSE

\* thuvienphapluat puts a stub in the cache in place of a page it must not fetch.
WantsStub(u) == source = "thuvienphapluat" /\ raw[u] = None

\* A page is yielded, skipped if it is done, and otherwise fetched.
Yield ==
    /\ Choosing
    /\ ~DiscoverEnds
    /\ run.new < Limit
    /\ \E l \in NextLinks :
         LET u == l[2]
             passed == [run EXCEPT !.links = @ \ {l}, !.yielded = @ \cup {u}]
         IN  /\ u \notin run.yielded
             /\ run' = IF u \in Skipped THEN passed
                       ELSE [passed EXCEPT !.page = u, !.kind = "page", !.tries = 0,
                                           !.at = IF WantsStub(u) THEN "prime"
                                                  ELSE "get"]
    /\ UNCHANGED <<disk, crashes>>

\* _prime_cache creates the file, then fills and closes it.
PrimeOpen ==
    /\ At("prime")
    /\ raw[run.page] = None
    /\ raw' = [raw EXCEPT ![run.page] = "torn"]
    /\ UNCHANGED <<source, item, done, failed, pdfDone, pdfFailed, run, crashes>>

PrimeClose ==
    /\ At("prime")
    /\ raw[run.page] # None
    /\ raw' = [raw EXCEPT ![run.page] = "whole"]
    /\ run' = [run EXCEPT !.at = "get"]
    /\ UNCHANGED <<source, item, done, failed, pdfDone, pdfFailed, crashes>>

\* The links of listing g that its copy shows, n of them when it is torn.  The index
\* of thuvienphapluat names no page; shb takes a listing for a page of its own too.
LinksIn(g, n) ==
    LET shown == IF run.copy = "torn" THEN SubSeq(LinksOf[g], 1, n) ELSE LinksOf[g]
        all == IF source = "shb" THEN <<g>> \o shown ELSE shown
    IN  IF source = "thuvienphapluat" /\ g = Head(Listings) THEN {}
        ELSE {l \in {<<i, all[i]>> : i \in DOMAIN all} : l[2] \in Wanted}

\* The links that vbpl may still scan in this pass.
Scan(links) ==
    IF source # "vbpl" THEN links
    ELSE {l \in links :
            Cardinality({m \in links : m[1] < l[1]}) < ScanCap - run.scanned}

InPass(u) == run.pass = "amendments" => u \in Amending

Listed(ahead, links, scanned) ==
    [run EXCEPT !.at = "next", !.page = None, !.copy = None,
                !.pass = IF @ = "index" THEN "all" ELSE @,
                !.ahead = ahead, !.links = links, !.scanned = scanned]

\* The listings an index names; an index that names none is taken for a listing.
Children(n) ==
    LET shown == IF run.copy = "torn" THEN SubSeq(Tail(Listings), 1, n)
                 ELSE Tail(Listings)
    IN  IF shown = << >> THEN <<Head(Listings)>> ELSE shown

ReadIndex ==
    /\ At("got") /\ Holds("listing")
    /\ run.pass = "index"
    /\ \E n \in 0..Len(Listings) - 1 : run' = Listed(Children(n), {}, 0)
    /\ UNCHANGED <<disk, crashes>>

\* A challenge ends the walk of shb, a page that lists nothing that of sbv, and vbpl
\* breaks off the pass at its scan cap.
WalkEnds(n, links) ==
    \/ source = "shb" /\ run.copy = "challenge"
    \/ source = "sbv" /\ (LinksOf[run.page] = << >> \/ (run.copy = "torn" /\ n = 0))
    \/ Scan(links) # links

ReadListing ==
    /\ At("got") /\ Holds("listing")
    /\ run.pass # "index"
    /\ \E n \in 0..Len(LinksOf[run.page]) :
         LET links == IF run.copy = "challenge" THEN {} ELSE LinksIn(run.page, n)
             scan == Scan(links)
         IN  run' = Listed(IF WalkEnds(n, links) THEN << >> ELSE run.ahead,
                           {l \in scan : InPass(l[2])},
                           run.scanned + Cardinality(scan))
    /\ UNCHANGED <<disk, crashes>>

\* A listing that is not obtained: without its home page shb stops, sbv with any;
\* without its index thuvienphapluat takes the index for a listing.
MissListing ==
    /\ At("missed") /\ Holds("listing")
    /\ run' = Listed(CASE run.pass = "index" -> <<Head(Listings)>>
                       [] source = "sbv" -> << >>
                       [] source = "shb" /\ run.page = Head(Listings) -> << >>
                       [] OTHER -> run.ahead,
                     {}, run.scanned)
    /\ UNCHANGED <<disk, crashes>>

-----------------------------------------------------------------------------
(* The loop of harvest                                                        *)

StopPdf ==
    /\ At("next") /\ Running("pdf")
    /\ run.todo = {}
    /\ run' = None
    /\ UNCHANGED <<disk, crashes>>

TakePdf(u) ==
    /\ At("next") /\ Running("pdf")
    /\ u \in run.todo
    /\ run' = IF item[u].pdf \in pdfDone THEN [run EXCEPT !.todo = @ \ {u}]
              ELSE [run EXCEPT !.todo = @ \ {u}, !.page = item[u].pdf, !.of = u,
                               !.kind = "pdf", !.at = "get", !.tries = 0]
    /\ UNCHANGED <<disk, crashes>>

-----------------------------------------------------------------------------
(* RespectfulClient.get, get_bytes                                            *)

\* A copy in the cache is taken as it is.
GetCached ==
    /\ At("get")
    /\ raw[run.page] # None
    /\ run' = [run EXCEPT !.at = "got", !.copy = raw[run.page]]
    /\ UNCHANGED <<disk, crashes>>

GetDisallowed ==
    /\ At("get")
    /\ raw[run.page] = None
    /\ run.robots /\ run.page \in Disallowed
    /\ run' = [run EXCEPT !.at = "missed"]
    /\ UNCHANGED <<disk, crashes>>

MayAsk == ~(run.robots /\ run.page \in Disallowed)

\* RequestBudgetExceeded ends the run.
GetOverBudget ==
    /\ At("get")
    /\ raw[run.page] = None /\ MayAsk
    /\ run.count >= MaxRequests
    /\ run' = None
    /\ UNCHANGED <<disk, crashes>>

\* The budget is looked at before the first attempt only.
WithinBudget == run.count < MaxRequests

GetAllowed ==
    /\ At("get")
    /\ raw[run.page] = None /\ MayAsk
    /\ WithinBudget
    /\ run' = [run EXCEPT !.at = "try"]
    /\ UNCHANGED <<disk, crashes>>

Answers == IF source = "shb" THEN {"whole", "challenge"} ELSE {"whole"}

\* 200: the answer is there; the cache is written next.
TryOk ==
    /\ At("try")
    /\ \E copy \in Answers :
         run' = [run EXCEPT !.count = @ + 1, !.at = "write", !.copy = copy]
    /\ UNCHANGED <<disk, crashes>>

\* 4xx: given up.
TryRefused ==
    /\ At("try")
    /\ run' = [run EXCEPT !.count = @ + 1, !.at = "missed"]
    /\ UNCHANGED <<disk, crashes>>

MoreTries == run.tries + 1 < MaxRetries

\* 429, 5xx or a failed connection: tried again, MaxRetries times in all.
TryAgain ==
    /\ At("try")
    /\ run' = [run EXCEPT !.count = @ + 1, !.tries = @ + 1,
                          !.at = IF MoreTries THEN "try" ELSE "missed"]
    /\ UNCHANGED <<disk, crashes>>

\* The file is opened, which empties it, then filled and closed.
CacheOpen ==
    /\ At("write")
    /\ raw[run.page] = None
    /\ raw' = [raw EXCEPT ![run.page] = "torn"]
    /\ UNCHANGED <<source, item, done, failed, pdfDone, pdfFailed, run, crashes>>

CacheClose ==
    /\ At("write")
    /\ raw[run.page] # None
    /\ raw' = [raw EXCEPT ![run.page] = run.copy]
    /\ run' = [run EXCEPT !.at = "got"]
    /\ UNCHANGED <<source, item, done, failed, pdfDone, pdfFailed, crashes>>

-----------------------------------------------------------------------------
(* What is done with a page (run_source, harvest)                             *)

Proceed == run' = [run EXCEPT !.at = "next", !.page = None, !.copy = None]

\* What Source.parse makes of a page: an item, or None (an exception counts alike).
\* vbpl takes what it finds, which may be nothing but the slug.
ParseVbpl == {[page |-> run.copy, pdf |-> None, text |-> FALSE], None}

\* thuvienphapluat reads the address only.
ParseTvpl == {[page |-> run.copy, pdf |-> None, text |-> FALSE]}

\* shb does not take a challenge for a page, but does not look into files.
ParseShb ==
    LET parsed == [page |-> run.copy, pdf |-> None, text |-> FALSE]
    IN  IF run.page \in Files THEN {parsed}
        ELSE IF run.copy = "challenge" THEN {None} ELSE {parsed, None}

\* The file that sbv's page links to, which a torn page may have lost.
FindPdf(u) == {PdfOf[u]} \cup (IF run.copy = "torn" THEN {None} ELSE {})

\* sbv wants a title.
ParseSbv == {[page |-> run.copy, pdf |-> f, text |-> FALSE] : f \in FindPdf(run.page)}
            \cup {None}

Parse == CASE source = "vbpl" -> ParseVbpl
           [] source = "thuvienphapluat" -> ParseTvpl
           [] source = "shb" -> ParseShb
           [] OTHER -> ParseSbv

\* mark_failed, for a page that was not obtained or did not parse.
MarkFailed ==
    /\ Holds("page")
    /\ At("missed") \/ (At("got") /\ None \in Parse)
    /\ failed' = failed \cup {run.page}
    /\ Proceed
    /\ UNCHANGED <<source, raw, item, done, pdfDone, pdfFailed, crashes>>

\* WriteItem that leaves the writing for after the checkpoint.
WriteLater ==
    /\ At("got") /\ Holds("page")
    /\ run' = [run EXCEPT !.at = "parsed"]
    /\ UNCHANGED <<disk, crashes>>

\* The item is written.
WriteItem ==
    /\ At("got") /\ Holds("page")
    /\ \E parsed \in Parse \ {None} : item' = [item EXCEPT ![run.page] = parsed]
    /\ run' = [run EXCEPT !.at = "parsed"]
    /\ UNCHANGED <<source, raw, done, failed, pdfDone, pdfFailed, crashes>>

\* mark_done that leaves the failure where it is.
FailedKept == failed

\* mark_done takes the page off the list of failures.
FailedLeft == failed \ {run.page}

MarkDone ==
    /\ At("parsed") /\ Holds("page")
    /\ done' = done \cup {run.page}
    /\ failed' = FailedLeft
    /\ run' = [run EXCEPT !.at = "next", !.page = None, !.copy = None,
                          !.new = @ + 1]
    /\ UNCHANGED <<source, raw, item, pdfDone, pdfFailed, crashes>>

MarkPdfFailed ==
    /\ At("missed") \/ At("got")
    /\ Holds("pdf")
    /\ pdfFailed' = pdfFailed \cup {run.page}
    /\ Proceed
    /\ UNCHANGED <<source, raw, item, done, failed, pdfDone, crashes>>

\* The item gets the text of its file.  (A garbled text leaves it as it is, with a
\* mark, and counts as done too.)
WriteText ==
    /\ At("got") /\ Holds("pdf")
    /\ item' = [item EXCEPT ![run.of].text = TRUE]
    /\ run' = [run EXCEPT !.at = "parsed"]
    /\ UNCHANGED <<source, raw, done, failed, pdfDone, pdfFailed, crashes>>

MarkPdfDone ==
    /\ At("parsed") /\ Holds("pdf")
    /\ pdfDone' = pdfDone \cup {run.page}
    /\ pdfFailed' = pdfFailed \ {run.page}
    /\ Proceed
    /\ UNCHANGED <<source, raw, item, done, failed, crashes>>

-----------------------------------------------------------------------------
Work ==
    \/ StopCrawl \/ SecondPass \/ OpenListing \/ PassOver \/ Yield
    \/ PrimeOpen \/ PrimeClose
    \/ GetCached \/ GetDisallowed \/ GetOverBudget \/ GetAllowed
    \/ TryOk \/ TryRefused \/ TryAgain \/ CacheOpen \/ CacheClose
    \/ ReadIndex \/ ReadListing \/ MissListing
    \/ MarkFailed \/ WriteItem \/ MarkDone
    \/ StopPdf \/ (\E u \in Url : TakePdf(u))
    \/ MarkPdfFailed \/ WriteText \/ MarkPdfDone

Next == StartCrawl \/ StartPdf \/ Kill \/ Work

Spec == Init /\ [][Next]_vars

-----------------------------------------------------------------------------
(* Correctness *)

\* What a run may ask of a site: at most MaxRetries - 1 requests more than its
\* budget, since retries are bounded and no page is started when the budget is used
\* up, and never a detail page of thuvienphapluat, which is behind a paywall: a stub
\* is in the cache before the page is yielded, whatever an earlier run left there.
Polite ==
    run # None =>
        /\ run.count <= MaxRequests + MaxRetries - 1
        /\ run.at = "try" => ~(source = "thuvienphapluat" /\ run.kind = "page")

\* What the checkpoint says: a page is done or failed, never both, and one that is
\* done has its item, which was not made of a challenge unless it is a file, wherever
\* the process was killed.
CheckpointSound ==
    /\ done \cap failed = {}
    /\ \A u \in done : item[u] # None /\ (item[u].page = "challenge" => u \in Files)

\* Text taken from a PDF file is not lost to a later crawl, which writes the item
\* anew when it does not know that it was done.  (A process killed between the
\* item and its entry makes that happen: the text is then gone, since the PDF run
\* skips the file.)
TextKept ==
    crashes = 0 => \A f \in pdfDone : \E u \in Url : /\ item[u] # None
                                                    /\ item[u].pdf = f /\ item[u].text

LG == INSTANCE Ledger WITH
        status <- [u \in Url |-> IF u \in done THEN "done"
                                 ELSE IF u \in failed THEN "failed" ELSE "new"],
        stored <- {u \in Url : item[u] # None}

\* However often a process is killed, a page that is done stays done with its item in
\* store, and nothing is done before its item is there: run_source is a Ledger.
ImplementsLedger == LG!Spec
=============================================================================

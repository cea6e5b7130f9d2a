------------------------------- MODULE Client --------------------------------
(***************************************************************************)
(* The conversation view of one browser tab (frontend/nextjs_app:          *)
(* components/rag-tab.tsx AskMode, lib/api.ts): what is selected, what is  *)
(* shown, and the requests in flight behind them.  Every request is sent,  *)
(* served and answered in three steps, nothing cancels one, and any of     *)
(* them may fail before or after the server has done its part.             *)
(***************************************************************************)
EXTENDS Naturals, Sequences, FiniteSets

CONSTANTS
    Conv,           \* conversation ids the server may hand out
    Question, File, \* what the user types and attaches, each once
    None,
    MaxOps          \* bound on the operations the user starts

ASSUME ClientAssumption == MaxOps \in Nat /\ None \notin Conv

VARIABLES
    stored,         \* server: the questions of a conversation, None if not created
    files,          \* server: its attachments
    selected,       \* convId
    shown,          \* turns, attachments and whose they are
    busy,
    op,             \* op[n]: the n-th operation started, None when it has ended
    asked,          \* history: asked[x]: what was selected when x was sent
    clean           \* history: nothing overlapped or failed since the view was quiet

server == <<stored, files>>
view == <<selected, shown, busy>>
vars == <<server, view, op, asked, clean>>

Item == Question \cup File

\* A send or an attach creates a conversation if none is selected, stores its item
\* and reads the conversation back; an open only reads.  `item' is None for an open.
Op == [item : Item \cup {None}, conv : Conv \cup {None},
       step : {"create", "created", "store", "stored", "read", "answered"},
       data : [turns : Seq(Question), files : SUBSET File]]

ASSUME ItemsAssumption ==
    /\ Question \cap File = {}
    /\ None \notin Item \cup Op \cup Seq(Question)

\* `local': turns the view has put up itself, the question just sent.
Nothing == [turns |-> <<>>, files |-> {}]
View(c, data) == [of |-> c, turns |-> data.turns, files |-> data.files,
                  local |-> <<>>]

Init ==
    /\ stored = [c \in Conv |-> None]
    /\ files = [c \in Conv |-> {}]
    /\ selected = None
    /\ shown = View(None, Nothing)
    /\ busy = FALSE
    /\ op = <<>>
    /\ asked = [x \in Item |-> None]
    /\ clean = TRUE

InFlight == {n \in DOMAIN op : op[n] # None}
Quiet == InFlight = {}

-----------------------------------------------------------------------------
(* The user *)

Begin(item, conv, step) ==
    /\ Len(op) < MaxOps
    /\ op' = Append(op, [item |-> item, conv |-> conv, step |-> step,
                         data |-> Nothing])
    /\ clean' = Quiet

Fresh(x) ==
    /\ \A c \in Conv : x \notin files[c]
    /\ \A c \in Conv :
         stored[c] # None => \A i \in DOMAIN stored[c] : stored[c][i] # x
    /\ \A n \in InFlight : op[n].item # x

FirstStep == IF selected = None THEN "create" ELSE "store"

Send(q) ==
    /\ ~busy
    /\ Fresh(q)
    /\ Begin(q, selected, FirstStep)
    /\ busy' = TRUE
    /\ shown' = [shown EXCEPT !.local = Append(@, q)]
    /\ asked' = [asked EXCEPT ![q] = selected]
    /\ UNCHANGED <<server, selected>>

Attach(f) ==
    /\ Fresh(f)
    /\ Begin(f, selected, FirstStep)
    /\ asked' = [asked EXCEPT ![f] = selected]
    /\ UNCHANGED <<server, view>>

\* open, from the list of conversations.
Open(c) ==
    /\ stored[c] # None
    /\ Begin(None, c, "read")
    /\ selected' = c
    /\ UNCHANGED <<server, shown, busy, asked>>

NewChat ==
    /\ selected' = None
    /\ shown' = View(None, Nothing)
    /\ clean' = Quiet
    /\ UNCHANGED <<server, busy, op, asked>>

-----------------------------------------------------------------------------
(* The server *)

Moved(n, step) == op' = [op EXCEPT ![n].step = step]

ServeCreate(n) ==
    /\ op[n].step = "create"
    /\ \E c \in Conv :
         /\ stored[c] = None
         /\ stored' = [stored EXCEPT ![c] = <<>>]
         /\ op' = [op EXCEPT ![n].step = "created", ![n].conv = c]
    /\ UNCHANGED <<files, view, asked, clean>>

\* Where an item goes, had its operation looked at the view again.
SelectedNow(n) == IF selected = None THEN op[n].conv ELSE selected

\* The id the operation has taken along.
Destination(n) == op[n].conv

ServeStore(n) ==
    /\ op[n].step = "store"
    /\ Moved(n, "stored")
    /\ LET c == Destination(n)
           x == op[n].item
       IN  IF x \in Question
           THEN stored' = [stored EXCEPT ![c] = Append(@, x)] /\ UNCHANGED files
           ELSE files' = [files EXCEPT ![c] = @ \cup {x}] /\ UNCHANGED stored
    /\ UNCHANGED <<view, asked, clean>>

ServeRead(n) ==
    /\ op[n].step = "read"
    /\ op' = [op EXCEPT ![n].step = "answered",
                        ![n].data = [turns |-> stored[op[n].conv],
                                     files |-> files[op[n].conv]]]
    /\ UNCHANGED <<server, view, asked, clean>>

-----------------------------------------------------------------------------
(* Answers *)

ReceiveCreated(n) ==
    /\ op[n].step = "created"
    /\ Moved(n, "store")
    /\ selected' = op[n].conv
    /\ UNCHANGED <<server, shown, busy, asked, clean>>

\* The conversation is opened.
ReceiveStored(n) ==
    /\ op[n].step = "stored"
    /\ Moved(n, "read")
    /\ selected' = op[n].conv
    /\ UNCHANGED <<server, shown, busy, asked, clean>>

\* What setTurns leaves, the view's own turns kept.
Merged(n) == [View(op[n].conv, op[n].data) EXCEPT !.local = shown.local]

Loaded(n) == View(op[n].conv, op[n].data)

\* busy when a send resets it only if it went well.
BusyAfterAnswer(n, failed) == busy /\ (op[n].item \notin Question \/ failed)

\* The view is busy no more when a send has ended, well or not (finally).
BusyAfter(n, failed) == busy /\ op[n].item \notin Question

ReceiveRead(n) ==
    /\ op[n].step = "answered"
    /\ shown' = Loaded(n)
    /\ busy' = BusyAfter(n, FALSE)
    /\ op' = [op EXCEPT ![n] = None]
    /\ UNCHANGED <<server, selected, asked, clean>>

\* A request that fails or whose answer is lost.  Of an open or an attach the user
\* is not told; the turn that a send puts up about it is left out.
Fail(n) ==
    /\ busy' = BusyAfter(n, TRUE)
    /\ op' = [op EXCEPT ![n] = None]
    /\ clean' = FALSE
    /\ UNCHANGED <<server, selected, shown, asked>>

-----------------------------------------------------------------------------

Network(n) ==
    /\ n \in InFlight
    /\ \/ ServeCreate(n) \/ ServeStore(n) \/ ServeRead(n)
       \/ ReceiveCreated(n) \/ ReceiveStored(n) \/ ReceiveRead(n)
       \/ Fail(n)

Next ==
    \/ \E q \in Question : Send(q)
    \/ \E f \in File : Attach(f)
    \/ \E c \in Conv : Open(c)
    \/ NewChat
    \/ \E n \in InFlight : Network(n)

Spec == Init /\ [][Next]_vars

\* Every request is answered or fails in the end; the user need do nothing.
FairSpec == Spec /\ \A n \in 1..MaxOps : WF_vars(Network(n))

-----------------------------------------------------------------------------
(* Properties *)

Questions(c) == IF stored[c] = None THEN <<>> ELSE stored[c]

\* A question or a file is stored once at most, in the conversation that was
\* selected when it was sent even if another was opened meanwhile, or, if none
\* was, in one that it starts (send and attach keep the id they began with).
GoesWhereAsked ==
    \A c \in Conv :
        /\ \A i \in DOMAIN Questions(c) :
             LET q == Questions(c)[i]
             IN  /\ asked[q] = c \/ (asked[q] = None /\ i = 1)
                 /\ \A d \in Conv : \A j \in DOMAIN Questions(d) :
                      Questions(d)[j] = q => d = c /\ j = i
        /\ \A f \in files[c] : asked[f] \in {c, None}

\* When nothing overlapped or failed since the view was last quiet, it shows the
\* selected conversation as the server has it, and nothing if none is selected
\* (open, newChat).
SettledView ==
    Quiet /\ clean =>
        shown = IF selected = None THEN View(None, Nothing)
                ELSE View(selected, [turns |-> stored[selected],
                                     files |-> files[selected]])

\* The input is never left disabled: a send ends, whatever happens to its requests
\* (send's finally).
BusyEnds == busy ~> ~busy
=============================================================================

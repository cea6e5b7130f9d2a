---------------------------- MODULE Conversation ----------------------------
(***************************************************************************)
(* Conversations (backend/app/chat/service.py), the review runs and        *)
(* batches they point at (backend/app/review/service.py, batch.py) and the *)
(* explanations of runs (explainer.py).                                    *)
(*                                                                         *)
(* A request runs on a thread of its own and opens several database        *)
(* transactions: a message is checked and stored in one, answered with     *)
(* none open, and the answer is stored in another.  Rows that a request    *)
(* has checked may be changed by others before it goes on.                 *)
(***************************************************************************)
EXTENDS Naturals, Sequences, FiniteSets

CONSTANTS
    User, Conv,
    OwnerOf,        \* OwnerOf[c]: the user who creates conversation c
    ModeOf,         \* ModeOf[c]: the mode it is created in
    Request,        \* HTTP requests, each served once
    Text,           \* messages
    Hints,          \* Hints[t]: what the phrases of message t suggest
    Source,         \* regulations that a report may cite
    None

Hint == {"chitchat", "follow-up", "attachment", "change result",
         "new parameters"}

Mode == {"REGULATORY_ASSISTANT", "DOCUMENT_REVIEW"}

ASSUME ConversationAssumption ==
    /\ OwnerOf \in [Conv -> User]
    /\ ModeOf \in [Conv -> Mode]
    /\ Hints \in [Text -> SUBSET Hint]
    /\ None \notin User \cup Conv \cup Request

-----------------------------------------------------------------------------
(* Rows *)

\* `kept' and `late' are history: how many turns there were in all when the
\* conversation was deleted, and the requests in flight at that moment.
ConvRow == [owner : User, mode : Mode, retention : {"ACTIVE", "DELETED"},
            run : Request \cup {None}, batch : Request \cup {None},
            kept : Nat, late : SUBSET Request]

\* What an answer is made of: an earlier question, an attachment, a run or a
\* batch, each named by the request that stored it.
Piece == {"question", "attachment", "run", "batch"} \X Request

Turn == [conv : Conv, owner : User, role : {"user", "assistant"},
         by : Request, uses : SUBSET Piece, cites : SUBSET Source]

Attachment == [id : Request, conv : Conv, owner : User,
               retention : {"ACTIVE", "EXPIRED"}]

RunState == {"READY", "INSUFFICIENT_EVIDENCE", "FAILED"}
RunRow == [owner : User, conv : Conv, state : RunState,
           evidence : SUBSET Source]

BatchRow == [owner : User, conv : Conv, done : BOOLEAN]

\* A request in flight, with what it has read.
Step == {"new", "read", "stored", "answered", "attaching", "deleting",
         "reviewing", "batching", "done", "not found", "conflict", "failed"}
RequestRow == [step : Step, user : User \cup {None}, conv : Conv \cup {None},
               text : Text \cup {None}, mode : Mode,
               run : Request \cup {None}, batch : Request \cup {None},
               uses : SUBSET Piece, cites : SUBSET Source]

\* A row that is missing is told from one that is there.
ASSUME RowAssumption == None \notin ConvRow \cup RunRow \cup BatchRow

VARIABLES conv, turn, attachment, run, batch, req

vars == <<conv, turn, attachment, run, batch, req>>

TypeOK ==
    /\ conv \in [Conv -> ConvRow \cup {None}]
    /\ turn \in Seq(Turn)
    /\ attachment \in Seq(Attachment)
    /\ run \in [Request -> RunRow \cup {None}]
    /\ batch \in [Request -> BatchRow \cup {None}]
    /\ req \in [Request -> RequestRow]

Fresh == [step |-> "new", user |-> None, conv |-> None, text |-> None,
          mode |-> "REGULATORY_ASSISTANT", run |-> None, batch |-> None,
          uses |-> {}, cites |-> {}]

Init ==
    /\ conv = [c \in Conv |-> None]
    /\ turn = <<>>
    /\ attachment = <<>>
    /\ run = [r \in Request |-> None]
    /\ batch = [r \in Request |-> None]
    /\ req = [r \in Request |-> Fresh]

InFlight(c) == {r \in Request :
                  /\ req[r].conv = c
                  /\ req[r].step \in {"read", "stored", "answered", "attaching"}}

\* _conv_or_404, with no look at the retention status.
VisibleDeleted(u, c) == conv[c] # None /\ conv[c].owner = u

\* _conv_or_404
Visible(u, c) ==
    conv[c] # None /\ conv[c].owner = u /\ conv[c].retention = "ACTIVE"

Go(r, step) == req' = [req EXCEPT ![r].step = step]

\* The response is sent; nothing of what the request has read is left.
End(r, step) == req' = [req EXCEPT ![r] = [Fresh EXCEPT !.step = step]]

\* The check of _conv_or_404 fails, whatever the request wanted.
NotFound(r, u, c) ==
    /\ req[r].step = "new"
    /\ ~Visible(u, c)
    /\ End(r, "not found")
    /\ UNCHANGED <<conv, turn, attachment, run, batch>>

CreateConversation(c) ==
    /\ conv[c] = None
    /\ conv' = [conv EXCEPT ![c] =
                  [owner |-> OwnerOf[c], mode |-> ModeOf[c], retention |-> "ACTIVE",
                   run |-> None, batch |-> None, kept |-> 0, late |-> {}]]
    /\ UNCHANGED <<turn, attachment, run, batch, req>>

-----------------------------------------------------------------------------
(* Messages (post_message)                                                    *)

\* Where the newest of some rows is, if there is one.
LastOf(rows) == {i \in rows : \A j \in rows : j <= i}

\* _turns: where the user's own questions are.
Questions(u, c) ==
    {i \in DOMAIN turn : /\ turn[i].conv = c /\ turn[i].owner = u
                         /\ turn[i].role = "user"}

\* _attachment_context, with the conversation left out of the filter.
AttachmentsOfOwner(u, c) ==
    {i \in DOMAIN attachment : /\ attachment[i].owner = u
                               /\ attachment[i].retention = "ACTIVE"}

Attachments(u, c) ==
    {i \in DOMAIN attachment : /\ attachment[i].conv = c /\ attachment[i].owner = u
                               /\ attachment[i].retention = "ACTIVE"}

\* The newest attachment, if the message speaks of one.
AttachmentContext(u, c, t) ==
    {<<"attachment", attachment[i].id>> :
        i \in IF "attachment" \in Hints[t] THEN LastOf(Attachments(u, c)) ELSE {}}

\* _contextualize: the last question, if the message looks like a follow-up.
PreviousQuestion(u, c, t) ==
    {<<"question", turn[i].by>> :
        i \in IF "follow-up" \in Hints[t] THEN LastOf(Questions(u, c)) ELSE {}}

\* The first transaction, up to its commit.
PostRead(r, u, c, t) ==
    /\ req[r].step = "new"
    /\ Visible(u, c)
    /\ req' = [req EXCEPT ![r] =
                 [step |-> "read", user |-> u, conv |-> c, text |-> t,
                  mode |-> conv[c].mode, run |-> conv[c].run,
                  batch |-> conv[c].batch, cites |-> {},
                  uses |-> AttachmentContext(u, c, t)
                             \cup PreviousQuestion(u, c, t)]]
    /\ UNCHANGED <<conv, turn, attachment, run, batch>>

TurnOf(r, role, uses, cites) ==
    [conv |-> req[r].conv, owner |-> req[r].user, role |-> role, by |-> r,
     uses |-> uses, cites |-> cites]

PostStore(r) ==
    /\ req[r].step = "read"
    /\ turn' = Append(turn, TurnOf(r, "user", {}, {}))
    /\ Go(r, "stored")
    /\ UNCHANGED <<conv, attachment, run, batch>>

\* The answer, computed with no transaction open.
Answered(r, uses, cites) ==
    /\ req' = [req EXCEPT ![r].step = "answered", ![r].uses = uses,
                          ![r].cites = cites]
    /\ UNCHANGED <<conv, turn, attachment, run, batch>>

Asks(r, hint) == hint \in Hints[req[r].text]

PiecesOf(r, kind) == {x \in req[r].uses : x[1] = kind}

\* Small talk, when there is no attachment to speak of.
SmallTalk(r) ==
    /\ req[r].step = "stored"
    /\ req[r].mode = "REGULATORY_ASSISTANT"
    /\ Asks(r, "chitchat")
    /\ PiecesOf(r, "attachment") = {}
    /\ Answered(r, {}, {})

\* A question to the knowledge base, with the attachment and the last question.
AskRegulations(r) ==
    /\ req[r].step = "stored"
    /\ req[r].mode = "REGULATORY_ASSISTANT"
    /\ ~Asks(r, "chitchat") \/ PiecesOf(r, "attachment") # {}
    /\ \E cites \in SUBSET Source : Answered(r, req[r].uses, cites)

\* answer_query raises, or the explainer: for one, with 404 for a run that is not
\* the user's.
AnswerFails(r) ==
    /\ req[r].step = "stored"
    /\ End(r, "failed")
    /\ UNCHANGED <<conv, turn, attachment, run, batch>>

\* A review conversation that has nothing to explain yet: the question stays.
ReviewRequired(r) ==
    /\ req[r].step = "stored"
    /\ req[r].mode = "DOCUMENT_REVIEW"
    /\ req[r].run = None /\ req[r].batch = None
    /\ End(r, "conflict")
    /\ UNCHANGED <<conv, turn, attachment, run, batch>>

Explaining(r) ==
    /\ req[r].step = "stored"
    /\ req[r].mode = "DOCUMENT_REVIEW"
    /\ req[r].run # None
    /\ run[req[r].run] # None
    /\ run[req[r].run].owner = req[r].user

\* A wish to change the result or the parameters is turned down without a look
\* at the findings; so is a run that has none.
TurnDown(r) ==
    /\ Explaining(r)
    /\ \/ Asks(r, "change result") \/ Asks(r, "new parameters")
       \/ run[req[r].run].state # "READY"
    /\ Answered(r, {<<"run", req[r].run>>}, {})

\* _llm_polish: a text that cites something else than the evidence of the finding
\* gives way to the deterministic one, which cites the evidence.
Polish(r) == SUBSET run[req[r].run].evidence

Explain(r) ==
    /\ Explaining(r)
    /\ ~Asks(r, "change result") /\ ~Asks(r, "new parameters")
    /\ run[req[r].run].state = "READY"
    /\ \E cites \in Polish(r) : Answered(r, {<<"run", req[r].run>>}, cites)

\* A batch is explained only in a conversation that never had a run.
ExplainBatch(r) ==
    /\ req[r].step = "stored"
    /\ req[r].mode = "DOCUMENT_REVIEW"
    /\ req[r].run = None /\ req[r].batch # None
    /\ Answered(r, {<<"batch", req[r].batch>>}, {})

\* PostReply that drops the answer of a conversation deleted meanwhile.
PostReplyIfActive(r) ==
    /\ req[r].step = "answered"
    /\ turn' = IF Visible(req[r].user, req[r].conv)
               THEN Append(turn, TurnOf(r, "assistant", req[r].uses, req[r].cites))
               ELSE turn
    /\ End(r, "done")
    /\ UNCHANGED <<conv, attachment, run, batch>>

\* The second transaction.
PostReply(r) ==
    /\ req[r].step = "answered"
    /\ turn' = Append(turn, TurnOf(r, "assistant", req[r].uses, req[r].cites))
    /\ End(r, "done")
    /\ UNCHANGED <<conv, attachment, run, batch>>

-----------------------------------------------------------------------------
(* Attachments and deletion                                                   *)

AttachCheck(r, u, c) ==
    /\ req[r].step = "new"
    /\ Visible(u, c)
    /\ req' = [req EXCEPT ![r] = [Fresh EXCEPT !.step = "attaching",
                                               !.user = u, !.conv = c]]
    /\ UNCHANGED <<conv, turn, attachment, run, batch>>

AttachCommit(r) ==
    /\ req[r].step = "attaching"
    /\ attachment' = Append(attachment, [id |-> r, conv |-> req[r].conv,
                                         owner |-> req[r].user,
                                         retention |-> "ACTIVE"])
    /\ End(r, "done")
    /\ UNCHANGED <<conv, turn, run, batch>>

\* The attachments are read, and will be written when the transaction commits.
DeleteRead(r, u, c) ==
    /\ req[r].step = "new"
    /\ Visible(u, c)
    /\ req' = [req EXCEPT ![r] =
                 [Fresh EXCEPT !.step = "deleting", !.user = u, !.conv = c,
                    !.uses = {<<"attachment", x.id>> :
                                x \in {attachment[i] : i \in
                                         {j \in DOMAIN attachment :
                                            /\ attachment[j].conv = c
                                            /\ attachment[j].owner = u}}}]]
    /\ UNCHANGED <<conv, turn, attachment, run, batch>>

DeleteCommit(r) ==
    /\ req[r].step = "deleting"
    /\ LET c == req[r].conv
       IN conv' = [conv EXCEPT ![c].retention = "DELETED",
                     ![c].kept = IF conv[c].retention = "DELETED" THEN @
                                 ELSE Len(turn),
                     ![c].late = IF conv[c].retention = "DELETED" THEN @
                                 ELSE InFlight(c)]
    /\ attachment' = [i \in DOMAIN attachment |->
                        IF <<"attachment", attachment[i].id>> \in req[r].uses
                        THEN [attachment[i] EXCEPT !.retention = "EXPIRED"]
                        ELSE attachment[i]]
    /\ End(r, "done")
    /\ UNCHANGED <<turn, run, batch>>

-----------------------------------------------------------------------------
(* Reviews (create_review_run, rerun, create_batch_review)                    *)

\* Any user may name any conversation; it is looked up only when the result is
\* stored.  (A review that names none has no effect on conversations and is left
\* out.)  A re-run takes the conversation of the old run.
Review(r, u, c, step) ==
    /\ req[r].step = "new"
    /\ req' = [req EXCEPT ![r] = [Fresh EXCEPT !.step = step, !.user = u,
                                               !.conv = c]]
    /\ UNCHANGED <<conv, turn, attachment, run, batch>>

StartRun(r, u, c) == Review(r, u, c, "reviewing")

Rerun(r, old) ==
    /\ run[old] # None
    /\ Review(r, run[old].owner, run[old].conv, "reviewing")

\* The conversations whose row the query for an owner and an id returns, with
\* the owner left out.
PointedByAnyone(u, c) == {k \in Conv : k = c /\ conv[k] # None}

\* It does not look at the mode or the retention status.
PointedBy(u, c) == {k \in Conv : k = c /\ conv[k] # None /\ conv[k].owner = u}

\* The run is stored and becomes the active one, even when it failed.
StoreRun(r, state, evidence) ==
    /\ req[r].step = "reviewing"
    /\ run' = [run EXCEPT ![r] = [owner |-> req[r].user, conv |-> req[r].conv,
                                  state |-> state, evidence |-> evidence]]
    /\ conv' = [c \in Conv |-> IF c \in PointedBy(req[r].user, req[r].conv)
                               THEN [conv[c] EXCEPT !.run = r] ELSE conv[c]]
    /\ End(r, IF state = "FAILED" THEN "failed" ELSE "done")
    /\ UNCHANGED <<turn, attachment, batch>>

StartBatch(r, u, c) ==
    /\ req[r].step = "new"
    /\ batch' = [batch EXCEPT ![r] = [owner |-> u, conv |-> c, done |-> FALSE]]
    /\ conv' = [k \in Conv |-> IF k \in PointedBy(u, c)
                               THEN [conv[k] EXCEPT !.batch = r] ELSE conv[k]]
    /\ req' = [req EXCEPT ![r] = [Fresh EXCEPT !.step = "batching", !.user = u,
                                               !.conv = c]]
    /\ UNCHANGED <<turn, attachment, run>>

\* The items are done (Batch.tla) and the summary is written.
FinishBatch(r) ==
    /\ req[r].step = "batching"
    /\ batch' = [batch EXCEPT ![r].done = TRUE]
    /\ End(r, "done")
    /\ UNCHANGED <<conv, turn, attachment, run>>

-----------------------------------------------------------------------------
\* A request takes its next step; which requests arrive is up to the users.
Work(r) ==
    \/ PostStore(r)
    \/ SmallTalk(r) \/ AskRegulations(r) \/ AnswerFails(r)
    \/ ReviewRequired(r) \/ TurnDown(r) \/ Explain(r)
    \/ ExplainBatch(r) \/ PostReply(r)
    \/ AttachCommit(r) \/ DeleteCommit(r) \/ FinishBatch(r)
    \/ \E evidence \in SUBSET Source : StoreRun(r, "READY", evidence)
    \/ \E state \in RunState \ {"READY"} : StoreRun(r, state, {})

Arrive(r) ==
    \/ \E u \in User, c \in Conv :
         \/ NotFound(r, u, c) \/ AttachCheck(r, u, c) \/ DeleteRead(r, u, c)
         \/ \E t \in Text : PostRead(r, u, c, t)
         \/ StartRun(r, u, c) \/ StartBatch(r, u, c)
    \/ \E old \in Request : Rerun(r, old)

Next ==
    \/ \E c \in Conv : CreateConversation(c)
    \/ \E r \in Request : Arrive(r) \/ Work(r)

Spec == Init /\ [][Next]_vars

-----------------------------------------------------------------------------
(* Correctness *)

Rows(s) == {s[i] : i \in DOMAIN s}

\* The conversation and the owner a piece of an answer belongs to.
BelongsTo(x, c, u) ==
    CASE x[1] = "question" ->
           \E y \in Rows(turn) : /\ y.by = x[2] /\ y.role = "user"
                                 /\ y.conv = c /\ y.owner = u
      [] x[1] = "attachment" ->
           \E y \in Rows(attachment) : y.id = x[2] /\ y.conv = c /\ y.owner = u
      [] x[1] = "run" -> run[x[2]].conv = c /\ run[x[2]].owner = u
      [] x[1] = "batch" -> batch[x[2]].conv = c /\ batch[x[2]].owner = u

\* Whatever an answer is made of, an earlier question, an attachment, a report,
\* is of the same conversation and the same owner: nothing leaks from one to
\* another, though anyone may name any conversation when a review is started.
\* An explanation is stored with sources of the report that it names, not of
\* one that replaced it meanwhile.  (That prose with another source in brackets
\* gives way is in Polish and in Views.tla; prose that names one in other words
\* is not looked at by the code.)
Isolated ==
    \A y \in Rows(turn) :
        /\ y.owner = conv[y.conv].owner
        /\ \A x \in y.uses :
             /\ BelongsTo(x, y.conv, y.owner)
             /\ x[1] = "run" => y.cites \subseteq run[x[2]].evidence

AnswerStored(r) == \E y \in Rows(turn) : y.by = r /\ y.role = "assistant"

\* A question without an answer belongs to a request that goes on or that told
\* its user so (409 or 500): no answer that was returned is missing from the
\* history, even when the conversation was deleted meanwhile.
QuestionsAccounted ==
    \A y \in Rows(turn) :
        AnswerStored(y.by)
          \/ req[y.by].step \in {"stored", "answered", "conflict", "failed"}

\* A conversation that was deleted gets no turn from a request that came after
\* the deletion; requests that were in flight may still add theirs.
DeletedRefuses ==
    \A i \in DOMAIN turn :
        LET c == turn[i].conv
        IN conv[c].retention = "DELETED" /\ i > conv[c].kept
             => turn[i].by \in conv[c].late

\* The run and the batch a conversation points at are there, are its own and are
\* its owner's: the explainer never answers 404 for them.
PointersSound ==
    \A c \in {k \in Conv : conv[k] # None} :
        /\ conv[c].run # None =>
             /\ run[conv[c].run] # None
             /\ run[conv[c].run].owner = conv[c].owner /\ run[conv[c].run].conv = c
        /\ conv[c].batch # None =>
             /\ batch[conv[c].batch] # None
             /\ batch[conv[c].batch].owner = conv[c].owner
             /\ batch[conv[c].batch].conv = c
=============================================================================

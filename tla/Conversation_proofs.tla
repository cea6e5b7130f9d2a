------------------------ MODULE Conversation_proofs -------------------------
(***************************************************************************)
(* Proofs about Conversation: what an answer is made of stays with its     *)
(* conversation and its owner, while requests check a row in one           *)
(* transaction and write in another.                                       *)
(***************************************************************************)
EXTENDS Conversation, TLAPS

-----------------------------------------------------------------------------
(* The inductive invariant                                                   *)

\* The steps of a message, and of every request that has checked a conversation.
Serving == {"read", "stored", "answered"}
Holding == Serving \cup {"attaching", "deleting"}

\* A request goes on with a conversation that is there and is its user's: a row is
\* never removed, and never given to another.
Held ==
    \A r \in Request : req[r].step \in Holding =>
        /\ req[r].conv \in Conv
        /\ conv[req[r].conv] # None /\ conv[req[r].conv].owner = req[r].user

\* What a request stores under its own id is stored once.
Served ==
    \A r \in Request :
        /\ req[r].step \in {"new", "reviewing"} => run[r] = None
        /\ req[r].step = "new" => batch[r] = None
        /\ req[r].step = "batching" => batch[r] # None
        /\ req[r].step \in {"reviewing", "batching"} =>
              req[r].user \in User /\ req[r].conv \in Conv

RunOf(q, c, u) == run[q] # None /\ run[q].conv = c /\ run[q].owner = u
BatchOf(q, c, u) == batch[q] # None /\ batch[q].conv = c /\ batch[q].owner = u

\* A piece of an answer is there and is of a conversation and an owner.
PieceOf(x, c, u) ==
    /\ BelongsTo(x, c, u)
    /\ x[1] = "run" => RunOf(x[2], c, u)
    /\ x[1] = "batch" => BatchOf(x[2], c, u)

\* What is cited with a piece is evidence of the report, if it is one.
Cited(x, cites) == x[1] = "run" => cites \subseteq run[x[2]].evidence

\* So is everything a message in flight has read or is about to answer with; what it
\* was read with is no report.
Gathered ==
    \A r \in Request : req[r].step \in Serving =>
        \A x \in req[r].uses :
            /\ PieceOf(x, req[r].conv, req[r].user)
            /\ Cited(x, req[r].cites)
            /\ req[r].step # "answered" => x[1] \in {"question", "attachment"}

\* The run and the batch a message was read with are its own as well.
Pointed ==
    \A r \in Request : req[r].step \in {"read", "stored"} =>
        /\ req[r].run # None => RunOf(req[r].run, req[r].conv, req[r].user)
        /\ req[r].batch # None => BatchOf(req[r].batch, req[r].conv, req[r].user)

\* Every turn is of a conversation that is there, and so are its pieces.
Told ==
    \A y \in Rows(turn) :
        /\ conv[y.conv] # None /\ y.owner = conv[y.conv].owner
        /\ \A x \in y.uses : PieceOf(x, y.conv, y.owner) /\ Cited(x, y.cites)

\* A message that goes on with a deleted conversation was in flight at the deletion.
Late ==
    \A r \in Request :
        req[r].step \in Serving /\ conv[req[r].conv].retention = "DELETED"
          => r \in conv[req[r].conv].late

IInv ==
    /\ TypeOK /\ Held /\ Served /\ Gathered /\ Pointed /\ Told /\ Late
    /\ PointersSound /\ QuestionsAccounted /\ DeletedRefuses

-----------------------------------------------------------------------------
(* Rows and steps                                                            *)

\* A row that is appended is one more row, and no other changes.
LEMMA Appended ==
    ASSUME NEW S, NEW s \in Seq(S), NEW x \in S
    PROVE  /\ Append(s, x) \in Seq(S)
           /\ Rows(Append(s, x)) = Rows(s) \cup {x}
           /\ Rows(s) \subseteq S
<1>1. /\ Append(s, x) \in Seq(S) /\ Len(Append(s, x)) = Len(s) + 1 /\ Len(s) \in Nat
      /\ DOMAIN Append(s, x) = 1..(Len(s) + 1) /\ DOMAIN s = 1..Len(s)
      /\ \A i \in 1..Len(s) : Append(s, x)[i] = s[i]
      /\ Append(s, x)[Len(s) + 1] = x
  OBVIOUS
<1>2. Rows(Append(s, x)) = Rows(s) \cup {x}
  <2>1. 1..(Len(s) + 1) = (1..Len(s)) \cup {Len(s) + 1}
    BY <1>1
  <2> QED
    BY <1>1, <2>1 DEF Rows
<1> QED
  BY <1>1, <1>2 DEF Rows

\* What the rows of a well formed state are.
LEMMA Typed ==
    ASSUME TypeOK
    PROVE  /\ \A c \in Conv : conv[c] # None => conv[c] \in ConvRow
           /\ \A q \in Request : run[q] # None => run[q] \in RunRow
           /\ \A q \in Request : batch[q] # None => batch[q] \in BatchRow
           /\ Rows(turn) \subseteq Turn /\ Rows(attachment) \subseteq Attachment
           /\ None \notin User /\ None \notin Conv /\ None \notin Request
  BY ConversationAssumption DEF TypeOK, Rows

\* A request leaves the others alone.
LEMMA OthersGoOn ==
    ASSUME TypeOK, NEW r \in Request, Arrive(r) \/ Work(r)
    PROVE  \A q \in Request \ {r} : req'[q] = req[q]
<1> USE DEF TypeOK, End, Go
<1>1. CASE Arrive(r)
  BY <1>1 DEF Arrive, NotFound, AttachCheck, DeleteRead, PostRead, StartRun, StartBatch, Rerun,
              Review
<1>2. CASE Work(r)
  BY <1>2 DEF Work, PostStore, SmallTalk, AskRegulations, AnswerFails, ReviewRequired, TurnDown,
              Explain, ExplainBatch, PostReply, AttachCommit, DeleteCommit, FinishBatch,
              StoreRun, Answered
<1> QED
  BY <1>1, <1>2

\* The five ways to answer a message that has stored its question.
Answering(r) ==
    \/ SmallTalk(r) \/ AskRegulations(r) \/ TurnDown(r) \/ Explain(r) \/ ExplainBatch(r)

\* An answer is made of what was read, of nothing, or of the run or the batch the
\* conversation pointed at, and cites the source of each piece it uses.
LEMMA Answers ==
    ASSUME IInv, NEW r \in Request, Answering(r)
    PROVE  \E uses \in SUBSET Piece, cites \in SUBSET Source :
              /\ Answered(r, uses, cites)
              /\ req[r].step = "stored"
              /\ \A x \in uses : /\ PieceOf(x, req[r].conv, req[r].user)
                                 /\ Cited(x, cites)
<1> USE DEF IInv
<1>0. req[r] \in RequestRow /\ req[r].step = "stored"
  BY DEF TypeOK, Answering, SmallTalk, AskRegulations, TurnDown, Explain, ExplainBatch,
         Explaining
<1>1. CASE SmallTalk(r)
  <2>1. {} \in SUBSET Piece /\ {} \in SUBSET Source
    OBVIOUS
  <2> QED
    BY <1>0, <1>1, <2>1 DEF SmallTalk
<1>2. CASE AskRegulations(r)
  <2>1. PICK cites \in SUBSET Source : Answered(r, req[r].uses, cites)
    BY <1>2 DEF AskRegulations
  <2>2. req[r].uses \in SUBSET Piece
    BY <1>0 DEF RequestRow
  <2>3. \A x \in req[r].uses : PieceOf(x, req[r].conv, req[r].user) /\ Cited(x, cites)
    BY <1>0 DEF Gathered, Serving, Cited
  <2> QED
    BY <1>0, <2>1, <2>2, <2>3
<1>3. ASSUME Explaining(r), NEW cites \in SUBSET Source,
             cites \subseteq run[req[r].run].evidence,
             Answered(r, {<<"run", req[r].run>>}, cites)
      PROVE  \E uses \in SUBSET Piece, S \in SUBSET Source :
                /\ Answered(r, uses, S)
                /\ req[r].step = "stored"
                /\ \A x \in uses : PieceOf(x, req[r].conv, req[r].user) /\ Cited(x, S)
  <2> DEFINE x == <<"run", req[r].run>>
  <2>1. req[r].run \in Request /\ RunOf(req[r].run, req[r].conv, req[r].user)
    BY <1>0, <1>3 DEF Explaining, Pointed, RequestRow
  <2>2. {x} \in SUBSET Piece
    BY <2>1 DEF Piece
  <2>3. x[1] = "run" /\ x[2] = req[r].run
    OBVIOUS
  <2>4. PieceOf(x, req[r].conv, req[r].user) /\ Cited(x, cites)
    BY <1>3, <2>1, <2>3 DEF PieceOf, BelongsTo, RunOf, Cited
  <2> QED
    BY <1>0, <1>3, <2>2, <2>4
<1>4. CASE TurnDown(r)
  <2> DEFINE none == {}
  <2>1. Explaining(r) /\ Answered(r, {<<"run", req[r].run>>}, none)
    BY <1>4 DEF TurnDown
  <2>2. none \in SUBSET Source /\ none \subseteq run[req[r].run].evidence
    OBVIOUS
  <2> HIDE DEF none
  <2> QED
    BY <1>3, <2>1, <2>2
<1>5. CASE Explain(r)
  <2>1. run[req[r].run].evidence \in SUBSET Source
    <3>1. req[r].run \in Request /\ run[req[r].run] # None
      BY <1>0, <1>5 DEF Explain, Explaining, RequestRow
    <3> QED
      BY <3>1, Typed DEF RunRow
  <2> QED
    BY <1>3, <1>5, <2>1 DEF Explain, Polish
<1>6. CASE ExplainBatch(r)
  <2> DEFINE x == <<"batch", req[r].batch>>
  <2>1. req[r].batch \in Request /\ BatchOf(req[r].batch, req[r].conv, req[r].user)
    BY <1>0, <1>6 DEF ExplainBatch, Pointed, RequestRow
  <2>2. {x} \in SUBSET Piece /\ {} \in SUBSET Source
    BY <2>1 DEF Piece
  <2>3. x[1] = "batch" /\ x[2] = req[r].batch
    OBVIOUS
  <2>4. PieceOf(x, req[r].conv, req[r].user) /\ Cited(x, {})
    BY <2>1, <2>3 DEF PieceOf, BelongsTo, BatchOf, Cited
  <2>5. Answered(r, {x}, {})
    BY <1>6 DEF ExplainBatch
  <2> QED
    BY <1>0, <2>2, <2>4, <2>5
<1> QED
  BY <1>1, <1>2, <1>4, <1>5, <1>6 DEF Answering

\* What a step changes: a request moves, or a conversation is created.
LEMMA WhoMoves ==
    ASSUME Next
    PROVE  \/ \E c \in Conv : CreateConversation(c)
           \/ \E r \in Request : Arrive(r) \/ Work(r)
  BY DEF Next

\* Which steps write which rows.
LEMMA Writers ==
    ASSUME NEW r \in Request, Arrive(r) \/ Work(r)
    PROVE  /\ turn' # turn => PostStore(r) \/ PostReply(r)
           /\ attachment' # attachment => AttachCommit(r) \/ DeleteCommit(r)
           /\ run' # run => \E state \in RunState, evidence \in SUBSET Source :
                               StoreRun(r, state, evidence)
           /\ batch' # batch => \/ \E u \in User, c \in Conv : StartBatch(r, u, c)
                                \/ FinishBatch(r)
           /\ conv' # conv =>
                \/ DeleteCommit(r)
                \/ \E u \in User, c \in Conv : StartBatch(r, u, c)
                \/ \E state \in RunState, evidence \in SUBSET Source :
                      StoreRun(r, state, evidence)
           /\ \E row : req' = [req EXCEPT ![r] = row]
<1>1. CASE Arrive(r)
  <2> USE <1>1 DEF Arrive, NotFound, AttachCheck, DeleteRead, PostRead, StartRun, StartBatch,
                   Rerun, Review, End
  <2>1. turn' = turn /\ attachment' = attachment /\ run' = run
    OBVIOUS
  <2>2. batch' # batch \/ conv' # conv => \E u \in User, c \in Conv : StartBatch(r, u, c)
    OBVIOUS
  <2>3. \E row : req' = [req EXCEPT ![r] = row]
    OBVIOUS
  <2> QED
    BY <2>1, <2>2, <2>3
<1>2. CASE Work(r)
  <2> USE <1>2 DEF Answered, End, Go, Work, PostStore, SmallTalk, AskRegulations, AnswerFails,
                   ReviewRequired, TurnDown, Explain, ExplainBatch, PostReply, AttachCommit,
                   DeleteCommit, FinishBatch, StoreRun
  <2>1. turn' # turn => PostStore(r) \/ PostReply(r)
    OBVIOUS
  <2>2. attachment' # attachment => AttachCommit(r) \/ DeleteCommit(r)
    OBVIOUS
  <2>3. {} \in SUBSET Source /\ "READY" \in RunState
    BY DEF RunState
  <2>4. run' # run => \E state \in RunState, evidence \in SUBSET Source :
                         StoreRun(r, state, evidence)
    BY <2>3
  <2>5. batch' # batch => FinishBatch(r)
    OBVIOUS
  <2>6. conv' # conv => \/ DeleteCommit(r)
                        \/ \E state \in RunState, evidence \in SUBSET Source :
                              StoreRun(r, state, evidence)
    BY <2>3
  <2>7. \E row : req' = [req EXCEPT ![r] = row]
    <3>1. CASE \/ \E evidence \in SUBSET Source : StoreRun(r, "READY", evidence)
               \/ \E state \in RunState \ {"READY"} : StoreRun(r, state, {})
      BY <3>1
    <3>2. CASE SmallTalk(r) \/ AskRegulations(r) \/ TurnDown(r) \/ Explain(r) \/ ExplainBatch(r)
      BY <3>2
    <3>3. CASE \/ PostStore(r) \/ AnswerFails(r) \/ ReviewRequired(r) \/ PostReply(r)
               \/ AttachCommit(r) \/ DeleteCommit(r) \/ FinishBatch(r)
      BY <3>3
    <3> QED
      BY <3>1, <3>2, <3>3
  <2> QED
    BY <2>1, <2>2, <2>4, <2>5, <2>6, <2>7
<1> QED
  BY <1>1, <1>2

\* What a step leaves of the rows there are: conversations keep their owner, and a
\* deleted one its history; runs and the place of a batch are final; turns stay, and
\* attachments stay where they are.
Lasts ==
    /\ \A c \in Conv : conv[c] # None =>
         /\ conv'[c] # None /\ conv'[c].owner = conv[c].owner
         /\ conv[c].retention = "DELETED" =>
              /\ conv'[c].retention = "DELETED"
              /\ conv'[c].kept = conv[c].kept /\ conv'[c].late = conv[c].late
    /\ \A q \in Request : run[q] # None => run'[q] = run[q]
    /\ \A q \in Request : batch[q] # None =>
         /\ batch'[q] # None
         /\ batch'[q].owner = batch[q].owner /\ batch'[q].conv = batch[q].conv
    /\ Rows(turn) \subseteq Rows(turn')
    /\ \A y \in Rows(attachment) : \E z \in Rows(attachment') :
         z.id = y.id /\ z.conv = y.conv /\ z.owner = y.owner

\* An attachment that is expired is the same attachment.
LEMMA AttachmentsStay ==
    ASSUME TypeOK, NEW r \in Request, DeleteCommit(r)
    PROVE  /\ attachment' \in Seq(Attachment)
           /\ \A y \in Rows(attachment) : \E z \in Rows(attachment') :
                z.id = y.id /\ z.conv = y.conv /\ z.owner = y.owner
<1> DEFINE one(i) == IF <<"attachment", attachment[i].id>> \in req[r].uses
                     THEN [attachment[i] EXCEPT !.retention = "EXPIRED"] ELSE attachment[i]
<1>1. attachment \in Seq(Attachment) /\ attachment' = [i \in DOMAIN attachment |-> one(i)]
  BY DEF DeleteCommit, TypeOK
<1>2. ASSUME NEW i \in DOMAIN attachment
      PROVE  /\ one(i) \in Attachment /\ one(i).id = attachment[i].id
             /\ one(i).conv = attachment[i].conv /\ one(i).owner = attachment[i].owner
  <2>1. attachment[i] \in Attachment
    BY <1>1
  <2> QED
    BY <2>1 DEF Attachment
<1> HIDE DEF one
<1>3. DOMAIN attachment = 1..Len(attachment) /\ Len(attachment) \in Nat
  BY <1>1
<1>4. attachment' \in Seq(Attachment)
  BY <1>1, <1>2, <1>3
<1>5. DOMAIN attachment' = DOMAIN attachment
  BY <1>1
<1>6. \A i \in DOMAIN attachment : attachment'[i] = one(i) /\ attachment'[i] \in Rows(attachment')
  BY <1>1, <1>5 DEF Rows
<1>7. \A y \in Rows(attachment) : \E i \in DOMAIN attachment : y = attachment[i]
  BY DEF Rows
<1> QED
  BY <1>2, <1>4, <1>6, <1>7

\* The rows of a conversation as a step may change them.
LEMMA ConversationsStay ==
    ASSUME TypeOK, Held, Served, Next
    PROVE  /\ conv' \in [Conv -> ConvRow \cup {None}]
           /\ \A c \in Conv : conv[c] # None =>
                /\ conv'[c] # None /\ conv'[c].owner = conv[c].owner
                /\ conv[c].retention = "DELETED" =>
                     /\ conv'[c].retention = "DELETED"
                     /\ conv'[c].kept = conv[c].kept /\ conv'[c].late = conv[c].late
<1> USE DEF TypeOK
<1>0. /\ None \notin ConvRow /\ \A c \in Conv : conv[c] # None => conv[c] \in ConvRow
      /\ DOMAIN conv = Conv
  BY RowAssumption
<1>1. CASE conv' = conv
  BY <1>0, <1>1
<1>2. ASSUME NEW c \in Conv, CreateConversation(c)
      PROVE  /\ conv' \in [Conv -> ConvRow \cup {None}]
             /\ \A k \in Conv : conv[k] # None => conv'[k] = conv[k]
  <2> DEFINE row == [owner |-> OwnerOf[c], mode |-> ModeOf[c], retention |-> "ACTIVE",
                     run |-> None, batch |-> None, kept |-> 0, late |-> {}]
  <2>1. row \in ConvRow
    BY ConversationAssumption DEF ConvRow
  <2>2. conv' = [conv EXCEPT ![c] = row] /\ conv[c] = None
    BY <1>2 DEF CreateConversation
  <2> HIDE DEF row
  <2> QED
    BY <2>1, <2>2
<1>3. ASSUME NEW r \in Request, DeleteCommit(r)
      PROVE  /\ conv' \in [Conv -> ConvRow \cup {None}]
             /\ \A k \in Conv : conv[k] # None =>
                  /\ conv'[k] # None /\ conv'[k].owner = conv[k].owner
                  /\ conv[k].retention = "DELETED" =>
                       /\ conv'[k].retention = "DELETED"
                       /\ conv'[k].kept = conv[k].kept /\ conv'[k].late = conv[k].late
  <2> DEFINE c == req[r].conv
             deleted == conv[c].retention = "DELETED"
             kept == IF deleted THEN conv[c].kept ELSE Len(turn)
             late == IF deleted THEN conv[c].late ELSE InFlight(c)
             row == [conv[c] EXCEPT !.retention = "DELETED", !.kept = kept, !.late = late]
  <2>1. c \in Conv /\ conv[c] \in ConvRow
    BY <1>0, <1>3 DEF DeleteCommit, Held, Holding, Serving
  <2>2. conv' = [conv EXCEPT ![c] = row]
    BY <1>3, <2>1 DEF DeleteCommit
  <2>3. kept \in Nat /\ late \in SUBSET Request
    BY <2>1 DEF ConvRow, InFlight
  <2>4. deleted => kept = conv[c].kept /\ late = conv[c].late
    OBVIOUS
  <2> HIDE DEF kept, late, c
  <2>5. /\ row \in ConvRow /\ row.owner = conv[c].owner /\ row.retention = "DELETED"
        /\ row.kept = kept /\ row.late = late
    BY <2>1, <2>3 DEF ConvRow
  <2> HIDE DEF row
  <2> QED
    BY <1>0, <2>1, <2>2, <2>4, <2>5
<1>4. ASSUME NEW r \in Request, NEW S \in SUBSET Conv, \A k \in S : conv[k] # None,
             \/ conv' = [k \in Conv |-> IF k \in S THEN [conv[k] EXCEPT !.run = r] ELSE conv[k]]
             \/ conv' = [k \in Conv |-> IF k \in S THEN [conv[k] EXCEPT !.batch = r] ELSE conv[k]]
      PROVE  /\ conv' \in [Conv -> ConvRow \cup {None}]
             /\ \A k \in Conv : conv[k] # None =>
                  /\ conv'[k] # None /\ conv'[k].owner = conv[k].owner
                  /\ conv'[k].retention = conv[k].retention
                  /\ conv'[k].kept = conv[k].kept /\ conv'[k].late = conv[k].late
  <2>1. ASSUME NEW k \in Conv
        PROVE  /\ conv'[k] \in ConvRow \cup {None}
               /\ conv[k] # None =>
                    /\ conv'[k] \in ConvRow /\ conv'[k].owner = conv[k].owner
                    /\ conv'[k].retention = conv[k].retention
                    /\ conv'[k].kept = conv[k].kept /\ conv'[k].late = conv[k].late
    <3>1. \/ conv'[k] = conv[k]
          \/ /\ conv[k] # None
             /\ \/ conv'[k] = [conv[k] EXCEPT !.run = r]
                \/ conv'[k] = [conv[k] EXCEPT !.batch = r]
      BY <1>4
    <3> QED
      BY <1>0, <3>1 DEF ConvRow
  <2>2. conv' = [k \in Conv |-> conv'[k]]
    BY <1>4
  <2> QED
    BY <1>0, <2>1, <2>2
<1>5. ASSUME NEW r \in Request, Arrive(r) \/ Work(r), conv' # conv
      PROVE  \/ DeleteCommit(r)
             \/ \E S \in SUBSET Conv :
                  /\ \A k \in S : conv[k] # None
                  /\ \/ conv' = [k \in Conv |-> IF k \in S THEN [conv[k] EXCEPT !.run = r]
                                                ELSE conv[k]]
                     \/ conv' = [k \in Conv |-> IF k \in S THEN [conv[k] EXCEPT !.batch = r]
                                                ELSE conv[k]]
  <2>1. \A u, c : PointedBy(u, c) \in SUBSET Conv /\ \A k \in PointedBy(u, c) : conv[k] # None
    BY DEF PointedBy
  <2>2. ASSUME NEW u, NEW c, StartBatch(r, u, c)
        PROVE  conv' = [k \in Conv |-> IF k \in PointedBy(u, c)
                                       THEN [conv[k] EXCEPT !.batch = r] ELSE conv[k]]
    BY <2>2 DEF StartBatch
  <2>3. ASSUME NEW state, NEW evidence, StoreRun(r, state, evidence)
        PROVE  conv' = [k \in Conv |-> IF k \in PointedBy(req[r].user, req[r].conv)
                                       THEN [conv[k] EXCEPT !.run = r] ELSE conv[k]]
    BY <2>3 DEF StoreRun
  <2>4. CASE DeleteCommit(r)
    BY <2>4
  <2>5. CASE \E u, c : StartBatch(r, u, c)
    <3>1. PICK u, c : StartBatch(r, u, c)
      BY <2>5
    <3> DEFINE S == PointedBy(u, c)
    <3>2. /\ S \in SUBSET Conv /\ \A k \in S : conv[k] # None
          /\ conv' = [k \in Conv |-> IF k \in S THEN [conv[k] EXCEPT !.batch = r]
                                      ELSE conv[k]]
      BY <2>1, <2>2, <3>1
    <3> HIDE DEF S
    <3> QED
      BY <3>2
  <2>6. CASE \E state, evidence : StoreRun(r, state, evidence)
    <3> DEFINE S == PointedBy(req[r].user, req[r].conv)
    <3>1. /\ S \in SUBSET Conv /\ \A k \in S : conv[k] # None
          /\ conv' = [k \in Conv |-> IF k \in S THEN [conv[k] EXCEPT !.run = r]
                                      ELSE conv[k]]
      BY <2>1, <2>3, <2>6
    <3> HIDE DEF S
    <3> QED
      BY <3>1
  <2> QED
    BY <1>5, <2>4, <2>5, <2>6, Writers
<1> QED
  BY <1>0, <1>1, <1>2, <1>3, <1>4, <1>5, WhoMoves

\* Everything an answer may rest on lasts.
LEMMA RowsLast == ASSUME IInv, Next PROVE Lasts
<1> USE DEF IInv
<1>1. \A q \in Request : run[q] # None => run'[q] = run[q]
  <2>1. ASSUME NEW r \in Request, Arrive(r) \/ Work(r), run' # run
        PROVE  \E row : run' = [run EXCEPT ![r] = row] /\ run[r] = None
    BY <2>1, Writers DEF StoreRun, Served
  <2>2. CASE run' = run
    BY <2>2
  <2> QED
    BY <2>1, <2>2, WhoMoves DEF CreateConversation, TypeOK
<1>2. \A q \in Request : batch[q] # None =>
        /\ batch'[q] # None
        /\ batch'[q].owner = batch[q].owner /\ batch'[q].conv = batch[q].conv
  <2>1. ASSUME NEW r \in Request, Arrive(r) \/ Work(r), batch' # batch
        PROVE  \/ FinishBatch(r)
               \/ \E row : batch' = [batch EXCEPT ![r] = row] /\ batch[r] = None
    BY <2>1, Writers DEF StartBatch, Served
  <2>2. CASE batch' = batch
    BY <2>2
  <2>3. ASSUME NEW r \in Request, FinishBatch(r), NEW q \in Request, batch[q] # None
        PROVE  /\ batch'[q] # None
               /\ batch'[q].owner = batch[q].owner /\ batch'[q].conv = batch[q].conv
    <3>1. batch[q] \in BatchRow /\ None \notin BatchRow
      BY <2>3, Typed, RowAssumption
    <3>2. batch'[q] = batch[q] \/ batch'[q] = [batch[q] EXCEPT !.done = TRUE]
      BY <2>3 DEF FinishBatch, TypeOK
    <3> QED
      BY <3>1, <3>2 DEF BatchRow
  <2> QED
    BY <2>1, <2>2, <2>3, WhoMoves DEF CreateConversation, TypeOK
<1>3. Rows(turn) \subseteq Rows(turn')
  <2>1. ASSUME NEW r \in Request, Arrive(r) \/ Work(r), turn' # turn
        PROVE  \E y : turn' = Append(turn, y)
    BY <2>1, Writers DEF PostStore, PostReply
  <2>2. ASSUME NEW y, turn' = Append(turn, y) PROVE Rows(turn) \subseteq Rows(turn')
    <3>1. turn \in Seq(Turn \cup {y})
      BY DEF TypeOK
    <3> QED
      BY <2>2, <3>1, Appended
  <2> QED
    BY <2>1, <2>2, WhoMoves DEF CreateConversation
<1>4. \A y \in Rows(attachment) : \E z \in Rows(attachment') :
        z.id = y.id /\ z.conv = y.conv /\ z.owner = y.owner
  <2>1. ASSUME NEW r \in Request, Arrive(r) \/ Work(r), attachment' # attachment
        PROVE  DeleteCommit(r) \/ \E y : attachment' = Append(attachment, y)
    BY <2>1, Writers DEF AttachCommit
  <2>2. ASSUME NEW y, attachment' = Append(attachment, y)
        PROVE  Rows(attachment) \subseteq Rows(attachment')
    <3>1. attachment \in Seq(Attachment \cup {y})
      BY DEF TypeOK
    <3> QED
      BY <2>2, <3>1, Appended
  <2> QED
    BY <2>1, <2>2, AttachmentsStay, WhoMoves DEF CreateConversation
<1> QED
  BY <1>1, <1>2, <1>3, <1>4, ConversationsStay DEF Lasts

\* What belonged to a conversation and an owner still does.
LEMMA PiecesLast ==
    ASSUME TypeOK, Lasts, NEW x \in Piece, NEW c \in Conv, NEW u \in User,
           PieceOf(x, c, u)
    PROVE  PieceOf(x, c, u)'
<1>1. x[2] \in Request /\ x[1] \in {"question", "attachment", "run", "batch"}
  BY DEF Piece
<1>2. CASE x[1] = "question"
  <2>1. PICK y \in Rows(turn) : y.by = x[2] /\ y.role = "user" /\ y.conv = c /\ y.owner = u
    BY <1>2 DEF PieceOf, BelongsTo
  <2>2. y \in Rows(turn')
    BY <2>1 DEF Lasts
  <2> QED
    BY <1>2, <2>1, <2>2 DEF PieceOf, BelongsTo
<1>3. CASE x[1] = "attachment"
  <2>1. PICK y \in Rows(attachment) : y.id = x[2] /\ y.conv = c /\ y.owner = u
    BY <1>3 DEF PieceOf, BelongsTo
  <2>2. PICK z \in Rows(attachment') : z.id = y.id /\ z.conv = y.conv /\ z.owner = y.owner
    BY <2>1 DEF Lasts
  <2> QED
    BY <1>3, <2>1, <2>2 DEF PieceOf, BelongsTo
<1>4. CASE x[1] = "run"
  BY <1>1, <1>4 DEF PieceOf, BelongsTo, RunOf, Lasts
<1>5. CASE x[1] = "batch"
  BY <1>1, <1>5 DEF PieceOf, BelongsTo, BatchOf, Lasts
<1> QED
  BY <1>1, <1>2, <1>3, <1>4, <1>5

\* The evidence of a run that is there does not change either.
LEMMA CitedLast ==
    ASSUME Lasts, NEW x \in Piece, NEW c, NEW u, NEW cites,
           PieceOf(x, c, u), Cited(x, cites)
    PROVE  Cited(x, cites)'
  BY DEF PieceOf, Cited, RunOf, Lasts, Piece

-----------------------------------------------------------------------------
(* The life of a request                                                     *)

\* The last step of a request, after which nothing of it is left.
Finishing(r) ==
    \/ \E u \in User, c \in Conv : NotFound(r, u, c)
    \/ AnswerFails(r) \/ ReviewRequired(r) \/ PostReply(r)
    \/ AttachCommit(r) \/ DeleteCommit(r) \/ FinishBatch(r)
    \/ \E state \in RunState, evidence \in SUBSET Source : StoreRun(r, state, evidence)

\* The check of a conversation for an attachment or a deletion.
Checking(r) == \E u \in User, c \in Conv : AttachCheck(r, u, c) \/ DeleteRead(r, u, c)

\* The start of a review, with a conversation that nobody has checked.
Reviewing(r) ==
    \E u \in User, c \in Conv : Review(r, u, c, "reviewing") \/ StartBatch(r, u, c)

\* A request is checked, stores its question, answers, or comes to its end.
LEMMA Lives ==
    ASSUME TypeOK, NEW r \in Request, Arrive(r) \/ Work(r)
    PROVE  \/ \E u \in User, c \in Conv, t \in Text : PostRead(r, u, c, t)
           \/ Checking(r) \/ Reviewing(r)
           \/ PostStore(r) \/ Answering(r) \/ Finishing(r)
<1>1. CASE Arrive(r)
  <2>1. ASSUME NEW old \in Request, Rerun(r, old) PROVE Reviewing(r)
    <3>1. run[old].owner \in User /\ run[old].conv \in Conv
      BY <2>1, Typed DEF Rerun, RunRow
    <3> QED
      BY <2>1, <3>1 DEF Rerun, Reviewing
  <2> QED
    BY <1>1, <2>1 DEF Arrive, Checking, Reviewing, Finishing, StartRun
<1>2. CASE Work(r)
  <2>1. {} \in SUBSET Source /\ "READY" \in RunState
    BY DEF RunState
  <2> QED
    BY <1>2, <2>1 DEF Work, Answering, Finishing
<1> QED
  BY <1>1, <1>2

\* An end leaves the request with nothing it could go on with.
LEMMA Finished ==
    ASSUME TypeOK, NEW r \in Request, Finishing(r)
    PROVE  /\ req'[r] \in RequestRow
           /\ req'[r].step \in {"done", "not found", "conflict", "failed"}
           /\ req[r].step = "stored" => req'[r].step \in {"conflict", "failed"}
           /\ req[r].step = "answered" => PostReply(r)
<1>1. PICK s \in {"done", "not found", "conflict", "failed"} :
        /\ End(r, s)
        /\ req[r].step = "stored" => s \in {"conflict", "failed"}
        /\ req[r].step = "answered" => PostReply(r)
  BY DEF Finishing, NotFound, AnswerFails, ReviewRequired, PostReply, AttachCommit,
         DeleteCommit, FinishBatch, StoreRun
<1>2. req'[r] = [Fresh EXCEPT !.step = s]
  BY <1>1 DEF End, TypeOK
<1> QED
  BY <1>1, <1>2 DEF Fresh, RequestRow, Step, Mode

\* A message is read from an active conversation of its user, with the run and the batch
\* it points at, and pieces that belong to it.
LEMMA Read ==
    ASSUME IInv, NEW r \in Request, NEW u \in User, NEW c \in Conv, NEW t \in Text,
           PostRead(r, u, c, t)
    PROVE  /\ req'[r] \in RequestRow
           /\ req[r].step = "new" /\ Visible(u, c)
           /\ req'[r].step = "read" /\ req'[r].user = u /\ req'[r].conv = c
           /\ req'[r].run = conv[c].run /\ req'[r].batch = conv[c].batch
           /\ \A x \in req'[r].uses : /\ PieceOf(x, c, u)
                                      /\ x[1] \in {"question", "attachment"}
<1> USE DEF IInv
<1> DEFINE uses == AttachmentContext(u, c, t) \cup PreviousQuestion(u, c, t)
<1>1. ASSUME NEW x \in uses
      PROVE  x \in Piece /\ PieceOf(x, c, u) /\ x[1] \in {"question", "attachment"}
  <2>1. CASE x \in AttachmentContext(u, c, t)
    <3>1. PICK i \in Attachments(u, c) : x = <<"attachment", attachment[i].id>>
      BY <2>1 DEF AttachmentContext, LastOf
    <3>2. attachment[i] \in Rows(attachment) /\ attachment[i].conv = c
            /\ attachment[i].owner = u
      BY <3>1 DEF Attachments, Rows
    <3>3. attachment[i].id \in Request
      BY <3>2, Typed DEF Attachment
    <3>4. x[1] = "attachment" /\ x[2] = attachment[i].id
      BY <3>1
    <3> QED
      BY <3>1, <3>2, <3>3, <3>4 DEF Piece, PieceOf, BelongsTo
  <2>2. CASE x \in PreviousQuestion(u, c, t)
    <3>1. PICK i \in Questions(u, c) : x = <<"question", turn[i].by>>
      BY <2>2 DEF PreviousQuestion, LastOf
    <3>2. turn[i] \in Rows(turn) /\ turn[i].conv = c /\ turn[i].owner = u
            /\ turn[i].role = "user"
      BY <3>1 DEF Questions, Rows
    <3>3. turn[i].by \in Request
      BY <3>2, Typed DEF Turn
    <3>4. x[1] = "question" /\ x[2] = turn[i].by
      BY <3>1
    <3> QED
      BY <3>1, <3>2, <3>3, <3>4 DEF Piece, PieceOf, BelongsTo
  <2> QED
    BY <2>1, <2>2
<1>2. conv[c] \in ConvRow
  BY Typed DEF PostRead, Visible
<1>3. req[r].step = "new" /\ Visible(u, c)
  BY DEF PostRead
<1>4. req'[r] = [step |-> "read", user |-> u, conv |-> c, text |-> t,
                 mode |-> conv[c].mode, run |-> conv[c].run, batch |-> conv[c].batch,
                 cites |-> {}, uses |-> uses]
  BY DEF PostRead, TypeOK
<1>5. uses \in SUBSET Piece
  BY <1>1
<1> HIDE DEF uses
<1> QED
  BY <1>1, <1>2, <1>3, <1>4, <1>5 DEF RequestRow, Step, ConvRow

\* A check for an attachment or a deletion ends in an active conversation of the user.
LEMMA Checked ==
    ASSUME IInv, NEW r \in Request, Checking(r)
    PROVE  /\ req'[r] \in RequestRow
           /\ req[r].step = "new"
           /\ req'[r].step \in {"attaching", "deleting"}
           /\ req'[r].conv \in Conv /\ Visible(req'[r].user, req'[r].conv)
<1> USE DEF IInv
<1>1. PICK u \in User, c \in Conv : AttachCheck(r, u, c) \/ DeleteRead(r, u, c)
  BY DEF Checking
<1>2. req[r].step = "new" /\ Visible(u, c)
  BY <1>1 DEF AttachCheck, DeleteRead
<1>3. CASE AttachCheck(r, u, c)
  <2>1. req'[r] = [Fresh EXCEPT !.step = "attaching", !.user = u, !.conv = c]
    BY <1>3 DEF AttachCheck, TypeOK
  <2> QED
    BY <1>2, <2>1 DEF Fresh, RequestRow, Step, Mode
<1>4. CASE DeleteRead(r, u, c)
  <2> DEFINE uses == {<<"attachment", x.id>> :
                        x \in {attachment[i] : i \in {j \in DOMAIN attachment :
                                                        /\ attachment[j].conv = c
                                                        /\ attachment[j].owner = u}}}
  <2>1. req'[r] = [Fresh EXCEPT !.step = "deleting", !.user = u, !.conv = c, !.uses = uses]
    BY <1>4 DEF DeleteRead, TypeOK
  <2>2. uses \in SUBSET Piece
    BY Typed DEF Rows, Attachment, Piece
  <2> HIDE DEF uses
  <2> QED
    BY <1>2, <2>1, <2>2 DEF Fresh, RequestRow, Step, Mode
<1> QED
  BY <1>1, <1>3, <1>4

\* A review begins with no run and no batch of its own stored.
LEMMA Reviewed ==
    ASSUME TypeOK, NEW r \in Request, Reviewing(r)
    PROVE  /\ req'[r] \in RequestRow
           /\ req[r].step = "new"
           /\ req'[r].user \in User /\ req'[r].conv \in Conv
           /\ \/ req'[r].step = "reviewing" /\ UNCHANGED <<run, batch>>
              \/ /\ req'[r].step = "batching" /\ run' = run
                 /\ batch' = [batch EXCEPT ![r] = [owner |-> req'[r].user,
                                                   conv |-> req'[r].conv, done |-> FALSE]]
<1>1. PICK u \in User, c \in Conv : Review(r, u, c, "reviewing") \/ StartBatch(r, u, c)
  BY DEF Reviewing
<1>2. PICK s \in {"reviewing", "batching"} :
        /\ req'[r] = [Fresh EXCEPT !.step = s, !.user = u, !.conv = c]
        /\ req[r].step = "new"
        /\ \/ s = "reviewing" /\ UNCHANGED <<run, batch>>
           \/ /\ s = "batching" /\ run' = run
              /\ batch' = [batch EXCEPT ![r] = [owner |-> u, conv |-> c, done |-> FALSE]]
  BY <1>1 DEF Review, StartBatch, TypeOK
<1>3. /\ req'[r] \in RequestRow /\ req'[r].step = s
      /\ req'[r].user = u /\ req'[r].conv = c
  BY <1>2 DEF Fresh, RequestRow, Step, Mode
<1> QED
  BY <1>1, <1>2, <1>3

\* A message that answers keeps everything but its step and what it answers with.
LEMMA AnsweredFields ==
    ASSUME TypeOK, NEW r \in Request, NEW uses \in SUBSET Piece, NEW cites \in SUBSET Source,
           Answered(r, uses, cites)
    PROVE  /\ req'[r] \in RequestRow
           /\ req'[r].step = "answered" /\ req'[r].uses = uses /\ req'[r].cites = cites
           /\ req'[r].conv = req[r].conv /\ req'[r].user = req[r].user
           /\ UNCHANGED <<conv, turn, attachment, run, batch>>
<1>1. req[r] \in RequestRow
  BY DEF TypeOK
<1>2. req'[r] = [req[r] EXCEPT !.step = "answered", !.uses = uses, !.cites = cites]
  BY DEF Answered, TypeOK
<1>3. /\ req'[r].step = "answered" /\ req'[r].uses = uses /\ req'[r].cites = cites
      /\ req'[r].conv = req[r].conv /\ req'[r].user = req[r].user
  BY <1>1, <1>2 DEF RequestRow
<1>4. req'[r] \in RequestRow
  BY <1>1, <1>2 DEF RequestRow, Step
<1> QED
  BY <1>3, <1>4 DEF Answered

\* A message that stores its question keeps everything but its step.
LEMMA StoredFields ==
    ASSUME TypeOK, NEW r \in Request, PostStore(r)
    PROVE  /\ req'[r] \in RequestRow
           /\ req[r].step = "read" /\ req'[r].step = "stored"
           /\ req'[r].uses = req[r].uses /\ req'[r].cites = req[r].cites
           /\ req'[r].conv = req[r].conv /\ req'[r].user = req[r].user
           /\ req'[r].run = req[r].run /\ req'[r].batch = req[r].batch
           /\ UNCHANGED <<conv, attachment, run, batch>>
<1>1. req[r] \in RequestRow
  BY DEF TypeOK
<1>2. req'[r] = [req[r] EXCEPT !.step = "stored"]
  BY DEF PostStore, Go, TypeOK
<1> QED
  BY <1>1, <1>2 DEF PostStore, RequestRow, Step

-----------------------------------------------------------------------------
(* The invariant is inductive                                                *)

\* What an appended turn is: the question of a message, or its answer.
LEMMA TurnAdded ==
    ASSUME IInv, NEW r \in Request, PostStore(r) \/ PostReply(r)
    PROVE  \E y \in Turn :
              /\ turn' = Append(turn, y) /\ Rows(turn') = Rows(turn) \cup {y}
              /\ turn' \in Seq(Turn)
              /\ y.conv = req[r].conv /\ y.owner = req[r].user /\ y.by = r
              /\ req[r].step \in {"read", "answered"}
              /\ \/ y.uses = {} /\ y.role = "user" /\ PostStore(r)
                 \/ /\ y.uses = req[r].uses /\ y.cites = req[r].cites
                    /\ y.role = "assistant"
<1> USE DEF IInv
<1>0. req[r] \in RequestRow /\ req[r].step \in {"read", "answered"}
  BY DEF TypeOK, PostStore, PostReply
<1>1. req[r].conv \in Conv /\ req[r].user \in User
  <2>1. req[r].conv \in Conv /\ conv[req[r].conv] # None
          /\ conv[req[r].conv].owner = req[r].user
    BY <1>0 DEF Held, Holding, Serving
  <2> QED
    BY <2>1, Typed DEF ConvRow
<1>2. ASSUME NEW role \in {"user", "assistant"}, NEW uses \in SUBSET Piece,
             NEW cites \in SUBSET Source
      PROVE  /\ TurnOf(r, role, uses, cites) \in Turn
             /\ TurnOf(r, role, uses, cites).conv = req[r].conv
             /\ TurnOf(r, role, uses, cites).owner = req[r].user
             /\ TurnOf(r, role, uses, cites).by = r
             /\ TurnOf(r, role, uses, cites).uses = uses
             /\ TurnOf(r, role, uses, cites).cites = cites
             /\ TurnOf(r, role, uses, cites).role = role
  BY <1>1 DEF TurnOf, Turn
<1>3. turn \in Seq(Turn)
  BY DEF TypeOK
<1>4. CASE PostStore(r)
  <2> DEFINE y == TurnOf(r, "user", {}, {})
  <2>1. turn' = Append(turn, y)
    BY <1>4 DEF PostStore
  <2>2. /\ y \in Turn /\ y.conv = req[r].conv /\ y.owner = req[r].user /\ y.by = r
        /\ y.uses = {} /\ y.role = "user"
    <3>1. {} \in SUBSET Piece /\ {} \in SUBSET Source
      OBVIOUS
    <3> QED
      BY <1>2, <3>1
  <2> HIDE DEF y
  <2>3. Rows(turn') = Rows(turn) \cup {y} /\ turn' \in Seq(Turn)
    BY <1>3, <2>1, <2>2, Appended
  <2> QED
    BY <1>0, <1>4, <2>1, <2>2, <2>3
<1>5. CASE PostReply(r)
  <2> DEFINE y == TurnOf(r, "assistant", req[r].uses, req[r].cites)
  <2>1. turn' = Append(turn, y)
    BY <1>5 DEF PostReply
  <2>2. /\ y \in Turn /\ y.conv = req[r].conv /\ y.owner = req[r].user /\ y.by = r
        /\ y.uses = req[r].uses /\ y.cites = req[r].cites /\ y.role = "assistant"
    <3>1. req[r].uses \in SUBSET Piece /\ req[r].cites \in SUBSET Source
      BY <1>0 DEF RequestRow
    <3> QED
      BY <1>2, <3>1
  <2> HIDE DEF y
  <2>3. Rows(turn') = Rows(turn) \cup {y} /\ turn' \in Seq(Turn)
    BY <1>3, <2>1, <2>2, Appended
  <2> QED
    BY <1>0, <2>1, <2>2, <2>3
<1> QED
  BY <1>4, <1>5

\* A request that did not move, or how the one that moved goes on.
LEMMA Moved ==
    ASSUME IInv, Next, NEW q \in Request
    PROVE  \/ req'[q] = req[q]
           \/ \E u \in User, c \in Conv, t \in Text : PostRead(q, u, c, t)
           \/ Checking(q) \/ Reviewing(q)
           \/ PostStore(q) \/ Answering(q) \/ Finishing(q)
<1> USE DEF IInv
<1>1. CASE \E c \in Conv : CreateConversation(c)
  BY <1>1 DEF CreateConversation
<1>2. ASSUME NEW r \in Request, Arrive(r) \/ Work(r), r # q PROVE req'[q] = req[q]
  BY <1>2, OthersGoOn
<1> QED
  BY <1>1, <1>2, Lives, WhoMoves

\* A request stays well formed.
LEMMA RequestStep == ASSUME IInv, Next, NEW q \in Request PROVE req'[q] \in RequestRow
<1>1. ASSUME Answering(q) PROVE req'[q] \in RequestRow
  BY <1>1, Answers, AnsweredFields DEF IInv
<1>2. req[q] \in RequestRow
  BY DEF IInv, TypeOK
<1> QED
  BY <1>1, <1>2, Moved, Read, Checked, Reviewed, StoredFields, Finished DEF IInv

\* Every step keeps the rows well formed.
LEMMA TypeStep == ASSUME IInv, Next PROVE TypeOK'
<1> USE DEF IInv
<1>1. conv' \in [Conv -> ConvRow \cup {None}]
  BY ConversationsStay
<1>2. turn' \in Seq(Turn)
  BY TurnAdded, Writers, WhoMoves DEF TypeOK, CreateConversation
<1>3. attachment' \in Seq(Attachment)
  <2>1. ASSUME NEW r \in Request, AttachCommit(r) PROVE attachment' \in Seq(Attachment)
    <3> DEFINE y == [id |-> r, conv |-> req[r].conv, owner |-> req[r].user,
                     retention |-> "ACTIVE"]
    <3>1. req[r].conv \in Conv /\ conv[req[r].conv] # None
            /\ conv[req[r].conv].owner = req[r].user
      BY <2>1 DEF AttachCommit, Held, Holding, Serving
    <3>2. y \in Attachment
      BY <3>1, Typed DEF Attachment, ConvRow
    <3>3. attachment' = Append(attachment, y)
      BY <2>1 DEF AttachCommit
    <3> HIDE DEF y
    <3> QED
      BY <3>2, <3>3, Appended DEF TypeOK
  <2>2. ASSUME attachment' # attachment
        PROVE  \E r \in Request : AttachCommit(r) \/ DeleteCommit(r)
    BY <2>2, Writers, WhoMoves DEF CreateConversation
  <2> QED
    BY <2>1, <2>2, AttachmentsStay DEF TypeOK
<1>4. run' \in [Request -> RunRow \cup {None}]
  <2>1. ASSUME NEW r \in Request, NEW state \in RunState, NEW evidence \in SUBSET Source,
               StoreRun(r, state, evidence)
        PROVE  run' \in [Request -> RunRow \cup {None}]
    <3> DEFINE row == [owner |-> req[r].user, conv |-> req[r].conv, state |-> state,
                       evidence |-> evidence]
    <3>1. row \in RunRow
      BY <2>1 DEF StoreRun, Served, RunRow
    <3>2. run' = [run EXCEPT ![r] = row]
      BY <2>1 DEF StoreRun
    <3> HIDE DEF row
    <3> QED
      BY <3>1, <3>2 DEF TypeOK
  <2>2. ASSUME run' # run
        PROVE  \E r \in Request, state \in RunState, evidence \in SUBSET Source :
                  StoreRun(r, state, evidence)
    BY <2>2, Writers, WhoMoves DEF CreateConversation
  <2> QED
    BY <2>1, <2>2 DEF TypeOK
<1>5. batch' \in [Request -> BatchRow \cup {None}]
  <2>1. ASSUME NEW r \in Request, Reviewing(r)
        PROVE  batch' \in [Request -> BatchRow \cup {None}]
    <3> DEFINE row == [owner |-> req'[r].user, conv |-> req'[r].conv, done |-> FALSE]
    <3>1. row \in BatchRow
      BY <2>1, Reviewed DEF BatchRow
    <3>2. batch' = batch \/ batch' = [batch EXCEPT ![r] = row]
      BY <2>1, Reviewed
    <3> HIDE DEF row
    <3> QED
      BY <3>1, <3>2 DEF TypeOK
  <2>2. ASSUME NEW r \in Request, FinishBatch(r)
        PROVE  batch' \in [Request -> BatchRow \cup {None}]
    <3>1. batch[r] \in BatchRow
      BY <2>2, Typed DEF FinishBatch, Served
    <3>2. [batch[r] EXCEPT !.done = TRUE] \in BatchRow
      BY <3>1 DEF BatchRow
    <3>3. batch' = [batch EXCEPT ![r] = [batch[r] EXCEPT !.done = TRUE]]
      BY <2>2 DEF FinishBatch
    <3> QED
      BY <3>2, <3>3 DEF TypeOK
  <2>3. ASSUME batch' # batch PROVE \E r \in Request : Reviewing(r) \/ FinishBatch(r)
    BY <2>3, Writers, WhoMoves DEF CreateConversation, Reviewing
  <2> QED
    BY <2>1, <2>2, <2>3 DEF TypeOK
<1>6. req' \in [Request -> RequestRow]
  <2>1. req' = [q \in Request |-> req'[q]]
    BY Writers, WhoMoves DEF TypeOK, CreateConversation
  <2> QED
    BY <2>1, RequestStep
<1> QED
  BY <1>1, <1>2, <1>3, <1>4, <1>5, <1>6 DEF TypeOK

\* What a request holds stays that of its conversation and of its user.
LEMMA HeldStep == ASSUME IInv, Next PROVE Held'
<1> USE DEF IInv
<1> SUFFICES ASSUME NEW q \in Request, req'[q].step \in Holding
             PROVE  /\ req'[q].conv \in Conv
                    /\ conv'[req'[q].conv] # None
                    /\ conv'[req'[q].conv].owner = req'[q].user
  BY DEF Held
<1>0. ASSUME NEW c \in Conv, NEW u, conv[c] # None, conv[c].owner = u
      PROVE  conv'[c] # None /\ conv'[c].owner = u
  BY <1>0, RowsLast DEF Lasts
<1>1. ASSUME req[q].step \in Holding, req'[q].conv = req[q].conv, req'[q].user = req[q].user
      PROVE  /\ req'[q].conv \in Conv
             /\ conv'[req'[q].conv] # None
             /\ conv'[req'[q].conv].owner = req'[q].user
  BY <1>0, <1>1 DEF Held
<1>2. CASE req'[q] = req[q]
  BY <1>1, <1>2
<1>3. CASE \E u \in User, c \in Conv, t \in Text : PostRead(q, u, c, t)
  BY <1>0, <1>3, Read DEF Visible
<1>4. CASE Checking(q)
  BY <1>0, <1>4, Checked DEF Visible
<1>5. CASE Reviewing(q)
  BY <1>5, Reviewed DEF Holding, Serving
<1>6. CASE PostStore(q)
  BY <1>1, <1>6, StoredFields DEF Holding, Serving
<1>7. CASE Answering(q)
  BY <1>1, <1>7, Answers, AnsweredFields DEF Holding, Serving
<1>8. CASE Finishing(q)
  BY <1>8, Finished DEF Holding, Serving
<1> QED
  BY <1>2, <1>3, <1>4, <1>5, <1>6, <1>7, <1>8, Moved

\* A request stores a run or a batch only under its own id.
LEMMA ServedStep == ASSUME IInv, Next PROVE Served'
<1> USE DEF IInv
<1> SUFFICES ASSUME NEW q \in Request
             PROVE  /\ req'[q].step \in {"new", "reviewing"} => run'[q] = None
                    /\ req'[q].step = "new" => batch'[q] = None
                    /\ req'[q].step = "batching" => batch'[q] # None
                    /\ req'[q].step \in {"reviewing", "batching"} =>
                          req'[q].user \in User /\ req'[q].conv \in Conv
  BY DEF Served
<1>0. /\ run'[q] # run[q] => Finishing(q)
      /\ batch'[q] # batch[q] => Reviewing(q) \/ Finishing(q)
  <2>1. ASSUME NEW r \in Request, Arrive(r) \/ Work(r), run'[q] # run[q] PROVE Finishing(q)
    <3>1. PICK state \in RunState, evidence \in SUBSET Source : StoreRun(r, state, evidence)
      BY <2>1, Writers
    <3>2. q = r
      BY <2>1, <3>1 DEF StoreRun, TypeOK
    <3> QED
      BY <3>1, <3>2 DEF Finishing
  <2>2. ASSUME NEW r \in Request, Arrive(r) \/ Work(r), batch'[q] # batch[q]
        PROVE  Reviewing(q) \/ Finishing(q)
    <3>1. Reviewing(r) \/ FinishBatch(r)
      BY <2>2, Writers DEF Reviewing
    <3>2. q = r
      BY <2>2, <3>1, Reviewed DEF FinishBatch, TypeOK
    <3> QED
      BY <3>1, <3>2 DEF Finishing
  <2> QED
    BY <2>1, <2>2, WhoMoves DEF CreateConversation
<1>1. CASE Finishing(q)
  BY <1>1, Finished
<1>2. CASE Reviewing(q)
  <2>1. [owner |-> req'[q].user, conv |-> req'[q].conv, done |-> FALSE] \in BatchRow
    BY <1>2, Reviewed DEF BatchRow
  <2> QED
    BY <1>2, <2>1, Reviewed, RowAssumption DEF TypeOK, Served
<1>3. CASE req'[q] = req[q] /\ ~Finishing(q) /\ ~Reviewing(q)
  BY <1>0, <1>3 DEF Served
<1>4. CASE req'[q].step \in Holding
  BY <1>4 DEF Holding, Serving
<1>5. ASSUME Answering(q) PROVE req'[q].step \in Holding
  BY <1>5, Answers, AnsweredFields DEF Holding, Serving
<1> QED
  BY <1>1, <1>2, <1>3, <1>4, <1>5, Moved, Read, Checked, StoredFields DEF Holding, Serving

\* What a message in flight has read stays where it belongs, though runs are stored and
\* the conversation is deleted meanwhile.
LEMMA GatheredStep == ASSUME IInv, Next PROVE Gathered'
<1> USE DEF IInv
<1> SUFFICES ASSUME NEW q \in Request, req'[q].step \in Serving, NEW x \in req'[q].uses
             PROVE  /\ PieceOf(x, req[q].conv, req[q].user)'
                    /\ Cited(x, req[q].cites)'
                    /\ req'[q].step # "answered" => x[1] \in {"question", "attachment"}
  BY DEF Gathered
<1>0. /\ x \in Piece /\ req'[q].conv \in Conv /\ req'[q].user \in User
  <2>1. req'[q] \in RequestRow
    BY RequestStep
  <2>2. req'[q].conv \in Conv /\ conv'[req'[q].conv] # None
          /\ conv'[req'[q].conv].owner = req'[q].user
    BY HeldStep DEF Held, Holding
  <2>3. conv'[req'[q].conv] \in ConvRow
    BY <2>2, TypeStep DEF TypeOK
  <2> QED
    BY <2>1, <2>2, <2>3 DEF RequestRow, ConvRow
<1>1. ASSUME NEW c \in Conv, NEW u \in User, NEW cites,
             PieceOf(x, c, u), Cited(x, cites), c = req'[q].conv, u = req'[q].user,
             cites = req'[q].cites
      PROVE  PieceOf(x, req[q].conv, req[q].user)' /\ Cited(x, req[q].cites)'
  <2>1. PieceOf(x, c, u)' /\ Cited(x, cites)'
    BY <1>0, <1>1, RowsLast, PiecesLast, CitedLast
  <2> QED
    BY <1>1, <2>1 DEF PieceOf, BelongsTo, RunOf, BatchOf, Cited
<1>2. CASE req'[q] = req[q]
  BY <1>0, <1>1, <1>2 DEF Gathered
<1>3. CASE \E u \in User, c \in Conv, t \in Text : PostRead(q, u, c, t)
  <2>1. PICK u \in User, c \in Conv, t \in Text : PostRead(q, u, c, t)
    BY <1>3
  <2>2. /\ req'[q].conv = c /\ req'[q].user = u /\ PieceOf(x, c, u)
        /\ x[1] \in {"question", "attachment"}
    BY <2>1, Read
  <2>3. Cited(x, req'[q].cites)
    BY <2>2 DEF Cited
  <2> QED
    BY <1>1, <2>2, <2>3
<1>4. CASE PostStore(q)
  <2>1. req[q].step = "read"
    BY <1>4, StoredFields
  <2> QED
    BY <1>0, <1>1, <1>4, <2>1, StoredFields DEF Gathered, Serving
<1>5. CASE Answering(q)
  <2>1. PICK uses \in SUBSET Piece, cites \in SUBSET Source :
          /\ Answered(q, uses, cites)
          /\ \A y \in uses : PieceOf(y, req[q].conv, req[q].user) /\ Cited(y, cites)
    BY <1>5, Answers
  <2>2. /\ req'[q].step = "answered" /\ req'[q].uses = uses /\ req'[q].cites = cites
        /\ req'[q].conv = req[q].conv /\ req'[q].user = req[q].user
    BY <2>1, AnsweredFields
  <2> QED
    BY <1>0, <1>1, <2>1, <2>2
<1>6. CASE Checking(q) \/ Reviewing(q) \/ Finishing(q)
  BY <1>6, Checked, Reviewed, Finished DEF Serving
<1> QED
  BY <1>2, <1>3, <1>4, <1>5, <1>6, Moved

\* The run and the batch of a conversation are those of its owner; a review that names a
\* conversation of another is stored, and pointed at by none.
LEMMA PointersStep == ASSUME IInv, Next PROVE PointersSound'
<1> USE DEF IInv
<1> SUFFICES ASSUME NEW c \in Conv, conv'[c] # None
             PROVE  /\ conv'[c].run # None => RunOf(conv[c].run, c, conv[c].owner)'
                    /\ conv'[c].batch # None => BatchOf(conv[c].batch, c, conv[c].owner)'
  BY DEF PointersSound, RunOf, BatchOf
<1>0. Lasts
  BY RowsLast
<1>1. ASSUME conv[c] # None, conv'[c].run = conv[c].run, conv'[c].batch = conv[c].batch
      PROVE  /\ conv'[c].run # None => RunOf(conv[c].run, c, conv[c].owner)'
             /\ conv'[c].batch # None => BatchOf(conv[c].batch, c, conv[c].owner)'
  <2>1. conv'[c].owner = conv[c].owner
    BY <1>0, <1>1 DEF Lasts
  <2>2. /\ conv[c].run # None => conv[c].run \in Request /\ RunOf(conv[c].run, c, conv[c].owner)
        /\ conv[c].batch # None =>
              conv[c].batch \in Request /\ BatchOf(conv[c].batch, c, conv[c].owner)
    BY <1>1, Typed DEF PointersSound, ConvRow, RunOf, BatchOf
  <2> QED
    BY <1>0, <1>1, <2>1, <2>2 DEF RunOf, BatchOf, Lasts
<1>2. CASE conv' = conv
  BY <1>1, <1>2
<1>3. ASSUME NEW k \in Conv, CreateConversation(k)
      PROVE  /\ conv'[c].run # None => RunOf(conv[c].run, c, conv[c].owner)'
             /\ conv'[c].batch # None => BatchOf(conv[c].batch, c, conv[c].owner)'
  <2>1. CASE c = k
    <3>1. conv'[c].run = None /\ conv'[c].batch = None
      BY <1>3, <2>1 DEF CreateConversation, TypeOK
    <3> QED
      BY <3>1
  <2>2. CASE c # k
    BY <1>1, <1>3, <2>2 DEF CreateConversation, TypeOK
  <2> QED
    BY <2>1, <2>2
<1>4. ASSUME NEW r \in Request, DeleteCommit(r)
      PROVE  /\ conv'[c].run # None => RunOf(conv[c].run, c, conv[c].owner)'
             /\ conv'[c].batch # None => BatchOf(conv[c].batch, c, conv[c].owner)'
  <2>1. conv[c] # None
    <3>1. CASE c = req[r].conv
      BY <1>4, <3>1 DEF DeleteCommit, Held, Holding
    <3>2. CASE c # req[r].conv
      BY <1>4, <3>2 DEF DeleteCommit, TypeOK
    <3> QED
      BY <3>1, <3>2
  <2>2. conv[c] \in ConvRow
    BY <2>1, Typed
  <2>3. \E kept, late : conv'[c] = [conv[c] EXCEPT !.retention = "DELETED", !.kept = kept,
                                                  !.late = late]
         \/ conv'[c] = conv[c]
    BY <1>4 DEF DeleteCommit, TypeOK
  <2>4. conv'[c].run = conv[c].run /\ conv'[c].batch = conv[c].batch
    BY <2>2, <2>3 DEF ConvRow
  <2> QED
    BY <1>1, <2>1, <2>4
<1>5. ASSUME NEW r \in Request, NEW state \in RunState, NEW evidence \in SUBSET Source,
             StoreRun(r, state, evidence)
      PROVE  /\ conv'[c].run # None => RunOf(conv[c].run, c, conv[c].owner)'
             /\ conv'[c].batch # None => BatchOf(conv[c].batch, c, conv[c].owner)'
  <2>1. CASE c \in PointedBy(req[r].user, req[r].conv)
    <3>1. c = req[r].conv /\ conv[c] # None /\ conv[c].owner = req[r].user
      BY <2>1 DEF PointedBy
    <3>2. conv[c] \in ConvRow /\ conv'[c] = [conv[c] EXCEPT !.run = r]
      BY <1>5, <2>1, <3>1, Typed DEF StoreRun
    <3>3. /\ conv'[c].run = r /\ conv'[c].batch = conv[c].batch
          /\ conv'[c].owner = conv[c].owner
      BY <3>2 DEF ConvRow
    <3>4. RunOf(r, c, conv[c].owner)'
      <4> DEFINE row == [owner |-> req[r].user, conv |-> req[r].conv, state |-> state,
                         evidence |-> evidence]
      <4>1. row \in RunRow /\ row.owner = req[r].user /\ row.conv = req[r].conv
        BY <1>5 DEF StoreRun, Served, RunRow
      <4>2. run'[r] = row
        BY <1>5 DEF StoreRun, TypeOK
      <4> HIDE DEF row
      <4> QED
        BY <3>1, <3>3, <4>1, <4>2, RowAssumption DEF RunOf
    <3>5. conv[c].batch # None => BatchOf(conv[c].batch, c, conv[c].owner)
      BY <3>1 DEF PointersSound, BatchOf
    <3>6. conv[c].batch # None => conv[c].batch \in Request
      BY <3>2 DEF ConvRow
    <3> QED
      BY <1>0, <3>3, <3>4, <3>5, <3>6 DEF RunOf, BatchOf, Lasts
  <2>2. CASE c \notin PointedBy(req[r].user, req[r].conv)
    BY <1>1, <1>5, <2>2 DEF StoreRun
  <2> QED
    BY <2>1, <2>2
<1>6. ASSUME NEW r \in Request, NEW u \in User, NEW d \in Conv, StartBatch(r, u, d)
      PROVE  /\ conv'[c].run # None => RunOf(conv[c].run, c, conv[c].owner)'
             /\ conv'[c].batch # None => BatchOf(conv[c].batch, c, conv[c].owner)'
  <2>1. CASE c \in PointedBy(u, d)
    <3>1. c = d /\ conv[c] # None /\ conv[c].owner = u
      BY <2>1 DEF PointedBy
    <3>2. conv[c] \in ConvRow /\ conv'[c] = [conv[c] EXCEPT !.batch = r]
      BY <1>6, <2>1, <3>1, Typed DEF StartBatch
    <3>3. /\ conv'[c].batch = r /\ conv'[c].run = conv[c].run
          /\ conv'[c].owner = conv[c].owner
      BY <3>2 DEF ConvRow
    <3>4. BatchOf(r, c, conv[c].owner)'
      <4> DEFINE row == [owner |-> u, conv |-> d, done |-> FALSE]
      <4>1. row \in BatchRow /\ row.owner = u /\ row.conv = d
        BY DEF BatchRow
      <4>2. batch'[r] = row
        BY <1>6 DEF StartBatch, TypeOK
      <4> HIDE DEF row
      <4> QED
        BY <3>1, <3>3, <4>1, <4>2, RowAssumption DEF BatchOf
    <3>5. conv[c].run # None => RunOf(conv[c].run, c, conv[c].owner)
      BY <3>1 DEF PointersSound, RunOf
    <3>6. conv[c].run # None => conv[c].run \in Request
      BY <3>2 DEF ConvRow
    <3> QED
      BY <1>0, <3>3, <3>4, <3>5, <3>6 DEF RunOf, BatchOf, Lasts
  <2>2. CASE c \notin PointedBy(u, d)
    BY <1>1, <1>6, <2>2 DEF StartBatch
  <2> QED
    BY <2>1, <2>2
<1> QED
  BY <1>2, <1>3, <1>4, <1>5, <1>6, Writers, WhoMoves

\* A message that is read takes its conversation's pointers, which are sound; a run that
\* takes their place later does not change what was read.
LEMMA PointedStep == ASSUME IInv, Next PROVE Pointed'
<1> USE DEF IInv
<1> SUFFICES ASSUME NEW q \in Request, req'[q].step \in {"read", "stored"}
             PROVE  /\ req'[q].run # None => RunOf(req[q].run, req[q].conv, req[q].user)'
                    /\ req'[q].batch # None => BatchOf(req[q].batch, req[q].conv, req[q].user)'
  BY DEF Pointed
<1>0. req'[q] \in RequestRow
  BY RequestStep
<1>1. ASSUME req'[q].run # None => RunOf(req'[q].run, req'[q].conv, req'[q].user),
             req'[q].batch # None => BatchOf(req'[q].batch, req'[q].conv, req'[q].user)
      PROVE  /\ req'[q].run # None => RunOf(req[q].run, req[q].conv, req[q].user)'
             /\ req'[q].batch # None => BatchOf(req[q].batch, req[q].conv, req[q].user)'
  BY <1>0, <1>1, RowsLast DEF RunOf, BatchOf, Lasts, RequestRow
<1>2. CASE req'[q] = req[q]
  BY <1>1, <1>2 DEF Pointed
<1>3. CASE \E u \in User, c \in Conv, t \in Text : PostRead(q, u, c, t)
  <2>1. PICK u \in User, c \in Conv, t \in Text : PostRead(q, u, c, t)
    BY <1>3
  <2>2. /\ req'[q].run = conv[c].run /\ req'[q].batch = conv[c].batch
        /\ req'[q].conv = c /\ req'[q].user = conv[c].owner /\ conv[c] # None
    BY <2>1, Read DEF Visible
  <2> QED
    BY <1>1, <2>2 DEF PointersSound, RunOf, BatchOf
<1>4. CASE PostStore(q)
  BY <1>1, <1>4, StoredFields DEF Pointed
<1>5. CASE Answering(q)
  BY <1>5, Answers, AnsweredFields
<1>6. CASE Checking(q) \/ Reviewing(q) \/ Finishing(q)
  BY <1>6, Checked, Reviewed, Finished
<1> QED
  BY <1>2, <1>3, <1>4, <1>5, <1>6, Moved

\* An answer is stored with what the message gathered.
LEMMA ToldStep == ASSUME IInv, Next PROVE Told'
<1> USE DEF IInv
<1> SUFFICES ASSUME NEW y \in Rows(turn')
             PROVE  /\ conv'[y.conv] # None /\ y.owner = conv'[y.conv].owner
                    /\ \A x \in y.uses : PieceOf(x, y.conv, y.owner)' /\ Cited(x, y.cites)'
  BY DEF Told, Rows
<1>1. ASSUME y \in Turn, conv[y.conv] # None, y.owner = conv[y.conv].owner,
             \A x \in y.uses : PieceOf(x, y.conv, y.owner) /\ Cited(x, y.cites)
      PROVE  /\ conv'[y.conv] # None /\ y.owner = conv'[y.conv].owner
             /\ \A x \in y.uses : PieceOf(x, y.conv, y.owner)' /\ Cited(x, y.cites)'
  <2>1. y.conv \in Conv /\ y.owner \in User /\ y.uses \subseteq Piece
    BY <1>1 DEF Turn
  <2>2. conv'[y.conv] # None /\ y.owner = conv'[y.conv].owner
    BY <1>1, <2>1, RowsLast DEF Lasts
  <2>3. ASSUME NEW x \in y.uses PROVE PieceOf(x, y.conv, y.owner)' /\ Cited(x, y.cites)'
    BY <1>1, <2>1, <2>3, RowsLast, PiecesLast, CitedLast
  <2> QED
    BY <2>2, <2>3
<1>2. CASE y \in Rows(turn)
  BY <1>1, <1>2, Typed DEF Told
<1>3. ASSUME NEW r \in Request, PostStore(r) \/ PostReply(r), y \notin Rows(turn)
      PROVE  /\ y \in Turn /\ conv[y.conv] # None /\ y.owner = conv[y.conv].owner
             /\ \A x \in y.uses : PieceOf(x, y.conv, y.owner) /\ Cited(x, y.cites)
  <2>1. /\ y \in Turn /\ y.conv = req[r].conv /\ y.owner = req[r].user
        /\ req[r].step \in {"read", "answered"}
        /\ y.uses = {} \/ (y.uses = req[r].uses /\ y.cites = req[r].cites)
    BY <1>3, TurnAdded
  <2>2. conv[y.conv] # None /\ y.owner = conv[y.conv].owner
    BY <2>1 DEF Held, Holding, Serving
  <2>3. \A x \in y.uses : PieceOf(x, y.conv, y.owner) /\ Cited(x, y.cites)
    BY <2>1 DEF Gathered, Serving
  <2> QED
    BY <2>1, <2>2, <2>3
<1>4. ASSUME y \notin Rows(turn) PROVE \E r \in Request : PostStore(r) \/ PostReply(r)
  <2>1. turn' # turn
    BY <1>4
  <2> QED
    BY <2>1, Writers, WhoMoves DEF CreateConversation
<1> QED
  BY <1>1, <1>2, <1>3, <1>4

\* Only a deletion changes the retention status of a conversation.
LEMMA RetentionStays ==
    ASSUME TypeOK, Next, NEW c \in Conv, conv[c] # None,
           \A r \in Request : ~DeleteCommit(r)
    PROVE  conv'[c].retention = conv[c].retention
<1>1. conv[c] \in ConvRow
  BY Typed
<1>2. ASSUME NEW k \in Conv, CreateConversation(k) PROVE conv'[c] = conv[c]
  BY <1>2 DEF CreateConversation, TypeOK
<1>3. ASSUME NEW r \in Request, NEW u, NEW k, StartBatch(r, u, k)
      PROVE  conv'[c].retention = conv[c].retention
  <2>1. conv'[c] = conv[c] \/ conv'[c] = [conv[c] EXCEPT !.batch = r]
    BY <1>3 DEF StartBatch
  <2> QED
    BY <1>1, <2>1 DEF ConvRow
<1>4. ASSUME NEW r \in Request, NEW state, NEW evidence, StoreRun(r, state, evidence)
      PROVE  conv'[c].retention = conv[c].retention
  <2>1. conv'[c] = conv[c] \/ conv'[c] = [conv[c] EXCEPT !.run = r]
    BY <1>4 DEF StoreRun
  <2> QED
    BY <1>1, <2>1 DEF ConvRow
<1>5. CASE conv' = conv
  BY <1>5
<1> QED
  BY <1>2, <1>3, <1>4, <1>5, Writers, WhoMoves

\* A deletion notes the messages in flight; nobody is let in later.
LEMMA LateStep == ASSUME IInv, Next PROVE Late'
<1> USE DEF IInv
<1> SUFFICES ASSUME NEW q \in Request, req'[q].step \in Serving,
                    conv'[req'[q].conv].retention = "DELETED"
             PROVE  q \in conv'[req'[q].conv].late
  BY DEF Late
<1> DEFINE c == req'[q].conv
<1>0. c \in Conv
  BY HeldStep DEF Held, Holding
\* A message that was in flight already.
<1>1. ASSUME req[q].step \in Serving, req[q].conv = c PROVE q \in conv'[c].late
  <2>1. conv[c] # None
    BY <1>1 DEF Held, Holding
  <2>2. CASE conv[c].retention = "DELETED"
    <3>1. q \in conv[c].late
      BY <1>1, <2>2 DEF Late
    <3>2. conv'[c].late = conv[c].late
      BY <1>0, <2>1, <2>2, RowsLast DEF Lasts
    <3> QED
      BY <3>1, <3>2
  <2>3. ASSUME NEW r \in Request, DeleteCommit(r), conv[c].retention # "DELETED"
        PROVE  q \in conv'[c].late
    <3>1. req[r].conv = c
      BY <1>0, <2>3 DEF DeleteCommit, TypeOK
    <3>2. conv'[c] = [conv[c] EXCEPT !.retention = "DELETED", !.kept = Len(turn),
                                     !.late = InFlight(c)]
      BY <1>0, <2>3, <3>1 DEF DeleteCommit, TypeOK
    <3>3. conv'[c].late = InFlight(c)
      BY <1>0, <2>1, <3>2, Typed DEF ConvRow
    <3> QED
      BY <1>1, <3>3 DEF InFlight, Serving
  <2> QED
    BY <1>0, <2>1, <2>2, <2>3, RetentionStays
<1>2. CASE req'[q] = req[q]
  BY <1>1, <1>2
\* A message that is let in finds the conversation active, and leaves it so.
<1>3. CASE \E u \in User, k \in Conv, t \in Text : PostRead(q, u, k, t)
  <2>1. PICK u \in User, k \in Conv, t \in Text : PostRead(q, u, k, t)
    BY <1>3
  <2>2. c = k /\ Visible(u, k)
    BY <2>1, Read
  <2>3. conv' = conv
    BY <2>1 DEF PostRead
  <2> QED
    BY <2>2, <2>3 DEF Visible
<1>4. CASE PostStore(q)
  BY <1>1, <1>4, StoredFields DEF Serving
<1>5. CASE Answering(q)
  BY <1>1, <1>5, Answers, AnsweredFields DEF Serving
<1>6. CASE Checking(q) \/ Reviewing(q) \/ Finishing(q)
  BY <1>6, Checked, Reviewed, Finished DEF Serving
<1> QED
  BY <1>2, <1>3, <1>4, <1>5, <1>6, Moved

\* A question leaves its request in the hands of its user, one way or the other.
LEMMA AccountedStep == ASSUME IInv, Next PROVE QuestionsAccounted'
<1> USE DEF IInv
<1> SUFFICES ASSUME NEW y \in Rows(turn')
             PROVE  \/ AnswerStored(y.by)'
                    \/ req'[y.by].step \in {"stored", "answered", "conflict", "failed"}
  BY DEF QuestionsAccounted, Rows
<1>1. ASSUME NEW q \in Request, AnswerStored(q) PROVE AnswerStored(q)'
  BY <1>1, RowsLast DEF AnswerStored, Lasts
<1>2. CASE y \in Rows(turn)
  <2> DEFINE q == y.by
  <2>1. q \in Request
    BY <1>2, Typed DEF Turn
  <2>2. AnswerStored(q) \/ req[q].step \in {"stored", "answered", "conflict", "failed"}
    BY <1>2 DEF QuestionsAccounted
  <2> HIDE DEF q
  <2>3. ASSUME req[q].step \in {"stored", "answered", "conflict", "failed"}
        PROVE  \/ AnswerStored(q)'
               \/ req'[q].step \in {"stored", "answered", "conflict", "failed"}
    <3>1. CASE req'[q] = req[q]
      BY <2>3, <3>1
    <3>2. CASE Answering(q)
      BY <2>1, <3>2, Answers, AnsweredFields
    <3>3. CASE Finishing(q)
      <4>1. CASE req[q].step = "stored"
        BY <2>1, <3>3, <4>1, Finished
      <4>2. CASE req[q].step = "answered"
        <5>1. PostReply(q)
          BY <2>1, <3>3, <4>2, Finished
        <5>2. PICK z \in Turn : /\ Rows(turn') = Rows(turn) \cup {z} /\ z.by = q
                                /\ z.role = "assistant" \/ PostStore(q)
          BY <2>1, <5>1, TurnAdded
        <5>3. z.role = "assistant"
          BY <4>2, <5>2 DEF PostStore
        <5> QED
          BY <5>2, <5>3 DEF AnswerStored
      <4>3. CASE req[q].step \in {"conflict", "failed"}
        BY <3>3, <4>3 DEF Finishing, NotFound, AnswerFails, ReviewRequired, PostReply,
              AttachCommit, DeleteCommit, FinishBatch, StoreRun
      <4> QED
        BY <2>3, <4>1, <4>2, <4>3
    <3>4. CASE \/ \E u \in User, c \in Conv, t \in Text : PostRead(q, u, c, t)
               \/ Checking(q) \/ Reviewing(q) \/ PostStore(q)
      BY <2>1, <2>3, <3>4, Read, Checked, Reviewed, StoredFields
    <3> QED
      BY <2>1, <3>1, <3>2, <3>3, <3>4, Moved
  <2>4. ASSUME AnswerStored(q) PROVE AnswerStored(q)'
    BY <1>1, <2>1, <2>4
  <2> QED
    BY <2>2, <2>3, <2>4 DEF q
<1>3. CASE y \notin Rows(turn)
  <2>1. turn' # turn
    BY <1>3
  <2>2. PICK r \in Request : PostStore(r) \/ PostReply(r)
    BY <2>1, Writers, WhoMoves DEF CreateConversation
  <2>3. y.by = r /\ (y.role = "assistant" \/ PostStore(r))
    BY <1>3, <2>2, TurnAdded
  <2>4. CASE y.role = "assistant"
    BY <2>3, <2>4 DEF AnswerStored
  <2>5. CASE PostStore(r)
    BY <2>3, <2>5, StoredFields
  <2> QED
    BY <2>3, <2>4, <2>5
<1> QED
  BY <1>2, <1>3

\* A turn that comes after the deletion is of a message that was in flight.
LEMMA RefusesStep == ASSUME IInv, Next PROVE DeletedRefuses'
<1> USE DEF IInv
<1> SUFFICES ASSUME NEW i \in DOMAIN turn', NEW c, c = turn'[i].conv,
                    conv'[c].retention = "DELETED", i > conv'[c].kept
             PROVE  turn'[i].by \in conv'[c].late
  BY DEF DeletedRefuses
<1>0. turn \in Seq(Turn) /\ Len(turn) \in Nat /\ DOMAIN turn = 1..Len(turn)
  BY DEF TypeOK
<1>1. turn' = turn \/ \E y \in Turn : turn' = Append(turn, y)
  BY TurnAdded, Writers, WhoMoves DEF CreateConversation
<1>2. CASE i \in DOMAIN turn
  <2>1. turn'[i] = turn[i]
    BY <1>0, <1>1, <1>2
  <2>2. turn[i] \in Rows(turn) /\ turn[i] \in Turn
    BY <1>0, <1>2 DEF Rows
  <2>3. c \in Conv /\ conv[c] # None
    BY <2>1, <2>2 DEF Told, Turn
  <2>4. CASE conv[c].retention = "DELETED"
    <3>1. conv'[c].kept = conv[c].kept /\ conv'[c].late = conv[c].late
      BY <2>3, <2>4, RowsLast DEF Lasts
    <3> QED
      BY <1>2, <2>1, <2>4, <3>1 DEF DeletedRefuses
  <2>5. ASSUME NEW r \in Request, DeleteCommit(r), conv[c].retention # "DELETED" PROVE FALSE
    <3>1. req[r].conv = c
      BY <2>3, <2>5 DEF DeleteCommit, TypeOK
    <3>2. conv'[c] = [conv[c] EXCEPT !.retention = "DELETED", !.kept = Len(turn),
                                     !.late = InFlight(c)]
      BY <2>3, <2>5, <3>1 DEF DeleteCommit, TypeOK
    <3>3. conv'[c].kept = Len(turn)
      BY <2>3, <3>2, Typed DEF ConvRow
    <3> QED
      BY <1>0, <1>2, <3>3
  <2> QED
    BY <2>3, <2>4, <2>5, RetentionStays
<1>3. CASE i \notin DOMAIN turn
  <2>1. turn' # turn
    BY <1>3
  <2>2. PICK r \in Request : PostStore(r) \/ PostReply(r)
    BY <2>1, Writers, WhoMoves DEF CreateConversation
  <2>3. PICK y \in Turn : /\ turn' = Append(turn, y) /\ y.conv = req[r].conv /\ y.by = r
                          /\ req[r].step \in {"read", "answered"}
    BY <2>2, TurnAdded
  <2>4. turn'[i] = y
    BY <1>0, <1>3, <2>3
  <2>5. conv' = conv
    BY <2>2 DEF PostStore, PostReply
  <2> QED
    BY <2>3, <2>4, <2>5 DEF Late, Serving
<1> QED
  BY <1>2, <1>3

\* At first there are no rows, and no request has begun.
LEMMA InitIInv == Init => IInv
<1> SUFFICES ASSUME Init PROVE IInv
  OBVIOUS
<1>1. Rows(turn) = {} /\ turn \in Seq(Turn) /\ attachment \in Seq(Attachment)
        /\ DOMAIN turn = {}
  BY DEF Init, Rows
<1>2. /\ Fresh \in RequestRow /\ Fresh.step = "new"
  BY DEF Fresh, RequestRow, Step, Mode
<1>3. \A q \in Request : req[q] = Fresh /\ run[q] = None /\ batch[q] = None
  BY DEF Init
<1>4. TypeOK
  BY <1>1, <1>2 DEF Init, TypeOK
<1>5. Held /\ Gathered /\ Pointed /\ Late
  BY <1>2, <1>3 DEF Held, Gathered, Pointed, Late, Holding, Serving
<1>6. Served
  BY <1>2, <1>3 DEF Served
<1>7. Told /\ QuestionsAccounted /\ DeletedRefuses
  BY <1>1 DEF Told, QuestionsAccounted, DeletedRefuses
<1>8. PointersSound
  BY DEF Init, PointersSound
<1> QED
  BY <1>4, <1>5, <1>6, <1>7, <1>8 DEF IInv

\* A step that changes nothing keeps it.
LEMMA Stutter == ASSUME IInv, UNCHANGED vars PROVE IInv'
<1> USE DEF IInv, vars
<1>1. TypeOK' /\ Held' /\ Served'
  BY DEF TypeOK, Held, Served
<1>2. \A x, c, u : PieceOf(x, c, u) <=> PieceOf(x, c, u)'
  BY DEF PieceOf, BelongsTo, RunOf, BatchOf, Rows
<1>3. Gathered'
  BY <1>2 DEF Gathered, Cited
<1>4. Told'
  BY <1>2 DEF Told, Cited, Rows
<1>5. Pointed' /\ PointersSound'
  BY DEF Pointed, PointersSound, RunOf, BatchOf
<1>6. Late' /\ DeletedRefuses'
  BY DEF Late, DeletedRefuses
<1>7. QuestionsAccounted'
  BY DEF QuestionsAccounted, AnswerStored, Rows
<1> QED
  BY <1>1, <1>3, <1>4, <1>5, <1>6, <1>7

\* Every reachable state satisfies the invariant.
LEMMA Invariance == Spec => []IInv
<1>1. IInv /\ Next => IInv'
  BY TypeStep, HeldStep, ServedStep, GatheredStep, PointedStep, ToldStep, LateStep,
     PointersStep, AccountedStep, RefusesStep DEF IInv
<1> QED
  BY <1>1, InitIInv, Stutter, PTL DEF Spec

-----------------------------------------------------------------------------
(* Theorems                                                                  *)

\* The rows of conversations, reviews and requests stay well formed, whatever the
\* requests write over each other.
THEOREM TypeCorrect == Spec => []TypeOK
  BY Invariance, PTL DEF IInv

\* Nothing leaks from one conversation or owner to another: whatever an answer is made of
\* is of the same conversation and owner, and cites only the evidence of its report.
THEOREM NothingLeaks == Spec => []Isolated
<1>1. IInv => Isolated
  BY DEF IInv, Told, Isolated, PieceOf, Cited
<1> QED
  BY <1>1, Invariance, PTL

\* The explainer never meets a run or a batch that is missing or somebody else's.
THEOREM NeverDangling == Spec => []PointersSound
  BY Invariance, PTL DEF IInv

\* No answer that was returned is missing from the history: a question without one
\* belongs to a request that goes on or that told its user so.
THEOREM EveryQuestionAccounted == Spec => []QuestionsAccounted
  BY Invariance, PTL DEF IInv

\* A deleted conversation gets a turn only from a request in flight at its deletion.
THEOREM NoTurnAfterDeletion == Spec => []DeletedRefuses
  BY Invariance, PTL DEF IInv

=============================================================================

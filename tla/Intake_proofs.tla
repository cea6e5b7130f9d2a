--------------------------- MODULE Intake_proofs ----------------------------
(***************************************************************************)
(* Proofs about what comes in: the questions and files a browser tab sends *)
(* (Client), whatever overlaps, fails or is opened meanwhile, and the      *)
(* amending sentences of the documents that are uploaded (Extraction).     *)
(***************************************************************************)
EXTENDS Client, Extraction, SequenceTheorems, TLAPS

-----------------------------------------------------------------------------
(* Client: the inductive invariant                                           *)

TypeOK ==
    /\ stored \in [Conv -> Seq(Question) \cup {None}]
    /\ files \in [Conv -> SUBSET File]
    /\ selected \in Conv \cup {None}
    /\ busy \in BOOLEAN
    /\ op \in Seq(Op \cup {None})
    /\ asked \in [Item -> Conv \cup {None}]
    /\ clean \in BOOLEAN

\* What is selected, and what an operation works on, is there.
Begun ==
    /\ selected # None => stored[selected] # None
    /\ \A n \in InFlight :
          /\ op[n].step = "create" <=> op[n].conv = None
          /\ op[n].conv # None => stored[op[n].conv] # None
          /\ op[n].item = None => op[n].step \in {"read", "answered"}

NotStored(x) ==
    \A c \in Conv : x \notin files[c] /\ \A i \in DOMAIN Questions(c) : Questions(c)[i] # x

\* Operations that have not stored their item yet.
Pending == {n \in InFlight : op[n].step \in {"create", "created", "store"}}

\* An item is in one operation or in one place.
Once ==
    /\ \A n, m \in InFlight : op[n].item = op[m].item => op[n].item = None \/ n = m
    /\ \A n \in Pending : NotStored(op[n].item)

Sending == {n \in InFlight : op[n].item \in Question}

\* One question is sent at a time, as long as the view is busy.
OneSend == (\A n, m \in Sending : n = m) /\ (Sending # {} => busy)

\* An item goes to the conversation that was selected when it was sent, or to one that
\* holds no question.
Bound ==
    \A n \in Pending :
        LET x == op[n].item
        IN  /\ asked[x] \in {None, op[n].conv}
            /\ x \in Question /\ asked[x] = None /\ op[n].conv # None =>
                  Questions(op[n].conv) = <<>>

\* As long as nothing overlapped or failed, the one operation there may be works for what
\* is selected.
Settled ==
    clean =>
        /\ \A n, m \in InFlight : n = m
        /\ \A n \in InFlight :
              /\ op[n].step \in {"read", "answered"} => selected = op[n].conv
              /\ op[n].step = "answered" =>
                    op[n].data = [turns |-> stored[selected], files |-> files[selected]]
        /\ SettledView

ViewIInv == TypeOK /\ Begun /\ Once /\ OneSend /\ Bound /\ GoesWhereAsked /\ Settled

-----------------------------------------------------------------------------
(* Client: the operations in flight                                          *)

\* An operation that moves on leaves the others as they are.
LEMMA Entry ==
    ASSUME TypeOK, NEW n \in InFlight, NEW r \in Op \cup {None}, op' = [op EXCEPT ![n] = r]
    PROVE  /\ op' \in Seq(Op \cup {None})
           /\ op'[n] = r
           /\ \A m : m # n => op'[m] = op[m]
           /\ InFlight' = IF r = None THEN InFlight \ {n} ELSE InFlight
<1>1. n \in DOMAIN op /\ op \in Seq(Op \cup {None})
  BY DEF InFlight, TypeOK
<1>2. DOMAIN op' = DOMAIN op /\ op'[n] = r
  BY <1>1
<1>3. \A m \in DOMAIN op : m # n => op'[m] = op[m]
  BY <1>1
<1>4. op' \in Seq(Op \cup {None})
  BY <1>1, ExceptSeq
<1>5. \A m : m # n => op'[m] = op[m]
  OBVIOUS
<1>6. InFlight' = IF r = None THEN InFlight \ {n} ELSE InFlight
  BY <1>1, <1>2, <1>3 DEF InFlight
<1> QED
  BY <1>2, <1>4, <1>5, <1>6

\* An operation that is started is the last.
LEMMA Started ==
    ASSUME TypeOK, NEW r \in Op, op' = Append(op, r)
    PROVE  /\ op' \in Seq(Op \cup {None})
           /\ op'[Len(op) + 1] = r
           /\ \A m \in InFlight : op'[m] = op[m] /\ m # Len(op) + 1
           /\ InFlight' = InFlight \cup {Len(op) + 1}
<1>1. op \in Seq(Op \cup {None}) /\ Len(op) \in Nat
  BY DEF TypeOK
<1>2. /\ op' \in Seq(Op \cup {None})
      /\ Len(op') = Len(op) + 1
      /\ \A i \in 1..Len(op) : op'[i] = op[i]
      /\ op'[Len(op) + 1] = r
  BY <1>1, AppendProperties
<1>3. DOMAIN op = 1..Len(op) /\ DOMAIN op' = 1..(Len(op) + 1)
  BY <1>1, <1>2
<1>4. \A m \in InFlight : m \in 1..Len(op)
  BY <1>3 DEF InFlight
<1>5. r # None
  BY ItemsAssumption
<1>6. InFlight' = InFlight \cup {Len(op) + 1}
  BY <1>1, <1>2, <1>3, <1>5 DEF InFlight
<1> QED
  BY <1>1, <1>2, <1>4, <1>6

\* What an operation in flight is made of.
LEMMA Fields ==
    ASSUME TypeOK, NEW n \in InFlight
    PROVE  /\ op[n] \in Op /\ op[n] # None
           /\ op[n].item \in Item \cup {None} /\ op[n].conv \in Conv \cup {None}
  BY DEF TypeOK, InFlight, Op

\* Where the items are is the same, so they are where they should be.
LEMMA SameContents ==
    ASSUME files' = files, asked' = asked, \A c \in Conv : Questions(c)' = Questions(c)
    PROVE  /\ \A x : NotStored(x)' <=> NotStored(x)
           /\ GoesWhereAsked => GoesWhereAsked'
  BY DEF NotStored, GoesWhereAsked

\* An operation goes on, with its item and its conversation or with a new one.
LEMMA Advance ==
    ASSUME TypeOK, Begun, Once, OneSend, Bound,
           NEW n \in InFlight, NEW r \in Op, op' = [op EXCEPT ![n] = r],
           r.item = op[n].item,
           r.step \in {"create", "created", "store"} => n \in Pending,
           r.item = None => r.step \in {"read", "answered"},
           r.step = "create" <=> r.conv = None,
           r.conv # None => stored'[r.conv] # None,
           \/ r.conv = op[n].conv
           \/ op[n].conv = None /\ r.conv \in Conv /\ Questions(r.conv) = <<>>,
           files' = files, asked' = asked, busy' = busy,
           \A c \in Conv : Questions(c)' = Questions(c),
           \A c \in Conv : stored[c] # None => stored'[c] # None,
           selected' # None => stored'[selected'] # None
    PROVE  Begun' /\ Once' /\ OneSend' /\ Bound'
<1>1. /\ op'[n] = r /\ r # None
      /\ \A m : m # n => op'[m] = op[m]
      /\ InFlight' = InFlight
  BY Entry, ItemsAssumption
<1>2. \A m \in InFlight : op'[m].item = op[m].item
  BY <1>1
<1>3. Pending' \subseteq Pending
  BY <1>1 DEF Pending
<1>4. Begun'
  <2>1. \A m \in InFlight \ {n} : op[m].conv \in Conv \cup {None}
    BY Fields
  <2> QED
    BY <1>1, <2>1 DEF Begun
<1>5. Once'
  <2>1. \A m \in Pending' : NotStored(op[m].item)'
    <3> SUFFICES ASSUME NEW m \in Pending' PROVE NotStored(op[m].item)'
      OBVIOUS
    <3>1. NotStored(op[m].item) /\ op'[m].item = op[m].item
      BY <1>2, <1>3 DEF Once, Pending
    <3> QED
      BY <3>1, SameContents DEF NotStored
  <2> QED
    BY <1>1, <1>2, <2>1 DEF Once
<1>6. OneSend'
  BY <1>1, <1>2 DEF OneSend, Sending
<1>7. Bound'
  <2> SUFFICES ASSUME NEW m \in Pending'
               PROVE  /\ asked[op'[m].item] \in {None, op'[m].conv}
                      /\ op'[m].item \in Question /\ asked[op'[m].item] = None
                           /\ op'[m].conv # None => Questions(op[m].conv)' = <<>>
    BY DEF Bound
  <2>1. /\ asked[op[m].item] \in {None, op[m].conv}
        /\ op[m].item \in Question /\ asked[op[m].item] = None /\ op[m].conv # None
             => Questions(op[m].conv) = <<>>
    BY <1>3 DEF Bound
  <2>2. m \in InFlight /\ op[m].conv \in Conv \cup {None}
    BY <1>3, Fields DEF Pending
  <2>3. CASE m = n
    BY <1>1, <2>1, <2>2, <2>3 DEF Questions
  <2>4. CASE m # n
    BY <1>1, <2>1, <2>2, <2>4 DEF Questions
  <2> QED
    BY <2>3, <2>4
<1> QED
  BY <1>4, <1>5, <1>6, <1>7

\* An operation ends, and the view is no longer busy if it sent a question.
LEMMA Ended ==
    ASSUME TypeOK, Begun, Once, OneSend, Bound,
           NEW n \in InFlight, op' = [op EXCEPT ![n] = None],
           stored' = stored, files' = files, asked' = asked, selected' = selected,
           busy' = (busy /\ op[n].item \notin Question)
    PROVE  Begun' /\ Once' /\ OneSend' /\ Bound'
<1>1. /\ \A m : m # n => op'[m] = op[m]
      /\ InFlight' = InFlight \ {n}
  BY Entry
<1>2. Begun'
  BY <1>1 DEF Begun
<1>3. Once'
  BY <1>1 DEF Once, Pending, NotStored, Questions
<1>4. OneSend'
  BY <1>1 DEF OneSend, Sending
<1>5. Bound'
  BY <1>1 DEF Bound, Pending, Questions
<1> QED
  BY <1>2, <1>3, <1>4, <1>5

\* An operation starts, with an item that is nowhere else and for what is selected.
LEMMA Start ==
    ASSUME TypeOK, Begun, Once, OneSend, Bound, GoesWhereAsked,
           NEW r \in Op, op' = Append(op, r),
           stored' = stored, files' = files,
           selected' # None => stored[selected'] # None,
           r.step \in {"create", "store", "read"},
           r.step = "create" <=> r.conv = None,
           r.conv # None => stored[r.conv] # None,
           IF r.item = None THEN r.step = "read" /\ asked' = asked
           ELSE Fresh(r.item) /\ asked' = [asked EXCEPT ![r.item] = r.conv],
           IF r.item \in Question THEN ~busy /\ busy' ELSE busy' = busy
    PROVE  Begun' /\ Once' /\ OneSend' /\ Bound' /\ GoesWhereAsked'
<1> DEFINE N == Len(op) + 1
<1>1. /\ op'[N] = r
      /\ \A m \in InFlight : op'[m] = op[m] /\ m # N
      /\ InFlight' = InFlight \cup {N}
  BY Started
<1> HIDE DEF N
<1>2. r.item # None =>
        /\ NotStored(r.item)
        /\ \A m \in InFlight : op[m].item # r.item
  BY DEF Fresh, NotStored, Questions
<1>3. /\ r.item \in Item \cup {None} /\ r.conv \in Conv \cup {None}
      /\ asked \in [Item -> Conv \cup {None}]
  BY DEF Op, TypeOK
<1>4. /\ r.item # None => asked'[r.item] = r.conv
      /\ \A x \in Item : x # r.item => asked'[x] = asked[x]
  BY <1>3
<1>5. \A x : NotStored(x)' <=> NotStored(x)
  BY DEF NotStored, Questions
<1>6. /\ \A m \in Pending' : m = N \/ m \in Pending
      /\ N \in Pending' => r.item # None
  BY <1>1 DEF Pending
<1>7. Begun'
  BY <1>1 DEF Begun
<1>8. Once'
  <2>1. \A m \in Pending' : NotStored(op'[m].item)
    <3> SUFFICES ASSUME NEW m \in Pending' PROVE NotStored(op'[m].item)
      OBVIOUS
    <3>1. CASE m = N
      BY <1>1, <1>2, <1>6, <3>1
    <3>2. CASE m # N
      <4>1. m \in Pending /\ op'[m] = op[m]
        BY <1>1, <1>6, <3>2 DEF Pending
      <4> QED
        BY <4>1 DEF Once
    <3> QED
      BY <3>1, <3>2
  <2>2. \A m \in Pending' : NotStored(op[m].item)'
    BY <2>1 DEF NotStored, Questions
  <2>3. ASSUME NEW m \in InFlight', NEW k \in InFlight', op'[m].item = op'[k].item
        PROVE  op'[m].item = None \/ m = k
    <3>1. CASE m # N /\ k # N
      <4>1. m \in InFlight /\ k \in InFlight
        BY <1>1, <2>3, <3>1
      <4>2. op'[m] = op[m] /\ op'[k] = op[k]
        BY <1>1, <4>1
      <4>3. op[m].item = op[k].item
        BY <2>3, <4>2
      <4>4. op[m].item = None \/ m = k
        BY <4>1, <4>3 DEF Once
      <4> QED
        BY <4>2, <4>4
    <3>2. CASE m = N \/ k = N
      BY <1>1, <1>2, <2>3, <3>2
    <3> QED
      BY <3>1, <3>2
  <2> QED
    BY <2>2, <2>3 DEF Once
<1>9. OneSend'
  BY <1>1 DEF OneSend, Sending
<1>10. Bound'
  <2> SUFFICES ASSUME NEW m \in Pending'
               PROVE  /\ asked'[op'[m].item] \in {None, op'[m].conv}
                      /\ op'[m].item \in Question /\ asked'[op'[m].item] = None
                           /\ op'[m].conv # None => Questions(op[m].conv)' = <<>>
    BY DEF Bound
  <2>1. CASE m = N
    BY <1>1, <1>4, <1>6, <2>1
  <2>2. CASE m # N
    <3>1. m \in Pending /\ m \in InFlight /\ op'[m] = op[m]
      BY <1>1, <1>6, <2>2 DEF Pending
    <3>2. op[m].item \in Item /\ op[m].item # r.item
      BY <1>2, <3>1, Fields DEF Begun, Pending
    <3>3. asked'[op[m].item] = asked[op[m].item]
      BY <1>4, <3>2
    <3> QED
      BY <3>1, <3>3 DEF Bound, Questions
  <2> QED
    BY <2>1, <2>2
<1>11. GoesWhereAsked'
  <2>1. \A c \in Conv : Questions(c)' = Questions(c)
    BY DEF Questions
  <2>2. \A c \in Conv : \A i \in DOMAIN Questions(c) :
          asked'[Questions(c)[i]] = asked[Questions(c)[i]]
    <3> SUFFICES ASSUME NEW c \in Conv, NEW i \in DOMAIN Questions(c)
                 PROVE  asked'[Questions(c)[i]] = asked[Questions(c)[i]]
      OBVIOUS
    <3>1. Questions(c)[i] \in Item
      BY DEF TypeOK, Questions, Item
    <3>2. r.item # None => Questions(c)[i] # r.item
      BY <1>2 DEF NotStored
    <3>3. Questions(c)[i] # None
      BY <3>1, ItemsAssumption
    <3> QED
      BY <1>4, <3>1, <3>2, <3>3
  <2>3. \A c \in Conv : \A f \in files[c] : asked'[f] = asked[f]
    <3> SUFFICES ASSUME NEW c \in Conv, NEW f \in files[c] PROVE asked'[f] = asked[f]
      OBVIOUS
    <3>1. f \in Item /\ f # None
      BY ItemsAssumption DEF TypeOK, Item
    <3> QED
      BY <1>2, <1>4, <3>1 DEF NotStored
  <2> QED
    BY <2>1, <2>2, <2>3 DEF GoesWhereAsked
<1> QED
  BY <1>7, <1>8, <1>9, <1>10, <1>11

\* The one operation of a view that nothing disturbed goes on.
LEMMA SettledOn ==
    ASSUME TypeOK, Settled, NEW n \in InFlight, NEW r \in Op, op' = [op EXCEPT ![n] = r],
           clean' = clean,
           clean /\ r.step \in {"read", "answered"} => selected' = r.conv,
           clean /\ r.step = "answered" =>
              r.data = [turns |-> stored'[selected'], files |-> files'[selected']]
    PROVE  Settled'
<1>1. op'[n] = r /\ InFlight' = InFlight
  BY Entry, ItemsAssumption
<1> QED
  BY <1>1 DEF Settled, SettledView, Quiet

\* An operation that starts in a quiet view is the only one.
LEMMA SettledStart ==
    ASSUME TypeOK, NEW r \in Op, op' = Append(op, r), clean' = Quiet,
           r.step = "read" => selected' = r.conv, r.step # "answered"
    PROVE  Settled'
<1>1. /\ op'[Len(op) + 1] = r
      /\ InFlight' = InFlight \cup {Len(op) + 1}
  BY Started
<1> QED
  BY <1>1 DEF Settled, SettledView, Quiet

-----------------------------------------------------------------------------
(* Client: steps                                                             *)

\* The user sends a question.
LEMMA SendStep == ASSUME ViewIInv, NEW q \in Question, Send(q) PROVE ViewIInv'
<1> USE DEF ViewIInv
<1> DEFINE r == [item |-> q, conv |-> selected, step |-> FirstStep, data |-> Nothing]
<1>1. /\ ~busy /\ busy' = TRUE /\ Fresh(q) /\ op' = Append(op, r) /\ clean' = Quiet
      /\ asked' = [asked EXCEPT ![q] = selected]
      /\ stored' = stored /\ files' = files /\ selected' = selected
  BY DEF Send, Begin, server
<1>2. r \in Op
  BY DEF Op, TypeOK, Item, FirstStep, Nothing
<1>3. /\ r.item = q /\ r.conv = selected /\ r.step = FirstStep /\ q # None
      /\ FirstStep = IF selected = None THEN "create" ELSE "store"
  BY ItemsAssumption DEF Item, FirstStep
<1> HIDE DEF r
<1>4. Begun' /\ Once' /\ OneSend' /\ Bound' /\ GoesWhereAsked'
  BY <1>1, <1>2, <1>3, Start DEF Begun
<1>5. Settled'
  BY <1>1, <1>2, <1>3, SettledStart
<1>6. TypeOK'
  BY <1>1, <1>2, Started DEF TypeOK, Quiet
<1> QED
  BY <1>4, <1>5, <1>6

\* The user attaches a file.
LEMMA AttachStep == ASSUME ViewIInv, NEW f \in File, Attach(f) PROVE ViewIInv'
<1> USE DEF ViewIInv
<1> DEFINE r == [item |-> f, conv |-> selected, step |-> FirstStep, data |-> Nothing]
<1>1. /\ Fresh(f) /\ op' = Append(op, r) /\ clean' = Quiet
      /\ asked' = [asked EXCEPT ![f] = selected] /\ busy' = busy
      /\ stored' = stored /\ files' = files /\ selected' = selected
  BY DEF Attach, Begin, server, view
<1>2. r \in Op
  BY DEF Op, TypeOK, Item, FirstStep, Nothing
<1>3. /\ r.item = f /\ r.conv = selected /\ r.step = FirstStep
      /\ f # None /\ f \notin Question
      /\ FirstStep = IF selected = None THEN "create" ELSE "store"
  BY ItemsAssumption DEF Item, FirstStep
<1> HIDE DEF r
<1>4. Begun' /\ Once' /\ OneSend' /\ Bound' /\ GoesWhereAsked'
  BY <1>1, <1>2, <1>3, Start DEF Begun
<1>5. Settled'
  BY <1>1, <1>2, <1>3, SettledStart
<1>6. TypeOK'
  BY <1>1, <1>2, Started DEF TypeOK, Quiet
<1> QED
  BY <1>4, <1>5, <1>6

\* The user opens a conversation.
LEMMA OpenStep == ASSUME ViewIInv, NEW c \in Conv, Open(c) PROVE ViewIInv'
<1> USE DEF ViewIInv
<1> DEFINE r == [item |-> None, conv |-> c, step |-> "read", data |-> Nothing]
<1>1. /\ stored[c] # None /\ op' = Append(op, r) /\ clean' = Quiet
      /\ asked' = asked /\ busy' = busy
      /\ stored' = stored /\ files' = files /\ selected' = c
  BY DEF Open, Begin, server
<1>2. r \in Op
  BY DEF Op, Nothing
<1>3. /\ r.item = None /\ r.conv = c /\ r.step = "read" /\ c # None
      /\ None \notin Question
  BY ClientAssumption, ItemsAssumption DEF Item
<1> HIDE DEF r
<1>4. Begun' /\ Once' /\ OneSend' /\ Bound' /\ GoesWhereAsked'
  BY <1>1, <1>2, <1>3, Start DEF Begun
<1>5. Settled'
  BY <1>1, <1>2, <1>3, SettledStart
<1>6. TypeOK'
  BY <1>1, <1>2, Started DEF TypeOK, Quiet
<1> QED
  BY <1>4, <1>5, <1>6

\* The user starts anew.
LEMMA NewChatStep == ASSUME ViewIInv, NewChat PROVE ViewIInv'
<1> USE DEF ViewIInv
<1>1. /\ selected' = None /\ shown' = View(None, Nothing) /\ clean' = Quiet
      /\ stored' = stored /\ files' = files /\ busy' = busy /\ op' = op /\ asked' = asked
  BY DEF NewChat, server
<1>2. TypeOK'
  BY <1>1 DEF TypeOK, Quiet
<1>3. Begun'
  BY <1>1 DEF Begun, InFlight
<1>4. Once'
  BY <1>1 DEF Once, Pending, InFlight, NotStored, Questions
<1>5. OneSend'
  BY <1>1 DEF OneSend, Sending, InFlight
<1>6. Bound'
  BY <1>1 DEF Bound, Pending, InFlight, Questions
<1>7. GoesWhereAsked'
  BY <1>1 DEF GoesWhereAsked, Questions
<1>8. Settled'
  BY <1>1 DEF Settled, SettledView, Quiet, InFlight
<1> QED
  BY <1>2, <1>3, <1>4, <1>5, <1>6, <1>7, <1>8

\* The server starts a conversation.
LEMMA ServeCreateStep ==
    ASSUME ViewIInv, NEW n \in InFlight, ServeCreate(n) PROVE ViewIInv'
<1> USE DEF ViewIInv
<1>1. PICK c \in Conv :
        /\ stored[c] = None /\ stored' = [stored EXCEPT ![c] = <<>>]
        /\ op' = [op EXCEPT ![n].step = "created", ![n].conv = c]
  BY DEF ServeCreate
<1>2. /\ op[n].step = "create" /\ files' = files /\ selected' = selected /\ busy' = busy
      /\ asked' = asked /\ clean' = clean
  BY DEF ServeCreate, view
<1> DEFINE r == [op[n] EXCEPT !.step = "created", !.conv = c]
<1>3. /\ r \in Op /\ r.item = op[n].item /\ r.conv = c /\ r.step = "created"
      /\ op[n].conv \in Conv \cup {None}
  BY Fields DEF Op
<1>4. op' = [op EXCEPT ![n] = r]
  BY <1>1
<1> HIDE DEF r
<1>5. <<>> \in Seq(Question) /\ <<>> # None /\ c # None
  <2>1. <<>> \in Seq(Question)
    OBVIOUS
  <2> QED
    BY <2>1, ItemsAssumption, ClientAssumption
<1>6. /\ \A d \in Conv : Questions(d)' = Questions(d)
      /\ \A d \in Conv : stored[d] # None => stored'[d] # None
      /\ stored'[c] = <<>> /\ Questions(c) = <<>>
      /\ stored' \in [Conv -> Seq(Question) \cup {None}]
  BY <1>1, <1>5 DEF Questions, TypeOK
<1>7. op[n].conv = None /\ n \in Pending /\ op[n].item # None
  BY <1>2 DEF Begun, Pending
<1>8. Begun' /\ Once' /\ OneSend' /\ Bound'
  <2>1. selected' # None => stored'[selected'] # None
    BY <1>2, <1>6 DEF Begun, TypeOK
  <2> QED
    BY <1>2, <1>3, <1>4, <1>5, <1>6, <1>7, <2>1, Advance
<1>9. GoesWhereAsked'
  BY <1>2, <1>6, SameContents
<1>10. Settled'
  BY <1>2, <1>3, <1>4, SettledOn
<1>11. TypeOK'
  BY <1>2, <1>3, <1>4, <1>6, Entry DEF TypeOK
<1> QED
  BY <1>8, <1>9, <1>10, <1>11

\* The server reads a conversation.
LEMMA ServeReadStep ==
    ASSUME ViewIInv, NEW n \in InFlight, ServeRead(n) PROVE ViewIInv'
<1> USE DEF ViewIInv
<1> DEFINE data == [turns |-> stored[op[n].conv], files |-> files[op[n].conv]]
<1>1. /\ op[n].step = "read"
      /\ op' = [op EXCEPT ![n] = [op[n] EXCEPT !.step = "answered", !.data = data]]
      /\ stored' = stored /\ files' = files /\ selected' = selected /\ busy' = busy
      /\ asked' = asked /\ clean' = clean
  BY DEF ServeRead, server, view
<1>2. op[n].conv \in Conv /\ stored[op[n].conv] # None
  BY <1>1, Fields DEF Begun
<1>3. data \in [turns : Seq(Question), files : SUBSET File]
  BY <1>2 DEF TypeOK
<1> HIDE DEF data
<1>4. PICK r \in Op :
        /\ r.item = op[n].item /\ r.conv = op[n].conv /\ r.step = "answered"
        /\ r.data = data /\ op' = [op EXCEPT ![n] = r]
  <2> DEFINE r == [op[n] EXCEPT !.step = "answered", !.data = data]
  <2>1. /\ r \in Op /\ r.item = op[n].item /\ r.conv = op[n].conv
        /\ r.step = "answered" /\ r.data = data
    BY <1>3, Fields DEF Op
  <2> QED
    BY <1>1, <2>1
<1>5. Begun' /\ Once' /\ OneSend' /\ Bound'
  <2>1. /\ \A d \in Conv : Questions(d)' = Questions(d)
        /\ \A d \in Conv : stored[d] # None => stored'[d] # None
        /\ selected' # None => stored'[selected'] # None
        /\ r.conv # None /\ stored'[r.conv] # None
    BY <1>1, <1>2, <1>4, ClientAssumption DEF Questions, Begun
  <2>2. files' = files /\ asked' = asked /\ busy' = busy
    BY <1>1
  <2>3. /\ r.step \in {"create", "created", "store"} => n \in Pending
        /\ r.item = None => r.step \in {"read", "answered"}
        /\ r.step = "create" <=> r.conv = None
        /\ r.conv # None => stored'[r.conv] # None
    BY <1>4, <2>1
  <2> QED
    BY <1>4, <2>1, <2>2, <2>3, Advance
<1>6. GoesWhereAsked'
  BY <1>1, SameContents DEF Questions
<1>7. Settled'
  <2>1. clean => selected = op[n].conv
    BY <1>1 DEF Settled
  <2>2. clean =>
          /\ selected' = r.conv
          /\ r.data = [turns |-> stored'[selected'], files |-> files'[selected']]
    BY <1>1, <1>4, <2>1 DEF data
  <2> QED
    BY <1>1, <1>4, <2>2, SettledOn
<1>8. TypeOK'
  BY <1>1, <1>4, Entry DEF TypeOK
<1> QED
  BY <1>5, <1>6, <1>7, <1>8

\* The view learns of its conversation, or that its item is stored.
LEMMA ReceiveStep ==
    ASSUME ViewIInv, NEW n \in InFlight, ReceiveCreated(n) \/ ReceiveStored(n)
    PROVE  ViewIInv'
<1> USE DEF ViewIInv
<1>1. PICK s \in {"store", "read"} :
        /\ op' = [op EXCEPT ![n].step = s]
        /\ s = "store" => op[n].step = "created"
        /\ s = "read" => op[n].step = "stored"
  BY DEF ReceiveCreated, ReceiveStored, Moved
<1>2. /\ op[n].step \in {"created", "stored"}
      /\ stored' = stored /\ files' = files /\ selected' = op[n].conv /\ busy' = busy
      /\ asked' = asked /\ clean' = clean
  BY DEF ReceiveCreated, ReceiveStored, server
<1>3. PICK r \in Op :
        /\ r.item = op[n].item /\ r.conv = op[n].conv /\ r.step = s
        /\ op' = [op EXCEPT ![n] = r]
  <2> DEFINE r == [op[n] EXCEPT !.step = s]
  <2>1. r \in Op /\ r.item = op[n].item /\ r.conv = op[n].conv /\ r.step = s
    BY Fields DEF Op
  <2> QED
    BY <1>1, <2>1
<1>5. /\ op[n].conv \in Conv /\ op[n].conv # None /\ stored[op[n].conv] # None
      /\ op[n].item # None
  BY <1>2, Fields DEF Begun
<1>6. Begun' /\ Once' /\ OneSend' /\ Bound'
  <2>1. /\ \A d \in Conv : Questions(d)' = Questions(d)
        /\ \A d \in Conv : stored[d] # None => stored'[d] # None
        /\ s = "store" => n \in Pending
        /\ selected' # None => stored'[selected'] # None
    BY <1>1, <1>2, <1>5 DEF Questions, Pending
  <2>2. files' = files /\ asked' = asked /\ busy' = busy
    BY <1>2
  <2>3. r.conv # None /\ stored'[r.conv] # None
    BY <1>2, <1>3, <1>5
  <2>4. /\ r.step \in {"create", "created", "store"} => n \in Pending
        /\ r.item = None => r.step \in {"read", "answered"}
        /\ r.step = "create" <=> r.conv = None
        /\ r.conv # None => stored'[r.conv] # None
    BY <1>3, <1>5, <2>1, <2>3
  <2> QED
    BY <1>3, <2>1, <2>2, <2>4, Advance
<1>7. GoesWhereAsked'
  BY <1>2, SameContents DEF Questions
<1>8. Settled'
  BY <1>1, <1>2, <1>3, SettledOn
<1>9. TypeOK'
  BY <1>2, <1>3, <1>5, Entry DEF TypeOK
<1> QED
  BY <1>6, <1>7, <1>8, <1>9

\* The view shows what it has read.
LEMMA ReceiveReadStep ==
    ASSUME ViewIInv, NEW n \in InFlight, ReceiveRead(n) PROVE ViewIInv'
<1> USE DEF ViewIInv
<1>1. /\ op[n].step = "answered" /\ shown' = Loaded(n) /\ op' = [op EXCEPT ![n] = None]
      /\ busy' = (busy /\ op[n].item \notin Question)
      /\ stored' = stored /\ files' = files /\ selected' = selected
      /\ asked' = asked /\ clean' = clean
  BY DEF ReceiveRead, BusyAfter, server
<1>2. Begun' /\ Once' /\ OneSend' /\ Bound'
  BY <1>1, Ended
<1>3. GoesWhereAsked'
  BY <1>1, SameContents DEF Questions
<1>4. InFlight' = InFlight \ {n}
  BY <1>1, Entry
<1>5. Settled'
  <2> SUFFICES ASSUME clean PROVE Settled'
    BY <1>1 DEF Settled
  <2>1. InFlight' = {}
    BY <1>4 DEF Settled
  <2>2. /\ selected = op[n].conv /\ selected # None
        /\ op[n].data = [turns |-> stored[selected], files |-> files[selected]]
    BY <1>1 DEF Settled, Begun
  <2>3. SettledView'
    BY <1>1, <2>2 DEF SettledView, Loaded
  <2> QED
    BY <2>1, <2>3 DEF Settled
<1>6. TypeOK'
  BY <1>1, Entry DEF TypeOK
<1> QED
  BY <1>2, <1>3, <1>5, <1>6

\* A request fails.
LEMMA FailStep == ASSUME ViewIInv, NEW n \in InFlight, Fail(n) PROVE ViewIInv'
<1> USE DEF ViewIInv
<1>1. /\ op' = [op EXCEPT ![n] = None] /\ clean' = FALSE
      /\ busy' = (busy /\ op[n].item \notin Question)
      /\ stored' = stored /\ files' = files /\ selected' = selected /\ asked' = asked
  BY DEF Fail, BusyAfter, server
<1>2. Begun' /\ Once' /\ OneSend' /\ Bound'
  BY <1>1, Ended
<1>3. GoesWhereAsked'
  BY <1>1, SameContents DEF Questions
<1>4. Settled'
  BY <1>1 DEF Settled
<1>5. TypeOK'
  BY <1>1, Entry DEF TypeOK
<1> QED
  BY <1>2, <1>3, <1>4, <1>5

\* The server stores an item: a question behind the others, a file among the others.
LEMMA ServeStoreStep ==
    ASSUME ViewIInv, NEW n \in InFlight, ServeStore(n) PROVE ViewIInv'
<1> USE DEF ViewIInv
<1>1. PICK c : c = op[n].conv
  OBVIOUS
<1>2. PICK x : x = op[n].item
  OBVIOUS
<1>3. /\ op[n].step = "store" /\ op' = [op EXCEPT ![n].step = "stored"]
      /\ IF x \in Question
         THEN stored' = [stored EXCEPT ![c] = Append(@, x)] /\ files' = files
         ELSE files' = [files EXCEPT ![c] = @ \cup {x}] /\ stored' = stored
      /\ selected' = selected /\ busy' = busy /\ asked' = asked /\ clean' = clean
  BY <1>1, <1>2 DEF ServeStore, Moved, Destination, view
<1>4. /\ n \in Pending /\ c \in Conv /\ stored[c] # None /\ x \in Item
      /\ x \notin Question => x \in File
  BY <1>1, <1>2, <1>3, Fields DEF Begun, Pending, Item
<1>5. NotStored(x) /\ asked[x] \in {None, c}
  BY <1>1, <1>2, <1>4 DEF Once, Bound
<1>6. x \in Question /\ asked[x] = None => Questions(c) = <<>>
  BY <1>1, <1>2, <1>4, ClientAssumption DEF Bound
<1>7. PICK r \in Op : /\ r.item = x /\ r.conv = c /\ r.step = "stored"
                      /\ op' = [op EXCEPT ![n] = r]
  <2> DEFINE r == [op[n] EXCEPT !.step = "stored"]
  <2>1. r \in Op /\ r.item = x /\ r.conv = c /\ r.step = "stored"
    BY <1>1, <1>2, Fields DEF Op
  <2> QED
    BY <1>3, <2>1
<1>8. /\ op'[n] = r /\ \A m : m # n => op'[m] = op[m]
      /\ InFlight' = InFlight
  BY <1>7, Entry, ItemsAssumption
<1>9. /\ stored' \in [Conv -> Seq(Question) \cup {None}]
      /\ files' \in [Conv -> SUBSET File]
      /\ \A d \in Conv : stored[d] # None => stored'[d] # None
  <2>1. stored[c] \in Seq(Question)
    BY <1>4 DEF TypeOK
  <2>2. CASE x \in Question
    <3>1. Append(stored[c], x) \in Seq(Question)
      BY <2>1, <2>2, AppendProperties
    <3>2. Append(stored[c], x) # None
      BY <3>1, ItemsAssumption
    <3> QED
      BY <1>3, <2>2, <3>1, <3>2 DEF TypeOK
  <2>3. CASE x \notin Question
    BY <1>3, <1>4, <2>3 DEF TypeOK
  <2> QED
    BY <2>2, <2>3
\* What is stored now: the item, and what was stored before.
<1>10. /\ \A d \in Conv : d # c \/ x \notin Question => Questions(d)' = Questions(d)
       /\ x \in Question => Questions(c)' = Append(Questions(c), x)
       /\ \A d \in Conv : files'[d] = IF d = c /\ x \notin Question THEN files[d] \cup {x}
                                      ELSE files[d]
       /\ \A d \in Conv : Questions(d) \in Seq(Question)
  <2>1. /\ \A d \in Conv : d # c \/ x \notin Question => stored'[d] = stored[d]
        /\ x \in Question => stored'[c] = Append(stored[c], x)
    BY <1>3, <1>4 DEF TypeOK
  <2>2. /\ x \in Question => stored'[c] # None
        /\ \A d \in Conv : stored[d] # None => stored[d] \in Seq(Question)
    BY <1>4, <1>9 DEF TypeOK
  <2>3. <<>> \in Seq(Question)
    OBVIOUS
  <2>4. \A d \in Conv : files'[d] = IF d = c /\ x \notin Question THEN files[d] \cup {x}
                                    ELSE files[d]
    BY <1>3, <1>4 DEF TypeOK
  <2> QED
    BY <1>4, <2>1, <2>2, <2>3, <2>4 DEF Questions
<1>11. \A d \in Conv : \A i \in DOMAIN Questions(d)' :
         \/ i \in DOMAIN Questions(d) /\ Questions(d)'[i] = Questions(d)[i]
         \/ /\ d = c /\ x \in Question /\ Questions(d)'[i] = x
            /\ i = Len(Questions(c)) + 1
  <2> SUFFICES ASSUME NEW d \in Conv, NEW i \in DOMAIN Questions(d)', d = c, x \in Question
               PROVE  \/ i \in DOMAIN Questions(d) /\ Questions(d)'[i] = Questions(d)[i]
                      \/ Questions(d)'[i] = x /\ i = Len(Questions(c)) + 1
    BY <1>10
  <2>1. Questions(d)' = Append(Questions(c), x) /\ Questions(c) \in Seq(Question)
    BY <1>4, <1>10
  <2> HIDE DEF Questions
  <2> QED
    BY <2>1, AppendProperties
<1>12. \A y : y # x /\ NotStored(y) => \A d \in Conv :
          /\ y \notin files'[d]
          /\ \A i \in DOMAIN Questions(d)' : Questions(d)'[i] # y
  BY <1>10, <1>11 DEF NotStored
<1>13. \A m \in Pending' : m \in Pending /\ m # n /\ op'[m] = op[m] /\ op[m].item # x
  <2>1. \A m \in Pending' : m \in Pending /\ m # n /\ op'[m] = op[m]
    BY <1>7, <1>8 DEF Pending
  <2>2. \A m \in Pending : m # n => op[m].item # op[n].item
    BY <1>4 DEF Once, Begun, Pending
  <2> QED
    BY <1>2, <2>1, <2>2
<1>14. Begun'
  BY <1>1, <1>2, <1>3, <1>4, <1>7, <1>8, <1>9, Fields, ClientAssumption DEF Begun, TypeOK
<1>15. Once'
  <2>1. \A m \in Pending' : NotStored(op[m].item)'
    <3> SUFFICES ASSUME NEW m \in Pending' PROVE NotStored(op[m].item)'
      OBVIOUS
    <3>1. op[m].item # x /\ NotStored(op[m].item) /\ op'[m] = op[m]
      BY <1>13 DEF Once
    <3> QED
      BY <1>12, <3>1 DEF NotStored
  <2>2. \A m \in InFlight : op'[m].item = op[m].item
    BY <1>2, <1>7, <1>8
  <2> QED
    BY <1>8, <2>1, <2>2 DEF Once
<1>16. OneSend'
  BY <1>2, <1>3, <1>7, <1>8 DEF OneSend, Sending
<1>17. Bound'
  <2> SUFFICES ASSUME NEW m \in Pending'
               PROVE  /\ asked[op[m].item] \in {None, op[m].conv}
                      /\ op[m].item \in Question /\ asked[op[m].item] = None
                           /\ op[m].conv # None => Questions(op[m].conv)' = <<>>
    BY <1>3, <1>13 DEF Bound
  <2>1. m \in Pending /\ m # n /\ m \in InFlight /\ op[m].conv \in Conv \cup {None}
    BY <1>13, Fields DEF Pending
  <2>2. /\ asked[op[m].item] \in {None, op[m].conv}
        /\ op[m].item \in Question /\ asked[op[m].item] = None
             /\ op[m].conv # None => Questions(op[m].conv) = <<>>
    BY <2>1 DEF Bound
  <2>3. op[m].item \in Question => x \notin Question
    BY <1>2, <2>1 DEF OneSend, Sending
  <2>4. PICK k : k = op[m].conv
    OBVIOUS
  <2>5. op'[m].conv = k
    BY <1>13, <2>4
  <2>6. Questions(op[m].conv)' = Questions(k)'
    BY <2>5 DEF Questions
  <2>7. x \notin Question /\ k # None => Questions(k)' = Questions(k)
    BY <1>10, <2>1, <2>4
  <2> QED
    BY <2>2, <2>3, <2>4, <2>6, <2>7
<1>18. GoesWhereAsked'
  <2>1. \A d \in Conv : \A f \in files'[d] : asked'[f] \in {d, None}
    <3> SUFFICES ASSUME NEW d \in Conv, NEW f \in files'[d] PROVE asked[f] \in {d, None}
      BY <1>3
    <3>1. CASE f \in files[d]
      BY <3>1 DEF GoesWhereAsked
    <3>2. CASE d = c /\ f = x
      BY <1>5, <3>2
    <3> QED
      BY <1>10, <3>1, <3>2
  <2>2. ASSUME NEW d \in Conv, NEW i \in DOMAIN Questions(d)'
        PROVE  asked'[Questions(d)'[i]] = d \/ (asked'[Questions(d)'[i]] = None /\ i = 1)
    <3>1. CASE i \in DOMAIN Questions(d) /\ Questions(d)'[i] = Questions(d)[i]
      BY <1>3, <3>1 DEF GoesWhereAsked
    <3>2. CASE /\ d = c /\ x \in Question /\ Questions(d)'[i] = x
               /\ i = Len(Questions(c)) + 1
      BY <1>3, <1>5, <1>6, <3>2
    <3> QED
      BY <1>11, <3>1, <3>2
  <2>3. ASSUME NEW d \in Conv, NEW i \in DOMAIN Questions(d)',
               NEW e \in Conv, NEW j \in DOMAIN Questions(e)',
               Questions(e)'[j] = Questions(d)'[i]
        PROVE  e = d /\ j = i
    <3>1. CASE /\ i \in DOMAIN Questions(d) /\ Questions(d)'[i] = Questions(d)[i]
               /\ j \in DOMAIN Questions(e) /\ Questions(e)'[j] = Questions(e)[j]
      <4>1. \A k, l \in Conv : \A g \in DOMAIN Questions(k), h \in DOMAIN Questions(l) :
              Questions(l)[h] = Questions(k)[g] => l = k /\ h = g
        BY DEF GoesWhereAsked
      <4>2. Questions(e)[j] = Questions(d)[i]
        BY <2>3, <3>1
      <4> QED
        BY <3>1, <4>1, <4>2
    <3>2. \A k \in Conv : \A h \in DOMAIN Questions(k) : Questions(k)[h] # x
      BY <1>5 DEF NotStored
    <3>3. CASE d = c /\ Questions(d)'[i] = x /\ i = Len(Questions(c)) + 1
      BY <1>11, <2>3, <3>2, <3>3
    <3>4. CASE e = c /\ Questions(e)'[j] = x /\ j = Len(Questions(c)) + 1
      BY <1>11, <2>3, <3>2, <3>4
    <3>5. \/ i \in DOMAIN Questions(d) /\ Questions(d)'[i] = Questions(d)[i]
          \/ d = c /\ Questions(d)'[i] = x /\ i = Len(Questions(c)) + 1
      BY <1>11
    <3>6. \/ j \in DOMAIN Questions(e) /\ Questions(e)'[j] = Questions(e)[j]
          \/ e = c /\ Questions(e)'[j] = x /\ j = Len(Questions(c)) + 1
      BY <1>11
    <3> QED
      BY <3>1, <3>3, <3>4, <3>5, <3>6
  <2> QED
    BY <2>1, <2>2, <2>3 DEF GoesWhereAsked
<1>19. Settled'
  BY <1>3, <1>7, SettledOn
<1>20. TypeOK'
  BY <1>3, <1>7, <1>9, Entry DEF TypeOK
<1> QED
  BY <1>14, <1>15, <1>16, <1>17, <1>18, <1>19, <1>20

\* The invariant of the view, whatever the user does and whichever requests fail.
LEMMA ViewInvariance == Spec => []ViewIInv
<1>1. Init => ViewIInv
  <2> SUFFICES ASSUME Init PROVE ViewIInv
    OBVIOUS
  <2>1. InFlight = {}
    BY DEF Init, InFlight
  <2>2. TypeOK
    <3>1. <<>> \in Seq(Op \cup {None})
      OBVIOUS
    <3> QED
      BY <3>1 DEF Init, TypeOK
  <2>3. Begun /\ Once /\ OneSend /\ Bound
    BY <2>1 DEF Init, Begun, Once, OneSend, Bound, Pending, Sending
  <2>4. GoesWhereAsked
    BY DEF Init, GoesWhereAsked, Questions
  <2>5. Settled
    BY <2>1 DEF Init, Settled, SettledView
  <2> QED
    BY <2>2, <2>3, <2>4, <2>5 DEF ViewIInv
<1>2. ViewIInv /\ [Next]_vars => ViewIInv'
  <2> SUFFICES ASSUME ViewIInv, [Next]_vars PROVE ViewIInv'
    OBVIOUS
  <2>1. ASSUME NEW q \in Question, Send(q) PROVE ViewIInv'
    BY <2>1, SendStep
  <2>2. ASSUME NEW f \in File, Attach(f) PROVE ViewIInv'
    BY <2>2, AttachStep
  <2>3. ASSUME NEW c \in Conv, Open(c) PROVE ViewIInv'
    BY <2>3, OpenStep
  <2>4. CASE NewChat
    BY <2>4, NewChatStep
  <2>5. ASSUME NEW n \in InFlight, Network(n) PROVE ViewIInv'
    BY <2>5, ServeCreateStep, ServeStoreStep, ServeReadStep, ReceiveStep, ReceiveReadStep,
       FailStep DEF Network
  <2>6. CASE UNCHANGED vars
    <3> USE <2>6 DEF vars, server, view
    <3>1. TypeOK'
      BY DEF ViewIInv, TypeOK
    <3>2. Begun'
      BY DEF ViewIInv, Begun, InFlight
    <3>3. Once'
      BY DEF ViewIInv, Once, Pending, InFlight, NotStored, Questions
    <3>4. OneSend'
      BY DEF ViewIInv, OneSend, Sending, InFlight
    <3>5. Bound'
      BY DEF ViewIInv, Bound, Pending, InFlight, Questions
    <3>6. GoesWhereAsked'
      BY DEF ViewIInv, GoesWhereAsked, Questions
    <3>7. Settled'
      BY DEF ViewIInv, Settled, SettledView, Quiet, InFlight
    <3> QED
      BY <3>1, <3>2, <3>3, <3>4, <3>5, <3>6, <3>7 DEF ViewIInv
  <2> QED
    BY <2>1, <2>2, <2>3, <2>4, <2>5, <2>6 DEF Next
<1> QED
  BY <1>1, <1>2, PTL DEF Spec

-----------------------------------------------------------------------------
(* Client: what the user can rely on                                         *)

\* A question or a file is stored once at most, and in the conversation that was selected
\* when it was sent or, if none was, in one that it starts: for any number of operations
\* in flight, in any order, and whichever of them fail.
THEOREM ItemsGoWhereAsked == Spec => []GoesWhereAsked
<1>1. ViewIInv => GoesWhereAsked
  BY DEF ViewIInv
<1> QED
  BY <1>1, ViewInvariance, PTL

\* When nothing overlapped or failed since the view was last quiet, it shows the selected
\* conversation as the server has it.
THEOREM ViewIsCurrent == Spec => []SettledView
<1>1. ViewIInv => SettledView
  BY DEF ViewIInv, Settled, SettledView
<1> QED
  BY <1>1, ViewInvariance, PTL


-----------------------------------------------------------------------------
(* Extraction: the provision that a locator names                            *)

\* What a locator is understood as is an address.
LEMMA UnderstoodType ==
    ASSUME NEW s \in Sentence PROVE Understood(s) \in Address \cup {Missing}
<1>1. ASSUME NEW l \in Locator
      PROVE  normalize_locator(l) \in Address \cup {Missing}
  BY <1>1 DEF normalize_locator, Locator, Address
<1>2. ASSUME NEW l \in Locator PROVE Canonical(l) \in Locator
  BY <1>1, <1>2 DEF Canonical, locator_to_text, Locator
<1> QED
  BY <1>1, <1>2 DEF Understood, Sentence

\* The keys that are tried for an address, one by one.
LEMMA LevelsFirst ==
    ASSUME NEW b \in Address
    PROVE  /\ Levels(b)[1] = b
           /\ Levels(b)[2] = [b EXCEPT !.point = Missing]
           /\ Levels(b)[3] = [b EXCEPT !.clause = Missing, !.point = Missing]
BY DEF Levels, Address

\* A key that is tried later holds every key that is tried before.
LEMMA LevelsOrder ==
    ASSUME NEW b \in Address, NEW j \in 1..3, NEW k \in 1..3, k <= j
    PROVE  Above(Levels(b)[j], Levels(b)[k])
<1> DEFINE one == Levels(b)[1]  two == Levels(b)[2]  three == Levels(b)[3]
<1>1. /\ one.article = b.article /\ one.clause = b.clause /\ one.point = b.point
      /\ two.article = b.article /\ two.clause = b.clause /\ two.point = Missing
      /\ three.article = b.article /\ three.clause = Missing /\ three.point = Missing
  BY LevelsFirst DEF Address
<1> HIDE DEF one, two, three
<1>2. /\ Above(one, one) /\ Above(two, two) /\ Above(three, three)
      /\ Above(two, one) /\ Above(three, one) /\ Above(three, two)
  BY <1>1 DEF Above
<1>3. <<j, k>> \in {<<1, 1>>, <<2, 2>>, <<3, 3>>, <<2, 1>>, <<3, 1>>, <<3, 2>>}
  OBVIOUS
<1> QED
  BY <1>2, <1>3 DEF one, two, three

\* The keys that are tried for an address are the address and what holds it.
LEMMA LevelsAbove ==
    ASSUME NEW a \in Address, NEW b \in Address
    PROVE  Above(a, b) <=> \E k \in 1..3 : a = Levels(b)[k]
<1>1. Levels(b)[1] = b
  BY LevelsFirst
<1>2. ASSUME NEW k \in 1..3, a = Levels(b)[k] PROVE Above(a, b)
  BY <1>1, <1>2, LevelsOrder
<1>3. ASSUME Above(a, b), a.point # Missing PROVE a = b
  BY <1>3 DEF Above, Address
<1>4. ASSUME Above(a, b), a.point = Missing, a.clause = b.clause
      PROVE  a = Levels(b)[2]
  <2>1. a = [b EXCEPT !.point = Missing]
    BY <1>4 DEF Above, Address
  <2> QED
    BY <2>1, LevelsFirst
<1>5. ASSUME Above(a, b), a.point = Missing, a.clause = Missing
      PROVE  a = Levels(b)[3]
  <2>1. a = [b EXCEPT !.clause = Missing, !.point = Missing]
    BY <1>5 DEF Above, Address
  <2> QED
    BY <2>1, LevelsFirst
<1> QED
  <2>1. Above(a, b) => a.point # Missing \/ a.clause = b.clause \/ a.clause = Missing
    BY DEF Above
  <2> QED
    BY <1>1, <1>2, <1>3, <1>4, <1>5, <2>1

\* What can be found at an address or above it, under a number.
Near(n, s, ds, ps) ==
    {p \in ps : /\ ds[p.doc].number = n
                /\ Understood(s) # Missing /\ Above(p.at, Understood(s))}

\* resolve_locator_text finds something if there is anything, and the closest of it.
LEMMA ResolvedIs ==
    ASSUME NEW s \in Sentence, NEW n, NEW ds, NEW ps \in SUBSET ProvisionRow
    PROVE  /\ Resolved(n, s, ds, ps) \subseteq Near(n, s, ds, ps)
           /\ Resolved(n, s, ds, ps) = {} => Near(n, s, ds, ps) = {}
           /\ \A p \in Resolved(n, s, ds, ps) : \A q \in Near(n, s, ds, ps) :
                 Above(q.at, p.at)
<1>1. CASE Understood(s) = Missing
  BY <1>1 DEF Resolved, Near
<1>2. CASE Understood(s) # Missing
  <2> DEFINE u == Understood(s)
             At(k) == Stored(n, Levels(u)[k], ds, ps)
             hit == {k \in DOMAIN Levels(u) : At(k) # {}}
             first == {i \in hit : \A j \in hit : i <= j}
  <2>0. u \in Address
    BY <1>2, UnderstoodType
  <2>1. DOMAIN Levels(u) = 1..3
    BY DEF Levels
  <2>2. Resolved(n, s, ds, ps) = UNION {At(k) : k \in first}
    BY <1>2 DEF Resolved
  <2>3. ASSUME NEW p PROVE p \in Near(n, s, ds, ps) <=> \E k \in hit : p \in At(k)
    <3>1. ASSUME p \in Near(n, s, ds, ps) PROVE \E k \in 1..3 : p \in At(k)
      BY <2>0, <3>1, LevelsAbove DEF Near, Stored, ProvisionRow
    <3>2. ASSUME NEW k \in 1..3, p \in At(k) PROVE p \in Near(n, s, ds, ps)
      BY <1>2, <2>0, <3>2, LevelsAbove DEF Near, Stored, ProvisionRow
    <3> QED
      BY <2>1, <3>1, <3>2
  <2>4. hit # {} => first # {}
    BY <2>1
  <2>5. ASSUME NEW p \in Resolved(n, s, ds, ps), NEW q \in Near(n, s, ds, ps)
        PROVE  Above(q.at, p.at)
    <3>1. PICK k \in first : p \in At(k)
      BY <2>2
    <3>2. PICK j \in hit : q \in At(j)
      BY <2>3
    <3>3. k \in 1..3 /\ j \in 1..3 /\ k <= j
      BY <2>1, <3>1
    <3>4. p.at = Levels(u)[k] /\ q.at = Levels(u)[j]
      BY <3>1, <3>2 DEF Stored
    <3> QED
      BY <2>0, <3>3, <3>4, LevelsOrder
  <2>6. Resolved(n, s, ds, ps) \subseteq Near(n, s, ds, ps)
    BY <2>2, <2>3
  <2>7. ASSUME Resolved(n, s, ds, ps) = {} PROVE Near(n, s, ds, ps) = {}
    <3> SUFFICES ASSUME NEW q \in Near(n, s, ds, ps) PROVE FALSE
      OBVIOUS
    <3>1. PICK k : k \in first
      BY <2>3, <2>4
    <3>2. At(k) # {}
      BY <3>1
    <3>3. At(k) \subseteq Resolved(n, s, ds, ps)
      BY <2>2, <3>1
    <3> HIDE DEF At
    <3> QED
      BY <2>7, <3>2, <3>3
  <2> QED
    BY <2>5, <2>6, <2>7
<1> QED
  BY <1>1, <1>2

-----------------------------------------------------------------------------
(* Extraction: the change events of a sentence                               *)

Tried(d, s, n, p) == [doc |-> d, sentence |-> s, under |-> n, target |-> p]

\* Attempts in vain, and one last attempt that gives the target or, when there is none
\* under any number, none.
Attempts(o, d, s, ds, ps) ==
    \E M \in SUBSET Numbers(ds), n \in Numbers(ds) \cup {Missing} :
    \E t \in Resolved(n, s, ds, ps) \cup {Missing} :
        /\ o = {Tried(d, s, m, Missing) : m \in M} \cup {Tried(d, s, n, t)}
        /\ t = Missing => \A m \in Numbers(ds) \cup {Missing} :
                          Resolved(m, s, ds, ps) = {}

\* The events of a sentence are attempts of this kind.
LEMMA OutcomesAre ==
    ASSUME NEW d, NEW s \in Sentence, NEW ds,
           NEW ps \in SUBSET ProvisionRow, NEW o \in Outcomes(d, s, ds, ps)
    PROVE  Attempts(o, d, s, ds, ps)
<1> DEFINE Found(n) == Resolved(n, s, ds, ps)
           vain == {n \in Numbers(ds) : Found(n) = {}}
           Missed(M) == {Tried(d, s, n, Missing) : n \in M}
           hits == {h \in Numbers(ds) \X ps : h[2] \in Found(h[1])}
<1>0. o \in {Missed(M) \cup {Tried(d, s, h[1], h[2])} : M \in SUBSET vain, h \in hits}
              \cup (IF vain = Numbers(ds)
                    THEN {Missed(vain) \cup {Tried(d, s, Missing, p)} :
                            p \in IF Found(Missing) = {} THEN {Missing}
                                  ELSE Found(Missing)}
                    ELSE {})
  BY DEF Outcomes, Tried
<1>2. ASSUME NEW n PROVE Missing \notin Found(n)
  BY ResolvedIs, ExtractionAssumption DEF Near
<1> HIDE DEF Found, Missed, vain, hits
<1>1. \/ \E M \in SUBSET vain, h \in hits : o = Missed(M) \cup {Tried(d, s, h[1], h[2])}
      \/ /\ vain = Numbers(ds)
         /\ \E p \in IF Found(Missing) = {} THEN {Missing} ELSE Found(Missing) :
               o = Missed(vain) \cup {Tried(d, s, Missing, p)}
  BY <1>0
<1> USE DEF Missed, vain, hits
<1>3. CASE \E M \in SUBSET vain, h \in hits : o = Missed(M) \cup {Tried(d, s, h[1], h[2])}
  <2>1. PICK M \in SUBSET vain, h \in hits :
               o = Missed(M) \cup {Tried(d, s, h[1], h[2])}
    BY <1>3
  <2>2. h[1] \in Numbers(ds) /\ h[2] \in Found(h[1])
    OBVIOUS
  <2> QED
    BY <1>2, <2>1, <2>2 DEF Attempts, Found
<1>4. ASSUME vain = Numbers(ds),
             NEW p \in IF Found(Missing) = {} THEN {Missing} ELSE Found(Missing),
             o = Missed(vain) \cup {Tried(d, s, Missing, p)}
      PROVE  Attempts(o, d, s, ds, ps)
  <2>1. p \in Found(Missing) \cup {Missing}
    BY <1>4
  <2>2. p = Missing => \A m \in Numbers(ds) \cup {Missing} : Found(m) = {}
    BY <1>2, <1>4
  <2> QED
    BY <1>4, <2>1, <2>2 DEF Attempts, Found
<1> QED
  BY <1>1, <1>3, <1>4

-----------------------------------------------------------------------------
(* Extraction: the inductive invariant                                       *)

\* Documents are registered in order, and what one brings bears its place in it.
Registry ==
    /\ docs \in Seq(Row) /\ Len(docs) <= MaxUploads
    /\ provision \subseteq ProvisionRow
    /\ event \subseteq Event
    /\ \A p \in provision : p.doc <= Len(docs)
    /\ \A e \in event : e.doc <= Len(docs)

\* A sentence without a target had none that could be found at the address understood.
TriedAll ==
    \A e \in event :
        (\A x \in EventsOf(e.doc, e.sentence) : x.target = Missing)
            => Findable(e) = {}

IntakeInv == Registry /\ QueuedOnce /\ TriedAll /\ ResolvedClosest

\* What an upload of f brings: a document, the provisions listed and, for each of its
\* amending sentences, the attempts.
Brings(f, declared, d, row, new, o) ==
    /\ docs' = Append(docs, row) /\ Len(docs) < MaxUploads
    /\ row.file = f /\ row.declared = declared
    /\ provision' = provision \cup new
    /\ \A p \in new : p.doc = d
    /\ event' = event \cup UNION {o[s] : s \in Amendments(f, declared)}
    /\ \A s \in Amendments(f, declared) :
          s \in Sentence /\ Attempts(o[s], d, s, docs', provision')

\* An upload brings this and nothing else.
LEMMA Uploaded ==
    ASSUME Registry, NEW f \in Content, NEW declared \in BOOLEAN, Upload(f, declared)
    PROVE  \E row \in Row, new \in SUBSET ProvisionRow : \E o :
              Brings(f, declared, Len(docs) + 1, row, new, o)
<1> DEFINE d == Len(docs) + 1
           todo == Amendments(f, declared)
           NewRow(number) == [file |-> f, number |-> number, declared |-> declared,
                           approval |-> "PENDING"]
           New(found) == {[doc |-> d, piece |-> i[1], at |-> i[2]] : i \in found}
<1>1. PICK number \in NumbersFor(f), found \in SUBSET Items[f] :
        LET ds == Append(docs, NewRow(number))
            ps == provision \cup New(found)
            outcomes == [s \in todo |-> Outcomes(d, s, ds, ps)]
        IN  /\ docs' = ds
            /\ provision' = ps
            /\ \E o \in [todo -> UNION {outcomes[s] : s \in todo}] :
                  /\ \A s \in todo : o[s] \in outcomes[s]
                  /\ event' = event \cup UNION {o[s] : s \in todo}
  BY DEF Upload
<1>0. PICK o : /\ \A s \in todo : o[s] \in Outcomes(d, s, docs', provision')
               /\ event' = event \cup UNION {o[s] : s \in todo}
  BY <1>1
<1> USE ExtractionAssumption DEF Registry
<1>2. NewRow(number) \in Row
  BY DEF Row, NumbersFor
<1>3. d \in 1..MaxUploads /\ Len(docs) < MaxUploads
  BY DEF Upload
<1>4. New(found) \in SUBSET ProvisionRow
  <2> SUFFICES ASSUME NEW i \in found
               PROVE  [doc |-> d, piece |-> i[1], at |-> i[2]] \in ProvisionRow
    OBVIOUS
  <2>1. i \in Piece \X Address
    OBVIOUS
  <2> QED
    BY <1>3, <2>1 DEF ProvisionRow
<1>5. ASSUME NEW s \in todo
      PROVE  s \in Sentence /\ Attempts(o[s], d, s, docs', provision')
  <2>1. s \in Sentence
    BY DEF Amendments
  <2>2. o[s] \in Outcomes(d, s, docs', provision')
    BY <1>0
  <2>3. provision' \in SUBSET ProvisionRow
    BY <1>1, <1>4
  <2> QED
    BY <2>1, <2>2, <2>3, OutcomesAre
<1>6. \A p \in New(found) : p.doc = d
  OBVIOUS
<1> HIDE DEF New
<1>7. Brings(f, declared, Len(docs) + 1, NewRow(number), New(found), o)
  BY <1>0, <1>1, <1>2, <1>3, <1>5, <1>6 DEF Brings
<1> QED
  BY <1>2, <1>4, <1>7

\* What was found for a document stays what it was: later documents bring provisions
\* and events of their own.
LEMMA EarlierStays ==
    ASSUME Registry, NEW d \in Nat, d = Len(docs) + 1,
           NEW new, \A p \in new : p.doc = d, provision' = provision \cup new,
           NEW raised, \A e \in raised : e.doc = d, event' = event \cup raised
    PROVE  /\ \A e \in event : Findable(e)' = Findable(e)
           /\ \A x, s : x # d => EventsOf(x, s)' = EventsOf(x, s)
<1>1. ASSUME NEW e \in event PROVE Findable(e)' = Findable(e)
  <2>1. e.doc \in Nat /\ e.doc < d
    BY DEF Registry, Event
  <2> QED
    BY <2>1 DEF Findable
<1>2. ASSUME NEW x, NEW s, x # d PROVE EventsOf(x, s)' = EventsOf(x, s)
  BY <1>2 DEF EventsOf
<1> QED
  BY <1>1, <1>2

\* The attempts of an upload: at most one has a target, which is the closest of what
\* could be found, and none has only if there was nothing.
WellTried(o, d, s, ds, ps) ==
    /\ o # {} /\ o \subseteq Event
    /\ \A e \in o : e.doc = d /\ e.sentence = s
    /\ \A e, x \in o : e.target # Missing /\ x.target # Missing => e = x
    /\ \A e \in o : e.target # Missing =>
          /\ e.target \in Near(e.under, s, ds, ps)
          /\ \A q \in Near(e.under, s, ds, ps) : Above(q.at, e.target.at)
    /\ (\A e \in o : e.target = Missing) =>
          \A p \in ps : p \notin Near(ds[p.doc].number, s, ds, ps)

\* Attempts are of this kind.
LEMMA AttemptsAre ==
    ASSUME NEW ds \in Seq(Row), NEW d \in 1..MaxUploads,
           NEW ps \in SUBSET ProvisionRow, \A p \in ps : p.doc \in DOMAIN ds,
           NEW s \in Sentence, NEW o, Attempts(o, d, s, ds, ps)
    PROVE  WellTried(o, d, s, ds, ps)
<1>1. PICK M \in SUBSET Numbers(ds), n \in Numbers(ds) \cup {Missing} :
      \E t \in Resolved(n, s, ds, ps) \cup {Missing} :
        /\ o = {Tried(d, s, m, Missing) : m \in M} \cup {Tried(d, s, n, t)}
        /\ t = Missing => \A m \in Numbers(ds) \cup {Missing} :
                          Resolved(m, s, ds, ps) = {}
  BY DEF Attempts
<1>2. PICK t \in Resolved(n, s, ds, ps) \cup {Missing} :
        /\ o = {Tried(d, s, m, Missing) : m \in M} \cup {Tried(d, s, n, t)}
        /\ t = Missing => \A m \in Numbers(ds) \cup {Missing} :
                          Resolved(m, s, ds, ps) = {}
  BY <1>1
<1>3. ASSUME NEW x \in DOMAIN ds PROVE ds[x].number \in Numbers(ds) \cup {Missing}
  BY DEF Numbers
<1>4. Numbers(ds) \subseteq Number
  <2>1. \A x \in DOMAIN ds : ds[x] \in Row
    BY LenProperties
  <2> QED
    BY <2>1 DEF Numbers, Row
<1>5. t \in ProvisionRow \cup {Missing}
  BY ResolvedIs DEF Near
<1>6. ASSUME NEW m \in Numbers(ds) \cup {Missing}, NEW p \in ProvisionRow \cup {Missing}
      PROVE  /\ Tried(d, s, m, p) \in Event
             /\ Tried(d, s, m, p).doc = d /\ Tried(d, s, m, p).sentence = s
             /\ Tried(d, s, m, p).under = m /\ Tried(d, s, m, p).target = p
  BY <1>4 DEF Tried, Event
<1>7. ASSUME NEW e \in o, e.target # Missing PROVE e = Tried(d, s, n, t) /\ t # Missing
  <2>1. e = Tried(d, s, n, t) \/ \E m \in M : e = Tried(d, s, m, Missing)
    BY <1>2
  <2>2. \A m \in M : Tried(d, s, m, Missing).target = Missing
    BY <1>6
  <2>3. Tried(d, s, n, t).target = t
    BY <1>5, <1>6
  <2> QED
    BY <1>7, <2>1, <2>2, <2>3
<1>8. ASSUME \A e \in o : e.target = Missing, NEW p \in ps
      PROVE  p \notin Near(ds[p.doc].number, s, ds, ps)
  <2>1. t = Missing
    <3>1. Tried(d, s, n, t) \in o
      BY <1>2
    <3>2. Tried(d, s, n, t).target = t
      BY <1>5, <1>6
    <3> QED
      BY <1>8, <3>1, <3>2
  <2> QED
    BY <1>2, <1>3, <2>1, ResolvedIs
<1>9. ASSUME t # Missing
      PROVE  /\ t \in Near(n, s, ds, ps)
             /\ \A q \in Near(n, s, ds, ps) : Above(q.at, t.at)
  BY <1>9, ResolvedIs
<1>10. o # {} /\ o \subseteq Event /\ \A e \in o : e.doc = d /\ e.sentence = s
  BY <1>2, <1>5, <1>6
<1> HIDE DEF Tried
<1>11. \A e \in o : e.target # Missing => e.under = n /\ e.target = t
  BY <1>5, <1>6, <1>7
<1> QED
  BY <1>7, <1>8, <1>9, <1>10, <1>11 DEF WellTried

\* An upload of a file that is not registered.
LEMMA UploadStep ==
    ASSUME IntakeInv, NEW f \in Content, NEW declared \in BOOLEAN, Upload(f, declared)
    PROVE  IntakeInv'
<1>0. Registry /\ QueuedOnce /\ TriedAll /\ ResolvedClosest
  BY DEF IntakeInv
<1>1. PICK d \in Nat : d = Len(docs) + 1
  BY <1>0, LenProperties DEF Registry
<1>20. PICK row \in Row, new \in SUBSET ProvisionRow :
        \E o : Brings(f, declared, d, row, new, o)
  BY <1>0, <1>1, Uploaded
<1>2. PICK o : Brings(f, declared, d, row, new, o)
  BY <1>20
<1> DEFINE todo == Amendments(f, declared)
           raised == UNION {o[s] : s \in todo}
<1>3. /\ docs' \in Seq(Row) /\ Len(docs') = d /\ DOMAIN docs' = 1..d
      /\ DOMAIN docs = 1..(d - 1)
      /\ docs'[d] = row /\ \A x \in 1..(d - 1) : docs'[x] = docs[x]
  BY <1>0, <1>1, <1>2, AppendProperties, LenProperties DEF Registry, Brings
<1>4. /\ d \in 1..MaxUploads
      /\ provision' \in SUBSET ProvisionRow /\ \A p \in provision' : p.doc \in 1..d
  BY <1>0, <1>1, <1>2, ExtractionAssumption DEF Brings, Registry, ProvisionRow
<1>4a. ASSUME NEW s \in todo PROVE WellTried(o[s], d, s, docs', provision')
  <2>1. s \in Sentence /\ Attempts(o[s], d, s, docs', provision')
    BY <1>2 DEF Brings
  <2>2. docs' \in Seq(Row) /\ \A p \in provision' : p.doc \in DOMAIN docs'
    BY <1>3, <1>4
  <2> QED
    BY <1>4, <2>1, <2>2, AttemptsAre
<1>5. ASSUME NEW s \in todo
      PROVE  /\ o[s] # {} /\ o[s] \subseteq Event
             /\ \A e \in o[s] : e.doc = d /\ e.sentence = s
             /\ \A e, x \in o[s] : e.target # Missing /\ x.target # Missing => e = x
             /\ \A e \in o[s] : e.target # Missing =>
                   /\ e.target \in Near(e.under, s, docs', provision')
                   /\ \A q \in Near(e.under, s, docs', provision') :
                         Above(q.at, e.target.at)
             /\ (\A e \in o[s] : e.target = Missing) =>
                   \A p \in provision' :
                      p \notin Near(docs'[p.doc].number, s, docs', provision')
  BY <1>4a DEF WellTried
<1>6. \A e \in raised : e.doc = d /\ e \in Event
  BY <1>5
<1>7. /\ \A e \in event : Findable(e)' = Findable(e)
      /\ \A x, s : x # d => EventsOf(x, s)' = EventsOf(x, s)
  BY <1>0, <1>1, <1>2, <1>6, EarlierStays DEF Brings
<1>8. ASSUME NEW s \in todo PROVE EventsOf(d, s)' = o[s]
  <2>1. \A e \in event : e.doc # d
    BY <1>0, <1>1 DEF Registry, Event
  <2>2. EventsOf(d, s)' = {e \in event' : e.doc = d /\ e.sentence = s}
    BY DEF EventsOf
  <2> QED
    BY <1>2, <1>5, <2>1, <2>2 DEF Brings
<1>9. ASSUME NEW e \in event
      PROVE  e.doc \in DOMAIN docs /\ e.doc # d
  BY <1>0, <1>1, <1>3 DEF Registry, Event
<1>10. ASSUME NEW s \in todo, NEW e \in o[s], NEW p \in Findable(e)'
       PROVE  p \in Near(docs'[p.doc].number, s, docs', provision')
  BY <1>5, <1>10 DEF Findable, Near
<1>11. ASSUME NEW s \in todo, NEW e \in o[s], NEW p,
              p \in Near(e.under, s, docs', provision')
       PROVE  p \in Findable(e)' /\ docs'[p.doc].number = e.under
  BY <1>4, <1>5, <1>11 DEF Findable, Near
<1>12. Registry'
  BY <1>0, <1>1, <1>2, <1>3, <1>4, <1>6 DEF Brings, Registry, Event
<1>13. QueuedOnce'
  <2> SUFFICES ASSUME NEW x \in 1..d,
                      NEW s \in Amendments(docs'[x].file, docs'[x].declared)
               PROVE  /\ EventsOf(x, s)' # {}
                      /\ \A e, y \in EventsOf(x, s)' :
                            e.target # Missing /\ y.target # Missing => e = y
    BY <1>3 DEF QueuedOnce
  <2>1. CASE x = d
    <3>1. s \in todo
      BY <1>2, <1>3, <2>1 DEF Brings
    <3> QED
      BY <1>5, <1>8, <2>1, <3>1
  <2>2. CASE x # d
    <3>1. x \in DOMAIN docs /\ docs'[x] = docs[x]
      BY <1>3, <2>2
    <3> QED
      BY <1>0, <1>7, <2>2, <3>1 DEF QueuedOnce
  <2> QED
    BY <2>1, <2>2
<1>14. TriedAll'
  <2> SUFFICES ASSUME NEW e \in event',
                      \A x \in EventsOf(e.doc, e.sentence)' : x.target = Missing
               PROVE  Findable(e)' = {}
    BY DEF TriedAll
  <2>1. CASE e \in event
    BY <1>0, <1>7, <1>9, <2>1 DEF TriedAll
  <2>2. ASSUME NEW s \in todo, e \in o[s] PROVE Findable(e)' = {}
    <3>1. e.doc = d /\ e.sentence = s /\ \A x \in o[s] : x.target = Missing
      BY <1>5, <1>8, <2>2
    <3>2. ASSUME NEW p \in Findable(e)' PROVE FALSE
      <4>1. p \in provision'
        BY <3>2 DEF Findable
      <4> QED
        BY <1>5, <1>10, <2>2, <3>1, <3>2, <4>1
    <3> QED
      BY <3>2
  <2> QED
    BY <1>2, <2>1, <2>2 DEF Brings
<1>15. ResolvedClosest'
  <2> SUFFICES ASSUME NEW e \in event', e.target # Missing
               PROVE  /\ e.target \in Findable(e)'
                      /\ docs'[e.target.doc].number = e.under
                      /\ \A p \in Findable(e)' :
                            docs'[p.doc].number = e.under => Above(p.at, e.target.at)
    BY DEF ResolvedClosest
  <2>1. CASE e \in event
    <3>1. \A p \in Findable(e) : p.doc \in 1..(d - 1)
      BY <1>0, <1>1 DEF Findable, Registry, ProvisionRow
    <3>2. /\ e.target \in Findable(e) /\ docs[e.target.doc].number = e.under
          /\ \A p \in Findable(e) :
                docs[p.doc].number = e.under => Above(p.at, e.target.at)
      BY <1>0, <2>1 DEF ResolvedClosest
    <3>3. \A p \in Findable(e) : docs'[p.doc] = docs[p.doc]
      BY <1>3, <3>1
    <3> QED
      BY <1>7, <2>1, <3>2, <3>3
  <2>2. ASSUME NEW s \in todo, e \in o[s]
        PROVE  /\ e.target \in Findable(e)'
               /\ docs'[e.target.doc].number = e.under
               /\ \A p \in Findable(e)' :
                     docs'[p.doc].number = e.under => Above(p.at, e.target.at)
    <3>1. e.sentence = s /\ e.target \in Near(e.under, s, docs', provision')
      BY <1>5, <2>2
    <3>2. ASSUME NEW p \in Findable(e)', docs'[p.doc].number = e.under
          PROVE  Above(p.at, e.target.at)
      <4>1. p \in Near(e.under, s, docs', provision')
        BY <1>10, <2>2, <3>2
      <4> QED
        BY <1>5, <2>2, <4>1
    <3> QED
      BY <1>11, <2>2, <3>1, <3>2
  <2>3. e \in event \/ \E s \in todo : e \in o[s]
    BY <1>2 DEF Brings
  <2> QED
    BY <2>1, <2>2, <2>3
<1> QED
  BY <1>12, <1>13, <1>14, <1>15 DEF IntakeInv

\* A document is archived; what it brought stays, and so does its number.
LEMMA DeleteStep ==
    ASSUME IntakeInv, NEW d \in DOMAIN docs, Delete(d) PROVE IntakeInv'
<1> USE DEF IntakeInv
<1>1. docs' = [docs EXCEPT ![d].approval = "ARCHIVED"] /\ UNCHANGED <<provision, event>>
  BY DEF Delete
<1>2. \A x \in DOMAIN docs : docs[x] \in Row
  BY LenProperties DEF Registry
<1>3. [docs[d] EXCEPT !.approval = "ARCHIVED"] \in Row
  BY <1>2 DEF Row
<1>4. docs' \in Seq(Row) /\ Len(docs') = Len(docs) /\ DOMAIN docs' = DOMAIN docs
  BY <1>1, <1>3, ExceptSeq, LenProperties DEF Registry
<1>5. \A x \in DOMAIN docs : /\ docs'[x].file = docs[x].file
                             /\ docs'[x].declared = docs[x].declared
                             /\ docs'[x].number = docs[x].number
  BY <1>1, <1>2 DEF Row
<1>6. /\ \A e : Findable(e)' = Findable(e)
      /\ \A x, s : EventsOf(x, s)' = EventsOf(x, s)
  BY <1>1 DEF Findable, EventsOf
<1>7. Registry'
  BY <1>1, <1>4 DEF Registry
<1>8. QueuedOnce'
  BY <1>4, <1>5, <1>6 DEF QueuedOnce
<1>9. TriedAll'
  BY <1>1, <1>6 DEF TriedAll
<1>10. ResolvedClosest'
  <2>1. \A e : \A p \in Findable(e) : p.doc \in DOMAIN docs
    BY LenProperties DEF Findable, Registry, ProvisionRow
  <2> QED
    BY <1>1, <1>5, <1>6, <2>1 DEF ResolvedClosest
<1> QED
  BY <1>7, <1>8, <1>9, <1>10

\* The invariant holds in every reachable state.
LEMMA IntakeInvariance == ExtractionSpec => []IntakeInv
<1>1. ExtractionInit => IntakeInv
  <2> SUFFICES ASSUME ExtractionInit PROVE IntakeInv
    OBVIOUS
  <2>1. docs = <<>> /\ provision = {} /\ event = {}
    BY DEF ExtractionInit
  <2>2. docs \in Seq(Row) /\ Len(docs) = 0 /\ DOMAIN docs = {}
    BY <2>1
  <2> QED
    BY <2>1, <2>2, ExtractionAssumption
       DEF IntakeInv, Registry, QueuedOnce, TriedAll, ResolvedClosest
<1>2. IntakeInv /\ [ExtractionNext]_extractionVars => IntakeInv'
  <2> SUFFICES ASSUME IntakeInv, [ExtractionNext]_extractionVars PROVE IntakeInv'
    OBVIOUS
  <2>1. ASSUME NEW f \in Content, NEW declared \in BOOLEAN, Upload(f, declared)
        PROVE  IntakeInv'
    BY <2>1, UploadStep
  <2>2. ASSUME NEW d \in DOMAIN docs, Delete(d) PROVE IntakeInv'
    BY <2>2, DeleteStep
  <2>3. CASE UNCHANGED extractionVars
    <3>1. UNCHANGED <<docs, provision, event>>
      BY <2>3 DEF extractionVars
    <3>2. /\ \A e : Findable(e)' = Findable(e)
          /\ \A x, s : EventsOf(x, s)' = EventsOf(x, s)
      BY <3>1 DEF Findable, EventsOf
    <3>3. Registry' /\ QueuedOnce'
      BY <3>1, <3>2 DEF IntakeInv, Registry, QueuedOnce
    <3>4. TriedAll' /\ ResolvedClosest'
      BY <3>1, <3>2 DEF IntakeInv, TriedAll, ResolvedClosest
    <3> QED
      BY <3>3, <3>4 DEF IntakeInv
  <2> QED
    BY <2>1, <2>2, <2>3 DEF ExtractionNext
<1> QED
  BY <1>1, <1>2, PTL DEF ExtractionSpec

-----------------------------------------------------------------------------
(* Extraction: what an uploaded amendment can rely on                        *)

\* Every amending sentence that is recognised is queued, and with at most one target,
\* whatever documents the address is found in.
THEOREM QueuedWithOneTarget == ExtractionSpec => []QueuedOnce
<1>1. IntakeInv => QueuedOnce
  BY DEF IntakeInv
<1> QED
  BY <1>1, IntakeInvariance, PTL

\* The second reading of a locator loses the point, and the clause of a locator that has
\* the article first; what holds the address stated, and has no such part, holds the
\* address understood.
LEMMA WithinReach ==
    ASSUME NEW s \in Sentence, s.locator.at # Missing, NEW p \in ProvisionRow,
           Above(p.at, s.locator.at), ~OutOfReach(p, s)
    PROVE  Understood(s) # Missing /\ Above(p.at, Understood(s))
<1> DEFINE at == s.locator.at
           bare == [at EXCEPT !.point = Missing]
           article == [at EXCEPT !.clause = Missing, !.point = Missing]
<1>1. s.locator \in Locator /\ at \in Address /\ p.at \in Address
  BY DEF Sentence, Locator, ProvisionRow
<1>2. /\ bare \in Address /\ bare.article = at.article /\ bare.clause = at.clause
      /\ bare.point = Missing /\ [bare EXCEPT !.point = Missing] = bare
      /\ article \in Address /\ article.article = at.article
      /\ article.clause = Missing /\ article.point = Missing
      /\ [article EXCEPT !.point = Missing] = article
  BY <1>1 DEF Address
<1>3. bare # Missing /\ article # Missing
  BY <1>2, ExtractionAssumption
<1> HIDE DEF bare, article
<1>4. \A a : normalize_locator(locator_to_text(a)) =
             IF a = Missing THEN Missing ELSE [a EXCEPT !.point = Missing]
  BY DEF normalize_locator, locator_to_text
<1>5. /\ normalize_locator(s.locator) # Missing
      /\ Understood(s) = [normalize_locator(s.locator) EXCEPT !.point = Missing]
  <2>1. normalize_locator(s.locator) \in {at, bare, article}
    BY DEF normalize_locator, bare, article
  <2>2. normalize_locator(s.locator) # Missing
    BY <1>3, <2>1
  <2> QED
    BY <1>4, <2>2 DEF Understood, Canonical
<1>6. CASE s.locator.style = "article first"
  <2>1. Understood(s) \in {bare, article}
    BY <1>2, <1>5, <1>6 DEF normalize_locator, bare, article
  <2>2. p.at.clause = Missing /\ p.at.point = Missing
    BY <1>6 DEF OutOfReach
  <2> QED
    BY <1>2, <1>3, <2>1, <2>2 DEF Above
<1>7. CASE s.locator.style # "article first"
  <2>1. Understood(s) = bare
    BY <1>2, <1>5, <1>7 DEF normalize_locator, bare
  <2>2. p.at.point = Missing
    BY DEF OutOfReach
  <2> QED
    BY <1>2, <1>3, <2>1, <2>2 DEF Above
<1> QED
  BY <1>6, <1>7

\* A sentence is left to a reviewer only if all that was known at the upload at the
\* address it states or above it, under any number or none, is at a point, or at a clause
\* that the sentence names behind its article.
THEOREM ReviewerIsLastResort == ExtractionSpec => []NothingOverlooked
<1>1. IntakeInv => NothingOverlooked
  <2> SUFFICES ASSUME IntakeInv, NEW e \in event,
                      \A x \in EventsOf(e.doc, e.sentence) : x.target = Missing,
                      NEW p \in Addressed(e), ~OutOfReach(p, e.sentence)
               PROVE  FALSE
    BY DEF NothingOverlooked
  <2>1. Findable(e) = {}
    BY DEF IntakeInv, TriedAll
  <2>2. /\ p \in provision /\ p.doc <= e.doc
        /\ e.sentence.locator.at # Missing /\ Above(p.at, e.sentence.locator.at)
    BY DEF Addressed
  <2>3. e.sentence \in Sentence /\ p \in ProvisionRow
    BY <2>2 DEF IntakeInv, Registry, Event
  <2>4. Understood(e.sentence) # Missing /\ Above(p.at, Understood(e.sentence))
    BY <2>2, <2>3, WithinReach
  <2> QED
    BY <2>1, <2>2, <2>4 DEF Findable
<1> QED
  BY <1>1, IntakeInvariance, PTL

\* A target is the closest provision that documents of its number had.
THEOREM TargetsAreClosest == ExtractionSpec => []ResolvedClosest
<1>1. IntakeInv => ResolvedClosest
  BY DEF IntakeInv
<1> QED
  BY <1>1, IntakeInvariance, PTL
=============================================================================

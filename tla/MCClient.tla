------------------------------ MODULE MCClient -------------------------------
(* Two conversations, two questions and a file in one browser tab; and the     *)
(* door of the program behind it, on small inputs.                             *)
EXTENDS Client
CONSTANTS c1, c2, q1, q2, f1
-----------------------------------------------------------------------------
SV == INSTANCE Service WITH ExpireMinutes <- 2, Bucket <- [t \in 1..4 |-> t % 3]
AK == INSTANCE Ask
RD == INSTANCE Reading

Accounts == [name : {"user", "employee", "other"}, role : {"EMPLOYEE", "USER"},
             password : {"user123", "else"}]

Tables == {users \in SUBSET Accounts : \A u, v \in users : u.name = v.name => u = v}

Tokens == {None} \cup [sub : {"user"}, role : {"EMPLOYEE", "USER"}, exp : 1..3,
                       sealed : BOOLEAN]

\* The start may be repeated (api/auth.py:112): it changes nothing the second time, leaves
\* one account of the demonstration and none of its former ones, and touches no password.
ASSUME StartRepeats ==
    \A users \in Tables :
        LET after == SV!SeedUsers(users)
        IN  /\ SV!SeedUsers(after) = after
            /\ Cardinality({u \in after : u.name = "user"}) = 1
            /\ \A u \in after :
                  u.name # "employee" /\ (u.name = "user" => u.role = "EMPLOYEE")
            /\ \A u \in users, v \in after : u.name = v.name => u.password = v.password

\* Whoever logs in is let through every router until the token expires, and not after.
ASSUME LoginLasts ==
    \A users \in Tables, name \in {"user", "other"}, password \in {"user123", "else"} :
        LET login == SV!Login(SV!SeedUsers(users), name, password, 1)
        IN  login.status = 200 =>
                \A route \in SV!Routes, now \in 1..5 :
                    SV!Stopped(route, TRUE, login.token, now, TRUE) = 0
                        <=> now <= 3 \/ route.needs = "nobody"

\* The legal store is changed by nobody but an employee (api/auth.py:5), whatever else
\* holds of the request.
ASSUME WritesNeedEmployee ==
    \A route \in SV!Routes, mounted, loaded \in BOOLEAN, token \in Tokens, now \in 0..4 :
        /\ route.store = "legal" /\ SV!Stopped(route, mounted, token, now, loaded) = 0 =>
              token # None /\ token.sealed /\ token.role = "EMPLOYEE" /\ now <= token.exp
        /\ SV!Respond(route, mounted, token, now, loaded, [error |-> None]) = 200
              <=> SV!Stopped(route, mounted, token, now, loaded) = 0

\* The refusal of the gate is a 409 at whatever route it is met.
ASSUME GateIsConflict ==
    \A route \in SV!Routes :
        SV!Ends(route, [error |-> "ReviewNotCompletedError"]) = 409

\* The documents have a second role that may only read (docs/ARCHITECTURE.md:48), the
\* enumeration lacks it: the request of its bearer fails, and nobody is ever told that an
\* employee is required.
ASSUME OneRoleOnly ==
    \A route \in SV!Routes, token \in Tokens, now \in 0..4 :
        /\ SV!Stopped(route, TRUE, token, now, TRUE) # 403
        /\ token # None /\ token.role = "USER" =>
              (SV!Stopped(route, TRUE, token, now, TRUE) = 0 <=> route.needs = "nobody")

\* A report is there until the process ends, and no other is put in its place.
ASSUME ReportsStay ==
    \A old \in UNION {[S -> {1, 2}] : S \in SUBSET {"a", "b"}}, id \in {"a", "b", "c"} :
        LET made == SV!CreateCheck(old, id, "CHECK_DOCUMENT_COMPLIANCE", 3)
        IN  /\ SV!GetCheck(made.reports, id).report = 3
            /\ \A i \in DOMAIN old \ {id} :
                   SV!GetCheck(made.reports, i) = SV!GetCheck(old, i)
            /\ SV!CreateCheck(old, id, "ADD_REGULATORY_SOURCE", 3).reports = old

Texts == {None, << >>, <<"word">>}
Files == {f \in [ext : {".pdf", ".docx", ".txt"}, pdf : BOOLEAN, blocks : Texts,
                 decoded : Texts \ {None}] :
            f.decoded = << >> => f.blocks \in {None, << >>}}

\* A text to be reviewed is never empty and never guessed from the bytes of a PDF; the
\* inbox takes the same file as text.
ASSUME NoTextNoReview ==
    /\ \A f \in Files :
          LET out == SV!ExtractText(f)
          IN  /\ out.status \in {200, 422}
              /\ out.status = 200 =>
                    out.text # << >> /\ (f.pdf => out.text = f.blocks)
    /\ \E f \in Files : /\ SV!ExtractText(f).status = 422
                        /\ RD!Refusal([ext |-> f.ext, size |-> 1], 2) = None
                        /\ RD!Extractor([ext |-> f.ext, opens |-> FALSE]) = "text"

Configurations ==
    [demo : BOOLEAN, up : SUBSET {"postgres", "opensearch", "neo4j", "bge"},
     provider : {"google", "mock"}, keys : SUBSET {"google"}]

Served(c) == AK!ClientFor(c.provider, c.keys, {})

\* Outside the demonstration "ok" means that every service is the real one
\* (routes_health.py:5-6) ...
ASSUME HealthSeesServices ==
    \A c \in Configurations : ~c.demo /\ SV!HealthDetails(c).status = "ok" =>
        /\ c.up = {"postgres", "opensearch", "neo4j", "bge"}
        /\ SV!GetStore(c) = "OpenSearchStore" /\ SV!GetGraph(c) = "Neo4jGraph"

\* ... but not the language model: its line repeats the settings, against the comment of
\* the file (routes_health.py:3-4), and is wrong both ways.
ASSUME HealthEchoesModel ==
    /\ \E c \in Configurations :
          /\ ~c.demo /\ Served(c) = "mock"
          /\ SV!HealthDetails(c) = [llm |-> "google", status |-> "ok"]
    /\ \E c \in Configurations : /\ c.demo /\ Served(c) = "google"
                                 /\ SV!HealthDetails(c).llm = "mock"

TokenLists == UNION {[1..n -> 1..4] : n \in 0..3}
Near(s, t) ==
    SV!CosineSquare(SV!HashEmbed(s, 0..2), SV!HashEmbed(t, 0..2))

\* A cosine is a cosine: at most 1, which is reached by the same words in another order,
\* and also by other words hashed alike; a text without words is far from every text.
ASSUME NearIsNotSame ==
    /\ \A s, t \in TokenLists :
          /\ 0 <= Near(s, t).num /\ Near(s, t).num <= Near(s, t).den
          /\ s = << >> => Near(s, t).num = 0
          /\ s # << >> /\ (\A w \in 1..4 : Cardinality({i \in DOMAIN s : s[i] = w})
                                             = Cardinality({i \in DOMAIN t : t[i] = w}))
                => Near(s, t).num = Near(s, t).den
    /\ Near(<<1>>, <<4>>).num = Near(<<1>>, <<4>>).den
=============================================================================

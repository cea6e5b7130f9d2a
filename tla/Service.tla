------------------------------ MODULE Service ------------------------------
(***************************************************************************)
(* The door of the program: accounts and tokens (api/auth.py), which route *)
(* asks for which role and with what status a request ends                 *)
(* (api/routes_*.py, backend/app/api/), the text of a file to be reviewed  *)
(* (/extract-text), the back ends a process chooses at its first use of    *)
(* them and what /health/details says of that choice, and the place of a   *)
(* text in the space of the fallback embedder.  What the handlers call is  *)
(* in the modules of the components.  Functions of their arguments.        *)
(***************************************************************************)
EXTENDS Integers, Sequences, FiniteSets, FiniteSetsExt

CONSTANTS None,
          ExpireMinutes,    \* jwt_expire_minutes
          Bucket            \* the dimension a token is hashed to

-----------------------------------------------------------------------------
(* Accounts are [name, role, password], a token [sub, role, exp, sealed], where        *)
(* sealed says that the signature is the one of its body.                              *)

Role == {"EMPLOYEE"}

Demo == [name |-> "user", role |-> "EMPLOYEE", password |-> "user123"]
Legacy == {"compliance", "employee"}

\* The password of an account that is already there is left alone.
SeedUsers(users) ==
    LET kept == {u \in users : u.name \notin Legacy}
    IN  IF \E u \in kept : u.name = Demo.name
        THEN {u \in kept : u.name # Demo.name}
                \cup {[u EXCEPT !.role = Demo.role] :
                         u \in {v \in kept : v.name = Demo.name}}
        ELSE kept \cup {Demo}

Authenticate(users, name, password) ==
    {u \in users : u.name = name /\ u.password = password}

CreateToken(user, now) == [sub |-> user.name, role |-> user.role,
                           exp |-> now + ExpireMinutes, sealed |-> TRUE]

Login(users, name, password, now) ==
    LET found == Authenticate(users, name, password)
        user == CHOOSE u \in found : TRUE
    IN  CASE found = {} -> [status |-> 401, token |-> None]
          [] found # {} /\ user.role \notin Role -> [status |-> 500, token |-> None]
          [] OTHER -> [status |-> 200, token |-> CreateToken(user, now)]

\* The account is not looked up again; a role that is no longer one is an error.
Caller(token, now) ==
    CASE token = None -> 401
      [] token # None /\ (~token.sealed \/ token.exp < now) -> 401
      [] OTHER -> IF token.role \in Role THEN 200 ELSE 500

-----------------------------------------------------------------------------
(* The routes: [op, needs, facade, store], where facade says that the handler is found *)
(* by name when it is called and store which data it changes.                          *)

Route(op, needs, facade, store) ==
    [op |-> op, needs |-> needs, facade |-> facade, store |-> store]

IngestRoutes == {Route("upload_document", "employee", TRUE, "legal"),
                 Route("list_documents", "account", TRUE, None),
                 Route("activate_document", "employee", TRUE, "legal"),
                 Route("delete_document", "employee", TRUE, "legal"),
                 Route("list_document_provisions", "account", TRUE, None)}
ReviewRoutes == {Route("list_review_tasks", "employee", TRUE, None),
                 Route("decide_review_task", "employee", TRUE, "legal")}
QueryRoutes == {Route("query", "account", TRUE, "audit"),
                Route("compare", "account", TRUE, "audit")}
GraphRoutes == {Route("graph_provision", "account", TRUE, None),
                Route("audit", "employee", TRUE, None)}
ChatRoutes == {Route("create_conversation", "account", FALSE, "own"),
               Route("list_conversations", "account", FALSE, None),
               Route("get_conversation", "account", FALSE, None),
               Route("post_message", "account", FALSE, "own"),
               Route("add_attachment", "account", FALSE, "own"),
               Route("delete_conversation", "account", FALSE, "own")}
RunRoutes == {Route("extract_text", "account", FALSE, None),
              Route("create_review_run", "account", FALSE, "own"),
              Route("get_review_run", "account", FALSE, None),
              Route("ask_question", "account", FALSE, None),
              Route("export_report", "account", FALSE, None),
              Route("rerun", "account", FALSE, "own")}
BatchRoutes == {Route("create_batch", "account", FALSE, "own"),
                Route("get_batch", "account", FALSE, None),
                Route("get_items", "account", FALSE, None),
                Route("ask_batch_question", "account", FALSE, None),
                Route("rerun_batch", "account", FALSE, "own"),
                Route("export_batch", "account", FALSE, None)}
CheckRoutes == {Route("create_check", "account", FALSE, "process"),
                Route("get_check", "account", FALSE, None),
                Route("get_report", "account", FALSE, None)}
ImpactRoutes == {Route("get_impact_report", "account", FALSE, None)}
OpenRoutes == {Route("login", "nobody", FALSE, None),
               Route("health", "nobody", FALSE, None),
               Route("health_details", "nobody", FALSE, None)}

Routes == UNION {IngestRoutes, ReviewRoutes, QueryRoutes, GraphRoutes, ChatRoutes,
                 RunRoutes, BatchRoutes, CheckRoutes, ImpactRoutes, OpenRoutes}

\* With what a handler ends: None, the name of what it raises, or the status it asks for.
Ends(route, raised) ==
    CASE raised.error = None -> 200
      [] raised.error = "HTTPException" -> raised.status
      [] raised.error = "ReviewNotCompletedError" -> 409
      [] raised.error = "ValueError" /\ route \in ImpactRoutes -> 404
      [] OTHER -> 500

\* A request meets the router (one whose module did not load is left out), the token,
\* the role, the facade, and then the handler: 0 says that it gets there.
Stopped(route, mounted, token, now, loaded) ==
    LET caller == IF route.needs = "nobody" THEN 200 ELSE Caller(token, now)
    IN  CASE ~mounted -> 404
          [] mounted /\ caller # 200 -> caller
          [] mounted /\ caller = 200 /\ route.needs = "employee"
                /\ token.role # "EMPLOYEE" -> 403
          [] OTHER -> IF route.facade /\ ~loaded THEN 503 ELSE 0

Respond(route, mounted, token, now, loaded, raised) ==
    LET stop == Stopped(route, mounted, token, now, loaded)
    IN  IF stop # 0 THEN stop ELSE Ends(route, raised)

\* The reports of the old compliance route live in the process that made them.
CreateCheck(reports, id, purpose, report) ==
    IF purpose # "CHECK_DOCUMENT_COMPLIANCE" THEN [status |-> 400, reports |-> reports]
    ELSE [status |-> 200, reports |-> [i \in DOMAIN reports \cup {id} |->
                                          IF i = id THEN report ELSE reports[i]]]
GetCheck(reports, id) ==
    IF id \in DOMAIN reports THEN [status |-> 200, report |-> reports[id]]
    ELSE [status |-> 404, report |-> None]

\* A file is [ext, pdf, blocks, decoded]: whether it begins as a PDF does, its blocks of
\* text (None if the library fails on it) and its bytes read as text.
ExtractText(file) ==
    LET parsed == file.pdf \/ file.ext \in {".pdf", ".docx"}
        text == IF parsed THEN file.blocks ELSE file.decoded
    IN  CASE parsed /\ file.blocks = None -> [status |-> 422, error |-> "EXTRACT_FAILED"]
          [] text = << >> -> [status |-> 422, error |-> "NEEDS_TEXT_EXTRACTION"]
          [] OTHER -> [status |-> 200, text |-> text]

-----------------------------------------------------------------------------
(* Back ends.  A configuration is [demo, up, provider, client]: the services that      *)
(* answer at the first use, the provider named in the settings, and the client that    *)
(* get_client made of it.                                                              *)

GetStore(c) == IF ~c.demo /\ "opensearch" \in c.up THEN "OpenSearchStore"
               ELSE "InMemoryStore"
GetGraph(c) == IF ~c.demo /\ "neo4j" \in c.up THEN "Neo4jGraph" ELSE "InMemoryGraph"
GetEmbedder(c) == IF ~c.demo /\ "bge" \in c.up THEN "_BGEEmbedder" ELSE "_HashEmbedder"

StateOf(class) ==
    CASE class \in {"OpenSearchStore", "Neo4jGraph"} -> "connected"
      [] class = "_BGEEmbedder" -> "bge-m3"
      [] class \in {"InMemoryStore", "InMemoryGraph"} -> "fallback_memory"
      [] OTHER -> "hash_fallback"

HealthDetails(c) ==
    LET llm == IF c.demo THEN "mock" ELSE c.provider
        states == {StateOf(GetStore(c)), StateOf(GetGraph(c)), StateOf(GetEmbedder(c)),
                   llm}
        degraded == \/ "postgres" \notin c.up
                    \/ states \cap {"fallback_memory", "hash_fallback", "mock"} # {}
    IN  [llm |-> llm, status |-> IF degraded /\ ~c.demo THEN "degraded" ELSE "ok"]

-----------------------------------------------------------------------------
(* The fallback embedder: how many tokens of a text are hashed to each dimension.  The *)
(* length of the vector is left out, the cosine divides it out again.                  *)

HashEmbed(tokens, dim) ==
    [d \in dim |-> Cardinality({i \in DOMAIN tokens : Bucket[tokens[i]] = d})]

Dot(a, b) == FoldSet(LAMBDA d, n : n + a[d] * b[d], 0, DOMAIN a)

\* The square of the cosine, [num, den]; a text without tokens is far from all.
Norm(a) == IF Dot(a, a) = 0 THEN 1 ELSE Dot(a, a)
CosineSquare(a, b) == [num |-> Dot(a, b) * Dot(a, b), den |-> Norm(a) * Norm(b)]
=============================================================================

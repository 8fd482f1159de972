------------------------------- MODULE Access -------------------------------
(***************************************************************************)
(* Who may do what, and what a refusal looks like: the pure decisions a    *)
(* request passes on its way from the browser to a row.                    *)
(*                                                                         *)
(*   browser -> proxy (viewer, origin, allowed path, body)                 *)
(*           -> internal token -> API (session, demo refusals)             *)
(*           -> service -> query, narrowed to the user                     *)
(*                                                                         *)
(* and, next to it, the two other ways in (the push webhook and the demo's *)
(* model calls) and the configurations a process starts with.  Nothing     *)
(* here has state: every operator is a function of a request, a            *)
(* configuration or a table, and MCAccess evaluates it over all of them.   *)
(* Users, rows and visits are model values or strings; a route is its path *)
(* without the ids in it.                                                  *)
(***************************************************************************)
EXTENDS Naturals, Sequences, FiniteSets

(***************************** Tenancy ************************************)

\* The path of columns and relations from a model's row to the user that
\* owns it; the empty path is a model of no user.
Tenancy ==
    [User |-> <<"id">>, Account |-> <<"userId">>, Session |-> <<"userId">>,
     VerificationToken |-> <<>>, MailAccount |-> <<"userId">>,
     MailAccountEvent |-> <<"userId">>, UserWritingStyle |-> <<"userId">>,
     UserSettings |-> <<"userId">>, AiUsage |-> <<"userId">>,
     ScheduledEmail |-> <<"userId">>, FollowUpReminder |-> <<"userId">>,
     Thread |-> <<"mailAccount", "userId">>,
     Message |-> <<"mailAccount", "userId">>,
     Attachment |-> <<"message", "mailAccount", "userId">>,
     AiSummary |-> <<"thread", "mailAccount", "userId">>,
     ReplyDraft |-> <<"thread", "mailAccount", "userId">>,
     AiClassification |-> <<"message", "mailAccount", "userId">>,
     ThreatAppeal |-> <<"userId">>,
     Translation |-> <<"message", "mailAccount", "userId">>]

Model == DOMAIN Tenancy

FilteredOps ==
    {"findUnique", "findUniqueOrThrow", "findFirst", "findFirstOrThrow",
     "findMany", "count", "aggregate", "groupBy", "update", "updateMany",
     "delete", "deleteMany"}

CreateOps == {"create", "createMany", "createManyAndReturn"}

Direct(model) == Tenancy[model] = <<"userId">>

\* A `where` maps each column or relation it names to the rows that satisfy
\* it there; a row is selected when it satisfies every one.
Selected(where, rows) == {r \in rows : \A k \in DOMAIN where : r \in where[k]}

\* owner[r] is the user at the end of row r's path.
TenantFilter(model, user, owner) ==
    [key \in {Head(Tenancy[model])} |-> {r \in DOMAIN owner : owner[r] = user}]

\* `{ ...existing, ...filter }`: the filter's key replaces the caller's.
Narrowed(model, op, where, user, owner) ==
    IF \/ op \in FilteredOps /\ Tenancy[model] # <<>>
       \/ op = "upsert" /\ Direct(model)
    THEN LET filter == TenantFilter(model, user, owner)
         IN  [key \in DOMAIN filter \cup DOMAIN where |->
                IF key \in DOMAIN filter THEN filter[key] ELSE where[key]]
    ELSE where

\* The rows an operation with a `where` reads or changes.
Reached(model, op, where, user, owner) ==
    Selected(Narrowed(model, op, where, user, owner), DOMAIN owner)

\* The owner of a row an operation writes anew, when its caller named `asked`.
BornTo(model, op, asked, user) ==
    IF op \in CreateOps \cup {"upsert"} /\ Direct(model) THEN user ELSE asked

(************************ Sessions and tokens *****************************)

DEMO_USER_ID == "demoUser"
isDemoUserId(id) == id = DEMO_USER_ID

Refused == [refused |-> TRUE]

\* A verified session cookie of the web application wins over a demo visit's.
getViewer(session, demoCookie, demoEnabled) ==
    IF session # "none" THEN [userId |-> session, visit |-> "none"]
    ELSE IF demoEnabled /\ demoCookie # "none"
    THEN [userId |-> DEMO_USER_ID, visit |-> demoCookie]
    ELSE Refused

\* The token lives `TOKEN_TTL_SECONDS` = 60 and both sides have a clock: its
\* signature and expiry are verified by a library before `sessionOf`.
mintInternalToken(caller) ==
    [sub |-> caller.userId,
     ses |-> IF caller.visit = "none" THEN "user" ELSE "demo",
     sid |-> caller.visit]

\* `ses` is absent from tokens minted before the claim existed; a `sid` of
\* another shape than a visit's is "malformed".
sessionOf(payload, demoMode) ==
    LET kind == IF payload.ses = "absent" THEN "user" ELSE payload.ses IN
    IF payload.sub = "none" \/ kind \notin {"user", "demo"} THEN Refused
    ELSE IF kind = "user"
    THEN IF isDemoUserId(payload.sub) THEN Refused
         ELSE [id |-> payload.sub, demo |-> FALSE, visit |-> "none"]
    ELSE IF \/ ~demoMode \/ ~isDemoUserId(payload.sub)
            \/ payload.sid \in {"none", "malformed"}
    THEN Refused
    ELSE [id |-> payload.sub, demo |-> TRUE, visit |-> payload.sid]

(***************************** The routes *********************************)

\* What a route of the API does besides answering.  `demo` is the refusal its
\* middleware gives a demo visit, `service` whether its service refuses one
\* too, `calls` whether it may ask a model, `provider` what it reaches, now or
\* through what it leaves behind: a mailbox ("mail"), the provider's consent
\* and tokens ("oauth") or neither; and `marks` whether a demo visit's use of
\* it marks the demo for a restore.
Route(method, demo, service, calls, provider, writes, marks) ==
    [method |-> method, demo |-> demo, service |-> service, calls |-> calls,
     provider |-> provider, writes |-> writes, marks |-> marks]

Reading == Route("GET", "none", FALSE, FALSE, "none", FALSE, FALSE)
Drafting(demo) == Route("POST", demo, FALSE, TRUE, "none", TRUE, FALSE)
Sending(demo) == Route("POST", demo, TRUE, FALSE, "mail", TRUE, FALSE)
Deciding == Route("POST", "none", FALSE, FALSE, "none", TRUE, TRUE)

Routes ==
    [threads |-> Reading, thread |-> Reading, writingStyle |-> Reading,
     scheduled |-> Reading, followUps |-> Reading,
     mailAccounts |-> Reading, syncStatus |-> Reading,
     replies |-> Drafting("none"), translate |-> Drafting("none"),
     compose |-> [Drafting("compose") EXCEPT !.writes = FALSE],
     buildStyle |-> Drafting("writingStyle"),
     reply |-> Sending("send"),
     scheduleReply |-> Sending("schedule"),
     scheduleMessage |-> Sending("schedule"),
     cancel |-> Deciding, dismiss |-> Deciding, snooze |-> Deciding,
     threatAppeal |-> Deciding,
     connect |-> Route("POST", "connect", FALSE, FALSE, "oauth", TRUE, FALSE),
     disconnect |-> Route("DELETE", "disconnect", FALSE, FALSE, "oauth", TRUE, FALSE),
     sync |-> Route("POST", "sync", FALSE, FALSE, "mail", TRUE, FALSE),
     demoSession |-> Route("POST", "none", FALSE, FALSE, "none", TRUE, FALSE)]

\* The routes a page may reach through the proxy.  Connecting, disconnecting
\* and syncing are server actions, and a demo visit starts in one.
ALLOWED_GET_PATHS == {"threads", "thread", "writingStyle", "scheduled", "followUps"}
ALLOWED_POST_PATHS ==
    {"replies", "reply", "compose", "buildStyle", "threatAppeal",
     "scheduleReply", "scheduleMessage", "cancel", "dismiss", "snooze",
     "translate"}

(**************************** Refusals ************************************)

\* The status each error of the application answers with.
StatusOf ==
    [BadRequest |-> 400, Validation |-> 422, Unauthorized |-> 401,
     Forbidden |-> 403, NotFound |-> 404, Conflict |-> 409, RateLimit |-> 429,
     Upstream |-> 502, Internal |-> 500, MailAccountRevoked |-> 409,
     ProviderAuth |-> 502, InvalidGrant |-> 409, AiCapExceeded |-> 429,
     AiDisabled |-> 409, SyncCursorExpired |-> 409, DemoRestricted |-> 403,
     DemoLimit |-> 429, PushNotConfigured |-> 409]

\* What the API answers to a request that ended in an error: always JSON.
errorHandler(error) ==
    [status |-> CASE error = "Zod" -> 422
                  [] error \in DOMAIN StatusOf -> StatusOf[error]
                  [] OTHER -> 500,
     json |-> TRUE,
     code |-> CASE error = "Zod" -> "Validation"
                [] error \in DOMAIN StatusOf -> error
                [] OTHER -> "Internal"]

WAKING_STATUSES == {502, 503, 504}
READ_TIMEOUT_MS == 9000
WRITE_TIMEOUT_MS == 60000

\* What the web application makes of an answer, or of none ("silence": refused,
\* reset or timed out).
apiFetch(answer) ==
    IF \/ answer = [silence |-> TRUE]
       \/ answer.status \in WAKING_STATUSES /\ ~answer.json
    THEN [error |-> "API_STARTING", status |-> 503]
    ELSE IF ~answer.json THEN [error |-> "BAD_RESPONSE", status |-> answer.status]
    ELSE IF answer.status \notin 200 .. 299
    THEN [error |-> answer.code, status |-> answer.status]
    ELSE [error |-> "none", status |-> 200]

\* The API's own answer to an authenticated request: the middleware of the
\* route, then its service, then the provider registry, each of which knows a
\* demo visit.  `layers` is the set of those in place (all three are).
Layers == {"route", "service", "registry"}
Api(route, user, layers) ==
    IF user = Refused THEN errorHandler("Unauthorized")
    ELSE IF route = "demoSession" /\ ~user.demo THEN errorHandler("Forbidden")
    ELSE IF user.demo /\ \/ "route" \in layers /\ Routes[route].demo # "none"
                         \/ "service" \in layers /\ Routes[route].service
    THEN errorHandler("DemoRestricted")
    ELSE [status |-> 200, json |-> TRUE, code |-> "none"]

\* Whether a request, or the job it leaves behind, talks to a provider.  The
\* registry refuses a client for the demo's mailbox; consent and the revoking
\* of a grant do not pass it.
ReachesProvider(route, user, layers) ==
    /\ Api(route, user, layers).status = 200
    /\ \/ Routes[route].provider = "oauth"
       \/ /\ Routes[route].provider = "mail"
          /\ ~("registry" \in layers /\ isDemoUserId(user.id))

(***************************** The proxy **********************************)

\* A write is taken from our own page: the origin of the request's own URL or
\* the configured one; an absent origin is neither.
assertSameOrigin(origin, own, configured) ==
    origin # "absent" /\ origin \in {own, configured}

MAX_BODY_BYTES == 131072

\* The proxy's answer, in the order of its checks; `forward` is the API's.
Proxy(method, route, viewer, request, forward) ==
    LET allowed == IF method = "GET" THEN ALLOWED_GET_PATHS ELSE ALLOWED_POST_PATHS
    IN
    IF viewer = Refused THEN [error |-> "UNAUTHORIZED", status |-> 401]
    ELSE IF method = "POST" /\ ~assertSameOrigin(request.origin, request.own,
                                                 request.configured)
    THEN [error |-> "CROSS_ORIGIN", status |-> 403]
    ELSE IF route \notin allowed THEN [error |-> "NOT_PROXIED", status |-> 404]
    ELSE IF method = "POST" /\ request.bytes > MAX_BODY_BYTES
    THEN [error |-> "BODY_TOO_LARGE", status |-> 413]
    ELSE IF method = "POST" /\ ~request.parses /\ request.bytes > 0
    THEN [error |-> "BAD_JSON", status |-> 400]
    ELSE apiFetch(forward)

(************************* The demo's model calls *************************)

PER_SESSION_PER_HOUR == 6
ALL_SESSIONS_PER_HOUR == 30

\* The counters of one hour: of each visit, and of all of them.
NoCalls(visits) == [session |-> [v \in visits |-> 0], all |-> 0]

\* Both counters are incremented in one transaction before either is read.
Counted(counters, visit) ==
    [session |-> [counters.session EXCEPT ![visit] = @ + 1],
     all |-> counters.all + 1]

takeDemoAiAllowance(counters, visit, redisAnswers) ==
    /\ redisAnswers
    /\ Counted(counters, visit).session[visit] <= PER_SESSION_PER_HOUR
    /\ Counted(counters, visit).all <= ALL_SESSIONS_PER_HOUR

\* Which requests of an hour, in order, get a live call: granted[i] is the
\* answer to the i-th of a sequence of visits.
Granted(visits, asking) ==
    LET upTo(v, i) == Cardinality({j \in 1 .. i : asking[j] = v})
        before(i) == [session |-> [v \in visits |-> upTo(v, i - 1)], all |-> i - 1]
    IN  [i \in DOMAIN asking |-> takeDemoAiAllowance(before(i), asking[i], TRUE)]

\* Written drafts, and a cached translation of the current text, need no
\* allowance: the request is answered without one.
NeedsAllowance(button, written, cachedHash, contentHash) ==
    IF button = "replies" THEN ~written
    ELSE cachedHash = "none" \/ cachedHash # contentHash

(**************************** The webhook *********************************)

devTokenEnabled(config) == config.devToken # "none" /\ config.mode # "production"

\* A push is taken from the development secret, outside production, or from a
\* token the key set, the issuer and the audience verify; then from the
\* configured service account, if there is one.
verifyPushRequest(token, config) ==
    \/ /\ devTokenEnabled(config)
       /\ token.text = config.devToken
    \/ /\ token.signed
       /\ token.issuer = "google"
       /\ token.audience = config.audience
       /\ \/ config.account = "none"
          \/ token.email = config.account /\ token.verified

(************************* Configurations *********************************)

\* A process starts in production only with reachable, encrypted addresses of
\* its own and no canned model.  An address is local, plain or secure.
assertProductionConfig(env) ==
    env.mode = "production" =>
        /\ env.publicUrl = "secure"
        /\ env.webUrl = "secure"
        /\ env.provider # "stub"
        /\ env.baseUrl # "local"

\* The web application's own two addresses, at its first read of a setting;
\* its build skips the check.
assertProductionUrls(web) ==
    \/ web.building
    \/ web.mode = "production" => web.authUrl = "secure" /\ web.apiUrl = "secure"

\* Which endpoint the model calls go to: whether it is the local stub, or that
\* the call fails for want of a configuration.
resolveAiEndpoint(env) ==
    LET canned == IF env.mode = "production" THEN "unconfigured" ELSE "stub" IN
    IF env.provider = "gemini" THEN IF env.geminiKey THEN "gemini" ELSE "unconfigured"
    ELSE IF env.provider = "stub" THEN canned
    ELSE IF env.baseUrl # "none" THEN IF env.baseUrl = "local" THEN "stub" ELSE "gateway"
    ELSE IF env.anthropicKey THEN "anthropic"
    ELSE canned
=============================================================================

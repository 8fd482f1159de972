------------------------------ MODULE MCAccess ------------------------------
(***************************************************************************)
(* Access evaluated over every route, model, operation, claim and          *)
(* configuration.  The assumptions are what the code and its comments say  *)
(* of a request; TLC evaluates them before any run that extends this       *)
(* module.                                                                 *)
(***************************************************************************)
EXTENDS Access

(* Three rows, one of another user, and the conditions a caller may give.  *)
RowOwner == [r \in {"r1", "r2", "r3"} |-> IF r = "r3" THEN "bob" ELSE "ann"]
Wheres(keys) == UNION {[ks -> SUBSET DOMAIN RowOwner] : ks \in SUBSET keys}
OwnRows == {r \in DOMAIN RowOwner : RowOwner[r] = "ann"}
AllOps == FilteredOps \cup CreateOps \cup {"upsert"}

\* An operation of one user can touch a row of another only where the tenancy
\* extension leaves the `where` alone: on models of no user, in creations
\* (which take none), and in the upsert of a model that reaches its user
\* through a relation.
ASSUME OnlyRelationUpsertsEscape ==
    \A model \in Model, op \in AllOps :
        LET escapes == \E where \in Wheres({"subject"}) :
                ~(Reached(model, op, where, "ann", RowOwner) \subseteq OwnRows)
        IN  escapes <=> \/ Tenancy[model] = <<>>
                        \/ op \in CreateOps
                        \/ op = "upsert" /\ ~Direct(model)

\* Narrowing only narrows, unless the caller's condition stands on the very
\* key the filter uses, and is then lost: the operation reaches every row of
\* the user's that meets the others.
ASSUME OwnKeyIsLost ==
    \A model \in {m \in Model : Tenancy[m] # <<>>}, op \in FilteredOps :
        LET key == Head(Tenancy[model]) IN
        \A where \in Wheres({key, "subject"}) :
            Reached(model, op, where, "ann", RowOwner)
                = OwnRows \cap Selected([k \in DOMAIN where \ {key} |-> where[k]],
                                        DOMAIN RowOwner)

(* Viewers, and the claims a verified token may carry.                     *)
Sessions == {"none", "ann", "bob"}
Visits == {"none", "v1", "v2"}
Claims == [sub : {"none", "ann", DEMO_USER_ID},
           ses : {"absent", "user", "demo", "admin"},
           sid : {"none", "malformed", "v1"}]

\* The API runs a request for the viewer the web application saw, and refuses
\* it only when a demo visit meets an API whose demo is off.
ASSUME TheViewerArrives ==
    \A s \in Sessions, v \in Visits, webDemo, apiDemo \in BOOLEAN :
        LET viewer == getViewer(s, v, webDemo) IN
        viewer # Refused =>
            sessionOf(mintInternalToken(viewer), apiDemo) =
                IF viewer.visit # "none" /\ ~apiDemo THEN Refused
                ELSE [id |-> viewer.userId, demo |-> viewer.visit # "none",
                      visit |-> viewer.visit]

\* No combination of claims turns one kind of session into the other.
ASSUME KindsDoNotMix ==
    \A payload \in Claims, demoMode \in BOOLEAN :
        LET user == sessionOf(payload, demoMode) IN
        user # Refused => (user.demo <=> isDemoUserId(user.id)) /\ (user.demo => demoMode)

ASSUME VisitsNameThemselves ==
    \A payload \in Claims, demoMode \in BOOLEAN :
        LET user == sessionOf(payload, demoMode) IN
        user # Refused /\ user.demo => user.visit \in Visits \ {"none"}

(* The routes, as a demo visit meets them.                                 *)
DemoUser == [id |-> DEMO_USER_ID, demo |-> TRUE, visit |-> "v1"]
RealUser == [id |-> "ann", demo |-> FALSE, visit |-> "none"]

\* With any one layer forgotten, nothing done as the demo user gets a client
\* for a mailbox.
ASSUME OneLayerMayBeMissing ==
    \A route \in DOMAIN Routes, layer \in Layers :
        Routes[route].provider = "mail" =>
            ~ReachesProvider(route, DemoUser, Layers \ {layer})

\* The consent screen and the revoking of a grant stand behind the routes'
\* own refusal alone.
ASSUME ConsentHasOneLayer ==
    {route \in DOMAIN Routes : ReachesProvider(route, DemoUser, Layers \ {"route"})}
        = {"connect", "disconnect"}

ASSUME DemoReachesNoProvider ==
    \A route \in DOMAIN Routes : ~ReachesProvider(route, DemoUser, Layers)

\* A real user is refused nothing but the demo's own restore.
ASSUME RealUsersAreServed ==
    {route \in DOMAIN Routes : Api(route, RealUser, Layers).status # 200}
        = {"demoSession"}

\* What a page can fetch changes nothing, and what it can post exists.
ASSUME ProxyFitsTheApi ==
    /\ \A r \in ALLOWED_GET_PATHS : Routes[r].method = "GET" /\ ~Routes[r].writes
    /\ \A r \in ALLOWED_POST_PATHS : Routes[r].method = "POST"

\* Rule 1 of the routes: none asks a model and puts mail on the wire.
ASSUME NoRouteGeneratesAndSends ==
    \A r \in DOMAIN Routes : ~(Routes[r].calls /\ Routes[r].provider = "mail")

\* What a demo visit changes without marking the demo is what the next one
\* finds in its caches: drafts and translations.
ASSUME UnmarkedChangesAreCaches ==
    {r \in DOMAIN Routes \ {"demoSession"} :
        /\ Api(r, DemoUser, Layers).status = 200
        /\ Routes[r].writes /\ ~Routes[r].marks} = {"replies", "translate"}

\* An error of the API, a 502 of its own included, is never shown as a server
\* that is starting up, and keeps its status.
ASSUME ErrorsAreNotAwakening ==
    \A e \in DOMAIN StatusOf \cup {"Zod", "TypeError"} :
        /\ apiFetch(errorHandler(e)).error # "API_STARTING"
        /\ apiFetch(errorHandler(e)).status = errorHandler(e).status
        /\ apiFetch([errorHandler(e) EXCEPT !.json = FALSE]).error # "none"

\* A write that passed the proxy came from our own page, to a listed path.
Requests == [origin : {"absent", "own", "configured", "other"}, own : {"own"},
             configured : {"configured", "unset"}, bytes : {0, MAX_BODY_BYTES, MAX_BODY_BYTES + 1},
             parses : BOOLEAN]
ASSUME WritesComeFromOurPage ==
    \A route \in DOMAIN Routes, req \in Requests,
       viewer \in {Refused, [userId |-> "ann", visit |-> "none"]} :
        LET answer == Proxy("POST", route, viewer, req,
                            [status |-> 200, json |-> TRUE, code |-> "none"])
        IN  answer.status = 200 <=>
                /\ viewer # Refused /\ route \in ALLOWED_POST_PATHS
                /\ req.origin \in {req.own, req.configured}
                /\ req.bytes <= MAX_BODY_BYTES
                /\ req.bytes > 0 => req.parses

(* An hour of the demo: one visit asks n times, then the other.            *)
TwoVisits(n) == [i \in 1 .. 40 |-> IF i <= n THEN "v1" ELSE "v2"]
Served(n, v) ==
    Cardinality({i \in 1 .. 40 : TwoVisits(n)[i] = v /\ Granted({"v1", "v2"}, TwoVisits(n))[i]})

\* The rations hold, and the requests that were refused count as well: thirty
\* requests of one visit, six of them served, leave nothing for the others.
ASSUME RationsHold ==
    \A n \in 0 .. 40 : Served(n, "v1") <= PER_SESSION_PER_HOUR
                       /\ Served(n, "v1") + Served(n, "v2") <= ALL_SESSIONS_PER_HOUR
ASSUME RefusalsCount ==
    \A n \in 0 .. 40 : Served(n, "v2") = 0 <=> n >= ALL_SESSIONS_PER_HOUR

\* Text that changed since it was translated is paid for again.
ASSUME StaleTranslationIsRationed ==
    /\ NeedsAllowance("translate", FALSE, "h1", "h2")
    /\ ~NeedsAllowance("translate", FALSE, "h1", "h1")
    /\ \A h \in {"none", "h1"} : ~NeedsAllowance("replies", TRUE, h, "h1")

(* The webhook's tokens and configurations.                                *)
Tokens == [text : {"secret", "jwt"}, signed : BOOLEAN, issuer : {"google", "other"},
           audience : {"ours", "theirs"}, email : {"push", "none"}, verified : BOOLEAN]
Configs == [mode : {"production", "development"}, devToken : {"none", "secret"},
            audience : {"ours"}, account : {"none", "push"}]

\* In production every push was signed by Google for our audience, and names
\* our service account where one is configured.
ASSUME ProductionPushesAreSigned ==
    \A t \in Tokens, c \in Configs :
        c.mode = "production" /\ verifyPushRequest(t, c) =>
            /\ t.signed /\ t.audience = "ours"
            /\ c.account # "none" => t.email = c.account /\ t.verified

(* The configurations of a process.                                        *)
Envs == [mode : {"production", "development", "test"},
         publicUrl : {"local", "plain", "secure"}, webUrl : {"local", "plain", "secure"},
         provider : {"unset", "anthropic", "gemini", "stub"},
         baseUrl : {"none", "local", "remote"}, geminiKey : BOOLEAN,
         anthropicKey : BOOLEAN]

\* What starts in production never answers with canned text: the check at the
\* start and the one at the call leave no configuration between them.
ASSUME NoCannedAnswersInProduction ==
    \A e \in Envs : e.mode = "production" /\ assertProductionConfig(e)
                        => resolveAiEndpoint(e) # "stub"

\* Two processes that both start in production agree on the scheme of the
\* origin a page writes from: the proxy's comparison is never http with https.
ASSUME OriginsShareAScheme ==
    LET kinds == {"local", "plain", "secure"}
    IN  \A e \in [mode : {"production"}, publicUrl : kinds, webUrl : kinds,
                  provider : {""}, baseUrl : {"none"}],
           w \in [mode : {"production"}, authUrl : kinds, apiUrl : kinds,
                  building : {FALSE}] :
            assertProductionConfig(e) /\ assertProductionUrls(w)
                => w.authUrl = e.webUrl /\ w.apiUrl = e.publicUrl

\* A key left behind does not redirect the calls to another provider.
ASSUME KeysDoNotRedirect ==
    \A e \in Envs : e.provider # "gemini" =>
        resolveAiEndpoint(e) = resolveAiEndpoint([e EXCEPT !.geminiKey = ~@])
=============================================================================

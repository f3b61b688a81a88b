------------------------------ MODULE Transports ------------------------------
(***************************************************************************)
(* One request put to the App over each management transport: REST         *)
(* (internal/control/rest: serveHTTP, request.go, handlers.go), an MCP     *)
(* tool and an MCP resource (internal/control/mcp: serveHTTP, tools.go,    *)
(* resources.go), which all promise to be mere adapters of app.Service.    *)
(* A request q says what is asked and how it arrives; an outcome says      *)
(* which App call it became, with what arguments, which limiters it paid   *)
(* and whether its credentials were looked at.                             *)
(* The in-flight gates and limiters answer as q has it: ManagementServer   *)
(* and Limiter model how they come to that. An App call is the method and  *)
(* the arguments that tell two calls apart; its result is left out but for *)
(* the error. The /mcp mount lies behind the REST server's own checks.     *)
(* Of what a body spells in more than one way it has one of each: the      *)
(* duration and the byte size of its operations or filter, and a duration  *)
(* of an inline state; q.wire says how each transport's body spells them.  *)
(***************************************************************************)
EXTENDS Catalogue

CONSTANTS
  Allowed,   \* spec.management.allowedOrigins
  NoFilter,  \* a put whose filter is null
  Requests   \* the requests asked, see MCTransports

(* strconv.Atoi and the JSON of a tool's arguments give no other.     *)
ASSUME LimitsAreIntegers == \A q \in Requests : q.limit \in Int

----------------------------------------------------------------------------
(* Outcomes.                                                               *)

NoCall == "none"
Refused(code)  == [call |-> NoCall, args |-> <<>>, code |-> code]
Direct(what)   == [call |-> NoCall, args |-> <<what>>, code |-> "ok"]
asDomain(e)    == IF e = "plain" THEN "internal_error" ELSE e
Call(q, m, a)  == [call |-> m, args |-> a, code |-> asDomain(q.fails)]

(* Where the outcome came about: limiters paid, credentials looked at.     *)
At(outcome, paid, verified) ==
  [call |-> outcome.call, args |-> outcome.args, code |-> outcome.code,
   paid |-> paid, verified |-> verified]

----------------------------------------------------------------------------
(* A duration or a byte size in a JSON body: not there, null, a string or  *)
(* an integer of nanoseconds or bytes, or what nothing takes. The first    *)
(* two decode to zero. A document's are offset, bodyLimit and stated, the  *)
(* last for the inline state's.                                            *)

Wire(form, value) == [form |-> form, value |-> value]
Omitted   == Wire("omitted", 0)
Null      == Wire("null", 0)
Text(n)   == Wire("text", n)
Number(n) == Wire("number", n)
Junk      == Wire("junk", 0)

(* Mutant: the string is parsed and its value not put back.                *)
MutCoerceDuration(w) == IF w.form \in {"omitted", "null", "text"} THEN w ELSE Junk

(* config/duration.go: a string becomes nanoseconds, a bare number is      *)
(* refused.                                                                *)
CoerceDuration(w) ==
  CASE w.form \in {"omitted", "null"} -> w
    [] w.form = "text"                -> Number(w.value)
    [] OTHER                          -> Junk

(* config/bytesize.go: a number is as good as a string, if not negative.   *)
CoerceByteSize(w) ==
  CASE w.form \in {"omitted", "null"}                  -> w
    [] w.form \in {"text", "number"} /\ w.value >= 0 -> Number(w.value)
    [] OTHER                                           -> Junk

(* The whole body, the raw inline state with it.                           *)
CoerceWireTree(doc) ==
  [offset |-> CoerceDuration(doc.offset), bodyLimit |-> CoerceByteSize(doc.bodyLimit),
   stated |-> CoerceDuration(doc.stated)]

Typed(doc)  == \A f \in DOMAIN doc : doc[f].form \in {"omitted", "null", "number"}
Values(doc) == <<doc.offset.value, doc.bodyLimit.value>>

----------------------------------------------------------------------------
(* app/filters.go and app/preview.go, the part before the snapshot: both   *)
(* transports reach Apply through these.                                   *)

Change(in, ops, values) == <<in.rev, in.key, in.reason, in.force, ops, values>>
Apply(q, in, ops, values) == Call(q, "Apply", Change(in, ops, values))
Unforced(in) == [in EXCEPT !.force = FALSE]

AppPutFilter(q, in, filter, values) ==
  IF filter = "" THEN Refused("validation_failed")
  ELSE Apply(q, Unforced(in), <<"upsertFilter", filter>>, values)

AppDeleteFilter(q, in, name) ==
  IF name = "" THEN Refused("validation_failed")
  ELSE Apply(q, Unforced(in), <<"removeFilter", name>>, <<>>)

AppGetFilter(q, name) ==
  IF name = "" THEN Refused("validation_failed") ELSE Call(q, "GetFilter", <<name>>)

(* A blank before the address is all that is told of its spelling.         *)
Address(ip) == ip = "10.0.0.1"
Spaced(ip)  == ip = " 10.0.0.1"
AppPreview(q, ip) ==
  IF Address(ip) THEN Call(q, "Preview", <<ip>>) ELSE Refused("validation_failed")

(* ListQueries and audit.Ring.List: no limit, or one out of range, is the  *)
(* default.                                                                *)
AppListQueries(q, limit, cursor) ==
  Call(q, "ListQueries", <<IF limit \in 1 .. 256 THEN limit ELSE 64, cursor>>)
AppQueryAudit(q, limit) ==
  Call(q, "QueryAudit", <<IF limit \in 1 .. 100 THEN limit ELSE 100>>)

(* decodeCandidateState, the same in both: absent and null are no state,   *)
(* any other goes through config.DecodeJSON, as a file would: its strings  *)
(* become numbers there, and a bare number is refused.                     *)
AppValidate(q, doc) ==
  LET stated == CoerceDuration(doc.stated)
  IN IF q.state = "malformed" \/ stated = Junk THEN Refused("validation_failed")
     ELSE Call(q, "Validate", <<q.state, stated.value, q.ops, Values(doc)>>)

Formats == {"", "yaml", "yml", "json"}
AppExport(q) ==
  IF q.format \in Formats
  THEN Call(q, "Export", <<IF q.format = "json" THEN "json" ELSE "yaml">>)
  ELSE Refused("validation_failed")

----------------------------------------------------------------------------
(* rest/request.go.                                                        *)

(* decodeBytes: one JSON value, its durations and byte sizes coerced       *)
(* wherever they are, then wire types and no unknown field. The size is    *)
(* asked first, by the reader.                                             *)
Received(q)           == CoerceWireTree(q.wire.rest)
decodeJSON(q)         == q.ctype = "json" /\ q.body = "object" /\ Typed(Received(q))
decodeJSONOptional(q) == q.body = "empty" \/ decodeJSON(q)

(* What the body does not give, a header may: If-Match other than *, then  *)
(* X-LabNTP-Expected-Revision; Idempotency-Key.                            *)
expectedRevision(q, body) ==
  IF body # "" THEN body
  ELSE IF q.ifMatch \notin {"", "*"} THEN q.ifMatch ELSE q.revHeader
idempotencyKey(q, body) == IF body # "" THEN body ELSE q.keyHeader

InBody(q, v) == IF q.body = "object" THEN v ELSE ""
readChange(q) ==
  [rev |-> expectedRevision(q, InBody(q, q.rev)),
   key |-> idempotencyKey(q, InBody(q, q.key)),
   reason |-> InBody(q, q.reason), force |-> q.force]

----------------------------------------------------------------------------
(* rest/handlers.go: dispatch and the handlers.                            *)

handleFiltersPut(q, name) ==
  LET filter == IF q.filter \in {NoFilter, ""} THEN name ELSE q.filter
  IN IF name # "" /\ filter # name THEN Refused("validation_failed")
     ELSE AppPutFilter(q, readChange(q), filter, Values(Received(q)))

Decoded(ok, outcome) == IF ok THEN outcome ELSE Refused("validation_failed")

dispatch(q, id, param) ==
  CASE id \in {"health.live", "health.ready"} ->
         IF q.healthy THEN Direct(id) ELSE Refused("unavailable")
    [] id \in {"version.get", "capabilities.get", "schema.get"} -> Direct(id)
    [] id = "status.get"     -> Call(q, "Status", <<>>)
    [] id = "features.list"  -> Call(q, "Features", <<>>)
    [] id = "state.get"      -> Call(q, "GetState", <<>>)
    [] id = "state.validate" -> Decoded(decodeJSON(q), AppValidate(q, Received(q)))
    [] id = "changes.plan"   ->
         Decoded(decodeJSON(q),
                 Call(q, "Plan", Change(readChange(q), q.ops, Values(Received(q)))))
    [] id = "changes.apply"  ->
         Decoded(decodeJSON(q), Apply(q, readChange(q), q.ops, Values(Received(q))))
    [] id = "state.export"   -> AppExport(q)
    [] id = "state.reset"    ->
         Decoded(decodeJSONOptional(q), Call(q, "Reset", <<InBody(q, q.reason)>>))
    [] id \in {"session.create", "session.get", "session.delete"} -> Direct(id)
    [] id = "filters.list"   -> Call(q, "ListFilters", <<>>)
    [] id = "filters.get"    -> AppGetFilter(q, param)
    [] id = "filters.put"    -> Decoded(decodeJSON(q), handleFiltersPut(q, param))
    [] id = "filters.delete" ->
         Decoded(decodeJSONOptional(q), AppDeleteFilter(q, readChange(q), param))
    [] id = "views.preview"  -> AppPreview(q, IF Spaced(q.ip) THEN "10.0.0.1" ELSE q.ip)
    [] id = "queries.list"   -> Decoded(q.limit >= 0, AppListQueries(q, q.limit, q.cursor))
    [] id = "audit.list"     -> Decoded(q.limit >= 0, AppQueryAudit(q, q.limit))
    [] id = "audit.get"      -> Call(q, "GetAudit", <<param>>)
    [] id = "metrics.get"    -> IF q.public THEN Direct(id) ELSE Refused("not_found")
    [] OTHER                 -> Refused("not_found")

----------------------------------------------------------------------------
(* Who asks. A bearer is a token's, of nobody, or of another scheme; a     *)
(* cookie is REST's, with or without its CSRF secret, and of the token it  *)
(* was made from. Without either only a loopback client is let in, and     *)
(* only in that mode. A token has a role and may have scopes of its own.   *)

Authenticated(q, viaREST) ==
  \/ q.by = "token"
  \/ q.by \in {"cookie", "forged"} /\ viaREST
  \/ q.by \in {"cookie", "forged", "nobody"} /\ q.loopback

Scopes(q, viaREST) ==
  IF q.by = "token" \/ (q.by \in {"cookie", "forged"} /\ viaREST)
  THEN expandScopes(q.role, q.scopes).scopes ELSE allScopes

(* authorize in rest/auth.go; forged is a cookie with the wrong secret.    *)
authorizeREST(q, row) ==
  /\ AuthorizeScopes(Scopes(q, TRUE), row.scopes)
  /\ UnsafeMethod(row.method) => q.by # "forged"

(* authorizeTool: a name the catalogue does not know needs no scope.       *)
authorizeTool(q, name) ==
  \A i \in First(LookupTool(name)) : AuthorizeScopes(Scopes(q, FALSE), catalog[i].scopes)

authorizeResource(q, uri) ==
  \E i \in LookupResource(uri) : AuthorizeScopes(Scopes(q, FALSE), catalog[i].scopes)

----------------------------------------------------------------------------
(* serveHTTP of the REST server: the checks every request passes, then a   *)
(* mount, a route, the operator UI or nothing.                             *)

reservedManagementPath(path) == Head(path) \in {"v1", "mcp", "healthz", "config", ".well-known"}

(* Mutant: credentials first, the limiter after.                           *)
MutServeRoute(q, row, param) ==
  IF ~isHealthCap(row) /\ ~Authenticated(q, TRUE) THEN At(Refused("unauthenticated"), {}, TRUE)
  ELSE IF "rest" \in q.limited THEN At(Refused("rate_limited"), {"rest"}, TRUE)
  ELSE At(dispatch(q, row.id, param), {"rest"}, TRUE)

serveRoute(q, row, param) ==
  LET paid  == IF isHealthCap(row) THEN {} ELSE {"rest"}
      known == isHealthCap(row) \/ Authenticated(q, TRUE)
  IN IF "rest" \in q.limited /\ paid # {} THEN At(Refused("rate_limited"), paid, FALSE)
     ELSE IF ~known THEN At(Refused("unauthenticated"), paid, ~isHealthCap(row))
     ELSE IF ~authorizeREST(q, row) THEN At(Refused("forbidden"), paid, ~isHealthCap(row))
     ELSE At(IF q.late THEN Refused("internal_error") ELSE dispatch(q, row.id, param),
             paid, ~isHealthCap(row))

tryUI(q, path) == q.ui /\ ~reservedManagementPath(path)

serveREST(q, method, path) ==
  LET hit == IF Head(path) = "v1" THEN matchRoute(method, Tail(path))
             ELSE [pathOK |-> FALSE] IN
  IF ~CheckOrigin(q.origin, Allowed) THEN At(Refused("forbidden"), {}, FALSE)
  ELSE IF method = "OPTIONS"   THEN At(Refused("forbidden"), {}, FALSE)
  ELSE IF "rest" \in q.full    THEN At(Refused("rate_limited"), {}, FALSE)
  ELSE IF hit.pathOK /\ hit.methodOK
       THEN serveRoute(q, CHOOSE row \in hit.caps : TRUE, hit.param)
  ELSE IF hit.pathOK           THEN At(Refused("method_not_allowed"), {}, FALSE)
  ELSE IF ~tryUI(q, path)      THEN At(Refused("not_found"), {}, FALSE)
  ELSE IF "rest" \in q.limited THEN At(Refused("rate_limited"), {"rest"}, FALSE)
  ELSE At(Direct("ui"), {"rest"}, FALSE)

----------------------------------------------------------------------------
(* serveHTTP of the MCP adapter, reached through the REST server's mount.  *)

serveMCP(q, method, handled) ==
  IF ~CheckOrigin(q.origin, Allowed) THEN At(Refused("forbidden"), {}, FALSE)
  ELSE IF method = "OPTIONS"         THEN At(Refused("forbidden"), {}, FALSE)
  ELSE IF "rest" \in q.full          THEN At(Refused("rate_limited"), {}, FALSE)
  ELSE IF "rest" \in q.limited       THEN At(Refused("rate_limited"), {"rest"}, FALSE)
  ELSE IF q.closed                   THEN At(Refused("internal_error"), {"rest"}, FALSE)
  ELSE IF method # "POST"            THEN At(Refused("method_not_allowed"), {"rest"}, FALSE)
  ELSE IF "mcp" \in q.full           THEN At(Refused("rate_limited"), {"rest"}, FALSE)
  ELSE IF "mcp" \in q.limited        THEN At(Refused("rate_limited"), {"rest", "mcp"}, FALSE)
  ELSE IF q.version # "pinned"       THEN At(Refused("validation_failed"), {"rest", "mcp"}, FALSE)
  ELSE IF ~Authenticated(q, FALSE)   THEN At(Refused("unauthenticated"), {"rest", "mcp"}, TRUE)
  ELSE At(handled, {"rest", "mcp"}, TRUE)

(* toChange: arguments only, no headers.                                   *)
toChange(q) == [rev |-> q.rev, key |-> q.key, reason |-> q.reason, force |-> q.force]

Named(name, outcome) == IF name = "" THEN Refused("validation_failed") ELSE outcome

(* The SDK's check of the arguments, before the tool's own: what the       *)
(* schema inferred from the Go type requires is there, and a duration is   *)
(* an integer like any other. The raw state it takes as it is.             *)
inferToolInput(q) ==
  /\ q.complete
  /\ \A f \in {"offset", "bodyLimit"} : q.wire.tool[f].form \in {"omitted", "number"}

(* registerTools.                                                          *)
RunTool(q, tool) ==
  LET in == toChange(q)
      values == Values(q.wire.tool) IN
  CASE tool = "ntp_version_get"      -> Direct("version.get")
    [] tool = "ntp_capabilities_get" -> Direct("capabilities.get")
    [] tool = "ntp_schema_get"       -> Direct("schema.get")
    [] tool = "ntp_status_get"       -> Call(q, "Status", <<>>)
    [] tool = "ntp_features_list"    -> Call(q, "Features", <<>>)
    [] tool = "ntp_state_get"        -> Call(q, "GetState", <<>>)
    [] tool = "ntp_state_validate"   -> AppValidate(q, q.wire.tool)
    [] tool = "ntp_change_plan"      -> Call(q, "Plan", Change(in, q.ops, values))
    [] tool = "ntp_change_apply"     -> Apply(q, in, q.ops, values)
    [] tool = "ntp_state_export"     -> AppExport(q)
    [] tool = "ntp_state_reset"      -> Call(q, "Reset", <<q.reason>>)
    [] tool = "ntp_filters_list"     -> Call(q, "ListFilters", <<>>)
    [] tool = "ntp_filters_get"      -> Named(q.name, AppGetFilter(q, q.name))
    [] tool = "ntp_filters_put"      ->
         LET filter == IF q.filter \in {NoFilter, ""} THEN q.name ELSE q.filter
         IN Named(q.name, AppPutFilter(q, in, filter, values))
    [] tool = "ntp_filters_delete"   -> Named(q.name, AppDeleteFilter(q, in, q.name))
    [] tool = "ntp_views_preview"    -> AppPreview(q, q.ip)
    [] tool = "ntp_queries_list"     -> AppListQueries(q, q.limit, q.cursor)
    [] tool = "ntp_audit_list"       -> AppQueryAudit(q, q.limit)
    [] tool = "ntp_audit_get"        -> Named(q.name, Call(q, "GetAudit", <<q.name>>))

addTool(q, tool) ==
  IF ~inferToolInput(q) THEN Refused("schema")
  ELSE IF q.late THEN Refused("timeout")
  ELSE IF authorizeTool(q, tool) THEN RunTool(q, tool) ELSE Refused("forbidden")

resourceBody(q, uri) ==
  CASE uri = "labntp://capabilities"  -> Direct("capabilities.get")
    [] uri = "labntp://schema/config" -> Direct("schema.get")
    [] uri = "labntp://status"        -> Call(q, "Status", <<>>)
    [] uri = "labntp://features"      -> Call(q, "Features", <<>>)
    [] uri = "labntp://state"         -> Call(q, "GetState", <<>>)
    [] uri = "labntp://filters"       -> Call(q, "ListFilters", <<>>)
    [] uri = "labntp://audit/recent"  -> AppQueryAudit(q, 0)

readResource(q, uri) ==
  IF q.late THEN Refused("internal_error")
  ELSE IF authorizeResource(q, uri) THEN resourceBody(q, uri) ELSE Refused("forbidden")

----------------------------------------------------------------------------
(* One request, asked of each transport that can carry it, in any order.   *)

VARIABLES request, answer
vars == <<request, answer>>

Unasked == [call |-> "unasked", args |-> <<>>, code |-> "", paid |-> {}, verified |-> FALSE]
Ways == {"rest", "tool", "resource"}

Init == request \in Requests /\ answer = [way \in Ways |-> Unasked]

Answers(way, outcome) ==
  /\ answer[way] = Unasked
  /\ answer' = [answer EXCEPT ![way] = outcome]
  /\ UNCHANGED request

(* A path no row has: one the operator UI may serve, or one it may not.    *)
Elsewhere(cap) == IF cap = "ui" THEN <<"login">> ELSE <<"v1", "nowhere">>
RowOf(q)  == CHOOSE row \in All : row.id = q.cap
HasRow(q) == \E row \in All : row.id = q.cap

Path(q) ==
  IF HasRow(q)
  THEN <<"v1">> \o [i \in DOMAIN RowOf(q).path |->
                      IF RowOf(q).path[i] = "{}" THEN q.name ELSE RowOf(q).path[i]]
  ELSE Elsewhere(q.cap)

Verb(q, own) == IF q.verb = "" THEN own ELSE q.verb

AskREST ==
  Answers("rest",
    serveREST(request, Verb(request, IF HasRow(request) THEN RowOf(request).method ELSE "GET"),
              Path(request)))

AskTool ==
  /\ HasRow(request)
  /\ \E tool \in RowOf(request).tools :
       Answers("tool", serveMCP(request, Verb(request, "POST"), addTool(request, tool)))

AskResource ==
  /\ HasRow(request)
  /\ \E uri \in RowOf(request).resources :
       Answers("resource", serveMCP(request, Verb(request, "POST"), readResource(request, uri)))

Next == AskREST \/ AskTool \/ AskResource
Spec == Init /\ [][Next]_vars

----------------------------------------------------------------------------

(* As both transports can carry it: nothing only one of them looks at, a   *)
(* name where the path has a place for one, and bodies that say the same,  *)
(* each in a spelling of its own.                                          *)
Carried(q) ==
  /\ q.ctype = "json" /\ q.body = "object" /\ q.verb = "" /\ q.version = "pinned"
  /\ q.ifMatch = "" /\ q.revHeader = "" /\ q.keyHeader = ""
  /\ q.full = {} /\ q.limited = {} /\ ~q.closed /\ ~q.late
  /\ q.by \in {"token", "stranger", "nobody"} /\ q.name # ""
  /\ \A f \in {"offset", "bodyLimit", "stated"} : q.wire.rest[f].value = q.wire.tool[f].value

(* As each of them wants it spelled: REST durations as strings (docs/06),  *)
(* and no duration in a state; the tools integers, but in a state.         *)
AsREST(doc) ==
  /\ doc.offset.form \in {"omitted", "null", "text"}
  /\ doc.bodyLimit.form \in {"omitted", "null", "text", "number"} /\ doc.bodyLimit.value >= 0
  /\ doc.stated.form \in {"omitted", "null"}
AsTool(doc) ==
  /\ doc.offset.form \in {"omitted", "number"}
  /\ doc.bodyLimit.form \in {"omitted", "number"}
  /\ doc.stated.form \in {"omitted", "null", "text"}

(* Where they are known to part: in the spelling; the tools' schemas want  *)
(* more of a filter; REST compares the filter's name with the path's       *)
(* (handlers.go), refuses a negative limit, and trims the address.         *)
Parted(q) ==
  \/ ~AsREST(q.wire.rest) \/ ~AsTool(q.wire.tool)
  \/ ~q.complete
  \/ q.cap = "filters.put" /\ q.filter \notin {NoFilter, "", q.name}
  \/ q.cap \in {"queries.list", "audit.list"} /\ q.limit < 0
  \/ q.cap = "views.preview" /\ Spaced(q.ip)

Same(a, b) == a.call = b.call /\ a.args = b.args /\ a.code = b.code

(* An adapter adds nothing: the same request, put over REST, as a tool and *)
(* as a resource (which takes no arguments), becomes the same App call     *)
(* with the same arguments, or the same refusal. Where the transports are  *)
(* known to part one of them refuses: what both take they read alike, the  *)
(* string of one and the nanoseconds of the other included.                *)
TransportsAgree ==
  Carried(request) =>
    /\ answer["rest"] # Unasked /\ answer["tool"] # Unasked =>
         \/ Same(answer["rest"], answer["tool"])
         \/ Parted(request) /\ NoCall \in {answer["rest"].call, answer["tool"].call}
    /\ answer["rest"] # Unasked /\ answer["resource"] # Unasked /\ request.limit = 0
         => Same(answer["rest"], answer["resource"])

(* (Refuted) A state that spells its durations as REST requires can be     *)
(* validated over REST as it can by the tool: decodeBytes makes numbers of *)
(* the strings in the raw state too, and config.DecodeJSON refuses those.  *)
StatesCanBeValidated ==
  /\ Carried(request) /\ request.state = "valid" /\ request.wire.rest.stated.form = "text"
  /\ answer["tool"].call = "Validate" /\ answer["rest"] # Unasked
  => answer["rest"].call = "Validate"

(* Who may cause which App call, said without the catalogue. Writers may   *)
(* apply, but only one operation on a filter and never by force.           *)
MayCall(scopes, call, args) ==
  LET has(s) == s \in scopes \/ "ntp.admin" \in scopes IN
  CASE call \in {"Plan", "Validate", "Export", "Reset"} -> "ntp.admin" \in scopes
    [] call = "Apply" ->
         \/ "ntp.admin" \in scopes
         \/ /\ "ntp.write" \in scopes /\ ~args[4]
            /\ args[5][1] \in {"upsertFilter", "removeFilter"}
    [] call \in {"QueryAudit", "GetAudit"} -> has("ntp.audit.read")
    [] OTHER -> has("ntp.read")

(* What a token may: the scopes it was given, or those of its role.        *)
Granted(q) ==
  IF q.scopes # {} THEN q.scopes
  ELSE IF q.role = "" THEN allScopes ELSE DefaultScopes(q.role)

(* Whatever the way in, a request that reaches the App is of a principal   *)
(* who may cause that call, from an allowed origin; a cookie does so only  *)
(* over REST, and without its CSRF secret only to read. In loopback mode   *)
(* what comes without credentials may do anything, and only that: a cookie *)
(* counts for none elsewhere than over REST.                               *)
CallsAreAuthorized ==
  \A way \in Ways :
    LET a == answer[way] IN
    a.call \notin {NoCall, "unasked"} =>
      /\ request.origin \in {"absent", "loopback"} \cup Allowed
      /\ \/ request.by = "token" /\ MayCall(Granted(request), a.call, a.args)
         \/ /\ request.by \in {"cookie", "forged"} /\ way = "rest"
            /\ MayCall(Granted(request), a.call, a.args)
            /\ request.by = "forged" => a.call \notin {"Apply", "Reset", "Plan", "Validate"}
         \/ /\ request.loopback
            /\ \/ request.by = "nobody"
               \/ request.by \in {"cookie", "forged"} /\ way # "rest"

(* Nobody gets to try credentials faster than the limiters allow: before   *)
(* they are looked at every limiter on the way was paid and none refused,  *)
(* and every gate on the way had room.                                     *)
CredentialsCostATurn ==
  \A way \in Ways :
    LET gates == IF way = "rest" THEN {"rest"} ELSE {"rest", "mcp"} IN
    answer[way].verified =>
      gates \subseteq answer[way].paid \ (request.limited \cup request.full)
=============================================================================

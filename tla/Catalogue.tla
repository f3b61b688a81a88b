------------------------------ MODULE Catalogue ------------------------------
(***************************************************************************)
(* What both management transports share and neither changes: the frozen   *)
(* capability table (internal/capabilities), the route table REST compiles *)
(* from it (internal/control/rest/mux.go), roles and scopes, and the       *)
(* Origin rule (internal/auth).                                            *)
(* A path is the sequence of its segments; {} stands for a wildcard, the   *)
(* only kind of template the table uses: a whole segment.                  *)
(***************************************************************************)
EXTENDS Naturals, Sequences, FiniteSets, SequencesExt

(* Titles, descriptions, versions and schema references are left out.      *)
Row(id, method, path, scopes, tool, resource, flags) ==
  [id |-> id, method |-> method, path |-> path, scopes |-> scopes,
   tools |-> tool, resources |-> resource, flags |-> flags]

Read  == {"ntp.read"}
Write == {"ntp.write"}
Admin == {"ntp.admin"}
Audit == {"ntp.audit.read"}
Pure  == {"idempotent"}
Twice == {"mutating", "idempotent"}
Once  == {"mutating"}
REST  == {"restOnly"}

catalog == <<
  Row("health.live",  "GET", <<"health", "live">>,  {}, {}, {}, Pure \cup REST),
  Row("health.ready", "GET", <<"health", "ready">>, {}, {}, {}, Pure \cup REST),
  Row("version.get", "GET", <<"version">>, Read, {"ntp_version_get"}, {}, Pure),
  Row("capabilities.get", "GET", <<"capabilities">>, Read,
      {"ntp_capabilities_get"}, {"labntp://capabilities"}, Pure),
  Row("status.get", "GET", <<"status">>, Read,
      {"ntp_status_get"}, {"labntp://status"}, Pure),
  Row("schema.get", "GET", <<"schema", "config">>, Read,
      {"ntp_schema_get"}, {"labntp://schema/config"}, Pure),
  Row("features.list", "GET", <<"features">>, Read,
      {"ntp_features_list"}, {"labntp://features"}, Pure),
  Row("state.get", "GET", <<"state">>, Read,
      {"ntp_state_get"}, {"labntp://state"}, Pure),
  Row("state.validate", "POST", <<"state:validate">>, Admin,
      {"ntp_state_validate"}, {}, Pure),
  Row("state.export", "GET", <<"state:export">>, Admin,
      {"ntp_state_export"}, {}, Pure),
  Row("state.reset", "POST", <<"state:reset">>, Admin,
      {"ntp_state_reset"}, {}, Once),
  Row("changes.plan", "POST", <<"changes:plan">>, Admin,
      {"ntp_change_plan"}, {}, Pure),
  Row("changes.apply", "POST", <<"changes:apply">>, Admin,
      {"ntp_change_apply"}, {}, Twice),
  Row("session.create", "POST", <<"session">>, {}, {}, {}, Once \cup REST),
  Row("session.get", "GET", <<"session">>, {}, {}, {}, Pure \cup REST),
  Row("session.delete", "DELETE", <<"session">>, {}, {}, {}, Twice \cup REST),
  Row("filters.list", "GET", <<"filters">>, Read,
      {"ntp_filters_list"}, {"labntp://filters"}, Pure),
  Row("filters.get", "GET", <<"filters", "{}">>, Read,
      {"ntp_filters_get"}, {}, Pure),
  Row("filters.put", "PUT", <<"filters", "{}">>, Write,
      {"ntp_filters_put"}, {}, Twice),
  Row("filters.delete", "DELETE", <<"filters", "{}">>, Write,
      {"ntp_filters_delete"}, {}, Twice),
  Row("views.preview", "GET", <<"views", "preview">>, Read,
      {"ntp_views_preview"}, {}, Pure),
  Row("queries.list", "GET", <<"queries">>, Read,
      {"ntp_queries_list"}, {}, Pure),
  Row("audit.list", "GET", <<"audit">>, Audit,
      {"ntp_audit_list"}, {"labntp://audit/recent"}, Pure),
  Row("audit.get", "GET", <<"audit", "{}">>, Audit,
      {"ntp_audit_get"}, {}, Pure),
  Row("metrics.get", "GET", <<"metrics">>, Read, {}, {}, Pure \cup REST) >>

TableRowCount == 25
All == ToSet(catalog)

----------------------------------------------------------------------------
(* The registry's indexes and lookups, as sets of positions in the table;  *)
(* First and Final are sets of one position, or none.                      *)

First(rows) == {i \in rows : \A j \in rows : i <= j}
Final(rows) == {i \in rows : \A j \in rows : j <= i}

LookupTool(name)    == {i \in DOMAIN catalog : name \in catalog[i].tools}
LookupResource(uri) == First({i \in DOMAIN catalog : uri \in catalog[i].resources})

(* init panics without it, newIndexes on a binding or an id given twice.   *)
ValidateCatalog ==
  /\ Len(catalog) = TableRowCount
  /\ \A i, j \in DOMAIN catalog : i # j =>
       /\ catalog[i].id # catalog[j].id
       /\ \/ catalog[i].method # catalog[j].method
          \/ catalog[i].path # catalog[j].path
  /\ \A c \in All : ("restOnly" \in c.flags) <=> (c.tools = {})
  /\ \A c \in All : "restOnly" \in c.flags => c.resources = {}

ASSUME CatalogueValid == ValidateCatalog

----------------------------------------------------------------------------
(* rest/mux.go. Segments are compared one by one; a wildcard takes any but *)
(* the empty segment.                                                      *)

matchSegs(segs, path) ==
  /\ Len(path) = Len(segs)
  /\ \A i \in DOMAIN segs :
       IF segs[i] = "{}" THEN path[i] # "" ELSE path[i] = segs[i]

Wildcard(segs, path) ==
  LET wild == {i \in DOMAIN segs : segs[i] = "{}"}
  IN IF wild = {} THEN "" ELSE path[CHOOSE i \in wild : TRUE]

(* The row, the wildcard's value, whether the path exists and whether the  *)
(* method does on it: the first row with both, else the last with the path.*)
matchRoute(method, path) ==
  LET paths == {i \in DOMAIN catalog : matchSegs(catalog[i].path, path)}
      exact == {i \in paths : catalog[i].method = method}
      hit   == catalog[CHOOSE i \in First(exact) : TRUE]
  IN IF exact # {}
     THEN [caps |-> {hit}, param |-> Wildcard(hit.path, path), pathOK |-> TRUE, methodOK |-> TRUE]
     ELSE [caps |-> {catalog[i] : i \in Final(paths)}, param |-> "",
           pathOK |-> paths # {}, methodOK |-> FALSE]

isHealthCap(c) == c.id \in {"health.live", "health.ready"}

----------------------------------------------------------------------------
(* internal/auth: roles, scopes and origins.                               *)

Roles     == {"viewer", "operator", "administrator"}
allScopes == Read \cup Write \cup Admin \cup Audit

DefaultScopes(role) ==
  CASE role = "viewer"        -> Read
    [] role = "operator"      -> Read \cup Write
    [] role = "administrator" -> allScopes
    [] OTHER                  -> {}

(* A token's own scopes win over its role's; no role is administrator.     *)
expandScopes(role, scopes) ==
  LET named == IF role = "" THEN "administrator" ELSE role
  IN [role |-> named,
      scopes |-> IF scopes # {} THEN scopes ELSE DefaultScopes(named)]

HasScope(scopes, want) == "ntp.admin" \in scopes \/ want \in scopes
AuthorizeScopes(scopes, required) == \A want \in required : HasScope(scopes, want)

(* An Origin is absent, malformed (no host, or neither http nor https),    *)
(* loopback, or a name that must be on the list.                           *)
CheckOrigin(origin, allowlist) ==
  \/ origin = "absent"
  \/ origin = "loopback"
  \/ origin # "malformed" /\ origin \in allowlist

(* Mutant: DELETE and PUT need no CSRF secret.                             *)
MutUnsafeMethod(method) == method = "POST"

UnsafeMethod(method) == method \in {"POST", "PUT", "PATCH", "DELETE"}
=============================================================================

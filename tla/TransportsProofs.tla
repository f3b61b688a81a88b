--------------------------- MODULE TransportsProofs ---------------------------
(***************************************************************************)
(* What is proved about Transports.                                        *)
(***************************************************************************)
EXTENDS Transports, TLAPS, WellFoundedInduction

----------------------------------------------------------------------------
(* The table, row by row: what the rest needs of it.                       *)

IsRow(i, id, method, path, scopes, tools, resources) ==
  /\ catalog[i].id = id /\ catalog[i].method = method /\ catalog[i].path = path
  /\ catalog[i].scopes = scopes /\ catalog[i].tools = tools /\ catalog[i].resources = resources

(* The frozen table has the positions 1 to 25 and no other.                *)
LEMMA Positions ==
  /\ DOMAIN catalog = 1 .. 25
  /\ \A i \in DOMAIN catalog :
       \/ i = 1 \/ i = 2 \/ i = 3 \/ i = 4 \/ i = 5 \/ i = 6 \/ i = 7 \/ i = 8 \/ i = 9 \/ i = 10 \/ i = 11 \/ i = 12 \/ i = 13
       \/ i = 14 \/ i = 15 \/ i = 16 \/ i = 17 \/ i = 18 \/ i = 19 \/ i = 20 \/ i = 21 \/ i = 22 \/ i = 23 \/ i = 24 \/ i = 25
<1>1. DOMAIN catalog = 1 .. 25
  BY DEF catalog
<1> QED
  BY <1>1

(* What each row of the frozen table says.                                 *)
LEMMA Rows ==
  /\ IsRow(1, "health.live", "GET", <<"health", "live">>, {}, {}, {})
  /\ IsRow(2, "health.ready", "GET", <<"health", "ready">>, {}, {}, {})
  /\ IsRow(3, "version.get", "GET", <<"version">>, Read, {"ntp_version_get"}, {})
  /\ IsRow(4, "capabilities.get", "GET", <<"capabilities">>, Read,
              {"ntp_capabilities_get"}, {"labntp://capabilities"})
  /\ IsRow(5, "status.get", "GET", <<"status">>, Read,
              {"ntp_status_get"}, {"labntp://status"})
  /\ IsRow(6, "schema.get", "GET", <<"schema", "config">>, Read,
              {"ntp_schema_get"}, {"labntp://schema/config"})
  /\ IsRow(7, "features.list", "GET", <<"features">>, Read,
              {"ntp_features_list"}, {"labntp://features"})
  /\ IsRow(8, "state.get", "GET", <<"state">>, Read,
              {"ntp_state_get"}, {"labntp://state"})
  /\ IsRow(9, "state.validate", "POST", <<"state:validate">>, Admin,
              {"ntp_state_validate"}, {})
  /\ IsRow(10, "state.export", "GET", <<"state:export">>, Admin,
              {"ntp_state_export"}, {})
  /\ IsRow(11, "state.reset", "POST", <<"state:reset">>, Admin,
              {"ntp_state_reset"}, {})
  /\ IsRow(12, "changes.plan", "POST", <<"changes:plan">>, Admin,
              {"ntp_change_plan"}, {})
  /\ IsRow(13, "changes.apply", "POST", <<"changes:apply">>, Admin,
              {"ntp_change_apply"}, {})
  /\ IsRow(14, "session.create", "POST", <<"session">>, {}, {}, {})
  /\ IsRow(15, "session.get", "GET", <<"session">>, {}, {}, {})
  /\ IsRow(16, "session.delete", "DELETE", <<"session">>, {}, {}, {})
  /\ IsRow(17, "filters.list", "GET", <<"filters">>, Read,
              {"ntp_filters_list"}, {"labntp://filters"})
  /\ IsRow(18, "filters.get", "GET", <<"filters", "{}">>, Read,
              {"ntp_filters_get"}, {})
  /\ IsRow(19, "filters.put", "PUT", <<"filters", "{}">>, Write,
              {"ntp_filters_put"}, {})
  /\ IsRow(20, "filters.delete", "DELETE", <<"filters", "{}">>, Write,
              {"ntp_filters_delete"}, {})
  /\ IsRow(21, "views.preview", "GET", <<"views", "preview">>, Read,
              {"ntp_views_preview"}, {})
  /\ IsRow(22, "queries.list", "GET", <<"queries">>, Read, {"ntp_queries_list"}, {})
  /\ IsRow(23, "audit.list", "GET", <<"audit">>, Audit,
              {"ntp_audit_list"}, {"labntp://audit/recent"})
  /\ IsRow(24, "audit.get", "GET", <<"audit", "{}">>, Audit, {"ntp_audit_get"}, {})
  /\ IsRow(25, "metrics.get", "GET", <<"metrics">>, Read, {}, {})
<1>1. IsRow(1, "health.live", "GET", <<"health", "live">>, {}, {}, {})
  BY DEF catalog, Row, IsRow
<1>2. IsRow(2, "health.ready", "GET", <<"health", "ready">>, {}, {}, {})
  BY DEF catalog, Row, IsRow
<1>3. IsRow(3, "version.get", "GET", <<"version">>, Read, {"ntp_version_get"}, {})
  BY DEF catalog, Row, IsRow
<1>4. IsRow(4, "capabilities.get", "GET", <<"capabilities">>,
              Read, {"ntp_capabilities_get"}, {"labntp://capabilities"})
  BY DEF catalog, Row, IsRow
<1>5. IsRow(5, "status.get", "GET", <<"status">>,
              Read, {"ntp_status_get"}, {"labntp://status"})
  BY DEF catalog, Row, IsRow
<1>6. IsRow(6, "schema.get", "GET", <<"schema", "config">>,
              Read, {"ntp_schema_get"}, {"labntp://schema/config"})
  BY DEF catalog, Row, IsRow
<1>7. IsRow(7, "features.list", "GET", <<"features">>,
              Read, {"ntp_features_list"}, {"labntp://features"})
  BY DEF catalog, Row, IsRow
<1>8. IsRow(8, "state.get", "GET", <<"state">>,
              Read, {"ntp_state_get"}, {"labntp://state"})
  BY DEF catalog, Row, IsRow
<1>9. IsRow(9, "state.validate", "POST", <<"state:validate">>,
              Admin, {"ntp_state_validate"}, {})
  BY DEF catalog, Row, IsRow
<1>10. IsRow(10, "state.export", "GET", <<"state:export">>,
              Admin, {"ntp_state_export"}, {})
  BY DEF catalog, Row, IsRow
<1>11. IsRow(11, "state.reset", "POST", <<"state:reset">>,
              Admin, {"ntp_state_reset"}, {})
  BY DEF catalog, Row, IsRow
<1>12. IsRow(12, "changes.plan", "POST", <<"changes:plan">>,
              Admin, {"ntp_change_plan"}, {})
  BY DEF catalog, Row, IsRow
<1>13. IsRow(13, "changes.apply", "POST", <<"changes:apply">>,
              Admin, {"ntp_change_apply"}, {})
  BY DEF catalog, Row, IsRow
<1>14. IsRow(14, "session.create", "POST", <<"session">>, {}, {}, {})
  BY DEF catalog, Row, IsRow
<1>15. IsRow(15, "session.get", "GET", <<"session">>, {}, {}, {})
  BY DEF catalog, Row, IsRow
<1>16. IsRow(16, "session.delete", "DELETE", <<"session">>, {}, {}, {})
  BY DEF catalog, Row, IsRow
<1>17. IsRow(17, "filters.list", "GET", <<"filters">>,
              Read, {"ntp_filters_list"}, {"labntp://filters"})
  BY DEF catalog, Row, IsRow
<1>18. IsRow(18, "filters.get", "GET", <<"filters", "{}">>,
              Read, {"ntp_filters_get"}, {})
  BY DEF catalog, Row, IsRow
<1>19. IsRow(19, "filters.put", "PUT", <<"filters", "{}">>,
              Write, {"ntp_filters_put"}, {})
  BY DEF catalog, Row, IsRow
<1>20. IsRow(20, "filters.delete", "DELETE", <<"filters", "{}">>,
              Write, {"ntp_filters_delete"}, {})
  BY DEF catalog, Row, IsRow
<1>21. IsRow(21, "views.preview", "GET", <<"views", "preview">>,
              Read, {"ntp_views_preview"}, {})
  BY DEF catalog, Row, IsRow
<1>22. IsRow(22, "queries.list", "GET", <<"queries">>,
              Read, {"ntp_queries_list"}, {})
  BY DEF catalog, Row, IsRow
<1>23. IsRow(23, "audit.list", "GET", <<"audit">>,
              Audit, {"ntp_audit_list"}, {"labntp://audit/recent"})
  BY DEF catalog, Row, IsRow
<1>24. IsRow(24, "audit.get", "GET", <<"audit", "{}">>, Audit, {"ntp_audit_get"}, {})
  BY DEF catalog, Row, IsRow
<1>25. IsRow(25, "metrics.get", "GET", <<"metrics">>, Read, {}, {})
  BY DEF catalog, Row, IsRow
<1> QED
  BY <1>1, <1>2, <1>3, <1>4, <1>5, <1>6, <1>7, <1>8, <1>9, <1>10, <1>11, <1>12, <1>13,
     <1>14, <1>15, <1>16, <1>17, <1>18, <1>19, <1>20, <1>21, <1>22, <1>23, <1>24, <1>25

(* The ids alone.                                                          *)
LEMMA Ids ==
  /\ catalog[1].id = "health.live" /\ catalog[2].id = "health.ready"
  /\ catalog[3].id = "version.get" /\ catalog[4].id = "capabilities.get"
  /\ catalog[5].id = "status.get" /\ catalog[6].id = "schema.get"
  /\ catalog[7].id = "features.list" /\ catalog[8].id = "state.get"
  /\ catalog[9].id = "state.validate" /\ catalog[10].id = "state.export"
  /\ catalog[11].id = "state.reset" /\ catalog[12].id = "changes.plan"
  /\ catalog[13].id = "changes.apply" /\ catalog[14].id = "session.create"
  /\ catalog[15].id = "session.get" /\ catalog[16].id = "session.delete"
  /\ catalog[17].id = "filters.list" /\ catalog[18].id = "filters.get"
  /\ catalog[19].id = "filters.put" /\ catalog[20].id = "filters.delete"
  /\ catalog[21].id = "views.preview" /\ catalog[22].id = "queries.list"
  /\ catalog[23].id = "audit.list" /\ catalog[24].id = "audit.get"
  /\ catalog[25].id = "metrics.get"
  BY Rows DEF IsRow

(* The scopes alone.                                                       *)
LEMMA RowScopes ==
  /\ catalog[1].scopes = {} /\ catalog[2].scopes = {} /\ catalog[3].scopes = Read
  /\ catalog[4].scopes = Read /\ catalog[5].scopes = Read /\ catalog[6].scopes = Read
  /\ catalog[7].scopes = Read /\ catalog[8].scopes = Read /\ catalog[9].scopes = Admin
  /\ catalog[10].scopes = Admin /\ catalog[11].scopes = Admin
  /\ catalog[12].scopes = Admin /\ catalog[13].scopes = Admin
  /\ catalog[14].scopes = {} /\ catalog[15].scopes = {} /\ catalog[16].scopes = {}
  /\ catalog[17].scopes = Read /\ catalog[18].scopes = Read
  /\ catalog[19].scopes = Write /\ catalog[20].scopes = Write
  /\ catalog[21].scopes = Read /\ catalog[22].scopes = Read
  /\ catalog[23].scopes = Audit /\ catalog[24].scopes = Audit
  /\ catalog[25].scopes = Read
  BY Rows DEF IsRow

(* The tools alone.                                                        *)
LEMMA RowTools ==
  /\ catalog[1].tools = {} /\ catalog[2].tools = {}
  /\ catalog[3].tools = {"ntp_version_get"}
  /\ catalog[4].tools = {"ntp_capabilities_get"}
  /\ catalog[5].tools = {"ntp_status_get"} /\ catalog[6].tools = {"ntp_schema_get"}
  /\ catalog[7].tools = {"ntp_features_list"} /\ catalog[8].tools = {"ntp_state_get"}
  /\ catalog[9].tools = {"ntp_state_validate"}
  /\ catalog[10].tools = {"ntp_state_export"}
  /\ catalog[11].tools = {"ntp_state_reset"}
  /\ catalog[12].tools = {"ntp_change_plan"}
  /\ catalog[13].tools = {"ntp_change_apply"} /\ catalog[14].tools = {}
  /\ catalog[15].tools = {} /\ catalog[16].tools = {}
  /\ catalog[17].tools = {"ntp_filters_list"}
  /\ catalog[18].tools = {"ntp_filters_get"}
  /\ catalog[19].tools = {"ntp_filters_put"}
  /\ catalog[20].tools = {"ntp_filters_delete"}
  /\ catalog[21].tools = {"ntp_views_preview"}
  /\ catalog[22].tools = {"ntp_queries_list"}
  /\ catalog[23].tools = {"ntp_audit_list"} /\ catalog[24].tools = {"ntp_audit_get"}
  /\ catalog[25].tools = {}
  BY Rows DEF IsRow

(* The resources alone.                                                    *)
LEMMA RowResources ==
  /\ catalog[1].resources = {} /\ catalog[2].resources = {}
  /\ catalog[3].resources = {} /\ catalog[4].resources = {"labntp://capabilities"}
  /\ catalog[5].resources = {"labntp://status"}
  /\ catalog[6].resources = {"labntp://schema/config"}
  /\ catalog[7].resources = {"labntp://features"}
  /\ catalog[8].resources = {"labntp://state"} /\ catalog[9].resources = {}
  /\ catalog[10].resources = {} /\ catalog[11].resources = {}
  /\ catalog[12].resources = {} /\ catalog[13].resources = {}
  /\ catalog[14].resources = {} /\ catalog[15].resources = {}
  /\ catalog[16].resources = {} /\ catalog[17].resources = {"labntp://filters"}
  /\ catalog[18].resources = {} /\ catalog[19].resources = {}
  /\ catalog[20].resources = {} /\ catalog[21].resources = {}
  /\ catalog[22].resources = {} /\ catalog[23].resources = {"labntp://audit/recent"}
  /\ catalog[24].resources = {} /\ catalog[25].resources = {}
  BY Rows DEF IsRow

(* The methods alone.                                                      *)
LEMMA RowMethods ==
  /\ catalog[1].method = "GET" /\ catalog[2].method = "GET"
  /\ catalog[3].method = "GET" /\ catalog[4].method = "GET"
  /\ catalog[5].method = "GET" /\ catalog[6].method = "GET"
  /\ catalog[7].method = "GET" /\ catalog[8].method = "GET"
  /\ catalog[9].method = "POST" /\ catalog[10].method = "GET"
  /\ catalog[11].method = "POST" /\ catalog[12].method = "POST"
  /\ catalog[13].method = "POST" /\ catalog[14].method = "POST"
  /\ catalog[15].method = "GET" /\ catalog[16].method = "DELETE"
  /\ catalog[17].method = "GET" /\ catalog[18].method = "GET"
  /\ catalog[19].method = "PUT" /\ catalog[20].method = "DELETE"
  /\ catalog[21].method = "GET" /\ catalog[22].method = "GET"
  /\ catalog[23].method = "GET" /\ catalog[24].method = "GET"
  /\ catalog[25].method = "GET"
  BY Rows DEF IsRow

(* The paths alone.                                                        *)
LEMMA RowPaths ==
  /\ catalog[1].path = <<"health", "live">> /\ catalog[2].path = <<"health", "ready">>
  /\ catalog[3].path = <<"version">> /\ catalog[4].path = <<"capabilities">>
  /\ catalog[5].path = <<"status">> /\ catalog[6].path = <<"schema", "config">>
  /\ catalog[7].path = <<"features">> /\ catalog[8].path = <<"state">>
  /\ catalog[9].path = <<"state:validate">> /\ catalog[10].path = <<"state:export">>
  /\ catalog[11].path = <<"state:reset">> /\ catalog[12].path = <<"changes:plan">>
  /\ catalog[13].path = <<"changes:apply">> /\ catalog[14].path = <<"session">>
  /\ catalog[15].path = <<"session">> /\ catalog[16].path = <<"session">>
  /\ catalog[17].path = <<"filters">> /\ catalog[18].path = <<"filters", "{}">>
  /\ catalog[19].path = <<"filters", "{}">> /\ catalog[20].path = <<"filters", "{}">>
  /\ catalog[21].path = <<"views", "preview">> /\ catalog[22].path = <<"queries">>
  /\ catalog[23].path = <<"audit">> /\ catalog[24].path = <<"audit", "{}">>
  /\ catalog[25].path = <<"metrics">>
  BY Rows DEF IsRow

(* No tool is bound to two rows.                                           *)
LEMMA ToolOfOneRow ==
  ASSUME NEW i \in DOMAIN catalog, NEW tool \in catalog[i].tools
  PROVE  First(LookupTool(tool)) = {i}
<1>1. \A j, k \in DOMAIN catalog : \A t \in catalog[j].tools : t \in catalog[k].tools => j = k
  BY RowTools, Positions
<1>2. LookupTool(tool) = {i}
  BY <1>1 DEF LookupTool
<1> QED
  BY <1>2, Positions DEF First

(* Nor a resource.                                                         *)
LEMMA ResourceOfOneRow ==
  ASSUME NEW i \in DOMAIN catalog, NEW uri \in catalog[i].resources
  PROVE  LookupResource(uri) = {i}
<1>1. \A j, k \in DOMAIN catalog :
        \A u \in catalog[j].resources : u \in catalog[k].resources => j = k
  BY RowResources, Positions
<1>2. {j \in DOMAIN catalog : uri \in catalog[j].resources} = {i}
  BY <1>1
<1> QED
  BY <1>2, Positions DEF First, LookupResource

(* No id is given twice.                                                   *)
LEMMA IdOfOneRow ==
  ASSUME NEW i \in DOMAIN catalog, NEW j \in DOMAIN catalog, catalog[i].id = catalog[j].id
  PROVE  i = j
  BY Ids, Positions

(* Some row is the first of any.                                           *)
LEMMA FirstExists ==
  ASSUME NEW S \in SUBSET DOMAIN catalog, S # {}
  PROVE  First(S) # {}
<1>1. S \subseteq Nat
  BY Positions
<1> DEFINE Less == OpToRel(<, Nat)
<1>2. \A x, y \in Nat : y < x => <<y, x>> \in Less
  BY DEF OpToRel
<1>3. IsWellFoundedOn(Less, Nat)
  BY NatLessThanWellFounded
<1> HIDE DEF Less
<1>4. PICK i \in S : \A j \in S : <<j, i>> \notin Less
  BY <1>1, <1>3, WFMin
<1>5. \A j \in S : ~(j < i)
  BY <1>1, <1>2, <1>4
<1> QED
  BY <1>1, <1>5 DEF First

----------------------------------------------------------------------------
(* Routing: what is found is a row of the table, of the method asked.      *)

(* A route that is found, the method included, is the only one found.      *)
LEMMA HitIsRow ==
  ASSUME NEW method, NEW path, matchRoute(method, path).methodOK
  PROVE  \E i \in DOMAIN catalog :
           /\ matchRoute(method, path).caps = {catalog[i]}
           /\ catalog[i].method = method
<1> DEFINE paths == {i \in DOMAIN catalog : matchSegs(catalog[i].path, path)}
           exact == {i \in paths : catalog[i].method = method}
           hit   == CHOOSE i \in First(exact) : TRUE
<1>1. exact # {}
  BY DEF matchRoute
<1>2. hit \in First(exact)
  <2>1. exact \in SUBSET DOMAIN catalog
    OBVIOUS
  <2> HIDE DEF exact
  <2>2. First(exact) # {}
    BY <1>1, <2>1, FirstExists
  <2> QED
    BY <2>2
<1>3. hit \in exact
  BY <1>2 DEF First
<1>4. matchRoute(method, path).caps = {catalog[hit]}
  BY <1>1 DEF matchRoute
<1> QED
  BY <1>3, <1>4

(* Sequences of one and of two.                                            *)
LEMMA OneAndTwo ==
  ASSUME NEW x, NEW y
  PROVE  /\ Len(<<x>>) = 1 /\ DOMAIN <<x>> = 1 .. 1 /\ <<x>>[1] = x
         /\ Len(<<x, y>>) = 2 /\ DOMAIN <<x, y>> = 1 .. 2 /\ <<x, y>>[1] = x /\ <<x, y>>[2] = y
  OBVIOUS

IsPath(i, len, first, second) ==
  /\ Len(catalog[i].path) = len /\ DOMAIN catalog[i].path = 1 .. Len(catalog[i].path)
  /\ catalog[i].path[1] = first /\ (len = 2 => catalog[i].path[2] = second)

(* The path of each row.                                                   *)
LEMMA Paths ==
  /\ IsPath(1, 2, "health", "live") /\ IsPath(2, 2, "health", "ready")
  /\ IsPath(3, 1, "version", "") /\ IsPath(4, 1, "capabilities", "")
  /\ IsPath(5, 1, "status", "") /\ IsPath(6, 2, "schema", "config")
  /\ IsPath(7, 1, "features", "") /\ IsPath(8, 1, "state", "")
  /\ IsPath(9, 1, "state:validate", "") /\ IsPath(10, 1, "state:export", "")
  /\ IsPath(11, 1, "state:reset", "") /\ IsPath(12, 1, "changes:plan", "")
  /\ IsPath(13, 1, "changes:apply", "") /\ IsPath(14, 1, "session", "")
  /\ IsPath(15, 1, "session", "") /\ IsPath(16, 1, "session", "")
  /\ IsPath(17, 1, "filters", "") /\ IsPath(18, 2, "filters", "{}")
  /\ IsPath(19, 2, "filters", "{}") /\ IsPath(20, 2, "filters", "{}")
  /\ IsPath(21, 2, "views", "preview") /\ IsPath(22, 1, "queries", "")
  /\ IsPath(23, 1, "audit", "") /\ IsPath(24, 2, "audit", "{}")
  /\ IsPath(25, 1, "metrics", "")
<1>1. IsPath(1, 2, "health", "live")
  BY OneAndTwo DEF catalog, Row, IsPath
<1>2. IsPath(2, 2, "health", "ready")
  BY OneAndTwo DEF catalog, Row, IsPath
<1>3. IsPath(3, 1, "version", "")
  BY OneAndTwo DEF catalog, Row, IsPath
<1>4. IsPath(4, 1, "capabilities", "")
  BY OneAndTwo DEF catalog, Row, IsPath
<1>5. IsPath(5, 1, "status", "")
  BY OneAndTwo DEF catalog, Row, IsPath
<1>6. IsPath(6, 2, "schema", "config")
  BY OneAndTwo DEF catalog, Row, IsPath
<1>7. IsPath(7, 1, "features", "")
  BY OneAndTwo DEF catalog, Row, IsPath
<1>8. IsPath(8, 1, "state", "")
  BY OneAndTwo DEF catalog, Row, IsPath
<1>9. IsPath(9, 1, "state:validate", "")
  BY OneAndTwo DEF catalog, Row, IsPath
<1>10. IsPath(10, 1, "state:export", "")
  BY OneAndTwo DEF catalog, Row, IsPath
<1>11. IsPath(11, 1, "state:reset", "")
  BY OneAndTwo DEF catalog, Row, IsPath
<1>12. IsPath(12, 1, "changes:plan", "")
  BY OneAndTwo DEF catalog, Row, IsPath
<1>13. IsPath(13, 1, "changes:apply", "")
  BY OneAndTwo DEF catalog, Row, IsPath
<1>14. IsPath(14, 1, "session", "")
  BY OneAndTwo DEF catalog, Row, IsPath
<1>15. IsPath(15, 1, "session", "")
  BY OneAndTwo DEF catalog, Row, IsPath
<1>16. IsPath(16, 1, "session", "")
  BY OneAndTwo DEF catalog, Row, IsPath
<1>17. IsPath(17, 1, "filters", "")
  BY OneAndTwo DEF catalog, Row, IsPath
<1>18. IsPath(18, 2, "filters", "{}")
  BY OneAndTwo DEF catalog, Row, IsPath
<1>19. IsPath(19, 2, "filters", "{}")
  BY OneAndTwo DEF catalog, Row, IsPath
<1>20. IsPath(20, 2, "filters", "{}")
  BY OneAndTwo DEF catalog, Row, IsPath
<1>21. IsPath(21, 2, "views", "preview")
  BY OneAndTwo DEF catalog, Row, IsPath
<1>22. IsPath(22, 1, "queries", "")
  BY OneAndTwo DEF catalog, Row, IsPath
<1>23. IsPath(23, 1, "audit", "")
  BY OneAndTwo DEF catalog, Row, IsPath
<1>24. IsPath(24, 2, "audit", "{}")
  BY OneAndTwo DEF catalog, Row, IsPath
<1>25. IsPath(25, 1, "metrics", "")
  BY OneAndTwo DEF catalog, Row, IsPath
<1> QED
  BY <1>1, <1>2, <1>3, <1>4, <1>5, <1>6, <1>7, <1>8, <1>9, <1>10, <1>11, <1>12, <1>13,
     <1>14, <1>15, <1>16, <1>17, <1>18, <1>19, <1>20, <1>21, <1>22, <1>23, <1>24, <1>25

(* How long each path is.                                                  *)
LEMMA Lengths ==
  /\ Len(catalog[1].path) = 2 /\ Len(catalog[2].path) = 2 /\ Len(catalog[3].path) = 1
  /\ Len(catalog[4].path) = 1 /\ Len(catalog[5].path) = 1 /\ Len(catalog[6].path) = 2
  /\ Len(catalog[7].path) = 1 /\ Len(catalog[8].path) = 1 /\ Len(catalog[9].path) = 1
  /\ Len(catalog[10].path) = 1 /\ Len(catalog[11].path) = 1
  /\ Len(catalog[12].path) = 1 /\ Len(catalog[13].path) = 1
  /\ Len(catalog[14].path) = 1 /\ Len(catalog[15].path) = 1
  /\ Len(catalog[16].path) = 1 /\ Len(catalog[17].path) = 1
  /\ Len(catalog[18].path) = 2 /\ Len(catalog[19].path) = 2
  /\ Len(catalog[20].path) = 2 /\ Len(catalog[21].path) = 2
  /\ Len(catalog[22].path) = 1 /\ Len(catalog[23].path) = 1
  /\ Len(catalog[24].path) = 2 /\ Len(catalog[25].path) = 1
  BY Paths DEF IsPath

(* The first segment of each path.                                         *)
LEMMA FirstSegments ==
  /\ catalog[1].path[1] = "health" /\ catalog[2].path[1] = "health"
  /\ catalog[3].path[1] = "version" /\ catalog[4].path[1] = "capabilities"
  /\ catalog[5].path[1] = "status" /\ catalog[6].path[1] = "schema"
  /\ catalog[7].path[1] = "features" /\ catalog[8].path[1] = "state"
  /\ catalog[9].path[1] = "state:validate" /\ catalog[10].path[1] = "state:export"
  /\ catalog[11].path[1] = "state:reset" /\ catalog[12].path[1] = "changes:plan"
  /\ catalog[13].path[1] = "changes:apply" /\ catalog[14].path[1] = "session"
  /\ catalog[15].path[1] = "session" /\ catalog[16].path[1] = "session"
  /\ catalog[17].path[1] = "filters" /\ catalog[18].path[1] = "filters"
  /\ catalog[19].path[1] = "filters" /\ catalog[20].path[1] = "filters"
  /\ catalog[21].path[1] = "views" /\ catalog[22].path[1] = "queries"
  /\ catalog[23].path[1] = "audit" /\ catalog[24].path[1] = "audit"
  /\ catalog[25].path[1] = "metrics"
  BY Paths DEF IsPath

(* The second, of those that have one.                                     *)
LEMMA SecondSegments ==
  /\ catalog[1].path[2] = "live" /\ catalog[2].path[2] = "ready"
  /\ catalog[6].path[2] = "config" /\ catalog[18].path[2] = "{}"
  /\ catalog[19].path[2] = "{}" /\ catalog[20].path[2] = "{}"
  /\ catalog[21].path[2] = "preview" /\ catalog[24].path[2] = "{}"
  BY Paths DEF IsPath

(* A path has one segment or two.                                          *)
LEMMA PathLengths ==
  ASSUME NEW i \in DOMAIN catalog
  PROVE  /\ Len(catalog[i].path) \in {1, 2}
         /\ DOMAIN catalog[i].path = 1 .. Len(catalog[i].path)
<1> DEFINE d(k) == DOMAIN catalog[k].path = 1 .. Len(catalog[k].path)
<1>1. /\ d(1) /\ d(2) /\ d(3) /\ d(4) /\ d(5) /\ d(6) /\ d(7) /\ d(8) /\ d(9) /\ d(10)
      /\ d(11) /\ d(12) /\ d(13) /\ d(14) /\ d(15) /\ d(16) /\ d(17) /\ d(18) /\ d(19)
      /\ d(20) /\ d(21) /\ d(22) /\ d(23) /\ d(24) /\ d(25)
  BY Paths DEF IsPath
<1> HIDE DEF d
<1>2. d(i)
  BY <1>1, Positions
<1> QED
  BY <1>2, Lengths, Positions DEF d

(* Rows whose paths begin alike: probes, sessions, filters, audit.         *)
LEMMA SharedFirstSegments ==
  ASSUME NEW i \in DOMAIN catalog, NEW j \in DOMAIN catalog,
         catalog[i].path[1] = catalog[j].path[1]
  PROVE  \/ i = j
         \/ (i = 1 \/ i = 2) /\ (j = 1 \/ j = 2)
         \/ (i = 14 \/ i = 15 \/ i = 16) /\ (j = 14 \/ j = 15 \/ j = 16)
         \/ (i = 17 \/ i = 18 \/ i = 19 \/ i = 20) /\ (j = 17 \/ j = 18 \/ j = 19 \/ j = 20)
         \/ (i = 23 \/ i = 24) /\ (j = 23 \/ j = 24)
<1> DEFINE f(k) == catalog[k].path[1]
           shared == {"health", "session", "filters", "audit"}
<1>1. /\ f(1) = "health" /\ f(2) = "health" /\ f(3) = "version" /\ f(4) = "capabilities"
      /\ f(5) = "status" /\ f(6) = "schema" /\ f(7) = "features" /\ f(8) = "state"
      /\ f(9) = "state:validate" /\ f(10) = "state:export" /\ f(11) = "state:reset"
      /\ f(12) = "changes:plan" /\ f(13) = "changes:apply" /\ f(14) = "session"
      /\ f(15) = "session" /\ f(16) = "session" /\ f(17) = "filters" /\ f(18) = "filters"
      /\ f(19) = "filters" /\ f(20) = "filters" /\ f(21) = "views" /\ f(22) = "queries"
      /\ f(23) = "audit" /\ f(24) = "audit" /\ f(25) = "metrics"
  BY FirstSegments
<1>2. f(i) = f(j) /\ i \in 1 .. 25 /\ j \in 1 .. 25
  BY Positions
<1> HIDE DEF f
<1>3. \A k \in 1 .. 25 :
        \/ f(k) = "health" /\ (k = 1 \/ k = 2)
        \/ f(k) = "session" /\ (k = 14 \/ k = 15 \/ k = 16)
        \/ f(k) = "filters" /\ (k = 17 \/ k = 18 \/ k = 19 \/ k = 20)
        \/ f(k) = "audit" /\ (k = 23 \/ k = 24)
        \/ f(k) \notin shared
  BY <1>1
<1>4. \A k, l \in 1 .. 25 : f(k) = f(l) /\ f(k) \notin shared => k = l
  BY <1>1
<1>5. CASE f(i) \in shared
  BY <1>2, <1>3, <1>5
<1>6. CASE f(i) \notin shared
  BY <1>2, <1>4, <1>6
<1> QED
  BY <1>5, <1>6

(* What tells those apart: a second segment,                               *)
LEMMA HealthRows ==
  ASSUME NEW i, NEW j, i = 1 \/ i = 2, j = 1 \/ j = 2,
         \/ catalog[i].path[2] = "{}" \/ catalog[j].path[2] = "{}"
         \/ catalog[i].path[2] = catalog[j].path[2]
  PROVE  i = j
<1>1. /\ catalog[1].path[2] # catalog[2].path[2]
      /\ catalog[1].path[2] # "{}" /\ catalog[2].path[2] # "{}"
  BY SecondSegments
<1>2. CASE i = 1 /\ j = 2
  BY <1>1, <1>2
<1>3. CASE i = 2 /\ j = 1
  BY <1>1, <1>3
<1>4. CASE i = 1 /\ j = 1
  BY <1>4
<1>5. CASE i = 2 /\ j = 2
  BY <1>5
<1> QED
  BY <1>2, <1>3, <1>4, <1>5

(* a method,                                                               *)
LEMMA SessionRows ==
  ASSUME NEW i, NEW j, i = 14 \/ i = 15 \/ i = 16, j = 14 \/ j = 15 \/ j = 16,
         catalog[i].method = catalog[j].method
  PROVE  i = j
  BY RowMethods

(* a length, and a method,                                                 *)
LEMMA FilterRows ==
  ASSUME NEW i, NEW j, i = 17 \/ i = 18 \/ i = 19 \/ i = 20, j = 17 \/ j = 18 \/ j = 19 \/ j = 20,
         Len(catalog[i].path) = 2 <=> Len(catalog[j].path) = 2,
         catalog[i].method = catalog[j].method
  PROVE  i = j
<1>1. ~(Len(catalog[17].path) = 2)
  BY Lengths
<1>2. Len(catalog[18].path) = 2 /\ Len(catalog[19].path) = 2 /\ Len(catalog[20].path) = 2
  BY Lengths
<1>3. /\ catalog[18].method # catalog[19].method /\ catalog[18].method # catalog[20].method
      /\ catalog[19].method # catalog[20].method
  BY RowMethods
<1> QED
  BY <1>1, <1>2, <1>3

(* a length.                                                               *)
LEMMA AuditRows ==
  ASSUME NEW i, NEW j, i = 23 \/ i = 24, j = 23 \/ j = 24,
         Len(catalog[i].path) = 2 <=> Len(catalog[j].path) = 2
  PROVE  i = j
<1>1. ~(Len(catalog[23].path) = 2) /\ Len(catalog[24].path) = 2
  BY Lengths
<1> QED
  BY <1>1

(* No path and method are those of two rows, even with wildcards filled.   *)
LEMMA RoutesAreDistinct ==
  ASSUME NEW i \in DOMAIN catalog, NEW j \in DOMAIN catalog,
         catalog[i].method = catalog[j].method, Len(catalog[i].path) = Len(catalog[j].path),
         catalog[i].path[1] = catalog[j].path[1],
         Len(catalog[i].path) = 2 =>
            \/ catalog[i].path[2] = "{}" \/ catalog[j].path[2] = "{}"
            \/ catalog[i].path[2] = catalog[j].path[2]
  PROVE  i = j
<1>1. CASE (i = 1 \/ i = 2) /\ (j = 1 \/ j = 2)
  <2>1. Len(catalog[i].path) = 2
    BY <1>1, Lengths
  <2> QED
    BY <1>1, <2>1, HealthRows
<1>2. CASE (i = 14 \/ i = 15 \/ i = 16) /\ (j = 14 \/ j = 15 \/ j = 16)
  BY <1>2, SessionRows
<1>3. CASE (i = 17 \/ i = 18 \/ i = 19 \/ i = 20) /\ (j = 17 \/ j = 18 \/ j = 19 \/ j = 20)
  BY <1>3, FilterRows
<1>4. CASE (i = 23 \/ i = 24) /\ (j = 23 \/ j = 24)
  BY <1>4, AuditRows
<1> QED
  BY <1>1, <1>2, <1>3, <1>4, SharedFirstSegments

----------------------------------------------------------------------------
(* Who may cause which call.                                               *)

Rightful(scopes, a) == a.call # NoCall => MayCall(scopes, a.call, a.args)

(* What holding each scope, or being an administrator, lets a caller do.   *)

(* A refusal and an answer of the transport's own call no operation.       *)
LEMMA Refusals ==
  ASSUME NEW scopes, NEW code, NEW what
  PROVE  Rightful(scopes, Refused(code)) /\ Rightful(scopes, Direct(what))
  BY DEF Rightful, Refused, Direct

(* What is called for holders of the read scope they may call.             *)
LEMMA ReadersMay ==
  ASSUME NEW q, NEW scopes, AuthorizeScopes(scopes, Read)
  PROVE  /\ Rightful(scopes, Call(q, "Status", <<>>))
         /\ Rightful(scopes, Call(q, "Features", <<>>))
         /\ Rightful(scopes, Call(q, "GetState", <<>>))
         /\ Rightful(scopes, Call(q, "ListFilters", <<>>))
         /\ \A name : Rightful(scopes, AppGetFilter(q, name))
         /\ \A ip : Rightful(scopes, AppPreview(q, ip))
         /\ \A limit, cursor : Rightful(scopes, AppListQueries(q, limit, cursor))
<1>1. "ntp.read" \in scopes \/ "ntp.admin" \in scopes
  BY DEF AuthorizeScopes, HasScope, Read
<1>2. \A m, args : m \in {"Status", "Features", "GetState", "ListFilters", "GetFilter", "Preview",
                          "ListQueries"} => Rightful(scopes, Call(q, m, args))
  BY <1>1 DEF Rightful, MayCall, Call
<1>3. ASSUME NEW name PROVE Rightful(scopes, AppGetFilter(q, name))
  <2>1. CASE name = ""
    BY <2>1, Refusals DEF AppGetFilter
  <2>2. CASE name # ""
    <3>1. AppGetFilter(q, name) = Call(q, "GetFilter", <<name>>)
      BY <2>2 DEF AppGetFilter
    <3>2. Rightful(scopes, Call(q, "GetFilter", <<name>>))
      BY <1>2
    <3> QED
      BY <3>1, <3>2
  <2> QED
    BY <2>1, <2>2
<1>4. \A ip : Rightful(scopes, AppPreview(q, ip))
  BY <1>2, Refusals DEF AppPreview
<1>5. \A limit, cursor : Rightful(scopes, AppListQueries(q, limit, cursor))
  BY <1>2 DEF AppListQueries
<1> QED
  BY <1>2, <1>3, <1>4, <1>5

(* Likewise for those of the audit scope.                                  *)
LEMMA AuditorsMay ==
  ASSUME NEW q, NEW scopes, AuthorizeScopes(scopes, Audit)
  PROVE  /\ \A limit : Rightful(scopes, AppQueryAudit(q, limit))
         /\ \A name : Rightful(scopes, Call(q, "GetAudit", <<name>>))
<1>1. "ntp.audit.read" \in scopes \/ "ntp.admin" \in scopes
  BY DEF AuthorizeScopes, HasScope, Audit
<1>2. \A m, args : m \in {"QueryAudit", "GetAudit"} => Rightful(scopes, Call(q, m, args))
  BY <1>1 DEF Rightful, MayCall, Call
<1> QED
  BY <1>2 DEF AppQueryAudit

(* Likewise for administrators.                                            *)
LEMMA AdministratorsMay ==
  ASSUME NEW q, NEW scopes, AuthorizeScopes(scopes, Admin)
  PROVE  /\ \A doc : Rightful(scopes, AppValidate(q, doc))
         /\ Rightful(scopes, AppExport(q))
         /\ \A args : Rightful(scopes, Call(q, "Plan", args))
         /\ \A args : Rightful(scopes, Call(q, "Reset", args))
         /\ \A in, ops, values : Rightful(scopes, Apply(q, in, ops, values))
<1>1. "ntp.admin" \in scopes
  BY DEF AuthorizeScopes, HasScope, Admin
<1>2. \A m, args : m \in {"Plan", "Validate", "Export", "Reset", "Apply"}
                     => Rightful(scopes, Call(q, m, args))
  BY <1>1 DEF Rightful, MayCall, Call
<1>3. \A doc : Rightful(scopes, AppValidate(q, doc))
  BY <1>2, Refusals DEF AppValidate
<1>4. Rightful(scopes, AppExport(q))
  BY <1>2, Refusals DEF AppExport
<1>5. \A in, ops, values : Rightful(scopes, Apply(q, in, ops, values))
  BY <1>2 DEF Apply
<1> QED
  BY <1>2, <1>3, <1>4, <1>5

(* A change as both transports read it.                                    *)
IsChange(in) == in = [rev |-> in.rev, key |-> in.key, reason |-> in.reason, force |-> in.force]

(* The change each transport reads is such a record.                       *)
LEMMA ChangesRead ==
  ASSUME NEW q
  PROVE  IsChange(readChange(q)) /\ IsChange(toChange(q))
  BY DEF IsChange, readChange, toChange

(* Holders of the write scope may change filters, and never with force.    *)
LEMMA WritersMay ==
  ASSUME NEW q, NEW scopes, AuthorizeScopes(scopes, Write), NEW in, IsChange(in)
  PROVE  /\ \A filter, values : Rightful(scopes, AppPutFilter(q, in, filter, values))
         /\ \A name : Rightful(scopes, AppDeleteFilter(q, in, name))
<1>1. "ntp.write" \in scopes \/ "ntp.admin" \in scopes
  BY DEF AuthorizeScopes, HasScope, Write
<1>2. Unforced(in).force = FALSE
  BY DEF Unforced, IsChange
<1>3. \A kind, name, values : kind \in {"upsertFilter", "removeFilter"}
                       => Rightful(scopes, Apply(q, Unforced(in), <<kind, name>>, values))
  BY <1>1, <1>2 DEF Rightful, MayCall, Call, Apply, Change
<1>4. ASSUME NEW name, NEW values
      PROVE  /\ Rightful(scopes, AppPutFilter(q, in, name, values))
             /\ Rightful(scopes, AppDeleteFilter(q, in, name))
  <2>1. CASE name = ""
    BY <2>1, Refusals DEF AppPutFilter, AppDeleteFilter
  <2>2. CASE name # ""
    <3>1. /\ AppPutFilter(q, in, name, values) = Apply(q, Unforced(in), <<"upsertFilter", name>>, values)
          /\ AppDeleteFilter(q, in, name) = Apply(q, Unforced(in), <<"removeFilter", name>>, <<>>)
      BY <2>2 DEF AppPutFilter, AppDeleteFilter
    <3>2. /\ Rightful(scopes, Apply(q, Unforced(in), <<"upsertFilter", name>>, values))
          /\ Rightful(scopes, Apply(q, Unforced(in), <<"removeFilter", name>>, <<>>))
      BY <1>3
    <3> QED
      BY <3>1, <3>2
  <2> QED
    BY <2>1, <2>2
<1> QED
  BY <1>4

(* The ids by the scope their handlers need; the first need none, or do    *)
(* not call App.                                                           *)
OpenIds  == {"health.live", "health.ready", "version.get", "capabilities.get", "schema.get",
             "session.create", "session.get", "session.delete", "metrics.get"}
ReadIds  == {"status.get", "features.list", "state.get", "filters.list", "filters.get",
             "views.preview", "queries.list"}
AuditIds == {"audit.list", "audit.get"}
WriteIds == {"filters.put", "filters.delete"}
AdminIds == {"state.validate", "state.export", "state.reset", "changes.plan", "changes.apply"}

(* The table asks for that scope; and what changes state, or takes a body  *)
(* in order to, has a method that needs the CSRF secret.                   *)
LEMMA RowKinds ==
  ASSUME NEW i \in DOMAIN catalog
  PROVE  /\ \/ catalog[i].id \in OpenIds
            \/ catalog[i].id \in ReadIds /\ catalog[i].scopes = Read
            \/ catalog[i].id \in AuditIds /\ catalog[i].scopes = Audit
            \/ catalog[i].id \in WriteIds /\ catalog[i].scopes = Write
            \/ catalog[i].id \in AdminIds /\ catalog[i].scopes = Admin
         /\ catalog[i].id \in WriteIds \cup (AdminIds \ {"state.export"})
              => UnsafeMethod(catalog[i].method)
<1> DEFINE kind(k) == \/ catalog[k].id \in OpenIds
                      \/ catalog[k].id \in ReadIds /\ catalog[k].scopes = Read
                      \/ catalog[k].id \in AuditIds /\ catalog[k].scopes = Audit
                      \/ catalog[k].id \in WriteIds /\ catalog[k].scopes = Write
                      \/ catalog[k].id \in AdminIds /\ catalog[k].scopes = Admin
           guarded(k) == catalog[k].id \in WriteIds \cup (AdminIds \ {"state.export"})
                           => UnsafeMethod(catalog[k].method)
<1>1. /\ kind(1) /\ kind(2) /\ kind(3) /\ kind(4) /\ kind(5) /\ kind(6) /\ kind(7) /\ kind(8)
      /\ kind(9) /\ kind(10) /\ kind(11) /\ kind(12) /\ kind(13) /\ kind(14) /\ kind(15)
      /\ kind(16) /\ kind(17) /\ kind(18) /\ kind(19) /\ kind(20) /\ kind(21) /\ kind(22)
      /\ kind(23) /\ kind(24) /\ kind(25)
  BY Ids, RowScopes DEF OpenIds, ReadIds, AuditIds, WriteIds, AdminIds
<1>2. /\ guarded(1) /\ guarded(2) /\ guarded(3) /\ guarded(4) /\ guarded(5) /\ guarded(6)
      /\ guarded(7) /\ guarded(8) /\ guarded(9) /\ guarded(10) /\ guarded(11) /\ guarded(12)
      /\ guarded(13) /\ guarded(14) /\ guarded(15) /\ guarded(16) /\ guarded(17) /\ guarded(18)
      /\ guarded(19) /\ guarded(20) /\ guarded(21) /\ guarded(22) /\ guarded(23) /\ guarded(24)
      /\ guarded(25)
  BY Ids, RowMethods DEF WriteIds, AdminIds, UnsafeMethod
<1> HIDE DEF kind, guarded
<1>3. kind(i) /\ guarded(i)
  BY <1>1, <1>2, Positions
<1> QED
  BY <1>3 DEF kind, guarded

(* A body that does not decode is refused.                                 *)
LEMMA DecodedRights ==
  ASSUME NEW scopes, NEW ok, NEW a, Rightful(scopes, a)
  PROVE  Rightful(scopes, Decoded(ok, a))
<1>1. CASE ok
  BY <1>1 DEF Decoded
<1>2. CASE ~ok
  BY <1>2, Refusals DEF Decoded
<1> QED
  BY <1>1, <1>2

(* Each handler asks only for what the scope of its id allows.             *)
LEMMA OpenHandlers ==
  ASSUME NEW q, NEW param, NEW id \in OpenIds
  PROVE  dispatch(q, id, param).call = NoCall
<1>1. \A what : Direct(what).call = NoCall
  BY DEF Direct
<1>2. dispatch(q, "version.get", param).call = NoCall
  BY <1>1 DEF dispatch
<1>3. dispatch(q, "capabilities.get", param).call = NoCall
  BY <1>1 DEF dispatch
<1>4. dispatch(q, "schema.get", param).call = NoCall
  BY <1>1 DEF dispatch
<1>5. dispatch(q, "session.create", param).call = NoCall
  BY <1>1 DEF dispatch
<1>6. dispatch(q, "session.get", param).call = NoCall
  BY <1>1 DEF dispatch
<1>7. dispatch(q, "session.delete", param).call = NoCall
  BY <1>1 DEF dispatch
<1>8. dispatch(q, "health.live", param).call = NoCall
  BY <1>1 DEF dispatch, Refused
<1>9. dispatch(q, "health.ready", param).call = NoCall
  BY <1>1 DEF dispatch, Refused
<1>10. dispatch(q, "metrics.get", param).call = NoCall
  BY <1>1 DEF dispatch, Refused
<1> QED
  BY <1>2, <1>3, <1>4, <1>5, <1>6, <1>7, <1>8, <1>9, <1>10 DEF OpenIds

(* A handler of a row that asks for the read scope calls what its holders  *)
(* may call.                                                               *)
LEMMA ReadHandlers ==
  ASSUME NEW q, NEW param, NEW scopes, AuthorizeScopes(scopes, Read), NEW id \in ReadIds
  PROVE  Rightful(scopes, dispatch(q, id, param))
<1>1. Rightful(scopes, dispatch(q, "status.get", param))
  BY ReadersMay DEF dispatch
<1>2. Rightful(scopes, dispatch(q, "features.list", param))
  BY ReadersMay DEF dispatch
<1>3. Rightful(scopes, dispatch(q, "state.get", param))
  BY ReadersMay DEF dispatch
<1>4. Rightful(scopes, dispatch(q, "filters.list", param))
  BY ReadersMay DEF dispatch
<1>5. Rightful(scopes, dispatch(q, "filters.get", param))
  BY ReadersMay DEF dispatch
<1>6. Rightful(scopes, dispatch(q, "views.preview", param))
  BY ReadersMay DEF dispatch
<1>7. Rightful(scopes, dispatch(q, "queries.list", param))
  BY ReadersMay, DecodedRights DEF dispatch
<1> QED
  BY <1>1, <1>2, <1>3, <1>4, <1>5, <1>6, <1>7 DEF ReadIds

(* Likewise those of the rows that ask for the audit scope.                *)
LEMMA AuditHandlers ==
  ASSUME NEW q, NEW param, NEW scopes, AuthorizeScopes(scopes, Audit), NEW id \in AuditIds
  PROVE  Rightful(scopes, dispatch(q, id, param))
<1>1. Rightful(scopes, dispatch(q, "audit.list", param))
  BY AuditorsMay, DecodedRights DEF dispatch
<1>2. Rightful(scopes, dispatch(q, "audit.get", param))
  BY AuditorsMay DEF dispatch
<1> QED
  BY <1>1, <1>2 DEF AuditIds

(* Likewise those of the rows that ask for the write scope.                *)
LEMMA WriteHandlers ==
  ASSUME NEW q, NEW param, NEW scopes, AuthorizeScopes(scopes, Write), NEW id \in WriteIds
  PROVE  Rightful(scopes, dispatch(q, id, param))
<1>1. Rightful(scopes, dispatch(q, "filters.put", param))
  BY WritersMay, ChangesRead, DecodedRights, Refusals DEF handleFiltersPut, dispatch
<1>2. Rightful(scopes, dispatch(q, "filters.delete", param))
  BY WritersMay, ChangesRead, DecodedRights DEF dispatch
<1> QED
  BY <1>1, <1>2 DEF WriteIds

(* Likewise those of the rows for administrators.                          *)
LEMMA AdminHandlers ==
  ASSUME NEW q, NEW param, NEW scopes, AuthorizeScopes(scopes, Admin), NEW id \in AdminIds
  PROVE  Rightful(scopes, dispatch(q, id, param))
<1>1. Rightful(scopes, dispatch(q, "state.validate", param))
  BY AdministratorsMay, DecodedRights DEF dispatch
<1>2. Rightful(scopes, dispatch(q, "state.export", param))
  BY AdministratorsMay DEF dispatch
<1>3. Rightful(scopes, dispatch(q, "state.reset", param))
  BY AdministratorsMay, DecodedRights DEF dispatch
<1>4. Rightful(scopes, dispatch(q, "changes.plan", param))
  BY AdministratorsMay, DecodedRights DEF dispatch
<1>5. Rightful(scopes, dispatch(q, "changes.apply", param))
  BY AdministratorsMay, DecodedRights DEF dispatch
<1> QED
  BY <1>1, <1>2, <1>3, <1>4, <1>5 DEF AdminIds

(* The same of the tools, by name.                                         *)
OpenTools  == {"ntp_version_get", "ntp_capabilities_get", "ntp_schema_get"}
ReadTools  == {"ntp_status_get", "ntp_features_list", "ntp_state_get", "ntp_filters_list",
               "ntp_filters_get", "ntp_views_preview", "ntp_queries_list"}
AuditTools == {"ntp_audit_list", "ntp_audit_get"}
WriteTools == {"ntp_filters_put", "ntp_filters_delete"}
AdminTools == {"ntp_state_validate", "ntp_state_export", "ntp_state_reset", "ntp_change_plan",
               "ntp_change_apply"}

(* A tool of a row is of the kind that the scopes of the row say.          *)
LEMMA ToolKinds ==
  ASSUME NEW i \in DOMAIN catalog, NEW tool \in catalog[i].tools
  PROVE  \/ tool \in OpenTools
         \/ tool \in ReadTools /\ catalog[i].scopes = Read
         \/ tool \in AuditTools /\ catalog[i].scopes = Audit
         \/ tool \in WriteTools /\ catalog[i].scopes = Write
         \/ tool \in AdminTools /\ catalog[i].scopes = Admin
<1> DEFINE kind(k) == \A t \in catalog[k].tools :
                        \/ t \in OpenTools
                        \/ t \in ReadTools /\ catalog[k].scopes = Read
                        \/ t \in AuditTools /\ catalog[k].scopes = Audit
                        \/ t \in WriteTools /\ catalog[k].scopes = Write
                        \/ t \in AdminTools /\ catalog[k].scopes = Admin
<1>1. /\ kind(1) /\ kind(2) /\ kind(3) /\ kind(4) /\ kind(5) /\ kind(6) /\ kind(7) /\ kind(8)
      /\ kind(9) /\ kind(10) /\ kind(11) /\ kind(12) /\ kind(13) /\ kind(14) /\ kind(15)
      /\ kind(16) /\ kind(17) /\ kind(18) /\ kind(19) /\ kind(20) /\ kind(21) /\ kind(22)
      /\ kind(23) /\ kind(24) /\ kind(25)
  BY RowTools, RowScopes DEF OpenTools, ReadTools, AuditTools, WriteTools, AdminTools
<1> HIDE DEF kind
<1>2. kind(i)
  BY <1>1, Positions
<1> QED
  BY <1>2 DEF kind

(* A tool without its argument is refused.                                 *)
LEMMA NamedRights ==
  ASSUME NEW scopes, NEW name, NEW a, Rightful(scopes, a)
  PROVE  Rightful(scopes, Named(name, a))
<1>1. CASE name = ""
  BY <1>1, Refusals DEF Named
<1>2. CASE name # ""
  BY <1>2 DEF Named
<1> QED
  BY <1>1, <1>2

(* Each tool asks only for what its row's scopes allow.                    *)
LEMMA ToolRights ==
  ASSUME NEW q, NEW scopes, NEW i \in DOMAIN catalog, NEW tool \in catalog[i].tools,
         AuthorizeScopes(scopes, catalog[i].scopes)
  PROVE  Rightful(scopes, RunTool(q, tool))
<1>1. CASE tool \in OpenTools
  <2>1. Rightful(scopes, RunTool(q, "ntp_version_get"))
    BY Refusals DEF RunTool
  <2>2. Rightful(scopes, RunTool(q, "ntp_capabilities_get"))
    BY Refusals DEF RunTool
  <2>3. Rightful(scopes, RunTool(q, "ntp_schema_get"))
    BY Refusals DEF RunTool
  <2> QED
    BY <1>1, <2>1, <2>2, <2>3 DEF OpenTools
<1>2. CASE tool \in ReadTools /\ catalog[i].scopes = Read
  <2> AuthorizeScopes(scopes, Read)
    BY <1>2
  <2>1. Rightful(scopes, RunTool(q, "ntp_status_get"))
    BY ReadersMay DEF RunTool
  <2>2. Rightful(scopes, RunTool(q, "ntp_features_list"))
    BY ReadersMay DEF RunTool
  <2>3. Rightful(scopes, RunTool(q, "ntp_state_get"))
    BY ReadersMay DEF RunTool
  <2>4. Rightful(scopes, RunTool(q, "ntp_filters_list"))
    BY ReadersMay DEF RunTool
  <2>5. Rightful(scopes, RunTool(q, "ntp_filters_get"))
    BY ReadersMay, NamedRights DEF RunTool
  <2>6. Rightful(scopes, RunTool(q, "ntp_views_preview"))
    BY ReadersMay DEF RunTool
  <2>7. Rightful(scopes, RunTool(q, "ntp_queries_list"))
    BY ReadersMay DEF RunTool
  <2> QED
    BY <1>2, <2>1, <2>2, <2>3, <2>4, <2>5, <2>6, <2>7 DEF ReadTools
<1>3. CASE tool \in AuditTools /\ catalog[i].scopes = Audit
  <2> AuthorizeScopes(scopes, Audit)
    BY <1>3
  <2>1. Rightful(scopes, RunTool(q, "ntp_audit_list"))
    BY AuditorsMay DEF RunTool
  <2>2. Rightful(scopes, RunTool(q, "ntp_audit_get"))
    BY AuditorsMay, NamedRights DEF RunTool
  <2> QED
    BY <1>3, <2>1, <2>2 DEF AuditTools
<1>4. CASE tool \in WriteTools /\ catalog[i].scopes = Write
  <2> AuthorizeScopes(scopes, Write)
    BY <1>4
  <2>1. Rightful(scopes, RunTool(q, "ntp_filters_put"))
    BY WritersMay, ChangesRead, NamedRights DEF RunTool
  <2>2. Rightful(scopes, RunTool(q, "ntp_filters_delete"))
    BY WritersMay, ChangesRead, NamedRights DEF RunTool
  <2> QED
    BY <1>4, <2>1, <2>2 DEF WriteTools
<1>5. CASE tool \in AdminTools /\ catalog[i].scopes = Admin
  <2> AuthorizeScopes(scopes, Admin)
    BY <1>5
  <2>1. Rightful(scopes, RunTool(q, "ntp_state_validate"))
    BY AdministratorsMay DEF RunTool
  <2>2. Rightful(scopes, RunTool(q, "ntp_state_export"))
    BY AdministratorsMay DEF RunTool
  <2>3. Rightful(scopes, RunTool(q, "ntp_state_reset"))
    BY AdministratorsMay DEF RunTool
  <2>4. Rightful(scopes, RunTool(q, "ntp_change_plan"))
    BY AdministratorsMay DEF RunTool
  <2>5. Rightful(scopes, RunTool(q, "ntp_change_apply"))
    BY AdministratorsMay DEF RunTool
  <2> QED
    BY <1>5, <2>1, <2>2, <2>3, <2>4, <2>5 DEF AdminTools
<1> QED
  BY <1>1, <1>2, <1>3, <1>4, <1>5, ToolKinds

(* And each resource.                                                      *)
LEMMA ResourceRights ==
  ASSUME NEW q, NEW scopes, NEW i \in DOMAIN catalog, NEW uri \in catalog[i].resources,
         AuthorizeScopes(scopes, catalog[i].scopes)
  PROVE  Rightful(scopes, resourceBody(q, uri))
<1> DEFINE open  == {"labntp://capabilities", "labntp://schema/config"}
           read  == {"labntp://status", "labntp://features", "labntp://state", "labntp://filters"}
           audit == {"labntp://audit/recent"}
           kind(k) == \A u \in catalog[k].resources :
                        \/ u \in open
                        \/ u \in read /\ catalog[k].scopes = Read
                        \/ u \in audit /\ catalog[k].scopes = Audit
<1>1. /\ kind(1) /\ kind(2) /\ kind(3) /\ kind(4) /\ kind(5) /\ kind(6) /\ kind(7) /\ kind(8)
      /\ kind(9) /\ kind(10) /\ kind(11) /\ kind(12) /\ kind(13) /\ kind(14) /\ kind(15)
      /\ kind(16) /\ kind(17) /\ kind(18) /\ kind(19) /\ kind(20) /\ kind(21) /\ kind(22)
      /\ kind(23) /\ kind(24) /\ kind(25)
  BY RowResources, RowScopes
<1> HIDE DEF kind
<1>2. kind(i)
  BY <1>1, Positions
<1>3. CASE uri \in open
  <2>1. Rightful(scopes, resourceBody(q, "labntp://capabilities"))
    BY Refusals DEF resourceBody
  <2>2. Rightful(scopes, resourceBody(q, "labntp://schema/config"))
    BY Refusals DEF resourceBody
  <2> QED
    BY <1>3, <2>1, <2>2
<1>4. CASE uri \in read /\ catalog[i].scopes = Read
  <2> AuthorizeScopes(scopes, Read)
    BY <1>4
  <2>1. Rightful(scopes, resourceBody(q, "labntp://status"))
    BY ReadersMay DEF resourceBody
  <2>2. Rightful(scopes, resourceBody(q, "labntp://features"))
    BY ReadersMay DEF resourceBody
  <2>3. Rightful(scopes, resourceBody(q, "labntp://state"))
    BY ReadersMay DEF resourceBody
  <2>4. Rightful(scopes, resourceBody(q, "labntp://filters"))
    BY ReadersMay DEF resourceBody
  <2> QED
    BY <1>4, <2>1, <2>2, <2>3, <2>4
<1>5. CASE uri \in audit /\ catalog[i].scopes = Audit
  <2> AuthorizeScopes(scopes, Audit)
    BY <1>5
  <2>1. Rightful(scopes, resourceBody(q, "labntp://audit/recent"))
    BY AuditorsMay DEF resourceBody
  <2> QED
    BY <1>5, <2>1
<1> QED
  BY <1>2, <1>3, <1>4, <1>5 DEF kind

(* Each handler asks only for what its row's scopes allow.                 *)
LEMMA DispatchRights ==
  ASSUME NEW q, NEW param, NEW scopes, NEW i \in DOMAIN catalog,
         AuthorizeScopes(scopes, catalog[i].scopes)
  PROVE  Rightful(scopes, dispatch(q, catalog[i].id, param))
<1>1. CASE catalog[i].id \in OpenIds
  BY <1>1, OpenHandlers DEF Rightful
<1>2. CASE catalog[i].id \in ReadIds /\ catalog[i].scopes = Read
  BY <1>2, ReadHandlers
<1>3. CASE catalog[i].id \in AuditIds /\ catalog[i].scopes = Audit
  BY <1>3, AuditHandlers
<1>4. CASE catalog[i].id \in WriteIds /\ catalog[i].scopes = Write
  BY <1>4, WriteHandlers
<1>5. CASE catalog[i].id \in AdminIds /\ catalog[i].scopes = Admin
  BY <1>5, AdminHandlers
<1> QED
  BY <1>1, <1>2, <1>3, <1>4, <1>5, RowKinds

(* What a request changes, or what prepares it.                            *)
Changing == {"Apply", "Reset", "Plan", "Validate"}

Reads(a) == a.call \notin Changing

(* These helpers of the handlers only read.                                *)
LEMMA Readers ==
  ASSUME NEW q
  PROVE  /\ \A code : Reads(Refused(code))
         /\ \A name : Reads(AppGetFilter(q, name))
         /\ \A ip : Reads(AppPreview(q, ip))
         /\ \A limit, cursor : Reads(AppListQueries(q, limit, cursor))
         /\ \A limit : Reads(AppQueryAudit(q, limit))
         /\ Reads(AppExport(q))
<1>1. \A code : Reads(Refused(code))
  BY DEF Reads, Refused, NoCall, Changing
<1>2. \A m, args : m \in {"GetFilter", "Preview", "ListQueries", "QueryAudit", "Export"}
                     => Reads(Call(q, m, args))
  BY DEF Reads, Call, Changing
<1>3. ASSUME NEW name PROVE Reads(AppGetFilter(q, name))
  <2>1. CASE name = ""
    BY <2>1, <1>1 DEF AppGetFilter
  <2>2. CASE name # ""
    <3>1. AppGetFilter(q, name) = Call(q, "GetFilter", <<name>>)
      BY <2>2 DEF AppGetFilter
    <3> QED
      BY <3>1, <1>2
  <2> QED
    BY <2>1, <2>2
<1>4. \A ip : Reads(AppPreview(q, ip))
  BY <1>1, <1>2 DEF AppPreview
<1>5. \A limit, cursor : Reads(AppListQueries(q, limit, cursor))
  BY <1>2 DEF AppListQueries
<1>6. \A limit : Reads(AppQueryAudit(q, limit))
  BY <1>2 DEF AppQueryAudit
<1>7. Reads(AppExport(q))
  BY <1>1, <1>2 DEF AppExport
<1> QED
  BY <1>1, <1>3, <1>4, <1>5, <1>6, <1>7

(* A body that does not decode changes nothing.                            *)
LEMMA DecodedReads ==
  ASSUME NEW ok, NEW a, Reads(a)
  PROVE  Reads(Decoded(ok, a))
<1>1. CASE ok
  BY <1>1 DEF Decoded
<1>2. CASE ~ok
  BY <1>2 DEF Decoded, Reads, Refused, NoCall, Changing
<1> QED
  BY <1>1, <1>2

(* A handler that asks for a change stands behind a method that needs the  *)
(* CSRF secret of a cookie.                                                *)
LEMMA ChangesAreUnsafe ==
  ASSUME NEW q, NEW param, NEW i \in DOMAIN catalog,
         ~Reads(dispatch(q, catalog[i].id, param))
  PROVE  UnsafeMethod(catalog[i].method)
<1>1. \A m, args : m \in {"Status", "Features", "GetState", "ListFilters", "GetAudit"}
                     => Reads(Call(q, m, args))
  BY DEF Reads, Call, Changing
<1>2. Reads(dispatch(q, "status.get", param))
  BY <1>1 DEF dispatch
<1>3. Reads(dispatch(q, "features.list", param))
  BY <1>1 DEF dispatch
<1>4. Reads(dispatch(q, "state.get", param))
  BY <1>1 DEF dispatch
<1>5. Reads(dispatch(q, "filters.list", param))
  BY <1>1 DEF dispatch
<1>6. Reads(dispatch(q, "filters.get", param))
  BY Readers DEF dispatch
<1>7. Reads(dispatch(q, "views.preview", param))
  BY Readers DEF dispatch
<1>8. Reads(dispatch(q, "queries.list", param))
  BY Readers, DecodedReads DEF dispatch
<1>9. Reads(dispatch(q, "audit.list", param))
  BY Readers, DecodedReads DEF dispatch
<1>10. Reads(dispatch(q, "audit.get", param))
  BY <1>1 DEF dispatch
<1>11. Reads(dispatch(q, "state.export", param))
  BY Readers DEF dispatch
<1>12. ASSUME NEW id \in OpenIds PROVE Reads(dispatch(q, id, param))
  BY OpenHandlers DEF Reads, Changing, NoCall
<1>13. catalog[i].id \in WriteIds \cup (AdminIds \ {"state.export"})
  BY <1>2, <1>3, <1>4, <1>5, <1>6, <1>7, <1>8, <1>9, <1>10, <1>11, <1>12, RowKinds
     DEF ReadIds, AuditIds, AdminIds
<1> QED
  BY <1>13, RowKinds

----------------------------------------------------------------------------
(* The order of checks.                                                    *)

(* The answer a is of the handler of a row, for a caller who was known and *)
(* had the row's scopes, and the CSRF secret where the method asks for it. *)
HandledBy(q, a, i, param) ==
  /\ Authenticated(q, TRUE) /\ authorizeREST(q, catalog[i])
  /\ a.call = dispatch(q, catalog[i].id, param).call
  /\ a.args = dispatch(q, catalog[i].id, param).args

Handled(q, a) == \E i \in DOMAIN catalog : \E param : HandledBy(q, a, i, param)

(* REST gives no other answers, but for refusals.                          *)
LEMMA RESTServes ==
  ASSUME NEW q, NEW method, NEW path,
         serveREST(q, method, path).call # NoCall
  PROVE  CheckOrigin(q.origin, Allowed) /\ Handled(q, serveREST(q, method, path))
<1> DEFINE hit == IF Head(path) = "v1" THEN matchRoute(method, Tail(path)) ELSE [pathOK |-> FALSE]
<1>1. \A code, paid, seen : At(Refused(code), paid, seen).call = NoCall
  BY DEF At, Refused
<1>2. \A what, paid, seen : At(Direct(what), paid, seen).call = NoCall
  BY DEF At, Direct
<1>3. CheckOrigin(q.origin, Allowed)
  BY <1>1 DEF serveREST
<1>4. /\ hit.pathOK /\ hit.methodOK
      /\ serveREST(q, method, path) = serveRoute(q, CHOOSE row \in hit.caps : TRUE, hit.param)
  BY <1>1, <1>2 DEF serveREST
<1>5. hit = matchRoute(method, Tail(path))
  BY <1>4
<1> HIDE DEF hit
<1>6. PICK i \in DOMAIN catalog : hit.caps = {catalog[i]}
  BY <1>4, <1>5, HitIsRow
<1>7. serveREST(q, method, path) = serveRoute(q, catalog[i], hit.param)
  BY <1>4, <1>6
<1>8. /\ isHealthCap(catalog[i]) \/ Authenticated(q, TRUE)
      /\ authorizeREST(q, catalog[i])
      /\ serveRoute(q, catalog[i], hit.param).call = dispatch(q, catalog[i].id, hit.param).call
      /\ serveRoute(q, catalog[i], hit.param).args = dispatch(q, catalog[i].id, hit.param).args
  BY <1>1, <1>7 DEF serveRoute, At
<1>9. ~isHealthCap(catalog[i])
  BY <1>7, <1>8, OpenHandlers DEF isHealthCap, OpenIds
<1>10. HandledBy(q, serveREST(q, method, path), i, hit.param)
  BY <1>7, <1>8, <1>9 DEF HandledBy
<1> QED
  BY <1>3, <1>10 DEF Handled

(* The answer is what was asked, for a bearer or a loopback client.        *)
Passed(q, handled, a) ==
  /\ Authenticated(q, FALSE)
  /\ a.call = handled.call /\ a.args = handled.args

(* MCP gives no other answers, but for refusals.                           *)
LEMMA MCPServes ==
  ASSUME NEW q, NEW method, NEW handled,
         serveMCP(q, method, handled).call # NoCall
  PROVE  CheckOrigin(q.origin, Allowed) /\ Passed(q, handled, serveMCP(q, method, handled))
<1>1. \A code, paid, seen : At(Refused(code), paid, seen).call = NoCall
  BY DEF At, Refused
<1>2. CheckOrigin(q.origin, Allowed) /\ Authenticated(q, FALSE)
  BY <1>1 DEF serveMCP
<1>3. /\ serveMCP(q, method, handled).call = handled.call
      /\ serveMCP(q, method, handled).args = handled.args
  BY <1>1 DEF serveMCP, At
<1> QED
  BY <1>2, <1>3 DEF Passed

(* What CallsAreAuthorized asks of one answer.                             *)
Entitled(q, way, a) ==
  a.call \notin {NoCall, "unasked"} =>
    /\ q.origin \in {"absent", "loopback"} \cup Allowed
    /\ \/ q.by = "token" /\ MayCall(Granted(q), a.call, a.args)
       \/ /\ q.by \in {"cookie", "forged"} /\ way = "rest"
          /\ MayCall(Granted(q), a.call, a.args)
          /\ q.by = "forged" => a.call \notin {"Apply", "Reset", "Plan", "Validate"}
       \/ /\ q.loopback
          /\ \/ q.by = "nobody"
             \/ q.by \in {"cookie", "forged"} /\ way # "rest"

(* A principal's scopes are those granted.                                 *)
LEMMA ScopesGranted ==
  ASSUME NEW q
  PROVE  expandScopes(q.role, q.scopes).scopes = Granted(q)
<1>1. DefaultScopes("administrator") = allScopes
  BY DEF DefaultScopes
<1> QED
  BY <1>1 DEF expandScopes, Granted

(* Whatever REST is asked, and wherever, it calls App for whom it may.     *)
LEMMA RESTEntitles ==
  ASSUME NEW q, NEW method, NEW path
  PROVE  Entitled(q, "rest", serveREST(q, method, path))
<1> DEFINE a == serveREST(q, method, path)
<1> SUFFICES ASSUME a.call # NoCall
             PROVE  Entitled(q, "rest", a)
  BY DEF Entitled
<1>1. PICK i \in DOMAIN catalog : \E param : HandledBy(q, a, i, param)
  BY RESTServes DEF Handled
<1>2. PICK param : HandledBy(q, a, i, param)
  BY <1>1
<1>3. q.origin \in {"absent", "loopback"} \cup Allowed
  <2>1. CheckOrigin(q.origin, Allowed)
    BY RESTServes
  <2> QED
    BY <2>1 DEF CheckOrigin
<1> HIDE DEF a
<1>4. ASSUME q.by \in {"token", "cookie", "forged"}
      PROVE  MayCall(Granted(q), a.call, a.args)
  <2>1. AuthorizeScopes(Granted(q), catalog[i].scopes)
    BY <1>2, <1>4, ScopesGranted DEF HandledBy, authorizeREST, Scopes
  <2>2. Rightful(Granted(q), dispatch(q, catalog[i].id, param))
    BY <2>1, DispatchRights
  <2> QED
    BY <1>2, <2>2 DEF HandledBy, Rightful
<1>5. ASSUME q.by = "forged"
      PROVE  a.call \notin {"Apply", "Reset", "Plan", "Validate"}
  <2>1. ~UnsafeMethod(catalog[i].method)
    BY <1>2, <1>5 DEF HandledBy, authorizeREST
  <2>2. Reads(dispatch(q, catalog[i].id, param))
    BY <2>1, ChangesAreUnsafe
  <2> QED
    BY <1>2, <2>2 DEF HandledBy, Reads, Changing
<1>6. \/ q.by = "token"
      \/ q.by \in {"cookie", "forged"}
      \/ q.by = "nobody" /\ q.loopback
  BY <1>2 DEF HandledBy, Authenticated
<1> QED
  BY <1>3, <1>4, <1>5, <1>6 DEF Entitled

(* So does MCP, if what it was asked stays within the caller's scopes.     *)
LEMMA MCPEntitles ==
  ASSUME NEW q, NEW way, way # "rest", NEW method, NEW handled,
         Rightful(Scopes(q, FALSE), handled)
  PROVE  Entitled(q, way, serveMCP(q, method, handled))
<1> DEFINE a == serveMCP(q, method, handled)
<1> SUFFICES ASSUME a.call # NoCall
             PROVE  Entitled(q, way, a)
  BY DEF Entitled
<1>1. Passed(q, handled, a)
  BY MCPServes
<1>2. q.origin \in {"absent", "loopback"} \cup Allowed
  <2>1. CheckOrigin(q.origin, Allowed)
    BY MCPServes
  <2> QED
    BY <2>1 DEF CheckOrigin
<1> HIDE DEF a
<1>3. MayCall(Scopes(q, FALSE), a.call, a.args)
  BY <1>1 DEF Passed, Rightful
<1>4. q.by = "token" \/ (q.by \in {"cookie", "forged", "nobody"} /\ q.loopback)
  BY <1>1 DEF Passed, Authenticated
<1>5. q.by = "token" => Scopes(q, FALSE) = Granted(q)
  BY ScopesGranted DEF Scopes
<1> QED
  BY <1>2, <1>3, <1>4, <1>5 DEF Entitled

(* A tool and a resource of a row stay within them: they are looked up     *)
(* again, and found on that row.                                           *)
LEMMA ToolEntitles ==
  ASSUME NEW q, NEW i \in DOMAIN catalog, NEW tool \in catalog[i].tools, NEW method
  PROVE  Entitled(q, "tool", serveMCP(q, method, addTool(q, tool)))
<1>1. CASE inferToolInput(q) /\ ~q.late /\ authorizeTool(q, tool)
  <2>1. addTool(q, tool) = RunTool(q, tool)
    BY <1>1 DEF addTool
  <2>2. AuthorizeScopes(Scopes(q, FALSE), catalog[i].scopes)
    BY <1>1, ToolOfOneRow DEF authorizeTool
  <2>3. Rightful(Scopes(q, FALSE), addTool(q, tool))
    BY <2>1, <2>2, ToolRights
  <2> QED
    BY <2>3, MCPEntitles
<1>2. CASE ~inferToolInput(q) \/ q.late \/ ~authorizeTool(q, tool)
  <2>1. Rightful(Scopes(q, FALSE), addTool(q, tool))
    BY <1>2, Refusals DEF addTool
  <2> QED
    BY <2>1, MCPEntitles
<1> QED
  BY <1>1, <1>2

(* The same of a resource.                                                 *)
LEMMA ResourceEntitles ==
  ASSUME NEW q, NEW i \in DOMAIN catalog, NEW uri \in catalog[i].resources, NEW method
  PROVE  Entitled(q, "resource", serveMCP(q, method, readResource(q, uri)))
<1>1. CASE ~q.late /\ authorizeResource(q, uri)
  <2>1. readResource(q, uri) = resourceBody(q, uri)
    BY <1>1 DEF readResource
  <2>2. AuthorizeScopes(Scopes(q, FALSE), catalog[i].scopes)
    BY <1>1, ResourceOfOneRow DEF authorizeResource
  <2>3. Rightful(Scopes(q, FALSE), readResource(q, uri))
    BY <2>1, <2>2, ResourceRights
  <2> QED
    BY <2>3, MCPEntitles
<1>2. CASE q.late \/ ~authorizeResource(q, uri)
  <2>1. Rightful(Scopes(q, FALSE), readResource(q, uri))
    BY <1>2, Refusals DEF readResource
  <2> QED
    BY <2>1, MCPEntitles
<1> QED
  BY <1>1, <1>2

----------------------------------------------------------------------------
(* What CredentialsCostATurn asks of one answer.                           *)
Gates(way)       == IF way = "rest" THEN {"rest"} ELSE {"rest", "mcp"}
Paid(q, way, a)  == a.verified => Gates(way) \subseteq a.paid \ (q.limited \cup q.full)

(* REST looks at credentials in a route, behind its gate and its limiter.  *)
LEMMA RESTCosts ==
  ASSUME NEW q, NEW method, NEW path
  PROVE  Paid(q, "rest", serveREST(q, method, path))
<1>1. \A o, paid : ~At(o, paid, FALSE).verified
  BY DEF At
<1>2. ASSUME NEW row, NEW param, "rest" \notin q.full
      PROVE  Paid(q, "rest", serveRoute(q, row, param))
  <2>1. CASE isHealthCap(row)
    BY <2>1 DEF serveRoute, At, Paid
  <2>2. CASE ~isHealthCap(row) /\ "rest" \in q.limited
    BY <2>2 DEF serveRoute, At, Paid
  <2>3. CASE ~isHealthCap(row) /\ "rest" \notin q.limited
    <3>1. serveRoute(q, row, param).paid = {"rest"}
      BY <2>3 DEF serveRoute, At
    <3> QED
      BY <1>2, <2>3, <3>1 DEF Paid, Gates
  <2> QED
    BY <2>1, <2>2, <2>3
<1>3. \/ ~serveREST(q, method, path).verified
      \/ /\ "rest" \notin q.full
         /\ \E row, param : serveREST(q, method, path) = serveRoute(q, row, param)
  BY <1>1 DEF serveREST
<1> QED
  BY <1>2, <1>3 DEF Paid

(* MCP looks at them behind both.                                          *)
LEMMA MCPCosts ==
  ASSUME NEW q, NEW way \in {"tool", "resource"}, NEW method, NEW handled
  PROVE  Paid(q, way, serveMCP(q, method, handled))
<1>1. \A o, paid : ~At(o, paid, FALSE).verified
  BY DEF At
<1>2. ASSUME serveMCP(q, method, handled).verified
      PROVE  /\ "rest" \notin q.full /\ "rest" \notin q.limited
             /\ "mcp" \notin q.full /\ "mcp" \notin q.limited
             /\ serveMCP(q, method, handled).paid = {"rest", "mcp"}
  BY <1>1, <1>2 DEF serveMCP, At
<1> QED
  BY <1>2 DEF Paid, Gates

----------------------------------------------------------------------------
(* The inductive invariant: every answer is the one its transport gives to *)
(* this request, by the row the request names.                             *)

AskedVerb(q) == Verb(q, IF HasRow(q) THEN RowOf(q).method ELSE "GET")

AnswerOf(q, way, a) ==
  \/ way = "rest" /\ a = serveREST(q, AskedVerb(q), Path(q))
  \/ /\ way = "tool"
     /\ HasRow(q) /\ \E tool \in RowOf(q).tools :
          a = serveMCP(q, Verb(q, "POST"), addTool(q, tool))
  \/ /\ way = "resource"
     /\ HasRow(q) /\ \E uri \in RowOf(q).resources :
          a = serveMCP(q, Verb(q, "POST"), readResource(q, uri))

Served ==
  /\ request \in Requests
  /\ answer = [way \in Ways |-> answer[way]]
  /\ \A way \in Ways : answer[way] # Unasked => AnswerOf(request, way, answer[way])

(* The row a request names is a row of the table.                          *)
LEMMA RowOfTable ==
  ASSUME NEW q, HasRow(q)
  PROVE  \E i \in DOMAIN catalog : RowOf(q) = catalog[i] /\ catalog[i].id = q.cap
<1>1. RowOf(q) \in All /\ RowOf(q).id = q.cap
  BY DEF HasRow, RowOf
<1> QED
  BY <1>1 DEF All, ToSet

(* Answering one way keeps the others.                                     *)
LEMMA AnswersServe ==
  ASSUME Served, NEW way \in Ways, NEW outcome, AnswerOf(request, way, outcome),
         Answers(way, outcome)
  PROVE  Served'
<1>1. request' = request /\ answer' = [answer EXCEPT ![way] = outcome]
  BY DEF Answers
<1>2. answer' = [w \in Ways |-> IF w = way THEN outcome ELSE answer[w]]
  BY <1>1 DEF Served
<1>3. \A w \in Ways : answer'[w] # Unasked => AnswerOf(request, w, answer'[w])
  BY <1>2 DEF Served
<1>4. answer' = [w \in Ways |-> answer'[w]]
  BY <1>2
<1> QED
  BY <1>1, <1>3, <1>4 DEF Served

(* Each answer is its transport's, whatever was asked before: no way in    *)
(* leaves anything behind for another.                                     *)
THEOREM AnswersAreTheTransports == Spec => []Served
<1>1. Init => Served
  BY DEF Init, Served, Ways
<1>2. Served /\ [Next]_vars => Served'
  <2> SUFFICES ASSUME Served, [Next]_vars
               PROVE  Served'
    OBVIOUS
  <2>1. CASE AskREST
    <3>1. Answers("rest", serveREST(request, AskedVerb(request), Path(request)))
      BY <2>1 DEF AskREST, AskedVerb
    <3> QED
      BY <3>1, AnswersServe DEF AnswerOf, Ways
  <2>2. CASE AskTool
    <3>1. PICK tool \in RowOf(request).tools :
            Answers("tool", serveMCP(request, Verb(request, "POST"), addTool(request, tool)))
      BY <2>2 DEF AskTool
    <3>2. HasRow(request)
      BY <2>2 DEF AskTool
    <3> QED
      BY <3>1, <3>2, AnswersServe DEF AnswerOf, Ways
  <2>3. CASE AskResource
    <3>1. PICK uri \in RowOf(request).resources :
            Answers("resource", serveMCP(request, Verb(request, "POST"), readResource(request, uri)))
      BY <2>3 DEF AskResource
    <3>2. HasRow(request)
      BY <2>3 DEF AskResource
    <3> QED
      BY <3>1, <3>2, AnswersServe DEF AnswerOf, Ways
  <2>4. CASE UNCHANGED vars
    BY <2>4 DEF vars, Served
  <2> QED
    BY <2>1, <2>2, <2>3, <2>4 DEF Next
<1> QED
  BY <1>1, <1>2, PTL DEF Spec

(* Whatever the way in, a request that reaches the App is of a principal   *)
(* who may cause that call, from an allowed origin; a cookie does so only  *)
(* over REST, and without its CSRF secret only to read. In loopback mode   *)
(* what comes without credentials may do anything, and only that.          *)
THEOREM CallsAreAuthorizedAlways == Spec => []CallsAreAuthorized
<1>1. Served => CallsAreAuthorized
  <2> SUFFICES ASSUME Served, NEW way \in Ways
               PROVE  Entitled(request, way, answer[way])
    BY DEF CallsAreAuthorized, Entitled
  <2>1. CASE answer[way] = Unasked
    <3>1. Unasked.call = "unasked"
      BY DEF Unasked
    <3> QED
      BY <2>1, <3>1 DEF Entitled
  <2>2. CASE answer[way] # Unasked
    <3>1. AnswerOf(request, way, answer[way])
      BY <2>2 DEF Served
    <3>2. CASE way = "rest"
      BY <3>1, <3>2, RESTEntitles DEF AnswerOf
    <3>3. CASE way = "tool"
      BY <3>1, <3>3, RowOfTable, ToolEntitles DEF AnswerOf
    <3>4. CASE way = "resource"
      BY <3>1, <3>4, RowOfTable, ResourceEntitles DEF AnswerOf
    <3> QED
      BY <3>2, <3>3, <3>4 DEF Ways
  <2> QED
    BY <2>1, <2>2
<1> QED
  BY <1>1, AnswersAreTheTransports, PTL

(* Nobody gets to try credentials faster than the limiters allow: before   *)
(* they are looked at every limiter on the way was paid and none refused,  *)
(* and every gate on the way had room.                                     *)
THEOREM CredentialsCostATurnAlways == Spec => []CredentialsCostATurn
<1>1. Served => CredentialsCostATurn
  <2> SUFFICES ASSUME Served, NEW way \in Ways
               PROVE  Paid(request, way, answer[way])
    BY DEF CredentialsCostATurn, Paid, Gates
  <2>1. CASE answer[way] = Unasked
    <3>1. ~Unasked.verified
      BY DEF Unasked
    <3> QED
      BY <2>1, <3>1 DEF Paid
  <2>2. CASE answer[way] # Unasked
    <3>1. AnswerOf(request, way, answer[way])
      BY <2>2 DEF Served
    <3>2. CASE way = "rest"
      BY <3>1, <3>2, RESTCosts DEF AnswerOf
    <3>3. CASE way \in {"tool", "resource"}
      BY <3>1, <3>3, MCPCosts DEF AnswerOf
    <3> QED
      BY <3>2, <3>3 DEF Ways
  <2> QED
    BY <2>1, <2>2
<1> QED
  BY <1>1, AnswersAreTheTransports, PTL

----------------------------------------------------------------------------
(* The transports agree.                                                   *)

Nonempty(name)     == name # ""
Filled(name, path) == [k \in DOMAIN path |-> IF path[k] = "{}" THEN name ELSE path[k]]

(* No path begins with a wildcard.                                         *)
LEMMA FirstSegmentsAreNames ==
  ASSUME NEW i \in DOMAIN catalog
  PROVE  catalog[i].path[1] # "{}"
  BY FirstSegments, Positions

(* One position is the first of itself.                                    *)
LEMMA FirstOfOne ==
  ASSUME NEW k \in Nat
  PROVE  First({k}) = {k}
  BY DEF First

(* The places of one or two.                                               *)
LEMMA OneOrTwo ==
  ASSUME NEW n, n = 1 \/ n = 2
  PROVE  1 \in 1 .. n /\ (n = 2 => 2 \in 1 .. n)
<1>1. CASE n = 1
  BY <1>1
<1>2. CASE n = 2
  BY <1>2
<1> QED
  BY <1>1, <1>2

(* A function on one place or two is a sequence, and one may stand before. *)
LEMMA ShortSequences ==
  ASSUME NEW f, NEW n, n = 1 \/ n = 2, f = [k \in 1 .. n |-> f[k]]
  PROVE  Len(f) = n /\ Head(<<"v1">> \o f) = "v1" /\ Tail(<<"v1">> \o f) = f
<1>1. \A S : \A s \in Seq(S) : Tail(<<"v1">> \o s) = s
  OBVIOUS
<1>2. f \in Seq({f[k] : k \in 1 .. n})
  OBVIOUS
<1>3. Tail(<<"v1">> \o f) = f
  BY <1>1, <1>2
<1>4. Len(f) = n /\ Head(<<"v1">> \o f) = "v1"
  OBVIOUS
<1> QED
  BY <1>3, <1>4

(* A row's path with a name filled in, and its method, lead to that row.   *)
LEMMA OwnRoute ==
  ASSUME NEW i \in DOMAIN catalog, NEW name, Nonempty(name)
  PROVE  matchRoute(catalog[i].method, Filled(name, catalog[i].path)) =
           [caps |-> {catalog[i]},
            param |-> Wildcard(catalog[i].path, Filled(name, catalog[i].path)),
            pathOK |-> TRUE, methodOK |-> TRUE]
<1> DEFINE own == Filled(name, catalog[i].path)
           n == Len(catalog[i].path)
           paths == {j \in DOMAIN catalog : matchSegs(catalog[j].path, own)}
           exact == {j \in paths : catalog[j].method = catalog[i].method}
<1>1. (n = 1 \/ n = 2) /\ DOMAIN catalog[i].path = 1 .. n
  BY PathLengths
<1>2. /\ own = [k \in 1 .. n |-> own[k]]
      /\ \A k \in 1 .. n : own[k] = IF catalog[i].path[k] = "{}" THEN name ELSE catalog[i].path[k]
  BY <1>1 DEF Filled
<1>3. Len(own) = n
  BY <1>1, <1>2, ShortSequences
<1>4. matchSegs(catalog[i].path, own)
  BY <1>1, <1>2, <1>3 DEF matchSegs, Nonempty
<1> HIDE DEF own, n
<1>5. own[1] = catalog[i].path[1]
  <2>1. 1 \in 1 .. n
    BY <1>1, OneOrTwo
  <2> QED
    BY <1>2, <2>1, FirstSegmentsAreNames
<1>6. ASSUME n = 2
      PROVE  own[2] = IF catalog[i].path[2] = "{}" THEN name ELSE catalog[i].path[2]
  <2>1. 2 \in 1 .. n
    BY <1>6, OneOrTwo
  <2> QED
    BY <1>2, <2>1
<1>7. ASSUME NEW j \in DOMAIN catalog, matchSegs(catalog[j].path, own),
             catalog[j].method = catalog[i].method
      PROVE  j = i
  <2>1. Len(catalog[j].path) = n /\ DOMAIN catalog[j].path = 1 .. n
    BY <1>3, <1>7, PathLengths DEF matchSegs
  <2>2. \A k \in 1 .. n : IF catalog[j].path[k] = "{}" THEN own[k] # "" ELSE own[k] = catalog[j].path[k]
    BY <1>7, <2>1 DEF matchSegs
  <2>3. catalog[j].path[1] = catalog[i].path[1]
    <3>1. 1 \in 1 .. n
      BY <1>1, OneOrTwo
    <3> QED
      BY <1>5, <2>2, <3>1, FirstSegmentsAreNames
  <2>4. ASSUME n = 2
        PROVE  \/ catalog[i].path[2] = "{}" \/ catalog[j].path[2] = "{}"
               \/ catalog[i].path[2] = catalog[j].path[2]
    <3>1. 2 \in 1 .. n
      BY <2>4, OneOrTwo
    <3> QED
      BY <1>6, <2>2, <2>4, <3>1
  <2> QED
    BY <1>7, <2>1, <2>3, <2>4, RoutesAreDistinct DEF n
<1>8. exact = {i}
  BY <1>4, <1>7
<1>9. First({i}) = {i}
  <2>1. i \in Nat
    BY Positions
  <2> QED
    BY <2>1, FirstOfOne
<1> HIDE DEF exact
<1>10. First(exact) = {i}
  BY <1>8, <1>9
<1>11. (CHOOSE j \in First(exact) : TRUE) = i
  BY <1>10
<1> QED
  BY <1>8, <1>11 DEF matchRoute, own, exact

(* Where the path has a place for a name, the handler is given it.         *)
LEMMA OwnParameter ==
  ASSUME NEW i \in DOMAIN catalog, NEW name, i = 18 \/ i = 19 \/ i = 20 \/ i = 24
  PROVE  Wildcard(catalog[i].path, Filled(name, catalog[i].path)) = name
<1>1. Len(catalog[i].path) = 2 /\ catalog[i].path[2] = "{}"
  BY Lengths, SecondSegments
<1>2. DOMAIN catalog[i].path = 1 .. 2
  BY <1>1, PathLengths
<1> DEFINE path == catalog[i].path
<1>3. path[1] # "{}" /\ path[2] = "{}" /\ DOMAIN path = 1 .. 2
  BY <1>1, <1>2, FirstSegmentsAreNames
<1> HIDE DEF path
<1>4. 1 .. 2 = {1, 2}
  OBVIOUS
<1>5. {k \in DOMAIN path : path[k] = "{}"} = {2}
  BY <1>3, <1>4
<1>6. Filled(name, path)[2] = name
  BY <1>3, <1>4 DEF Filled
<1>7. Wildcard(path, Filled(name, path)) = name
  BY <1>5, <1>6 DEF Wildcard
<1> QED
  BY <1>7 DEF path

(* What a transport answers when the body of the work is o.                *)
Expected(q, i, o) ==
  IF ~CheckOrigin(q.origin, Allowed) THEN Refused("forbidden")
  ELSE IF ~Authenticated(q, FALSE) THEN Refused("unauthenticated")
  ELSE IF ~AuthorizeScopes(Scopes(q, FALSE), catalog[i].scopes) THEN Refused("forbidden")
  ELSE o

(* REST answers so of every row with a tool.                               *)
LEMMA RESTExpected ==
  ASSUME NEW q, NEW i \in DOMAIN catalog, Carried(q), HasRow(q), RowOf(q) = catalog[i],
         ~isHealthCap(catalog[i])
  PROVE  Same(serveREST(q, AskedVerb(q), Path(q)),
              Expected(q, i, dispatch(q, catalog[i].id,
                                      Wildcard(catalog[i].path, Filled(q.name, catalog[i].path)))))
<1> DEFINE own   == Filled(q.name, catalog[i].path)
           param == Wildcard(catalog[i].path, own)
           n     == Len(catalog[i].path)
<1>1. AskedVerb(q) = catalog[i].method /\ Path(q) = <<"v1">> \o own
  BY DEF AskedVerb, Verb, Carried, Path, Filled
<1>2. Head(Path(q)) = "v1" /\ Tail(Path(q)) = own
  <2>1. (n = 1 \/ n = 2) /\ DOMAIN catalog[i].path = 1 .. n
    BY PathLengths
  <2>2. own = [k \in 1 .. n |-> own[k]]
    BY <2>1 DEF Filled
  <2> QED
    BY <1>1, <2>1, <2>2, ShortSequences
<1>3. matchRoute(AskedVerb(q), Tail(Path(q))) =
        [caps |-> {catalog[i]}, param |-> param, pathOK |-> TRUE, methodOK |-> TRUE]
  BY <1>1, <1>2, OwnRoute DEF Carried, Nonempty
<1>4. catalog[i].method # "OPTIONS"
  BY RowMethods, Positions
<1>5. q.full = {} /\ q.limited = {} /\ ~q.late /\ q.by \in {"token", "stranger", "nobody"}
  BY DEF Carried
<1> HIDE DEF own, param
<1>6. serveREST(q, AskedVerb(q), Path(q)) =
        IF ~CheckOrigin(q.origin, Allowed) THEN At(Refused("forbidden"), {}, FALSE)
        ELSE serveRoute(q, catalog[i], param)
  <2> DEFINE hit == matchRoute(AskedVerb(q), Tail(Path(q)))
  <2>1. /\ hit.pathOK /\ hit.methodOK /\ hit.caps = {catalog[i]} /\ hit.param = param
    BY <1>3
  <2>2. AskedVerb(q) # "OPTIONS" /\ "rest" \notin q.full
    BY <1>1, <1>4, <1>5
  <2>3. (CHOOSE row \in {catalog[i]} : TRUE) = catalog[i]
    OBVIOUS
  <2>4. CASE ~CheckOrigin(q.origin, Allowed)
    BY <2>4 DEF serveREST
  <2>5. CASE CheckOrigin(q.origin, Allowed)
    <3>1. serveREST(q, AskedVerb(q), Path(q)) = serveRoute(q, CHOOSE row \in hit.caps : TRUE, hit.param)
      BY <1>2, <2>1, <2>2, <2>5 DEF serveREST
    <3> QED
      BY <2>1, <2>3, <2>5, <3>1
  <2> QED
    BY <2>4, <2>5
<1>7. /\ Authenticated(q, TRUE) <=> Authenticated(q, FALSE)
      /\ authorizeREST(q, catalog[i]) <=> AuthorizeScopes(Scopes(q, FALSE), catalog[i].scopes)
  BY <1>5 DEF Authenticated, authorizeREST, Scopes
<1>8. \A o, paid, seen : Same(At(o, paid, seen), o)
  BY DEF Same, At
<1>9. serveRoute(q, catalog[i], param) =
        IF ~Authenticated(q, FALSE) THEN At(Refused("unauthenticated"), {"rest"}, TRUE)
        ELSE IF ~AuthorizeScopes(Scopes(q, FALSE), catalog[i].scopes)
             THEN At(Refused("forbidden"), {"rest"}, TRUE)
        ELSE At(dispatch(q, catalog[i].id, param), {"rest"}, TRUE)
  BY <1>5, <1>7 DEF serveRoute
<1> QED
  BY <1>6, <1>8, <1>9 DEF Expected, own, param

Checked(q, i, o) ==
  IF AuthorizeScopes(Scopes(q, FALSE), catalog[i].scopes) THEN o ELSE Refused("forbidden")

(* So does MCP, of what its handler does when it asks for those scopes.    *)
LEMMA MCPExpected ==
  ASSUME NEW q, NEW i, Carried(q), NEW o
  PROVE  Same(serveMCP(q, Verb(q, "POST"), Checked(q, i, o)), Expected(q, i, o))
<1>1. \A r, paid, seen : Same(At(r, paid, seen), r)
  BY DEF Same, At
<1>2. /\ q.full = {} /\ q.limited = {} /\ ~q.closed /\ q.version = "pinned"
      /\ Verb(q, "POST") = "POST"
  BY DEF Carried, Verb
<1>3. \A handled : serveMCP(q, Verb(q, "POST"), handled) =
        IF ~CheckOrigin(q.origin, Allowed) THEN At(Refused("forbidden"), {}, FALSE)
        ELSE IF ~Authenticated(q, FALSE) THEN At(Refused("unauthenticated"), {"rest", "mcp"}, TRUE)
        ELSE At(handled, {"rest", "mcp"}, TRUE)
  BY <1>2 DEF serveMCP
<1>4. CASE ~CheckOrigin(q.origin, Allowed) \/ ~Authenticated(q, FALSE)
  <2>1. CASE ~CheckOrigin(q.origin, Allowed)
    BY <1>1, <1>3, <2>1 DEF Expected
  <2>2. CASE CheckOrigin(q.origin, Allowed) /\ ~Authenticated(q, FALSE)
    BY <1>1, <1>3, <2>2 DEF Expected
  <2> QED
    BY <1>4, <2>1, <2>2
<1>5. CASE /\ CheckOrigin(q.origin, Allowed) /\ Authenticated(q, FALSE)
           /\ ~AuthorizeScopes(Scopes(q, FALSE), catalog[i].scopes)
  <2>1. Expected(q, i, o) = Refused("forbidden")
    BY <1>5 DEF Expected
  <2> QED
    BY <1>1, <1>3, <1>5, <2>1 DEF Checked
<1>6. CASE /\ CheckOrigin(q.origin, Allowed) /\ Authenticated(q, FALSE)
           /\ AuthorizeScopes(Scopes(q, FALSE), catalog[i].scopes)
  <2>1. Expected(q, i, o) = o
    BY <1>6 DEF Expected
  <2> QED
    BY <1>1, <1>3, <1>6, <2>1 DEF Checked
<1> QED
  BY <1>4, <1>5, <1>6

(* A request both can carry is one JSON value with a name.                 *)
LEMMA Whole ==
  ASSUME NEW q, Carried(q)
  PROVE  /\ decodeJSON(q) <=> Typed(Received(q))
         /\ decodeJSONOptional(q) <=> Typed(Received(q))
         /\ \A a : Named(q.name, a) = a
         /\ \A v : InBody(q, v) = v
<1>1. q.ctype = "json" /\ q.body = "object"
  BY DEF Carried
<1>2. \A a : Named(q.name, a) = a
  BY DEF Carried, Named
<1>3. (decodeJSON(q) <=> Typed(Received(q))) /\ (decodeJSONOptional(q) <=> Typed(Received(q)))
  BY <1>1 DEF decodeJSON, decodeJSONOptional
<1> QED
  BY <1>1, <1>2, <1>3 DEF InBody

(* What the coercion lets through has the value it had on the wire.        *)
LEMMA CoercionKeepsValues ==
  ASSUME NEW w
  PROVE  /\ CoerceDuration(w).form \in {"omitted", "null", "number"}
              => w.form \in {"omitted", "null", "text"} /\ CoerceDuration(w).value = w.value
         /\ w.form \in {"omitted", "null", "text"}
              => CoerceDuration(w).form \in {"omitted", "null", "number"}
         /\ CoerceByteSize(w).form \in {"omitted", "null", "number"}
              => CoerceByteSize(w).value = w.value
         /\ w.form \in {"omitted", "null", "text", "number"} /\ w.value >= 0
              => CoerceByteSize(w).form \in {"omitted", "null", "number"}
<1>1. CASE w.form \in {"omitted", "null"}
  BY <1>1 DEF CoerceDuration, CoerceByteSize
<1>2. CASE w.form = "text"
  BY <1>2 DEF CoerceDuration, CoerceByteSize, Number, Junk, Wire
<1>3. CASE w.form \notin {"omitted", "null", "text"}
  <2>1. CoerceDuration(w) = Junk
    BY <1>3 DEF CoerceDuration
  <2>2. CASE w.form = "number" /\ w.value >= 0
    BY <2>1, <2>2 DEF CoerceByteSize, Number, Junk, Wire
  <2>3. CASE ~(w.form = "number" /\ w.value >= 0)
    <3>1. CoerceByteSize(w) = Junk
      BY <1>3, <2>3 DEF CoerceByteSize
    <3> QED
      BY <1>3, <2>1, <2>3, <3>1 DEF Junk, Wire
  <2> QED
    BY <2>2, <2>3
<1> QED
  BY <1>1, <1>2, <1>3

(* A body REST decodes has the values of the tool's arguments; one spelled *)
(* as REST wants it decodes.                                               *)
LEMMA BodiesAgree ==
  ASSUME NEW q, Carried(q)
  PROVE  /\ Typed(Received(q)) => Values(Received(q)) = Values(q.wire.tool)
         /\ ~Typed(Received(q)) => Parted(q)
<1> DEFINE sent == q.wire.rest
<1>1. /\ Received(q).offset = CoerceDuration(sent.offset)
      /\ Received(q).bodyLimit = CoerceByteSize(sent.bodyLimit)
      /\ Received(q).stated = CoerceDuration(sent.stated)
      /\ DOMAIN Received(q) = {"offset", "bodyLimit", "stated"}
  BY DEF Received, CoerceWireTree
<1>2. Typed(Received(q)) <=>
        /\ CoerceDuration(sent.offset).form \in {"omitted", "null", "number"}
        /\ CoerceByteSize(sent.bodyLimit).form \in {"omitted", "null", "number"}
        /\ CoerceDuration(sent.stated).form \in {"omitted", "null", "number"}
  BY <1>1 DEF Typed
<1>3. sent.offset.value = q.wire.tool.offset.value /\ sent.bodyLimit.value = q.wire.tool.bodyLimit.value
  BY DEF Carried
<1>4. ASSUME Typed(Received(q)) PROVE Values(Received(q)) = Values(q.wire.tool)
  <2>1. /\ CoerceDuration(sent.offset).value = sent.offset.value
        /\ CoerceByteSize(sent.bodyLimit).value = sent.bodyLimit.value
    BY <1>2, <1>4, CoercionKeepsValues
  <2> QED
    BY <1>1, <1>3, <2>1 DEF Values
<1>5. ASSUME AsREST(sent) PROVE Typed(Received(q))
  BY <1>2, <1>5, CoercionKeepsValues DEF AsREST
<1> QED
  BY <1>4, <1>5 DEF Parted

(* Its change is read alike: no header has what the body leaves out.       *)
LEMMA ChangesCarried ==
  ASSUME NEW q, Carried(q)
  PROVE  readChange(q) = toChange(q)
<1>1. q.ifMatch = "" /\ q.revHeader = "" /\ q.keyHeader = ""
  BY DEF Carried
<1>2. \A body : expectedRevision(q, body) = body
  BY <1>1 DEF expectedRevision
<1>3. \A body : idempotencyKey(q, body) = body
  BY <1>1 DEF idempotencyKey
<1>4. InBody(q, q.rev) = q.rev /\ InBody(q, q.key) = q.key /\ InBody(q, q.reason) = q.reason
  BY Whole
<1> QED
  BY <1>2, <1>3, <1>4 DEF readChange, toChange

(* A handler and a tool that are of one row.                               *)
Agreed(q, a, b) == a = b \/ (Parted(q) /\ NoCall \in {a.call, b.call})
Paired(q, tool, id, param) == q.cap = id => Agreed(q, RunTool(q, tool), dispatch(q, id, param))

(* A handler that first decodes a body agrees with a tool, if what it does *)
(* then agrees.                                                            *)
LEMMA DecodedAgree ==
  ASSUME NEW q, Carried(q), NEW ok \in {decodeJSON(q), decodeJSONOptional(q)}, NEW a, NEW b,
         Typed(Received(q)) => Agreed(q, a, b)
  PROVE  Agreed(q, a, Decoded(ok, b))
<1>1. ok <=> Typed(Received(q))
  BY Whole
<1>2. CASE Typed(Received(q))
  BY <1>1, <1>2 DEF Decoded
<1>3. CASE ~Typed(Received(q))
  <2>1. Decoded(ok, b).call = NoCall
    BY <1>1, <1>3 DEF Decoded, Refused
  <2> QED
    BY <1>3, <2>1, BodiesAgree DEF Agreed
<1> QED
  BY <1>2, <1>3

(* Those that ask for nothing but a scope.                                 *)
LEMMA PlainPairs ==
  ASSUME NEW q, NEW param
  PROVE  /\ Paired(q, "ntp_version_get", "version.get", param)
         /\ Paired(q, "ntp_capabilities_get", "capabilities.get", param)
         /\ Paired(q, "ntp_schema_get", "schema.get", param)
         /\ Paired(q, "ntp_status_get", "status.get", param)
         /\ Paired(q, "ntp_features_list", "features.list", param)
         /\ Paired(q, "ntp_state_get", "state.get", param)
         /\ Paired(q, "ntp_state_export", "state.export", param)
         /\ Paired(q, "ntp_filters_list", "filters.list", param)
<1>1. Paired(q, "ntp_version_get", "version.get", param)
  BY DEF Paired, Agreed, RunTool, dispatch
<1>2. Paired(q, "ntp_capabilities_get", "capabilities.get", param)
  BY DEF Paired, Agreed, RunTool, dispatch
<1>3. Paired(q, "ntp_schema_get", "schema.get", param)
  BY DEF Paired, Agreed, RunTool, dispatch
<1>4. Paired(q, "ntp_status_get", "status.get", param)
  BY DEF Paired, Agreed, RunTool, dispatch
<1>5. Paired(q, "ntp_features_list", "features.list", param)
  BY DEF Paired, Agreed, RunTool, dispatch
<1>6. Paired(q, "ntp_state_get", "state.get", param)
  BY DEF Paired, Agreed, RunTool, dispatch
<1>7. Paired(q, "ntp_state_export", "state.export", param)
  BY DEF Paired, Agreed, RunTool, dispatch
<1>8. Paired(q, "ntp_filters_list", "filters.list", param)
  BY DEF Paired, Agreed, RunTool, dispatch
<1> QED
  BY <1>1, <1>2, <1>3, <1>4, <1>5, <1>6, <1>7, <1>8

(* An inline state is read alike, or one of them refuses it: REST has made *)
(* numbers of its durations by then, and a state has none.                 *)
LEMMA StatesAgree ==
  ASSUME NEW q, Carried(q), Typed(Received(q))
  PROVE  Agreed(q, AppValidate(q, q.wire.tool), AppValidate(q, Received(q)))
<1> DEFINE sent  == q.wire.rest.stated
           given == q.wire.tool.stated
<1>1. Received(q).stated = CoerceDuration(sent)
  BY DEF Received, CoerceWireTree
<1>2. CoerceDuration(sent).form \in {"omitted", "null", "number"}
  <2>1. "stated" \in DOMAIN Received(q)
    BY DEF Received, CoerceWireTree
  <2> QED
    BY <1>1, <2>1 DEF Typed
<1>3. sent.form \in {"omitted", "null", "text"} /\ sent.value = given.value
  BY <1>2, CoercionKeepsValues DEF Carried
<1>4. Refused("validation_failed").call = NoCall
  BY DEF Refused
<1> HIDE DEF sent, given
<1>5. CASE sent.form = "text"
  <2>1. CoerceDuration(CoerceDuration(sent)) = Junk
    BY <1>5 DEF CoerceDuration, Number, Wire
  <2>2. AppValidate(q, Received(q)) = Refused("validation_failed")
    BY <1>1, <2>1 DEF AppValidate
  <2>3. Parted(q)
    BY <1>5 DEF Parted, AsREST, sent
  <2> QED
    BY <1>4, <2>2, <2>3 DEF Agreed
<1>6. CASE sent.form \in {"omitted", "null"} /\ CoerceDuration(given) = Junk
  <2>1. AppValidate(q, q.wire.tool) = Refused("validation_failed")
    BY <1>6 DEF AppValidate, given
  <2>2. given.form \notin {"omitted", "null", "text"}
    BY <1>6 DEF CoerceDuration, Number, Junk, Wire
  <2>3. Parted(q)
    BY <2>2 DEF Parted, AsTool, given
  <2> QED
    BY <1>4, <2>1, <2>3 DEF Agreed
<1>7. CASE sent.form \in {"omitted", "null"} /\ CoerceDuration(given) # Junk
  <2>1. CoerceDuration(CoerceDuration(sent)) = sent /\ sent # Junk
    BY <1>7 DEF CoerceDuration, Junk, Wire
  <2>2. CoerceDuration(given).value = given.value
    BY <1>7 DEF CoerceDuration, Number, Wire
  <2>3. Values(Received(q)) = Values(q.wire.tool)
    BY BodiesAgree
  <2>4. CASE q.state = "malformed"
    BY <2>4 DEF AppValidate, Agreed
  <2>5. CASE q.state # "malformed"
    <3>1. AppValidate(q, Received(q)) = Call(q, "Validate", <<q.state, sent.value, q.ops, Values(Received(q))>>)
      BY <1>1, <2>1, <2>5 DEF AppValidate
    <3>2. AppValidate(q, q.wire.tool) =
            Call(q, "Validate", <<q.state, CoerceDuration(given).value, q.ops, Values(q.wire.tool)>>)
      BY <1>7, <2>5 DEF AppValidate, given
    <3> QED
      BY <1>3, <2>2, <2>3, <3>1, <3>2 DEF Agreed
  <2> QED
    BY <2>4, <2>5
<1> QED
  BY <1>3, <1>5, <1>6, <1>7

(* Those that read a body.                                                 *)
LEMMA BodyPairs ==
  ASSUME NEW q, NEW param, Carried(q)
  PROVE  /\ Paired(q, "ntp_state_validate", "state.validate", param)
         /\ Paired(q, "ntp_state_reset", "state.reset", param)
         /\ Paired(q, "ntp_change_plan", "changes.plan", param)
         /\ Paired(q, "ntp_change_apply", "changes.apply", param)
<1> DEFINE values == Values(q.wire.tool)
<1>1. Paired(q, "ntp_state_validate", "state.validate", param)
  <2>1. RunTool(q, "ntp_state_validate") = AppValidate(q, q.wire.tool)
    BY DEF RunTool
  <2>2. dispatch(q, "state.validate", param) = Decoded(decodeJSON(q), AppValidate(q, Received(q)))
    BY DEF dispatch
  <2> QED
    BY <2>1, <2>2, StatesAgree, DecodedAgree DEF Paired
<1>2. Paired(q, "ntp_state_reset", "state.reset", param)
  <2>1. RunTool(q, "ntp_state_reset") = Call(q, "Reset", <<q.reason>>)
    BY DEF RunTool
  <2>2. dispatch(q, "state.reset", param) = Decoded(decodeJSONOptional(q), Call(q, "Reset", <<q.reason>>))
    BY Whole DEF dispatch
  <2>3. Agreed(q, Call(q, "Reset", <<q.reason>>), Call(q, "Reset", <<q.reason>>))
    BY DEF Agreed
  <2> QED
    BY <2>1, <2>2, <2>3, DecodedAgree DEF Paired
<1>3. Paired(q, "ntp_change_plan", "changes.plan", param)
  <2>1. RunTool(q, "ntp_change_plan") = Call(q, "Plan", Change(toChange(q), q.ops, values))
    BY DEF RunTool
  <2>2. dispatch(q, "changes.plan", param) =
          Decoded(decodeJSON(q), Call(q, "Plan", Change(toChange(q), q.ops, Values(Received(q)))))
    BY ChangesCarried DEF dispatch
  <2>3. Typed(Received(q)) =>
          Agreed(q, Call(q, "Plan", Change(toChange(q), q.ops, values)),
                 Call(q, "Plan", Change(toChange(q), q.ops, Values(Received(q)))))
    BY BodiesAgree DEF Agreed
  <2> QED
    BY <2>1, <2>2, <2>3, DecodedAgree DEF Paired
<1>4. Paired(q, "ntp_change_apply", "changes.apply", param)
  <2>1. RunTool(q, "ntp_change_apply") = Apply(q, toChange(q), q.ops, values)
    BY DEF RunTool
  <2>2. dispatch(q, "changes.apply", param) =
          Decoded(decodeJSON(q), Apply(q, toChange(q), q.ops, Values(Received(q))))
    BY ChangesCarried DEF dispatch
  <2>3. Typed(Received(q)) => Agreed(q, Apply(q, toChange(q), q.ops, values),
                                     Apply(q, toChange(q), q.ops, Values(Received(q))))
    BY BodiesAgree DEF Agreed
  <2> QED
    BY <2>1, <2>2, <2>3, DecodedAgree DEF Paired
<1> QED
  BY <1>1, <1>2, <1>3, <1>4

(* Those that take a name: REST's is of the path.                          *)
LEMMA NamePairs ==
  ASSUME NEW q, Carried(q)
  PROVE  /\ Paired(q, "ntp_filters_get", "filters.get", q.name)
         /\ Paired(q, "ntp_filters_put", "filters.put", q.name)
         /\ Paired(q, "ntp_filters_delete", "filters.delete", q.name)
         /\ Paired(q, "ntp_audit_get", "audit.get", q.name)
<1>1. Paired(q, "ntp_filters_get", "filters.get", q.name)
  BY Whole DEF Paired, Agreed, RunTool, dispatch
<1>2. Paired(q, "ntp_filters_delete", "filters.delete", q.name)
  <2>1. RunTool(q, "ntp_filters_delete") = AppDeleteFilter(q, toChange(q), q.name)
    BY Whole DEF RunTool
  <2>2. dispatch(q, "filters.delete", q.name) =
          Decoded(decodeJSONOptional(q), AppDeleteFilter(q, toChange(q), q.name))
    BY ChangesCarried DEF dispatch
  <2>3. Agreed(q, AppDeleteFilter(q, toChange(q), q.name), AppDeleteFilter(q, toChange(q), q.name))
    BY DEF Agreed
  <2> QED
    BY <2>1, <2>2, <2>3, DecodedAgree DEF Paired
<1>3. Paired(q, "ntp_audit_get", "audit.get", q.name)
  BY Whole DEF Paired, Agreed, RunTool, dispatch
<1>4. Paired(q, "ntp_filters_put", "filters.put", q.name)
  <2> SUFFICES ASSUME q.cap = "filters.put"
               PROVE  Agreed(q, RunTool(q, "ntp_filters_put"), dispatch(q, "filters.put", q.name))
    BY DEF Paired
  <2> DEFINE filter == IF q.filter \in {NoFilter, ""} THEN q.name ELSE q.filter
             values == Values(q.wire.tool)
  <2>1. RunTool(q, "ntp_filters_put") = AppPutFilter(q, toChange(q), filter, values)
    BY Whole DEF RunTool
  <2>2. dispatch(q, "filters.put", q.name) = Decoded(decodeJSON(q), handleFiltersPut(q, q.name))
    BY DEF dispatch
  <2>3. ASSUME Typed(Received(q))
        PROVE  Agreed(q, AppPutFilter(q, toChange(q), filter, values), handleFiltersPut(q, q.name))
    <3>1. CASE filter = q.name
      <4>1. handleFiltersPut(q, q.name) = AppPutFilter(q, readChange(q), filter, Values(Received(q)))
        BY <3>1 DEF handleFiltersPut
      <4> QED
        BY <2>3, <4>1, BodiesAgree, ChangesCarried DEF Agreed
    <3>2. CASE filter # q.name
      <4>1. handleFiltersPut(q, q.name) = Refused("validation_failed")
        BY <3>2 DEF handleFiltersPut, Carried
      <4>2. Parted(q)
        BY <3>2 DEF Parted
      <4> QED
        BY <4>1, <4>2 DEF Agreed, Refused
    <3> QED
      BY <3>1, <3>2
  <2> QED
    BY <2>1, <2>2, <2>3, DecodedAgree
<1> QED
  BY <1>1, <1>2, <1>3, <1>4

(* And those where the two look at an argument differently.                *)
LEMMA ArgumentPairs ==
  ASSUME NEW q, NEW param, q.limit \in Int
  PROVE  /\ Paired(q, "ntp_views_preview", "views.preview", param)
         /\ Paired(q, "ntp_queries_list", "queries.list", param)
         /\ Paired(q, "ntp_audit_list", "audit.list", param)
<1>1. Paired(q, "ntp_views_preview", "views.preview", param)
  <2> SUFFICES ASSUME q.cap = "views.preview"
               PROVE  Agreed(q, RunTool(q, "ntp_views_preview"), dispatch(q, "views.preview", param))
    BY DEF Paired
  <2>1. CASE Spaced(q.ip)
    <3>1. ~Address(q.ip)
      BY <2>1 DEF Spaced, Address
    <3>2. RunTool(q, "ntp_views_preview") = Refused("validation_failed")
      BY <3>1 DEF RunTool, AppPreview
    <3> QED
      BY <2>1, <3>2 DEF Agreed, Parted, Refused
  <2>2. CASE ~Spaced(q.ip)
    <3>1. RunTool(q, "ntp_views_preview") = AppPreview(q, q.ip)
      BY DEF RunTool
    <3>2. dispatch(q, "views.preview", param) = AppPreview(q, q.ip)
      BY <2>2 DEF dispatch
    <3> QED
      BY <3>1, <3>2 DEF Agreed
  <2> QED
    BY <2>1, <2>2
<1>2. ASSUME q.cap \in {"queries.list", "audit.list"}, ~(q.limit >= 0), NEW a, NEW b
      PROVE  Agreed(q, a, Decoded(q.limit >= 0, b))
  <2>1. Parted(q)
    <3>1. q.limit < 0
      BY <1>2
    <3> QED
      BY <1>2, <3>1 DEF Parted
  <2>2. Refused("validation_failed").call = NoCall
    BY DEF Refused
  <2>3. Decoded(q.limit >= 0, b) = Refused("validation_failed")
    BY <1>2 DEF Decoded
  <2> QED
    BY <2>1, <2>2, <2>3 DEF Agreed
<1>3. Paired(q, "ntp_queries_list", "queries.list", param)
  BY <1>2 DEF Paired, Agreed, RunTool, dispatch, Decoded
<1>4. Paired(q, "ntp_audit_list", "audit.list", param)
  BY <1>2 DEF Paired, Agreed, RunTool, dispatch, Decoded
<1> QED
  BY <1>1, <1>3, <1>4

(* The name a row's handler is given, if the request is for its own path.  *)
Param(q, i) == Wildcard(catalog[i].path, Filled(q.name, catalog[i].path))

(* A tool does what the handler of its row does, or one of them refuses.   *)
LEMMA ToolsAgree ==
  ASSUME NEW q, Carried(q), q.limit \in Int,
         NEW i \in DOMAIN catalog, q.cap = catalog[i].id, NEW tool \in catalog[i].tools
  PROVE  Agreed(q, RunTool(q, tool), dispatch(q, catalog[i].id, Param(q, i)))
<1> DEFINE kind(k) == \A t \in catalog[k].tools : Paired(q, t, catalog[k].id, Param(q, k))
<1>1. kind(1) /\ kind(2) /\ kind(14) /\ kind(15) /\ kind(16) /\ kind(25)
  BY RowTools
<1>2. kind(3) /\ kind(4) /\ kind(5) /\ kind(6) /\ kind(7) /\ kind(8) /\ kind(10) /\ kind(17)
  BY RowTools, Ids, PlainPairs
<1>3. kind(9) /\ kind(11) /\ kind(12) /\ kind(13)
  BY RowTools, Ids, BodyPairs
<1>4. kind(18) /\ kind(19) /\ kind(20) /\ kind(24)
  <2>1. /\ Param(q, 18) = q.name /\ Param(q, 19) = q.name /\ Param(q, 20) = q.name
        /\ Param(q, 24) = q.name
    BY OwnParameter, Positions DEF Param
  <2> QED
    BY <2>1, RowTools, Ids, NamePairs
<1>5. kind(21) /\ kind(22) /\ kind(23)
  BY RowTools, Ids, ArgumentPairs
<1> HIDE DEF kind
<1>6. kind(i)
  BY <1>1, <1>2, <1>3, <1>4, <1>5, Positions
<1> QED
  BY <1>6 DEF kind, Paired

(* And a resource, which takes no arguments.                               *)
LEMMA ResourcesAgree ==
  ASSUME NEW q, q.limit = 0,
         NEW i \in DOMAIN catalog, NEW uri \in catalog[i].resources, NEW param
  PROVE  resourceBody(q, uri) = dispatch(q, catalog[i].id, param)
<1> DEFINE held(u, id) == resourceBody(q, u) = dispatch(q, id, param)
           kind(k) == \A u \in catalog[k].resources : held(u, catalog[k].id)
<1>1. held("labntp://capabilities", "capabilities.get")
  BY DEF resourceBody, dispatch
<1>2. held("labntp://schema/config", "schema.get")
  BY DEF resourceBody, dispatch
<1>3. held("labntp://status", "status.get")
  BY DEF resourceBody, dispatch
<1>4. held("labntp://features", "features.list")
  BY DEF resourceBody, dispatch
<1>5. held("labntp://state", "state.get")
  BY DEF resourceBody, dispatch
<1>6. held("labntp://filters", "filters.list")
  BY DEF resourceBody, dispatch
<1>7. held("labntp://audit/recent", "audit.list")
  <2>1. q.limit >= 0
    OBVIOUS
  <2> QED
    BY <2>1 DEF resourceBody, dispatch, Decoded
<1> HIDE DEF held
<1>8. /\ kind(1) /\ kind(2) /\ kind(3) /\ kind(4) /\ kind(5) /\ kind(6) /\ kind(7) /\ kind(8)
      /\ kind(9) /\ kind(10) /\ kind(11) /\ kind(12) /\ kind(13) /\ kind(14) /\ kind(15)
      /\ kind(16) /\ kind(17) /\ kind(18) /\ kind(19) /\ kind(20) /\ kind(21) /\ kind(22)
      /\ kind(23) /\ kind(24) /\ kind(25)
  BY <1>1, <1>2, <1>3, <1>4, <1>5, <1>6, <1>7, RowResources, Ids
<1> HIDE DEF kind
<1>9. kind(i)
  BY <1>8, Positions
<1> QED
  BY <1>9 DEF kind, held

(* The probes have neither.                                                *)
LEMMA ProbesAreREST ==
  ASSUME NEW i \in DOMAIN catalog, isHealthCap(catalog[i])
  PROVE  catalog[i].tools = {} /\ catalog[i].resources = {}
<1> DEFINE kind(k) == isHealthCap(catalog[k]) => catalog[k].tools = {} /\ catalog[k].resources = {}
<1>1. kind(1) /\ kind(2)
  BY RowTools, RowResources
<1>2. /\ kind(3) /\ kind(4) /\ kind(5) /\ kind(6) /\ kind(7) /\ kind(8) /\ kind(9) /\ kind(10)
      /\ kind(11) /\ kind(12) /\ kind(13) /\ kind(14) /\ kind(15) /\ kind(16) /\ kind(17)
      /\ kind(18) /\ kind(19) /\ kind(20) /\ kind(21) /\ kind(22) /\ kind(23) /\ kind(24)
      /\ kind(25)
  BY Ids DEF isHealthCap
<1> HIDE DEF kind
<1>3. kind(i)
  BY <1>1, <1>2, Positions
<1> QED
  BY <1>3 DEF kind

(* What the schema refuses calls nothing, and is spelled otherwise than    *)
(* the tools want it.                                                      *)
LEMMA SchemaRefuses ==
  ASSUME NEW q, NEW tool, NEW method, ~inferToolInput(q)
  PROVE  serveMCP(q, method, addTool(q, tool)).call = NoCall /\ Parted(q)
<1>1. addTool(q, tool).call = NoCall
  BY DEF addTool, Refused
<1>2. serveMCP(q, method, addTool(q, tool)).call = NoCall
  BY <1>1, MCPServes DEF Passed
<1>3. Parted(q)
  BY DEF inferToolInput, Parted, AsTool
<1> QED
  BY <1>2, <1>3

(* An adapter adds nothing: the same request, put over REST, as a tool and *)
(* as a resource (which takes no arguments), becomes the same App call     *)
(* with the same arguments, or the same refusal. Where the transports are  *)
(* known to part one of them refuses: what both take they read alike, the  *)
(* string of one and the nanoseconds of the other included.                *)
THEOREM TransportsAgreeAlways == Spec => []TransportsAgree
<1>1. Served => TransportsAgree
  <2> DEFINE q == request
             rest == answer["rest"]
             tool == answer["tool"]
             resource == answer["resource"]
  <2> SUFFICES ASSUME Served, Carried(q)
               PROVE  /\ rest # Unasked /\ tool # Unasked
                           => Same(rest, tool) \/ (Parted(q) /\ NoCall \in {rest.call, tool.call})
                      /\ rest # Unasked /\ resource # Unasked /\ q.limit = 0 => Same(rest, resource)
    BY DEF TransportsAgree
  <2>1. q.limit \in Int
    BY LimitsAreIntegers DEF Served
  <2>2. /\ rest # Unasked => AnswerOf(q, "rest", rest)
        /\ tool # Unasked => AnswerOf(q, "tool", tool)
        /\ resource # Unasked => AnswerOf(q, "resource", resource)
    BY DEF Served, Ways
  <2> HIDE DEF q, rest, tool, resource
  <2>3. \A a, b, c : Same(a, c) /\ Same(b, c) => Same(a, b)
    BY DEF Same
  <2>4. ASSUME rest # Unasked, tool # Unasked
        PROVE  Same(rest, tool) \/ (Parted(q) /\ NoCall \in {rest.call, tool.call})
    <3>1. HasRow(q) /\ \E t \in RowOf(q).tools :
            tool = serveMCP(q, Verb(q, "POST"), addTool(q, t))
      BY <2>2, <2>4 DEF AnswerOf
    <3>2. PICK i \in DOMAIN catalog : RowOf(q) = catalog[i] /\ catalog[i].id = q.cap
      BY <3>1, RowOfTable
    <3>3. PICK t \in catalog[i].tools : tool = serveMCP(q, Verb(q, "POST"), addTool(q, t))
      BY <3>1, <3>2
    <3>4. rest = serveREST(q, AskedVerb(q), Path(q))
      BY <2>2, <2>4 DEF AnswerOf
    <3>5. Same(rest, Expected(q, i, dispatch(q, catalog[i].id, Param(q, i))))
      BY <3>1, <3>2, <3>3, <3>4, ProbesAreREST, RESTExpected DEF Param
    <3>6. CASE ~inferToolInput(q)
      BY <3>3, <3>6, SchemaRefuses
    <3>7. CASE inferToolInput(q)
      <4>1. addTool(q, t) = Checked(q, i, RunTool(q, t))
        <5>1. ~q.late
          BY DEF Carried
        <5>2. authorizeTool(q, t) <=> AuthorizeScopes(Scopes(q, FALSE), catalog[i].scopes)
          BY <3>3, ToolOfOneRow DEF authorizeTool
        <5> QED
          BY <3>7, <5>1, <5>2 DEF addTool, Checked
      <4>2. Same(tool, Expected(q, i, RunTool(q, t)))
        BY <3>3, <4>1, MCPExpected
      <4>3. Agreed(q, RunTool(q, t), dispatch(q, catalog[i].id, Param(q, i)))
        BY <2>1, <3>2, <3>3, ToolsAgree
      <4>4. \A o : o.call = NoCall => Expected(q, i, o).call = NoCall
        BY DEF Expected, Refused
      <4>5. CASE RunTool(q, t) = dispatch(q, catalog[i].id, Param(q, i))
        BY <2>3, <3>5, <4>2, <4>5
      <4>6. CASE /\ Parted(q)
                 /\ NoCall \in {RunTool(q, t).call, dispatch(q, catalog[i].id, Param(q, i)).call}
        <5>1. NoCall \in {rest.call, tool.call}
          BY <3>5, <4>2, <4>4, <4>6 DEF Same
        <5> QED
          BY <4>6, <5>1
      <4> QED
        BY <4>3, <4>5, <4>6 DEF Agreed
    <3> QED
      BY <3>6, <3>7
  <2>5. ASSUME rest # Unasked, resource # Unasked, q.limit = 0 PROVE Same(rest, resource)
    <3>1. HasRow(q) /\ \E u \in RowOf(q).resources :
            resource = serveMCP(q, Verb(q, "POST"), readResource(q, u))
      BY <2>2, <2>5 DEF AnswerOf
    <3>2. PICK i \in DOMAIN catalog : RowOf(q) = catalog[i] /\ catalog[i].id = q.cap
      BY <3>1, RowOfTable
    <3>3. PICK u \in catalog[i].resources : resource = serveMCP(q, Verb(q, "POST"), readResource(q, u))
      BY <3>1, <3>2
    <3>4. rest = serveREST(q, AskedVerb(q), Path(q))
      BY <2>2, <2>5 DEF AnswerOf
    <3>5. Same(rest, Expected(q, i, dispatch(q, catalog[i].id, Param(q, i))))
      BY <3>1, <3>2, <3>3, <3>4, ProbesAreREST, RESTExpected DEF Param
    <3>6. readResource(q, u) = Checked(q, i, resourceBody(q, u))
      BY <3>3, ResourceOfOneRow DEF readResource, authorizeResource, Checked, Carried
    <3>7. Same(resource, Expected(q, i, resourceBody(q, u)))
      BY <3>3, <3>6, MCPExpected
    <3>8. resourceBody(q, u) = dispatch(q, catalog[i].id, Param(q, i))
      BY <2>5, <3>3, ResourcesAgree
    <3> QED
      BY <2>3, <3>5, <3>7, <3>8
  <2> QED
    BY <2>4, <2>5
<1> QED
  BY <1>1, AnswersAreTheTransports, PTL

=============================================================================

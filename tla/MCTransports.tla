----------------------------- MODULE MCTransports -----------------------------
(***************************************************************************)
(* The requests TLC asks: every row of the catalogue with the arguments it *)
(* takes, by every kind of caller; those that take scopes of their own; a  *)
(* few rows in every way a request can arrive that the transports look at  *)
(* before they ask what it wants; and the rows whose bodies have durations *)
(* and byte sizes, in every pair of spellings.                             *)
(***************************************************************************)
EXTENDS Transports

CONSTANT allowed, other   \* origins

Plainly == [offset |-> Omitted, bodyLimit |-> Omitted, stated |-> Omitted]

Usual ==
  [cap |-> "state.get", name |-> "a", filter |-> NoFilter, rev |-> "r1", key |-> "k1",
   reason |-> "why", force |-> FALSE, ops |-> <<"replaceFilters", "a">>,
   state |-> "absent", ip |-> "10.0.0.1", limit |-> 0, cursor |-> "", format |-> "",
   ifMatch |-> "", revHeader |-> "", keyHeader |-> "", ctype |-> "json", body |-> "object",
   origin |-> "absent", verb |-> "", version |-> "pinned", full |-> {}, limited |-> {},
   closed |-> FALSE, late |-> FALSE, ui |-> TRUE, public |-> TRUE, healthy |-> TRUE,
   wire |-> [rest |-> Plainly, tool |-> Plainly], complete |-> TRUE,
   by |-> "token", role |-> "administrator", scopes |-> {}, loopback |-> FALSE,
   fails |-> "ok"]

Asked ==
  {[Usual EXCEPT !.cap = row.id] : row \in All}
  \cup {[Usual EXCEPT !.cap = "filters.put", !.filter = f, !.name = n] :
          f \in {NoFilter, "", "a", "b"}, n \in {"", "a"}}
  \cup {[Usual EXCEPT !.cap = c, !.name = ""] : c \in {"filters.get", "filters.delete", "audit.get"}}
  \cup {[Usual EXCEPT !.cap = c, !.rev = r, !.key = k, !.force = f] :
          c \in {"changes.plan", "changes.apply", "filters.put", "filters.delete"},
          r \in {"", "r1"}, k \in {"", "k1"}, f \in BOOLEAN}
  \cup {[Usual EXCEPT !.cap = "views.preview", !.ip = ip] : ip \in {"", "junk", " 10.0.0.1"}}
  \cup {[Usual EXCEPT !.cap = c, !.limit = l, !.cursor = "c1"] :
          c \in {"queries.list", "audit.list"}, l \in {-1, 1, 100, 101, 256, 257}}
  \cup {[Usual EXCEPT !.cap = "state.export", !.format = f] : f \in {"yml", "json", "toml"}}
  \cup {[Usual EXCEPT !.cap = "state.validate", !.state = s] : s \in {"valid", "malformed"}}

ByAnyone ==
  {[q EXCEPT !.by = by, !.role = role, !.loopback = lo, !.fails = fails] :
     q \in Asked, by \in {"token", "cookie", "forged", "stranger", "nobody"},
     role \in Roles \cup {""}, lo \in BOOLEAN, fails \in {"ok", "revision_conflict", "plain"}}

ByScopes ==
  {[q EXCEPT !.by = by, !.role = "viewer", !.scopes = scopes] :
     q \in Asked, by \in {"token", "cookie", "forged"}, scopes \in SUBSET allScopes}

(* A body has a duration or a size only where it has a place for one.      *)
Durations == {Omitted, Null, Text(5), Number(5), Text(0), Junk}
Sizes     == {Omitted, Null, Text(5), Number(5), Number(-5), Junk}

Spelled(q, field, r, t) ==
  [q EXCEPT !.wire.rest[field] = r, !.wire.tool[field] = t]

SpelledAnyhow ==
  LET changes  == {[Usual EXCEPT !.cap = c] : c \in {"changes.plan", "changes.apply"}}
      filters  == {[Usual EXCEPT !.cap = "filters.put", !.filter = f] : f \in {"", "a", "b"}}
      validate == {[Usual EXCEPT !.cap = "state.validate", !.state = "valid"]}
      documents ==
        {Spelled(q, "offset", r, t) :
           q \in changes \cup filters \cup validate, r \in Durations, t \in Durations}
        \cup {Spelled(q, "stated", r, t) : q \in validate, r \in Durations, t \in Durations}
        \cup {Spelled(Spelled(q, "bodyLimit", r, t), "offset", Text(7), Number(7)) :
                 q \in changes \cup validate, r \in Sizes, t \in Sizes}
  IN {[q EXCEPT !.complete = c, !.role = role, !.late = late] :
        q \in documents, c \in BOOLEAN, role \in {"operator", "administrator"},
        late \in BOOLEAN}

Sample == {[Usual EXCEPT !.cap = c] :
             c \in {"status.get", "changes.apply", "state.reset", "filters.delete",
                    "health.ready", "metrics.get", "ui", "nowhere"}}

Arriving ==
  {[q EXCEPT !.origin = o, !.verb = v, !.full = f, !.limited = l, !.closed = c, !.by = by] :
     q \in Sample, o \in {"absent", "loopback", "malformed", allowed, other},
     v \in {"", "OPTIONS", "PATCH"}, f \in SUBSET {"rest", "mcp"},
     l \in SUBSET {"rest", "mcp"}, c \in BOOLEAN, by \in {"token", "forged", "stranger"}}
  \cup {[q EXCEPT !.version = v, !.late = t, !.ui = u, !.public = u, !.healthy = u] :
          q \in Sample, v \in {"pinned", "legacy"}, t \in BOOLEAN, u \in BOOLEAN}
  \cup {[q EXCEPT !.ctype = ct, !.body = b, !.ifMatch = m, !.revHeader = r, !.keyHeader = k] :
          q \in Sample, ct \in {"json", "other", "absent"},
          b \in {"object", "empty", "large", "malformed", "trailing", "unknown"},
          m \in {"", "*", "r2"}, r \in {"", "r3"}, k \in {"", "k2"}}

MCRequests == ByAnyone \cup ByScopes \cup SpelledAnyhow \cup Arriving
=============================================================================

------------------------------ MODULE AuthReload ------------------------------
(***************************************************************************)
(* The token verifier, the session table and the hooks that reload them    *)
(* (internal/auth, internal/control/rest, internal/control/mcp).  A reset  *)
(* loads the tokens of the candidate under App.mu to see that it can; the  *)
(* verifier itself is replaced by hooks that run after App.mu is released, *)
(* mcp's and then rest's, each reading the active snapshot and the token   *)
(* files again.  Hooks of two calls may overlap, the files may be edited   *)
(* at any time, and requests verify, look up and create sessions meanwhile.*)
(* What a mutex holds together is one step, and so is one reading of the   *)
(* token files.  Time is in units the lifetimes are multiples of.          *)
(***************************************************************************)
EXTENDS Catalogue

CONSTANTS
  Specs,       \* the spec.auth the bootstrap file may hold
  FirstSpec,   \* ... and the one it holds at the start
  Files,       \* secret files: File0 is what they hold at the start
  File0,
  Contents,    \* what an edit may leave in one: a secret, Short or Missing
  Short, Missing,
  Reloads,     \* applies and resets that can be under way at a time (a bound)
  Clients,     \* REST requests that can be under way at a time (a bound)
  MaxSessions, Idle, Absolute,               \* SessionConfig
  MaxEvents,   \* bound: edits, new sessions, ticks and, twice, reloads together
  MaxReloads   \* bound

Bearer   == "bearer"
Loopback == "dev-loopback-unauth"

(* FromSpec: an entry's file must exist and hold 32 bytes, and no two      *)
(* entries may share an id or a secret.                                    *)
Loads(spec, files) ==
  /\ spec.mode \in {"", Bearer, Loopback}
  /\ \A t \in spec.tokens :
       /\ files[t.file] \notin {Short, Missing}
       /\ t.role \in Roles \cup {""}
       /\ \A u \in spec.tokens :
            u.id = t.id \/ files[u.file] = files[t.file] => u = t

Token(t, files) ==
  [id |-> t.id, secret |-> files[t.file]] @@ expandScopes(t.role, t.scopes)

FromSpec(spec, files) ==
  [mode   |-> IF spec.mode = "" THEN Bearer ELSE spec.mode,
   tokens |-> {Token(t, files) : t \in spec.tokens}]

RequireListen(v) == v.mode = Bearer => v.tokens # {}

(* Mutant: a role, scope or secret that changes goes unnoticed.            *)
MutSameIds(v, w) ==
  v.mode = w.mode /\ {t.id : t \in v.tokens} = {t.id : t \in w.tokens}

(* Equivalent: the mode, and the tokens whatever their order.              *)
Equivalent(v, w) == v.mode = w.mode /\ v.tokens = w.tokens

Usable(spec, files) == Loads(spec, files) /\ RequireListen(FromSpec(spec, files))

ASSUME AuthAssumption ==
  /\ FirstSpec \in Specs /\ Usable(FirstSpec, File0)
  /\ File0 = [f \in Files |-> File0[f]]
  /\ MaxSessions \in Nat \ {0} /\ Idle \in Nat /\ Absolute \in Nat

VARIABLES
  active,     \* spec.auth of the active snapshot
  files,      \* what the secret files hold
  verifier,   \* Verifier: [mode, tokens], one pointer for REST and MCP
  sessions,   \* Store.sessions, by cookie
  issued,     \* cookies made so far: random values, hence never equal
  now,        \* the store's clock
  reload,     \* each apply or reset: [at, hook, next, outer, changed, since]
  client,     \* each REST request: [at, cap, cookie, actor, verified]
  count,      \* reloads and edits so far (bounds)
  identity,   \* history: how often the verifier's identity changed
  edited,     \* history: a file was edited after rest's last reading
  overlapped  \* history: two reloads were under way at one time

world == <<active, files, count, edited>>
table == <<sessions, issued, now>>
vars  == <<world, verifier, identity, table, reload, overlapped, client>>

Resting == [at |-> "idle", hook |-> "mcp", next |-> FromSpec(FirstSpec, File0),
            outer |-> FALSE, changed |-> FALSE, since |-> 0]
Nobody  == [at |-> "idle", cap |-> "none", cookie |-> 0,
            actor |-> [id |-> "", role |-> "", scopes |-> {}], verified |-> 0]

Init ==
  /\ active = FirstSpec /\ files = File0
  /\ verifier = FromSpec(FirstSpec, File0)
  /\ sessions = <<>> /\ issued = 0 /\ now = 0
  /\ reload = [w \in Reloads |-> Resting]
  /\ client = [c \in Clients |-> Nobody]
  /\ count = [reloads |-> 0, edits |-> 0]
  /\ identity = 0 /\ edited = FALSE /\ overlapped = FALSE

Creating == {c \in Clients : client[c].cap = "session.create"}
Within ==
  2 * count.reloads + count.edits + now + issued + Cardinality(Creating) < MaxEvents

----------------------------------------------------------------------------
(* Applies and resets. An apply leaves spec.auth alone and runs the same   *)
(* hooks; a reset whose tokens do not load is refused and changes nothing. *)

Begins(w) ==
  /\ reload[w].at = "idle" /\ Within /\ count.reloads < MaxReloads
  /\ count' = [count EXCEPT !.reloads = @ + 1]
  /\ reload' = [reload EXCEPT ![w] = [Resting EXCEPT !.at = "load", !.since = identity]]
  /\ overlapped' = (overlapped \/ \E v \in Reloads : reload[v].at # "idle")
  /\ UNCHANGED <<files, edited, verifier, identity, table, client>>

ApplySwaps(w) == Begins(w) /\ UNCHANGED active

ResetSwaps(w, spec) ==
  /\ Usable(spec, files)
  /\ active' = spec
  /\ Begins(w)

EditFile(f, content) ==
  /\ Within /\ files[f] # content
  /\ files' = [files EXCEPT ![f] = content]
  /\ count' = [count EXCEPT !.edits = @ + 1]
  /\ edited' = TRUE
  /\ UNCHANGED <<active, verifier, identity, table, reload, overlapped, client>>

----------------------------------------------------------------------------
(* reloadAuth. mcp's hook is done when Replace returns; rest's compares    *)
(* before it calls Replace as well, and clears the table once more.        *)

Step(w, at) == reload' = [reload EXCEPT ![w].at = at]
Done(r) == IF r.hook = "mcp" THEN [r EXCEPT !.hook = "rest", !.at = "load"]
           ELSE Resting

(* Mutant: the hook loads the spec.auth the process started with.          *)
MutHookReads(w) ==
  LET r == reload[w] IN
  /\ r.at = "load"
  /\ reload' = [reload EXCEPT ![w] =
       IF ~Usable(FirstSpec, files) THEN Done(r)
       ELSE [r EXCEPT !.next = FromSpec(FirstSpec, files),
                      !.at = IF r.hook = "rest" THEN "equivalent" ELSE "replace"]]
  /\ edited' = (edited /\ r.hook = "mcp")
  /\ UNCHANGED <<active, files, count, verifier, identity, table, overlapped, client>>

(* FromSpec and RequireListen; the hook drops their errors.                *)
HookReads(w) ==
  LET r == reload[w] IN
  /\ r.at = "load"
  /\ reload' = [reload EXCEPT ![w] =
       IF ~Usable(active, files) THEN Done(r)
       ELSE [r EXCEPT !.next = FromSpec(active, files),
                      !.at = IF r.hook = "rest" THEN "equivalent" ELSE "replace"]]
  /\ edited' = (edited /\ r.hook = "mcp")
  /\ UNCHANGED <<active, files, count, verifier, identity, table, overlapped, client>>

HookCompares(w) ==
  /\ reload[w].at = "equivalent"
  /\ reload' = [reload EXCEPT ![w].outer = ~Equivalent(verifier, reload[w].next),
                              ![w].at = "replace"]
  /\ UNCHANGED <<world, verifier, identity, table, overlapped, client>>

ReplaceCompares(w) ==
  /\ reload[w].at = "replace"
  /\ reload' = [reload EXCEPT ![w].changed = ~Equivalent(verifier, reload[w].next),
                              ![w].at = "set"]
  /\ UNCHANGED <<world, verifier, identity, table, overlapped, client>>

AfterReplace(r) == IF r.hook = "rest" /\ r.outer THEN [r EXCEPT !.at = "clear"]
                   ELSE Done(r)

ReplaceSets(w) ==
  LET r == reload[w] IN
  /\ r.at = "set"
  /\ verifier' = r.next
  /\ identity' = IF verifier = r.next THEN identity ELSE identity + 1
  /\ reload' = [reload EXCEPT ![w] =
       IF r.changed THEN [r EXCEPT !.at = "notify"] ELSE AfterReplace(r)]
  /\ UNCHANGED <<world, table, overlapped, client>>

(* OnIdentityChange's hook and then rest's own call: both Store.Clear.     *)
Clears(w, at, then) ==
  /\ reload[w].at = at
  /\ sessions' = <<>>
  /\ reload' = [reload EXCEPT ![w] = then]
  /\ UNCHANGED <<world, verifier, identity, issued, now, overlapped, client>>

ReplaceNotifies(w) == Clears(w, "notify", AfterReplace(reload[w]))
HookClears(w)      == Clears(w, "clear", Done(reload[w]))

----------------------------------------------------------------------------
(* The session table.                                                      *)

Expired(s)  == now - s.lastSeen > Idle \/ now - s.createdAt > Absolute
Live(t)     == {k \in DOMAIN t : ~Expired(t[k])}
Only(t, ks) == [k \in ks |-> t[k]]
Without(t, k) == Only(t, DOMAIN t \ {k})

(* Mutants: the newest goes; nothing goes.                                 *)
MutEvictsNewest(t) ==
  {Without(t, k) : k \in {k \in DOMAIN t : \A j \in DOMAIN t : t[k].lastSeen >= t[j].lastSeen}}
MutEvictsNone(t) == {t}

(* What evictOldestLocked may leave: map order decides between equals.     *)
Evicted(t) ==
  {Without(t, k) : k \in {k \in DOMAIN t : \A j \in DOMAIN t : t[k].lastSeen <= t[j].lastSeen}}

Room(t) == IF Cardinality(DOMAIN t) >= MaxSessions THEN Evicted(t) ELSE {t}

Create(c) ==
  /\ issued' = issued + 1
  /\ \E t \in Room(Only(sessions, Live(sessions))) :
       sessions' = [k \in DOMAIN t \cup {issued + 1} |->
         IF k \in DOMAIN t THEN t[k]
         ELSE [principal |-> client[c].actor, createdAt |-> now, lastSeen |-> now,
               verified |-> client[c].verified, made |-> identity]]

(* Lookup touches a live session and drops an expired one.                 *)
Lookup(k) ==
  sessions' = IF k \notin DOMAIN sessions THEN sessions
              ELSE IF Expired(sessions[k]) THEN Without(sessions, k)
              ELSE [sessions EXCEPT ![k].lastSeen = now]

(* ValidCSRF with the session's own secret.                                *)
ValidCSRF(k) == k \in Live(sessions)
DropExpired(k) == sessions' = IF k \in DOMAIN sessions /\ Expired(sessions[k])
                              THEN Without(sessions, k) ELSE sessions

Tick == /\ Within /\ now' = now + 1
        /\ UNCHANGED <<world, verifier, identity, sessions, issued, reload, overlapped, client>>

----------------------------------------------------------------------------
(* REST requests for the session rows of the catalogue: authenticate,      *)
(* authorize (those rows ask for no scope, so for the CSRF secret alone)   *)
(* and the handler. A request carries a bearer or a cookie, not both.      *)

Caps     == {"session.create", "session.get", "session.delete"}
Method(cap) == (CHOOSE row \in All : row.id = cap).method
LoopbackPrincipal == [id |-> "loopback", role |-> "administrator", scopes |-> allScopes]
Principal(t) == [id |-> t.id, role |-> t.role, scopes |-> t.scopes]

(* authorize has more to do only for a cookie with an unsafe method.       *)
(* The bound on new sessions is put where the request starts.              *)
Becomes(c, cap, k, actor, stamp) ==
  /\ cap = "session.create" => Within
  /\ client' = [client EXCEPT ![c] =
       [at |-> IF k # 0 /\ UnsafeMethod(Method(cap)) THEN "csrf" ELSE "allowed",
        cap |-> cap, cookie |-> k, actor |-> actor, verified |-> stamp]]

AuthenticateBearer(c, t, cap) ==
  /\ client[c].at = "idle" /\ t \in verifier.tokens
  /\ Becomes(c, cap, 0, Principal(t), identity)
  /\ UNCHANGED <<world, verifier, identity, table, reload, overlapped>>

AuthenticateCookie(c, k, cap) ==
  /\ client[c].at = "idle"
  /\ k \in Live(sessions)
  /\ Lookup(k)
  /\ Becomes(c, cap, k, sessions[k].principal, sessions[k].verified)
  /\ UNCHANGED <<world, verifier, identity, issued, now, reload, overlapped>>

(* No bearer, and no cookie (0) or one the table does not honour: refused, *)
(* unless the mode lets a loopback client in.                              *)
AuthenticateNeither(c, k, cap) ==
  /\ client[c].at = "idle"
  /\ k \notin Live(sessions)
  /\ Lookup(k)
  /\ IF verifier.mode = Loopback
     THEN Becomes(c, cap, k, LoopbackPrincipal, identity)
     ELSE UNCHANGED client
  /\ UNCHANGED <<world, verifier, identity, issued, now, reload, overlapped>>

Authorize(c) ==
  LET r == client[c] IN
  /\ r.at = "csrf"
  /\ IF ValidCSRF(r.cookie)
     THEN client' = [client EXCEPT ![c].at = "allowed"] /\ UNCHANGED sessions
     ELSE DropExpired(r.cookie) /\ client' = [client EXCEPT ![c] = Nobody]
  /\ UNCHANGED <<world, verifier, identity, issued, now, reload, overlapped>>

Handle(c) ==
  /\ client[c].at = "allowed"
  /\ CASE client[c].cap = "session.create" -> Create(c)
       [] client[c].cap = "session.get"    -> Lookup(client[c].cookie) /\ UNCHANGED issued
       [] client[c].cap = "session.delete" -> /\ sessions' = Without(sessions, client[c].cookie)
                                              /\ UNCHANGED issued
  /\ client' = [client EXCEPT ![c] = Nobody]
  /\ UNCHANGED <<world, verifier, identity, now, reload, overlapped>>

----------------------------------------------------------------------------

Next ==
  \/ \E w \in Reloads :
       \/ ApplySwaps(w)
       \/ \E spec \in Specs : ResetSwaps(w, spec)
       \/ HookReads(w) \/ HookCompares(w) \/ ReplaceCompares(w) \/ ReplaceSets(w)
       \/ ReplaceNotifies(w) \/ HookClears(w)
  \/ \E f \in Files, content \in Contents : EditFile(f, content)
  \/ \E c \in Clients :
       \/ \E cap \in Caps :
            \/ \E t \in verifier.tokens : AuthenticateBearer(c, t, cap)
            \/ \E k \in 0 .. issued : AuthenticateCookie(c, k, cap)
            \/ \E k \in 0 .. issued : AuthenticateNeither(c, k, cap)
       \/ Authorize(c)
       \/ Handle(c)
  \/ Tick

Spec == Init /\ [][Next]_vars

----------------------------------------------------------------------------
(* Every component stays in range, and the table within its limit.         *)
TypeOK ==
  /\ active \in Specs /\ files \in [Files -> Contents \cup {File0[f] : f \in Files}]
  /\ verifier.mode \in {Bearer, Loopback}
  /\ DOMAIN sessions \subseteq 1 .. issued
  /\ Cardinality(DOMAIN sessions) <= MaxSessions
  /\ \A w \in Reloads :
       /\ reload[w].at \in {"idle", "load", "equivalent", "replace", "set", "notify", "clear"}
       /\ reload[w].hook \in {"mcp", "rest"} /\ reload[w].since <= identity
  /\ \A c \in Clients :
       /\ client[c].at \in {"idle", "csrf", "allowed"}
       /\ client[c].cookie \in 0 .. issued /\ client[c].verified <= identity

Quiet == \A w \in Reloads : reload[w].at = "idle"

(* Once the hooks have run, requests are verified against the tokens of    *)
(* the active snapshot as the files hold them, if those can be loaded: a   *)
(* file edited after the preflight, or after mcp's reading, must not leave *)
(* the verifier behind. Overlapping hooks can (ReplaceSets, server.go:514).*)
VerifierFollowsSnapshot ==
  Quiet /\ ~edited /\ ~overlapped /\ Usable(active, files)
    => verifier = FromSpec(active, files)

(* The same of hooks that did overlap, as docs/04 has it: "A successful    *)
(* reread still replaces the verifier and clears sessions when the         *)
(* identity changes."                                                      *)
RereadReplacesVerifier ==
  Quiet /\ ~edited /\ Usable(active, files) => verifier = FromSpec(active, files)

(* When the hooks have run, a session speaks for a principal the verifier  *)
(* has known since it last changed: no session is left that was in the     *)
(* table at the change. The one exception is a session inserted after it   *)
(* by a request that had verified before.                                  *)
SessionsFollowIdentity ==
  Quiet /\ ~overlapped =>
    \A k \in DOMAIN sessions :
      \/ sessions[k].verified = identity
      \/ sessions[k].verified < identity /\ sessions[k].made = identity

(* A session disappears because it has expired, its holder deleted it, the *)
(* verifier changed in the course of the reload that clears the table, or  *)
(* a new one took the place of the one seen longest ago. So a reload that  *)
(* finds the same tokens logs nobody out, also when another overlaps it.   *)
SessionLostForCause ==
  [][\A k \in DOMAIN sessions \ DOMAIN sessions' :
       \/ Expired(sessions[k])
       \/ \E c \in Clients : /\ client[c].at = "allowed" /\ client[c].cookie = k
                             /\ client[c].cap = "session.delete"
       \/ \E w \in Reloads : /\ reload[w].at \in {"notify", "clear"}
                             /\ reload'[w].at # reload[w].at
                             /\ identity > reload[w].since
       \/ /\ Cardinality(Live(sessions)) = MaxSessions /\ issued' > issued
          /\ \A j \in Live(sessions) : sessions[k].lastSeen <= sessions[j].lastSeen]_vars
=============================================================================

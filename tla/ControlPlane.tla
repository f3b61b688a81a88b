----------------------------- MODULE ControlPlane -----------------------------
(***************************************************************************)
(* App, the service behind REST and MCP (internal/app): plan, apply and    *)
(* reset of the active configuration snapshot, the idempotency cache, the  *)
(* audit ring, the query log's size and wipe, and the listeners that reset *)
(* moves. App.mu serialises plan, apply and reset, so each is one step     *)
(* here; requests come from any client in any order, repeated at will.     *)
(*                                                                         *)
(* A document is the canonical state. Its reset-only part is the listen    *)
(* addresses and auth; qsize is the query log's size and live is the rest  *)
(* of what apply may change. What the operations of a request do to it,    *)
(* and what the compiler accepts, are parameters (StateDoc gives them).    *)
(***************************************************************************)
EXTENDS IdempCache

CONSTANTS
  IdempKeys,               \* Idempotency-Key values clients use
  Addrs,                   \* listen addresses
  Off,                     \* the empty management address: not listening
  AuthSpecs,               \* values of spec.auth
  QueryLogSizes,           \* values of spec.ntp.queryLog.size
  Live,                    \* the other live settings
  Bodies,                  \* request bodies: reason and operations
  SentRevisions,           \* expectedRevision values that clients send
  Files,                   \* contents the operator gives the bootstrap file
  Rejected,                \* the result of a refused operation or document
  Unreadable,              \* a bootstrap file that is missing or not YAML
  NoRevision,              \* an empty expectedRevision
  NoOverride,              \* a listen flag that was not given
  NTPOverride,             \* --ntp-listen
  MgmtOverride,            \* --management-listen
  AuditMax,                \* audit.Ring.max
  Faults,                  \* which calls of the environment may fail
  MaxGeneration,           \* bound: number of installed snapshots
  Fingerprint(_),          \* the hash of a body that the cache compares
  applyOperations(_, _),   \* the document after a body's operations
  Compile(_)               \* the canonical document, or Rejected

Documents ==
  [ntp : Addrs, mgmt : Addrs \cup {Off}, auth : AuthSpecs,
   qsize : QueryLogSizes, live : Live]

ASSUME QueryLogSizeAssumption == QueryLogSizes \subseteq Nat

ASSUME AuditMaxAssumption == AuditMax \in Nat \ {0}

ASSUME KeysAssumption == NoKey \notin IdempKeys

ASSUME RejectedAssumption == Rejected \notin Documents

ASSUME UnreadableAssumption == Unreadable \notin Documents

ASSUME OverrideAssumption ==
  /\ Off \notin Addrs
  /\ NoOverride \notin Addrs \cup {Off}
  /\ NTPOverride \in Addrs \cup {NoOverride}
  /\ MgmtOverride \in Addrs \cup {Off, NoOverride}

ASSUME OperationsAssumption ==
  \A d \in Documents, b \in Bodies :
    applyOperations(d, b) \in Documents \cup {Rejected}

\* What the compiler lets through: the management address is materialized
\* and the query log has a positive size.
Canonical == {d \in Documents : d.mgmt # Off /\ d.qsize > 0}

ASSUME CompileAssumption ==
  \A d \in Documents : Compile(d) \in Canonical \cup {Rejected}

\* Compile leaves reset-only fields that are filled in alone.
ASSUME CompileKeepsResetOnly ==
  \A d \in Documents :
    Compile(d) # Rejected /\ d.mgmt # Off
      => <<Compile(d).ntp, Compile(d).mgmt, Compile(d).auth>> = <<d.ntp, d.mgmt, d.auth>>

ASSUME FilesAssumption == Files \subseteq Documents \cup {Unreadable}

ASSUME FaultsAssumption == Faults \subseteq {"auth", "ntp", "http", "rollback"}

VARIABLES
  active,         \* Store.active
  previous,       \* Store.previous, Nil before the first swap
  bootstrap,      \* Store.bootstrap
  file,           \* what the bootstrap mount holds
  cache,          \* App.idemp
  audit,          \* the audit ring: next ID and retained events
  qlog,           \* App.queryLog: its capacity and how many samples it holds
  ntpBound,       \* ntpserver.Server.bindAddr
  httpBound,      \* the management listener's address, or Off
  mgmtEffective   \* App.mgmtEffective

vars == <<active, previous, bootstrap, file, cache, audit, qlog,
          ntpBound, httpBound, mgmtEffective>>

-------------------------------------------------------------------------------
\* The content hash of a document. Distinct documents have distinct hashes.
Revision(d) == [sha256 |-> d]

Revisions == [sha256 : Documents]

Snapshot(d, gen, boot) == [doc |-> d, generation |-> gen, boot |-> boot]

effectiveNTP(addr) == IF NTPOverride # NoOverride THEN NTPOverride ELSE addr

effectiveMgmt(addr) == IF MgmtOverride # NoOverride THEN MgmtOverride ELSE addr

\* What apply must not change: listeners, NTS and key files, auth.
ResetOnly(d) == <<d.ntp, d.mgmt, d.auth>>

\* The last n elements of s, all of s when it is no longer.
Newest(s, n) ==
  IF Len(s) <= n THEN s ELSE [i \in 1 .. n |-> s[Len(s) - n + i]]

\* Ring.Reset, Ring.Resize and Ring.TryInsert of the query log; what the samples
\* are, and how these interleave, is QueryLogRing's and NTPServer's.
Wipe(q) == [q EXCEPT !.count = 0]

\* (Mutant) a smaller ring keeps every sample.
MutResize(q, n) == [capacity |-> n, count |-> q.count]

Resize(q, n) == [capacity |-> n, count |-> IF q.count <= n THEN q.count ELSE n]

Insert(q) == [q EXCEPT !.count = IF @ < q.capacity THEN @ + 1 ELSE @]

\* (Mutant) both revisions are read after the swap.
MutRecordAudit(a, cap, rev, prev) ==
  LET ev == [id |-> a.nextID + 1, capability |-> cap,
             revision |-> rev, previous |-> rev]
  IN  [nextID |-> a.nextID + 1,
       events |-> Newest(Append(a.events, ev), AuditMax)]

\* Fanout.Record: number the event, keep the newest AuditMax.
recordAudit(a, cap, rev, prev) ==
  LET ev == [id |-> a.nextID + 1, capability |-> cap,
             revision |-> rev, previous |-> prev]
  IN  [nextID |-> a.nextID + 1,
       events |-> Newest(Append(a.events, ev), AuditMax)]

-------------------------------------------------------------------------------
\* A plan or apply request. The fingerprint covers the body alone.
Requests == [key : IdempKeys \cup {NoKey}, body : Bodies,
             expected : SentRevisions]

\* buildCandidate: which check stops a request that was not replayed.
Conflicts(req) == req.expected # NoRevision /\ req.expected # Revision(active.doc)

\* The candidate document; Rejected when expectedRevision is missing, an
\* operation fails, a reset-only field changed or the compiler refuses it.
Candidate(req) ==
  LET after == applyOperations(active.doc, req.body)
  IN  IF \/ req.expected = NoRevision
         \/ after = Rejected
         \/ ResetOnly(after) # ResetOnly(active.doc)
      THEN Rejected
      ELSE Compile(after)

\* (Mutant) an apply moves the baseline that drift is measured from.
MutNextSnapshot(d) == Snapshot(d, active.generation + 1, Revision(d))

\* compileCandidate: the next generation, with the same bootstrap revision.
NextSnapshot(d) == Snapshot(d, active.generation + 1, active.boot)

\* (Mutant) the plan names the bootstrap's revision as its base.
MutPlanOf(d, body) ==
  [previous |-> active.boot, candidate |-> Revision(d), operations |-> body]

PlanOf(d, body) ==
  [previous |-> Revision(active.doc), candidate |-> Revision(d), operations |-> body]

listeners == <<ntpBound, httpBound, mgmtEffective>>

store == <<active, previous, bootstrap>>

-------------------------------------------------------------------------------
\* A key reused with another body: both plan and apply return the error.
KeyReused(req) ==
  /\ Reused(cache, req.key, Fingerprint(req.body))
  /\ UNCHANGED vars

\* An error of buildCandidate. Only a revision conflict forgets the key.
CandidateError(req) ==
  /\ \/ /\ Conflicts(req)
        /\ cache' = Evict(Touched(cache, req.key, Fingerprint(req.body)), req.key)
     \/ /\ ~Conflicts(req)
        /\ Candidate(req) = Rejected
        /\ cache' = Touched(cache, req.key, Fingerprint(req.body))
  /\ UNCHANGED <<store, file, audit, qlog, listeners>>

PlanReplay(req) ==
  /\ Hit(cache, req.key, Fingerprint(req.body))
  /\ Entry(cache, req.key).plan # Nil
  /\ cache' = MoveFront(cache, req.key)
  /\ UNCHANGED <<store, file, audit, qlog, listeners>>

PlanBuild(req) ==
  /\ ~Reused(cache, req.key, Fingerprint(req.body))
  /\ Hit(cache, req.key, Fingerprint(req.body)) => Entry(cache, req.key).plan = Nil
  /\ \/ CandidateError(req)
     \/ /\ ~Conflicts(req)
        /\ Candidate(req) # Rejected
        /\ cache' = StorePlan(cache, req.key, Fingerprint(req.body),
                             PlanOf(Candidate(req), req.body))
        /\ UNCHANGED <<store, file, audit, qlog, listeners>>

Plan(req) == KeyReused(req) \/ PlanReplay(req) \/ PlanBuild(req)

ApplyReplay(req) ==
  /\ Hit(cache, req.key, Fingerprint(req.body))
  /\ Entry(cache, req.key).apply # Nil
  /\ cache' = MoveFront(cache, req.key)
  /\ UNCHANGED <<store, file, audit, qlog, listeners>>

\* Resize the log, swap the snapshot, record the audit event and remember
\* the result, all before App.mu is released.
Commit(req) ==
  LET next  == NextSnapshot(Candidate(req))
      trail == recordAudit(audit, "changes.apply", Revision(next.doc),
                           Revision(active.doc))
      result == [plan |-> PlanOf(next.doc, req.body), generation |-> next.generation,
                 auditID |-> trail.nextID]
  IN  /\ active' = next
      /\ previous' = active
      /\ qlog' = Resize(qlog, next.doc.qsize)
      /\ audit' = trail
      /\ cache' = StoreApply(cache, req.key, Fingerprint(req.body), result)
      /\ UNCHANGED <<bootstrap, file, listeners>>

\* (Mutant) an apply does not look for the result of its key.
MutApplyBuild(req) ==
  /\ ~Reused(cache, req.key, Fingerprint(req.body))
  /\ \/ CandidateError(req)
     \/ /\ ~Conflicts(req)
        /\ Candidate(req) # Rejected
        /\ active.generation < MaxGeneration
        /\ Commit(req)

ApplyBuild(req) ==
  /\ ~Reused(cache, req.key, Fingerprint(req.body))
  /\ Hit(cache, req.key, Fingerprint(req.body)) => Entry(cache, req.key).apply = Nil
  /\ \/ CandidateError(req)
     \/ /\ ~Conflicts(req)
        /\ Candidate(req) # Rejected
        /\ active.generation < MaxGeneration
        /\ Commit(req)

Apply(req) == KeyReused(req) \/ ApplyReplay(req) \/ ApplyBuild(req)

-------------------------------------------------------------------------------
\* (Mutant) the file is installed as it was read.
MutBootstrapCandidate == IF file = Unreadable THEN Rejected ELSE file

\* loadBootstrapCandidate: reread the mount and compile it afresh.
BootstrapCandidate == IF file = Unreadable THEN Rejected ELSE Compile(file)

newNTP(d) == effectiveNTP(d.ntp)

newMgmt(d) == effectiveMgmt(d.mgmt)

\* Whether the reset rebinds, judged from the snapshot that is active.
MovesNTP(d) == newNTP(d) # effectiveNTP(active.doc.ntp)

MovesHTTP(d) == newMgmt(d) # mgmtEffective

\* Rebind of a listener to the address it holds returns without binding.
CanFailNTP(addr) == "ntp" \in Faults /\ addr # ntpBound

\* Missing or invalid file, or auth secrets that do not load.
ResetRefused ==
  /\ BootstrapCandidate = Rejected \/ "auth" \in Faults
  /\ UNCHANGED vars

ResetNTPFails ==
  /\ BootstrapCandidate # Rejected
  /\ MovesNTP(BootstrapCandidate)
  /\ CanFailNTP(newNTP(BootstrapCandidate))
  /\ UNCHANGED vars

\* (Mutant) a failed management bind does not put NTP back.
MutNoRollback ==
  LET d == BootstrapCandidate
  IN  /\ d # Rejected
      /\ MovesHTTP(d)
      /\ "http" \in Faults
      /\ ntpBound' = IF MovesNTP(d) THEN newNTP(d) ELSE ntpBound
      /\ UNCHANGED <<store, file, cache, audit, qlog, httpBound, mgmtEffective>>

\* (Mutant) the effective management address is noted before the bind.
MutEffectiveFirst ==
  LET d == BootstrapCandidate
  IN  /\ d # Rejected
      /\ MovesHTTP(d)
      /\ "http" \in Faults
      /\ mgmtEffective' = newMgmt(d)
      /\ UNCHANGED <<store, file, cache, audit, qlog, ntpBound, httpBound>>

\* The management bind failed: NTP goes back to the old address. When that
\* bind fails too, NTP is left on the candidate address.
ResetHTTPFails ==
  LET d == BootstrapCandidate
      old == effectiveNTP(active.doc.ntp)
  IN  /\ d # Rejected
      /\ MovesHTTP(d)
      /\ "http" \in Faults
      /\ \/ /\ ~MovesNTP(d)
            /\ UNCHANGED ntpBound
         \/ /\ MovesNTP(d)
            /\ ntpBound' = old
         \/ /\ MovesNTP(d)
            /\ "rollback" \in Faults
            /\ ntpBound' = newNTP(d)
      /\ UNCHANGED <<store, file, cache, audit, qlog, httpBound, mgmtEffective>>

\* Both listeners moved: wipe the log, swap, and forget all cached results.
ResetCommit ==
  LET d == BootstrapCandidate
      next == Snapshot(d, active.generation + 1, Revision(d))
  IN  /\ d # Rejected
      /\ active.generation < MaxGeneration
      /\ ntpBound' = IF MovesNTP(d) THEN newNTP(d) ELSE ntpBound
      /\ httpBound' = IF MovesHTTP(d) THEN newMgmt(d) ELSE httpBound
      /\ mgmtEffective' = newMgmt(d)
      /\ qlog' = Resize(Wipe(qlog), d.qsize)
      /\ active' = next
      /\ previous' = active
      /\ bootstrap' = next
      /\ cache' = Clear(cache)
      /\ audit' = recordAudit(audit, "state.reset", Revision(d), Revision(active.doc))
      /\ UNCHANGED file

Reset == ResetRefused \/ ResetNTPFails \/ ResetHTTPFails \/ ResetCommit

-------------------------------------------------------------------------------
\* The operator edits the bootstrap mount; the program never writes it.
EditFile ==
  /\ file' \in Files
  /\ UNCHANGED <<store, cache, audit, qlog, listeners>>

\* The data plane logs a query.
Query ==
  /\ qlog' = Insert(qlog)
  /\ UNCHANGED <<store, file, cache, audit, listeners>>

\* Boot of a valid file: serve compiles it, installs it and listens.
Init ==
  /\ file \in Files \ {Unreadable}
  /\ Compile(file) # Rejected
  /\ active = Snapshot(Compile(file), 0, Revision(Compile(file)))
  /\ previous = Nil
  /\ bootstrap = active
  /\ cache = << >>
  /\ audit = [nextID |-> 0, events |-> << >>]
  /\ qlog = [capacity |-> active.doc.qsize, count |-> 0]
  /\ ntpBound = effectiveNTP(active.doc.ntp)
  /\ mgmtEffective = effectiveMgmt(active.doc.mgmt)
  /\ httpBound = mgmtEffective

Next ==
  \/ \E req \in Requests : Plan(req) \/ Apply(req)
  \/ Reset
  \/ EditFile
  \/ Query

Spec == Init /\ [][Next]_vars

-------------------------------------------------------------------------------
Snapshots == [doc : Canonical, generation : Nat, boot : Revisions]

Plans == [previous : Revisions, candidate : Revisions, operations : Bodies]

Results == [plan : Plans, generation : Nat, auditID : Nat]

Entries == [key : IdempKeys, fp : {Fingerprint(b) : b \in Bodies},
            plan : Plans \cup {Nil}, apply : Results \cup {Nil}]

Events == [id : Nat, capability : {"changes.apply", "state.reset"},
           revision : Revisions, previous : Revisions]

\* Every variable holds a value of its kind, and only compiled documents are
\* installed.
TypeOK ==
  /\ active \in Snapshots
  /\ previous \in Snapshots \cup {Nil}
  /\ bootstrap \in Snapshots
  /\ file \in Files
  /\ cache \in Seq(Entries)
  /\ audit \in [nextID : Nat, events : Seq(Events)]
  /\ qlog \in [capacity : Nat \ {0}, count : Nat]
  /\ ntpBound \in Addrs
  /\ httpBound \in Addrs \cup {Off}
  /\ mgmtEffective \in Addrs \cup {Off}

\* The NTP and management listeners are where the active snapshot and the
\* flags put them, whatever resets failed half way. The documentation of
\* reset promises that a failed management rebind restores the NTP address.
ListenersFollowSnapshot ==
  /\ ntpBound = effectiveNTP(active.doc.ntp)
  /\ httpBound = effectiveMgmt(active.doc.mgmt)
  /\ mgmtEffective = httpBound

\* Drift is measured against the bootstrap snapshot of the last reset, and
\* no sequence of applies moves a reset-only field away from it.
DriftBaseline ==
  /\ active.boot = Revision(bootstrap.doc)
  /\ ResetOnly(active.doc) = ResetOnly(bootstrap.doc)
  /\ bootstrap.generation <= active.generation

\* The newest m of n numbered events, each starting where the last ended.
Chained(events, n, m) ==
  /\ Len(events) = IF n < m THEN n ELSE m
  /\ \A i \in 1 .. Len(events) : events[i].id = n - Len(events) + i
  /\ \A i \in 1 .. Len(events) - 1 : events[i + 1].previous = events[i].revision

\* The audit ring tells how the active revision came about: one event per
\* installed snapshot, each starting from the revision the one before left.
AuditTrail ==
  /\ audit.nextID = active.generation
  /\ Chained(audit.events, audit.nextID, AuditMax)
  /\ audit.events # << >> =>
       audit.events[Len(audit.events)].revision = Revision(active.doc)

\* The cache holds one entry per key, at most IdempMax, and an apply result
\* in it belongs to exactly one snapshot installed since the last reset and
\* to the audit event of that snapshot: a retry cannot get an answer from
\* before a reset.
CachedResultsAreCurrent ==
  /\ Len(cache) <= IdempMax
  /\ \A i, j \in DOMAIN cache : cache[i].key = cache[j].key => i = j
  /\ \A i \in DOMAIN cache :
       LET r == cache[i].apply
       IN  r # Nil =>
             /\ r.generation \in bootstrap.generation + 1 .. active.generation
             /\ r.auditID = r.generation
             /\ \A e \in DOMAIN audit.events :
                  audit.events[e].id = r.auditID =>
                    /\ audit.events[e].capability = "changes.apply"
                    /\ audit.events[e].revision = r.plan.candidate
                    /\ audit.events[e].previous = r.plan.previous
  /\ \A i, j \in DOMAIN cache :
       /\ cache[i].apply # Nil
       /\ cache[j].apply # Nil
       /\ cache[i].apply.generation = cache[j].apply.generation
       => i = j

\* A cached plan whose base revision is the active one again, by whatever
\* way, still says what applying its operations would install.
PlanPredictsApply ==
  \A i \in DOMAIN cache :
    LET p == cache[i].plan
        after == applyOperations(active.doc, p.operations)
    IN  p # Nil /\ p.previous = Revision(active.doc)
          => after # Rejected /\ p.candidate = Revision(Compile(after))

\* The answer a key would replay for a request was computed for a request with
\* its fingerprint (idempotency.go: a key reused with a different request is an
\* error): the same but for what the fingerprint leaves out.
ReplayAnswersTheRequest ==
  \A k \in IdempKeys, b \in Bodies :
    Hit(cache, k, Fingerprint(b)) =>
      LET e == Entry(cache, k)
      IN  /\ e.plan # Nil => Fingerprint(e.plan.operations) = Fingerprint(b)
          /\ e.apply # Nil => Fingerprint(e.apply.plan.operations) = Fingerprint(b)

\* (Refuted) It was computed for that very request. The fingerprint leaves an
\* empty allowClientCidrs out as it does a missing one (omitempty,
\* model/operation.go:32), and one denies every client where the other admits all.
ReplayAnswersTheBody ==
  \A k \in IdempKeys, b \in Bodies :
    Hit(cache, k, Fingerprint(b)) =>
      LET e == Entry(cache, k)
      IN  /\ e.plan # Nil => e.plan.operations = b
          /\ e.apply # Nil => e.apply.plan.operations = b

\* Through applies that resize the query log, resets that also wipe it, and
\* resets that fail half way, the log has the active snapshot's size and does not
\* hold more (mutate.go:89-91, reset.go:98-103).
LogFitsSnapshot ==
  /\ qlog.capacity = active.doc.qsize
  /\ qlog.count <= qlog.capacity

Applied(c, k) == Holds(c, k) /\ Entry(c, k).apply # Nil

\* While a key's apply result is cached it never changes: a second request
\* with that key installs nothing under it.
CachedResultIsFinal ==
  [][\A k \in IdempKeys :
       Applied(cache, k) /\ Applied(cache', k) /\ bootstrap' = bootstrap
         => Entry(cache, k).apply = Entry(cache', k).apply]_vars

\* A call that installs no snapshot leaves the store, the trail and the
\* listeners as they were: a failed reset is as if it had not been made.
FailureLeavesNoTrace ==
  [][active' = active => UNCHANGED <<previous, bootstrap, audit, listeners>>]_vars

\* (Refuted) A key whose apply succeeded stays replayable while there is room in
\* the cache and no reset comes: a client may retry with it. A plan with that
\* key meets the revision the apply itself made, and the entry is forgotten.
AppliedKeyRemembered ==
  [][\A k \in IdempKeys :
       Applied(cache, k) /\ Len(cache) < IdempMax /\ bootstrap' = bootstrap
         => Applied(cache', k)]_vars
===============================================================================

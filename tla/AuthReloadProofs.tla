---------------------------- MODULE AuthReloadProofs ----------------------------
(***************************************************************************)
(* Proofs about AuthReload, for any spec.auth values and secret files, any *)
(* number of reloads and requests under way at one time, any lifetimes and *)
(* any bounds: which tokens the verifier ends with, whom a session may     *)
(* speak for, and why one may disappear.                                   *)
(***************************************************************************)
EXTENDS AuthReload, FiniteSetTheorems, TLAPS

FileStates == [Files -> Contents \cup {File0[f] : f \in Files}]
Modes      == {Bearer, Loopback}

\* What a hook or the start of the process can have made of some spec.auth.
Verifiers ==
  {v \in {FromSpec(spec, fs) : spec \in Specs, fs \in FileStates} : v.mode \in Modes}

\* On whose behalf a request or a session may act.
Actors ==
  {Principal(t) : t \in UNION {v.tokens : v \in Verifiers}}
    \cup {LoopbackPrincipal, Nobody.actor}

ReloadStates ==
  [at : {"idle", "load", "equivalent", "replace", "set", "notify", "clear"},
   hook : {"mcp", "rest"}, next : Verifiers, outer : BOOLEAN, changed : BOOLEAN,
   since : Nat]

ClientStates ==
  [at : {"idle", "csrf", "allowed"}, cap : Caps \cup {"none"}, cookie : Nat,
   actor : Actors, verified : Nat]

SessionStates ==
  [principal : Actors, createdAt : Nat, lastSeen : Nat, verified : Nat, made : Nat]

\* What each variable holds.
Typed ==
  /\ active \in Specs /\ files \in FileStates /\ verifier \in Verifiers
  /\ identity \in Nat /\ issued \in Nat /\ now \in Nat
  /\ edited \in BOOLEAN /\ overlapped \in BOOLEAN
  /\ reload \in [Reloads -> ReloadStates]
  /\ client \in [Clients -> ClientStates]

\* The session table: cookies made so far, never more than MaxSessions, and none
\* verified against an identity that is yet to come.
TableOK ==
  /\ DOMAIN sessions \subseteq 1 .. issued
  /\ \A k \in DOMAIN sessions :
       sessions[k] \in SessionStates /\ sessions[k].verified <= identity
  /\ Cardinality(DOMAIN sessions) <= MaxSessions

\* No reload and no request has seen an identity that is yet to come, and a request
\* that is allowed is one for a session row.
StampsOK ==
  /\ \A w \in Reloads : reload[w].since <= identity
  /\ \A c \in Clients : /\ client[c].verified <= identity
                        /\ client[c].cookie <= issued
                        /\ client[c].at # "idle" => client[c].cap \in Caps

\* A reload that is about to clear the table has seen the identity change, or
\* will change it when it sets the verifier.
Changes(r) == verifier # r.next \/ identity > r.since

ClearsJustified ==
  \A w \in Reloads :
    LET r == reload[w]
    IN  /\ r.at = "replace" /\ r.hook = "rest" /\ r.outer => Changes(r)
        /\ r.at = "set" /\ (r.changed \/ (r.hook = "rest" /\ r.outer)) => Changes(r)
        /\ r.at \in {"notify", "clear"} => identity > r.since

\* Without an overlap one reload is under way, if any.
Serial ==
  ~overlapped =>
    \A v, w \in Reloads : reload[v].at # "idle" /\ reload[w].at # "idle" => v = w

\* ... then what rest's hook has read is what the active snapshot says, ...
ReadIsCurrent ==
  ~overlapped /\ ~edited /\ Usable(active, files) =>
    /\ \A w \in Reloads :
         reload[w].hook = "rest" =>
           /\ reload[w].at \in {"equivalent", "replace", "set"} =>
                reload[w].next = FromSpec(active, files)
           /\ reload[w].at \in {"notify", "clear"} => verifier = FromSpec(active, files)
    /\ Quiet => verifier = FromSpec(active, files)

\* ... a verifier that is about to change will be announced, ...
AnnouncesChange ==
  ~overlapped =>
    \A w \in Reloads : reload[w].at = "set" /\ verifier # reload[w].next => reload[w].changed

\* ... and a session made under an identity that is past is about to go.
ClearsOwed ==
  ~overlapped =>
    \A k \in DOMAIN sessions :
      sessions[k].made = identity \/ \E w \in Reloads : reload[w].at = "notify"

IInv ==
  /\ Typed /\ TableOK /\ StampsOK
  /\ ClearsJustified
  /\ Serial /\ ReadIsCurrent /\ AnnouncesChange /\ ClearsOwed

-------------------------------------------------------------------------------
\* A spec.auth that loads makes a verifier (FromSpec).
LEMMA FromSpecType ==
  ASSUME NEW spec \in Specs, NEW fs \in FileStates, Usable(spec, fs)
  PROVE  FromSpec(spec, fs) \in Verifiers
<1>1. spec.mode \in {"", Bearer, Loopback}
  BY DEF Usable, Loads
<1>2. FromSpec(spec, fs).mode \in Modes
  BY <1>1 DEF FromSpec, Modes, Bearer, Loopback
<1> QED
  BY <1>2 DEF Verifiers

\* Verifiers that compare equal are equal: nothing else is in one (Equivalent).
LEMMA EquivalentSame ==
  ASSUME NEW v \in Verifiers, NEW w \in Verifiers
  PROVE  Equivalent(v, w) <=> v = w
<1>1. ASSUME NEW u \in Verifiers
      PROVE  u = [mode |-> u.mode, tokens |-> u.tokens]
  <2>1. PICK spec \in Specs, fs \in FileStates : u = FromSpec(spec, fs)
    BY <1>1 DEF Verifiers
  <2> DEFINE m == IF spec.mode = "" THEN Bearer ELSE spec.mode
             ts == {Token(t, fs) : t \in spec.tokens}
  <2>2. u = [mode |-> m, tokens |-> ts]
    BY <2>1 DEF FromSpec
  <2> HIDE DEF m, ts
  <2> QED
    BY <2>2
<1> QED
  BY <1>1 DEF Equivalent

\* The state of a reload that is not under way.
LEMMA RestingType ==
  /\ File0 \in FileStates /\ FromSpec(FirstSpec, File0) \in Verifiers
  /\ Resting \in ReloadStates
  /\ Resting.at = "idle" /\ Resting.hook = "mcp" /\ Resting.since = 0
<1>1. File0 \in FileStates
  BY AuthAssumption DEF FileStates
<1>2. FromSpec(FirstSpec, File0) \in Verifiers
  BY <1>1, FromSpecType, AuthAssumption
<1> QED
  BY <1>1, <1>2 DEF Resting, ReloadStates

\* What Done leaves of a reload's state.
LEMMA DoneFacts ==
  ASSUME NEW r \in ReloadStates
  PROVE  /\ Done(r) \in ReloadStates
         /\ Done(r).since \in {r.since, 0}
         /\ \/ r.hook = "mcp" /\ Done(r).hook = "rest" /\ Done(r).at = "load"
            \/ r.hook = "rest" /\ Done(r).hook = "mcp" /\ Done(r).at = "idle"
<1>1. CASE r.hook = "mcp"
  <2>1. Done(r) = [at |-> "load", hook |-> "rest", next |-> r.next, outer |-> r.outer,
                   changed |-> r.changed, since |-> r.since]
    BY <1>1 DEF Done, ReloadStates
  <2> QED
    BY <1>1, <2>1 DEF ReloadStates
<1>2. CASE r.hook = "rest"
  BY <1>2, RestingType DEF Done
<1> QED
  BY <1>1, <1>2 DEF ReloadStates

\* What AfterReplace leaves of it.
LEMMA AfterReplaceFacts ==
  ASSUME NEW r \in ReloadStates
  PROVE  /\ AfterReplace(r) \in ReloadStates
         /\ AfterReplace(r).since \in {r.since, 0}
         /\ \/ /\ r.hook = "rest" /\ r.outer /\ AfterReplace(r).at = "clear"
               /\ AfterReplace(r).hook = "rest" /\ AfterReplace(r).since = r.since
            \/ r.hook = "mcp" /\ AfterReplace(r).hook = "rest" /\ AfterReplace(r).at = "load"
            \/ r.hook = "rest" /\ AfterReplace(r).hook = "mcp" /\ AfterReplace(r).at = "idle"
<1>1. CASE r.hook = "rest" /\ r.outer
  <2>1. AfterReplace(r) = [at |-> "clear", hook |-> r.hook, next |-> r.next,
                           outer |-> r.outer, changed |-> r.changed, since |-> r.since]
    BY <1>1 DEF AfterReplace, ReloadStates
  <2> QED
    BY <1>1, <2>1 DEF ReloadStates
<1>2. CASE ~(r.hook = "rest" /\ r.outer)
  BY <1>2, DoneFacts DEF AfterReplace
<1> QED
  BY <1>1, <1>2

\* One reload moves, the others stay.
Moved(w, x) ==
  /\ reload' \in [Reloads -> ReloadStates]
  /\ reload'[w] = x
  /\ \A v \in Reloads : v # w => reload'[v] = reload[v]

\* The hook has read: what it does next.
LEMMA ReadsFacts ==
  ASSUME Typed, NEW w \in Reloads, HookReads(w)
  PROVE  LET r == reload[w]
             x == reload'[w]
         IN  /\ Moved(w, x) /\ x.since \in {r.since, 0}
             /\ \/ /\ ~Usable(active, files)
                   /\ \/ r.hook = "mcp" /\ x.hook = "rest" /\ x.at = "load"
                      \/ r.hook = "rest" /\ x.hook = "mcp" /\ x.at = "idle"
                \/ /\ Usable(active, files)
                   /\ x.hook = r.hook /\ x.next = FromSpec(active, files)
                   /\ x.at = IF r.hook = "rest" THEN "equivalent" ELSE "replace"
<1> DEFINE r == reload[w]
<1>1. r \in ReloadStates
  BY DEF Typed
<1>2. CASE ~Usable(active, files)
  <2>1. reload' = [reload EXCEPT ![w] = Done(r)]
    BY <1>2 DEF HookReads
  <2>2. reload'[w] = Done(r) /\ Moved(w, Done(r))
    BY <1>1, <2>1, DoneFacts DEF Typed, Moved
  <2> QED
    BY <1>1, <1>2, <2>2, DoneFacts
<1>3. CASE Usable(active, files)
  <2> DEFINE to == IF r.hook = "rest" THEN "equivalent" ELSE "replace"
             new == FromSpec(active, files)
  <2>1. reload' = [reload EXCEPT ![w] = [r EXCEPT !.next = new, !.at = to]]
    BY <1>3 DEF HookReads
  <2>2. new \in Verifiers /\ to \in {"equivalent", "replace"}
    BY <1>3, FromSpecType DEF Typed
  <2> HIDE DEF to, new
  <2>3. reload' \in [Reloads -> ReloadStates]
    BY <1>1, <2>1, <2>2 DEF Typed, ReloadStates
  <2>4. /\ \A v \in Reloads : v # w => reload'[v] = reload[v]
        /\ reload'[w].since = r.since /\ reload'[w].hook = r.hook
        /\ reload'[w].next = new /\ reload'[w].at = to
    BY <1>1, <2>1, <2>2 DEF Typed, ReloadStates
  <2> QED
    BY <1>3, <2>3, <2>4 DEF Moved, to, new
<1> QED
  BY <1>2, <1>3

\* A step of a reload that changes at, outer or changed.
LEMMA ComparesFacts ==
  ASSUME Typed, NEW w \in Reloads, HookCompares(w) \/ ReplaceCompares(w)
  PROVE  LET r == reload[w]
             x == reload'[w]
         IN  /\ Moved(w, x) /\ x.since = r.since /\ x.hook = r.hook /\ x.next = r.next
             /\ \/ /\ r.at = "equivalent" /\ x.at = "replace"
                   /\ x.outer <=> verifier # r.next
                \/ /\ r.at = "replace" /\ x.at = "set" /\ x.outer = r.outer
                   /\ x.changed <=> verifier # r.next
<1> DEFINE r == reload[w]
           b == ~Equivalent(verifier, r.next)
<1>1. r \in ReloadStates /\ verifier \in Verifiers /\ r.next \in Verifiers
  BY DEF Typed, ReloadStates
<1>2. b \in BOOLEAN /\ (b <=> verifier # r.next)
  BY <1>1, EquivalentSame
<1> HIDE DEF b
<1>3. CASE HookCompares(w)
  <2> DEFINE x == [at |-> "replace", hook |-> r.hook, next |-> r.next, outer |-> b,
                   changed |-> r.changed, since |-> r.since]
  <2>1. reload' = [reload EXCEPT ![w] = x] /\ r.at = "equivalent"
    BY <1>1, <1>3 DEF HookCompares, Typed, ReloadStates, b
  <2>2. x \in ReloadStates
    BY <1>1, <1>2 DEF ReloadStates
  <2>3. reload'[w] = x /\ Moved(w, x)
    BY <2>1, <2>2 DEF Typed, Moved
  <2> QED
    BY <1>2, <2>1, <2>3
<1>4. CASE ReplaceCompares(w)
  <2> DEFINE x == [at |-> "set", hook |-> r.hook, next |-> r.next, outer |-> r.outer,
                   changed |-> b, since |-> r.since]
  <2>1. reload' = [reload EXCEPT ![w] = x] /\ r.at = "replace"
    BY <1>1, <1>4 DEF ReplaceCompares, Typed, ReloadStates, b
  <2>2. x \in ReloadStates
    BY <1>1, <1>2 DEF ReloadStates
  <2>3. reload'[w] = x /\ Moved(w, x)
    BY <2>1, <2>2 DEF Typed, Moved
  <2> QED
    BY <1>2, <2>1, <2>3
<1> QED
  BY <1>3, <1>4

\* The verifier is set.
LEMMA SetsFacts ==
  ASSUME Typed, NEW w \in Reloads, ReplaceSets(w)
  PROVE  LET r == reload[w]
             x == reload'[w]
         IN  /\ Moved(w, x) /\ x.since \in {r.since, 0}
             /\ \/ r.changed /\ x.at = "notify" /\ x.hook = r.hook /\ x.since = r.since
                \/ /\ ~r.changed
                   /\ \/ /\ r.hook = "rest" /\ r.outer /\ x.at = "clear" /\ x.hook = "rest"
                         /\ x.since = r.since
                      \/ r.hook = "mcp" /\ x.hook = "rest" /\ x.at = "load"
                      \/ r.hook = "rest" /\ x.hook = "mcp" /\ x.at = "idle"
<1> DEFINE r == reload[w]
<1>1. r \in ReloadStates
  BY DEF Typed
<1>2. CASE r.changed
  <2> DEFINE x == [at |-> "notify", hook |-> r.hook, next |-> r.next, outer |-> r.outer,
                   changed |-> r.changed, since |-> r.since]
  <2>1. [r EXCEPT !.at = "notify"] = x
    BY <1>1 DEF ReloadStates
  <2>2. reload' = [reload EXCEPT ![w] = x]
    BY <1>2, <2>1 DEF ReplaceSets
  <2>3. x \in ReloadStates
    BY <1>1 DEF ReloadStates
  <2>4. reload'[w] = x /\ Moved(w, x)
    BY <2>2, <2>3 DEF Typed, Moved
  <2> QED
    BY <1>2, <2>4
<1>3. CASE ~r.changed
  <2>1. reload' = [reload EXCEPT ![w] = AfterReplace(r)]
    BY <1>3 DEF ReplaceSets
  <2>2. reload'[w] = AfterReplace(r) /\ Moved(w, AfterReplace(r))
    BY <1>1, <2>1, AfterReplaceFacts DEF Typed, Moved
  <2> QED
    BY <1>1, <1>3, <2>2, AfterReplaceFacts
<1> QED
  BY <1>2, <1>3

\* The table is cleared.
LEMMA ClearsFacts ==
  ASSUME Typed, NEW w \in Reloads, ReplaceNotifies(w) \/ HookClears(w)
  PROVE  LET r == reload[w]
             x == reload'[w]
         IN  /\ Moved(w, x) /\ x.since \in {r.since, 0}
             /\ r.at \in {"notify", "clear"} /\ x.at # r.at
             /\ \/ /\ r.at = "notify" /\ r.hook = "rest" /\ x.at = "clear" /\ x.hook = "rest"
                   /\ x.since = r.since
                \/ r.hook = "mcp" /\ x.hook = "rest" /\ x.at = "load"
                \/ r.hook = "rest" /\ x.hook = "mcp" /\ x.at = "idle"
             /\ sessions' = << >>
             /\ UNCHANGED <<world, verifier, identity, issued, now, overlapped, client>>
<1> DEFINE r == reload[w]
<1>1. r \in ReloadStates
  BY DEF Typed
<1>2. /\ sessions' = << >>
      /\ UNCHANGED <<world, verifier, identity, issued, now, overlapped, client>>
  BY DEF ReplaceNotifies, HookClears, Clears
<1>3. CASE ReplaceNotifies(w)
  <2>1. reload' = [reload EXCEPT ![w] = AfterReplace(r)] /\ r.at = "notify"
    BY <1>3 DEF ReplaceNotifies, Clears
  <2>2. reload'[w] = AfterReplace(r) /\ Moved(w, AfterReplace(r))
    BY <1>1, <2>1, AfterReplaceFacts DEF Typed, Moved
  <2> QED
    BY <1>1, <1>2, <2>1, <2>2, AfterReplaceFacts
<1>4. CASE HookClears(w)
  <2>1. reload' = [reload EXCEPT ![w] = Done(r)] /\ r.at = "clear"
    BY <1>4 DEF HookClears, Clears
  <2>2. reload'[w] = Done(r) /\ Moved(w, Done(r))
    BY <1>1, <2>1, DoneFacts DEF Typed, Moved
  <2> QED
    BY <1>1, <1>2, <2>1, <2>2, DoneFacts
<1> QED
  BY <1>3, <1>4

\* An apply or reset that starts.
LEMMA BeginsFacts ==
  ASSUME Typed, NEW w \in Reloads, Begins(w)
  PROVE  LET x == reload'[w]
         IN  /\ Moved(w, x) /\ reload[w].at = "idle"
             /\ x.at = "load" /\ x.hook = "mcp" /\ x.since = identity
             /\ overlapped' = (overlapped \/ \E v \in Reloads : reload[v].at # "idle")
             /\ UNCHANGED <<files, edited, verifier, identity, table, client>>
<1>1. Resting \in ReloadStates /\ Resting.hook = "mcp"
  BY RestingType
<1>2. identity \in Nat /\ reload \in [Reloads -> ReloadStates]
  BY DEF Typed
<1>3. reload' = [reload EXCEPT ![w] = [Resting EXCEPT !.at = "load", !.since = identity]]
  BY DEF Begins
<1>4. reload' \in [Reloads -> ReloadStates]
  BY <1>1, <1>2, <1>3 DEF ReloadStates
<1>5. /\ \A v \in Reloads : v # w => reload'[v] = reload[v]
      /\ reload'[w].at = "load" /\ reload'[w].hook = "mcp" /\ reload'[w].since = identity
  BY <1>1, <1>2, <1>3 DEF ReloadStates
<1> QED
  BY <1>4, <1>5 DEF Begins, Moved

\* A reload that is under way stays the only one.
LEMMA SerialKept ==
  ASSUME Serial, NEW w \in Reloads, reload[w].at # "idle", Moved(w, reload'[w]),
         overlapped' = overlapped
  PROVE  /\ Serial'
         /\ ~overlapped => \A v \in Reloads : v # w => reload[v].at = "idle"
  BY DEF Serial, Moved

\* The strengthened invariant apart from the table and the limits it depends on.
Core ==
  /\ Typed /\ StampsOK
  /\ ClearsJustified
  /\ Serial /\ ReadIsCurrent /\ AnnouncesChange

\* A start of an apply or reset.
LEMMA BeginsStep ==
  ASSUME Core, NEW w \in Reloads, Begins(w), active' \in Specs
  PROVE  Core'
<1> DEFINE x == reload'[w]
<1>1. /\ Moved(w, x) /\ reload[w].at = "idle"
      /\ x.at = "load" /\ x.hook = "mcp" /\ x.since = identity
      /\ overlapped' = (overlapped \/ \E v \in Reloads : reload[v].at # "idle")
      /\ UNCHANGED <<files, edited, verifier, identity, issued, now, client>>
  BY BeginsFacts DEF Core, table
<1> HIDE DEF x
<1>2. /\ reload' \in [Reloads -> ReloadStates] /\ reload'[w] = x
      /\ \A v \in Reloads : v # w => reload'[v] = reload[v]
  BY <1>1 DEF Moved
<1>3. Typed'
  BY <1>1, <1>2 DEF Core, Typed
<1>4. StampsOK'
  <2>1. identity <= identity
    BY DEF Core, Typed
  <2> QED
    BY <1>1, <1>2, <2>1 DEF Core, StampsOK
<1>5. ClearsJustified'
  BY <1>1, <1>2 DEF Core, ClearsJustified, Changes
<1>6. ~overlapped' => ~overlapped /\ \A v \in Reloads : v # w => reload'[v].at = "idle"
  BY <1>1, <1>2
<1>7. Serial'
  BY <1>6 DEF Serial
<1>8. ReadIsCurrent'
  BY <1>1, <1>2, <1>6 DEF ReadIsCurrent, Quiet
<1>9. AnnouncesChange'
  BY <1>1, <1>2, <1>6 DEF AnnouncesChange
<1> QED
  BY <1>3, <1>4, <1>5, <1>7, <1>8, <1>9 DEF Core

\* A file is edited: rest's hook has not read it yet.
LEMMA EditStep ==
  ASSUME Core, NEW f \in Files, NEW content \in Contents, EditFile(f, content)
  PROVE  Core'
<1>1. /\ files' = [files EXCEPT ![f] = content] /\ edited' = TRUE
      /\ UNCHANGED <<active, verifier, identity, issued, now, reload, overlapped, client>>
  BY DEF EditFile, table
<1>2. files' \in FileStates
  BY <1>1 DEF Core, Typed, FileStates
<1> QED
  BY <1>1, <1>2 DEF Core, Typed, StampsOK, ClearsJustified, Changes, Serial,
     ReadIsCurrent, AnnouncesChange

\* A reading.
LEMMA ReadsStep ==
  ASSUME Core, NEW w \in Reloads, HookReads(w)
  PROVE  Core'
<1> DEFINE r == reload[w]
           x == reload'[w]
<1>1. /\ Moved(w, x) /\ x.since \in {r.since, 0}
      /\ \/ /\ ~Usable(active, files)
            /\ \/ r.hook = "mcp" /\ x.hook = "rest" /\ x.at = "load"
               \/ r.hook = "rest" /\ x.hook = "mcp" /\ x.at = "idle"
         \/ /\ Usable(active, files)
            /\ x.hook = r.hook /\ x.next = FromSpec(active, files)
            /\ x.at = IF r.hook = "rest" THEN "equivalent" ELSE "replace"
  BY ReadsFacts DEF Core
<1>2. /\ r.at = "load" /\ edited' = (edited /\ r.hook = "mcp") /\ r.hook \in {"mcp", "rest"}
      /\ UNCHANGED <<active, files, verifier, identity, issued, now, overlapped, client>>
  BY DEF HookReads, table, Core, Typed, ReloadStates
<1>3. Serial' /\ (~overlapped => \A v \in Reloads : v # w => reload[v].at = "idle")
  BY <1>1, <1>2, SerialKept DEF Core
<1> HIDE DEF x
<1>4. /\ reload' \in [Reloads -> ReloadStates] /\ reload'[w] = x
      /\ \A v \in Reloads : v # w => reload'[v] = reload[v]
  BY <1>1 DEF Moved, x
<1>5. Typed'
  BY <1>2, <1>4 DEF Core, Typed
<1>6. StampsOK'
  <2>1. identity >= 0 /\ identity >= r.since
    BY DEF Core, Typed, StampsOK
  <2> QED
    BY <1>1, <1>2, <1>4, <2>1 DEF Core, StampsOK
<1>7. ClearsJustified'
  BY <1>1, <1>2, <1>4 DEF Core, ClearsJustified, Changes
<1>8. ReadIsCurrent'
  <2>1. CASE ~Usable(active, files)
    BY <1>2, <2>1 DEF ReadIsCurrent
  <2>2. CASE Usable(active, files)
    BY <1>1, <1>2, <1>3, <1>4, <2>2 DEF ReadIsCurrent, Quiet
  <2> QED
    BY <2>1, <2>2
<1>9. AnnouncesChange'
  BY <1>1, <1>2, <1>3, <1>4 DEF AnnouncesChange
<1> QED
  BY <1>3, <1>5, <1>6, <1>7, <1>8, <1>9 DEF Core

\* A comparison with the verifier.
LEMMA ComparesStep ==
  ASSUME Core, NEW w \in Reloads, HookCompares(w) \/ ReplaceCompares(w)
  PROVE  Core'
<1> DEFINE r == reload[w]
           x == reload'[w]
<1>1. /\ Moved(w, x) /\ x.since = r.since /\ x.hook = r.hook /\ x.next = r.next
      /\ \/ /\ r.at = "equivalent" /\ x.at = "replace"
            /\ x.outer <=> verifier # r.next
         \/ /\ r.at = "replace" /\ x.at = "set" /\ x.outer = r.outer
            /\ x.changed <=> verifier # r.next
  BY ComparesFacts DEF Core
<1>2. UNCHANGED <<active, files, edited, verifier, identity, issued, now, overlapped, client>>
  BY DEF HookCompares, ReplaceCompares, table, world
<1>3. Serial' /\ (~overlapped => \A v \in Reloads : v # w => reload[v].at = "idle")
  BY <1>1, <1>2, SerialKept DEF Core
<1> HIDE DEF x
<1>4. /\ reload' \in [Reloads -> ReloadStates] /\ reload'[w] = x
      /\ \A v \in Reloads : v # w => reload'[v] = reload[v]
  BY <1>1 DEF Moved, x
<1>5. Typed'
  BY <1>2, <1>4 DEF Core, Typed
<1>6. StampsOK'
  BY <1>1, <1>2, <1>4 DEF Core, StampsOK
<1>7. ClearsJustified'
  <2>1. ASSUME NEW v \in Reloads, v # w
        PROVE  /\ reload'[v] = reload[v]
               /\ Changes(reload[v])' <=> Changes(reload[v])
    BY <1>2, <1>4, <2>1 DEF Changes
  <2>2. /\ x.at = "replace" /\ x.hook = "rest" /\ x.outer => verifier # x.next
        /\ x.at = "set" /\ x.changed => verifier # x.next
        /\ x.at = "set" /\ x.hook = "rest" /\ x.outer => Changes(r)
        /\ x.at \notin {"notify", "clear"}
    BY <1>1 DEF Core, ClearsJustified
  <2> QED
    BY <1>1, <1>2, <1>4, <2>2 DEF Core, ClearsJustified, Changes
<1>8. ReadIsCurrent'
  BY <1>1, <1>2, <1>3, <1>4 DEF Core, ReadIsCurrent, Quiet
<1>9. AnnouncesChange'
  BY <1>1, <1>2, <1>3, <1>4 DEF AnnouncesChange
<1> QED
  BY <1>3, <1>5, <1>6, <1>7, <1>8, <1>9 DEF Core

\* The verifier is set.
LEMMA SetsStep ==
  ASSUME Core, NEW w \in Reloads, ReplaceSets(w)
  PROVE  Core'
<1> DEFINE r == reload[w]
           x == reload'[w]
<1>1. /\ Moved(w, x) /\ x.since \in {r.since, 0}
      /\ \/ r.changed /\ x.at = "notify" /\ x.hook = r.hook /\ x.since = r.since
         \/ /\ ~r.changed
            /\ \/ /\ r.hook = "rest" /\ r.outer /\ x.at = "clear" /\ x.hook = "rest"
                  /\ x.since = r.since
               \/ r.hook = "mcp" /\ x.hook = "rest" /\ x.at = "load"
               \/ r.hook = "rest" /\ x.hook = "mcp" /\ x.at = "idle"
  BY SetsFacts DEF Core
<1>2. /\ r.at = "set" /\ verifier' = r.next
      /\ identity' = IF verifier = r.next THEN identity ELSE identity + 1
      /\ UNCHANGED <<active, files, edited, issued, now, overlapped, client>>
  BY DEF ReplaceSets, table, world
<1>3. Serial' /\ (~overlapped => \A v \in Reloads : v # w => reload[v].at = "idle")
  BY <1>1, <1>2, SerialKept DEF Core
<1> HIDE DEF x
<1>4. /\ reload' \in [Reloads -> ReloadStates] /\ reload'[w] = x
      /\ \A v \in Reloads : v # w => reload'[v] = reload[v]
  BY <1>1 DEF Moved, x
<1>5. /\ identity \in Nat /\ r.next \in Verifiers
      /\ \A v \in Reloads : reload[v].since \in Nat /\ reload[v].since <= identity
      /\ \A c \in Clients : client[c].verified \in Nat /\ client[c].verified <= identity
  BY DEF Core, Typed, StampsOK, ReloadStates, ClientStates
<1>6. identity' \in Nat /\ identity <= identity' /\ (identity' = identity \/ identity' = identity + 1)
  BY <1>2, <1>5
<1>7. Typed'
  BY <1>2, <1>4, <1>5, <1>6 DEF Core, Typed
<1>8. StampsOK'
  <2>1. \A n \in Nat : n <= identity => n <= identity'
    BY <1>5, <1>6
  <2>2. x.since \in Nat /\ x.since <= identity
    BY <1>1, <1>5
  <2> QED
    BY <1>2, <1>4, <1>5, <2>1, <2>2 DEF Core, StampsOK
<1>9. ClearsJustified'
  <2>1. \A n \in Nat : /\ n <= identity /\ verifier # r.next => identity' > n
                       /\ identity > n => identity' > n
    BY <1>2, <1>5
  <2>2. ASSUME NEW v \in Reloads, Changes(reload[v])
        PROVE  verifier' # reload[v].next \/ identity' > reload[v].since
    <3>1. CASE verifier = r.next
      BY <1>2, <1>5, <2>1, <2>2, <3>1 DEF Changes
    <3>2. CASE verifier # r.next
      BY <1>5, <2>1, <3>2
    <3> QED
      BY <3>1, <3>2
  <2>3. ASSUME NEW v \in Reloads
        PROVE  LET q == reload[v]
               IN  /\ q.at = "replace" /\ q.hook = "rest" /\ q.outer
                        => verifier' # q.next \/ identity' > q.since
                   /\ q.at = "set" /\ (q.changed \/ (q.hook = "rest" /\ q.outer))
                        => verifier' # q.next \/ identity' > q.since
                   /\ q.at \in {"notify", "clear"} => identity' > q.since
    BY <1>5, <2>1, <2>2 DEF Core, ClearsJustified
  <2>4. x.at \in {"notify", "clear"} => identity' > x.since
    BY <1>1, <1>2, <2>2 DEF Core, ClearsJustified
  <2>5. x.at \notin {"replace", "set"}
    BY <1>1
  <2>6. ASSUME NEW v \in Reloads
        PROVE  LET q == reload'[v]
               IN  /\ q.at = "replace" /\ q.hook = "rest" /\ q.outer
                        => verifier' # q.next \/ identity' > q.since
                   /\ q.at = "set" /\ (q.changed \/ (q.hook = "rest" /\ q.outer))
                        => verifier' # q.next \/ identity' > q.since
                   /\ q.at \in {"notify", "clear"} => identity' > q.since
    <3>1. CASE v = w
      BY <1>4, <2>4, <2>5, <3>1
    <3>2. CASE v # w
      BY <1>4, <2>3, <3>2
    <3> QED
      BY <3>1, <3>2
  <2> QED
    BY <2>6 DEF ClearsJustified, Changes
<1>10. ReadIsCurrent'
  <2> SUFFICES ASSUME ~overlapped, ~edited, Usable(active, files)
      PROVE  /\ \A v \in Reloads :
                  reload'[v].hook = "rest" =>
                    /\ reload'[v].at \in {"equivalent", "replace", "set"} =>
                         reload'[v].next = FromSpec(active, files)
                    /\ reload'[v].at \in {"notify", "clear"} =>
                         verifier' = FromSpec(active, files)
             /\ Quiet' => verifier' = FromSpec(active, files)
    BY <1>2 DEF ReadIsCurrent
  <2>1. r.hook = "rest" => verifier' = FromSpec(active, files)
    BY <1>2 DEF Core, ReadIsCurrent
  <2>2. \A v \in Reloads : v # w => reload'[v].at = "idle"
    BY <1>3, <1>4
  <2>3. Quiet' => x.at = "idle"
    BY <1>4 DEF Quiet
  <2> QED
    BY <1>1, <1>4, <2>1, <2>2, <2>3
<1>11. AnnouncesChange'
  BY <1>1, <1>2, <1>3, <1>4 DEF AnnouncesChange
<1> QED
  BY <1>3, <1>7, <1>8, <1>9, <1>10, <1>11 DEF Core

\* The table is cleared.
LEMMA ClearsStep ==
  ASSUME Core, NEW w \in Reloads, ReplaceNotifies(w) \/ HookClears(w)
  PROVE  Core'
<1> DEFINE r == reload[w]
           x == reload'[w]
<1>1. /\ Moved(w, x) /\ x.since \in {r.since, 0} /\ r.at \in {"notify", "clear"}
      /\ \/ /\ r.hook = "rest" /\ x.at = "clear" /\ x.hook = "rest"
            /\ x.since = r.since
         \/ r.hook = "mcp" /\ x.hook = "rest" /\ x.at = "load"
         \/ r.hook = "rest" /\ x.hook = "mcp" /\ x.at = "idle"
  BY ClearsFacts DEF Core
<1>2. UNCHANGED <<active, files, edited, verifier, identity, issued, now, overlapped, client>>
  BY ClearsFacts DEF Core, world
<1>3. Serial' /\ (~overlapped => \A v \in Reloads : v # w => reload[v].at = "idle")
  BY <1>1, <1>2, SerialKept DEF Core
<1> HIDE DEF x
<1>4. /\ reload' \in [Reloads -> ReloadStates] /\ reload'[w] = x
      /\ \A v \in Reloads : v # w => reload'[v] = reload[v]
  BY <1>1 DEF Moved, x
<1>5. Typed'
  BY <1>2, <1>4 DEF Core, Typed
<1>6. StampsOK'
  <2>1. identity >= 0 /\ identity >= r.since
    BY DEF Core, Typed, StampsOK
  <2> QED
    BY <1>1, <1>2, <1>4, <2>1 DEF Core, StampsOK
<1>7. ClearsJustified'
  BY <1>1, <1>2, <1>4 DEF Core, ClearsJustified, Changes
<1>8. ReadIsCurrent'
  BY <1>1, <1>2, <1>3, <1>4 DEF Core, ReadIsCurrent, Quiet
<1>9. AnnouncesChange'
  BY <1>1, <1>2, <1>3, <1>4 DEF AnnouncesChange
<1> QED
  BY <1>3, <1>5, <1>6, <1>7, <1>8, <1>9 DEF Core

-------------------------------------------------------------------------------
\* A table that loses sessions, or touches them, without a new one.
Keeps(u) ==
  /\ DOMAIN u \subseteq DOMAIN sessions
  /\ \A k \in DOMAIN u : /\ u[k] \in SessionStates
                         /\ u[k].verified = sessions[k].verified
                         /\ u[k].made = sessions[k].made

\* What a look at one cookie does to the table (Lookup, DropExpired).
LEMMA LookFacts ==
  ASSUME Typed, TableOK, NEW k, Lookup(k) \/ DropExpired(k) \/ sessions' = sessions
  PROVE  /\ Keeps(sessions')
         /\ \A j \in DOMAIN sessions \ DOMAIN sessions' : Expired(sessions[j])
<1>1. CASE sessions' = sessions
  BY <1>1 DEF Keeps, TableOK
<1>2. CASE sessions' = Without(sessions, k) /\ k \in DOMAIN sessions /\ Expired(sessions[k])
  <2> DEFINE ks == DOMAIN sessions \ {k}
  <2>1. sessions' = [j \in ks |-> sessions[j]]
    BY <1>2 DEF Without, Only
  <2>2. DOMAIN sessions' = ks /\ \A j \in ks : sessions'[j] = sessions[j]
    BY <2>1
  <2> QED
    BY <1>2, <2>2 DEF Keeps, TableOK
<1>3. CASE k \in DOMAIN sessions /\ sessions' = [sessions EXCEPT ![k].lastSeen = now]
  <2>1. DOMAIN sessions' = DOMAIN sessions
    BY <1>3
  <2>2. \A j \in DOMAIN sessions : j # k => sessions'[j] = sessions[j]
    BY <1>3
  <2>3. sessions'[k] = [sessions[k] EXCEPT !.lastSeen = now]
    BY <1>3
  <2>4. sessions[k] \in SessionStates /\ now \in Nat
    BY <1>3 DEF TableOK, Typed
  <2>5. /\ sessions'[k] \in SessionStates
        /\ sessions'[k].verified = sessions[k].verified
        /\ sessions'[k].made = sessions[k].made
    BY <2>3, <2>4 DEF SessionStates
  <2> QED
    BY <2>1, <2>2, <2>5 DEF Keeps, TableOK
<1> QED
  BY <1>1, <1>2, <1>3 DEF Lookup, DropExpired

\* What a deletion does to it.
LEMMA DeleteFacts ==
  ASSUME TableOK, NEW k, sessions' = Without(sessions, k)
  PROVE  Keeps(sessions') /\ DOMAIN sessions' = DOMAIN sessions \ {k}
<1> DEFINE ks == DOMAIN sessions \ {k}
<1>1. sessions' = [j \in ks |-> sessions[j]]
  BY DEF Without, Only
<1>2. DOMAIN sessions' = ks /\ \A j \in ks : sessions'[j] = sessions[j]
  BY <1>1
<1> QED
  BY <1>2 DEF Keeps, TableOK

\* The table is finite.
LEMMA TableFinite ==
  ASSUME Typed, TableOK, NEW S \in SUBSET DOMAIN sessions
  PROVE  /\ IsFiniteSet(S) /\ Cardinality(S) \in Nat
         /\ Cardinality(S) <= Cardinality(DOMAIN sessions)
         /\ Cardinality(DOMAIN sessions) \in Nat
<1>1. IsFiniteSet(1 .. issued)
  BY FS_Interval DEF Typed
<1>2. IsFiniteSet(DOMAIN sessions)
  BY <1>1, FS_Subset DEF TableOK
<1> QED
  BY <1>2, FS_Subset, FS_CardinalityType

\* A table that only loses sessions stays within its limit and owes no more clears.
LEMMA KeepsTable ==
  ASSUME Typed, TableOK, ClearsOwed, Keeps(sessions'),
         UNCHANGED <<identity, issued, reload, overlapped>>
  PROVE  TableOK' /\ ClearsOwed'
<1>1. Cardinality(DOMAIN sessions') <= MaxSessions
  <2>1. DOMAIN sessions' \in SUBSET DOMAIN sessions
    BY DEF Keeps
  <2> DEFINE n == Cardinality(DOMAIN sessions')
             m == Cardinality(DOMAIN sessions)
  <2>2. n \in Nat /\ m \in Nat /\ n <= m
    BY <2>1, TableFinite
  <2>3. m <= MaxSessions
    BY DEF TableOK
  <2> HIDE DEF n, m
  <2> QED
    BY <2>2, <2>3, AuthAssumption DEF n
<1>2. TableOK'
  BY <1>1 DEF TableOK, Keeps
<1>3. ClearsOwed'
  BY DEF ClearsOwed, Keeps
<1> QED
  BY <1>2, <1>3

\* Where a new session goes: among the live ones, less the oldest of a full table
\* (evictOldestLocked).
LEMMA RoomFacts ==
  ASSUME Typed, TableOK, NEW t \in Room(Only(sessions, Live(sessions)))
  PROVE  /\ DOMAIN t \subseteq Live(sessions)
         /\ \A k \in DOMAIN t : t[k] = sessions[k]
         /\ Cardinality(DOMAIN t) \in Nat /\ Cardinality(DOMAIN t) < MaxSessions
         /\ \A k \in Live(sessions) \ DOMAIN t :
              /\ Cardinality(Live(sessions)) = MaxSessions
              /\ \A j \in Live(sessions) : sessions[k].lastSeen <= sessions[j].lastSeen
<1> DEFINE L == Live(sessions)
           t0 == Only(sessions, L)
           n == Cardinality(L)
<1>1. L \in SUBSET DOMAIN sessions
  BY DEF Live
<1>2. IsFiniteSet(L) /\ n \in Nat /\ n <= MaxSessions
  <2>1. Cardinality(DOMAIN sessions) <= MaxSessions
    BY DEF TableOK
  <2> QED
    BY <1>1, <2>1, TableFinite, AuthAssumption
<1>3. DOMAIN t0 = L /\ \A k \in L : t0[k] = sessions[k]
  BY DEF Only
<1> HIDE DEF L, t0
<1>4. CASE n >= MaxSessions
  <2>1. n = MaxSessions
    BY <1>2, <1>4, AuthAssumption
  <2>2. PICK k \in L : /\ t = Without(t0, k)
                       /\ \A j \in L : sessions[k].lastSeen <= sessions[j].lastSeen
    BY <1>3, <1>4 DEF Room, Evicted, L, t0
  <2> DEFINE ks == L \ {k}
  <2>3. t = [j \in ks |-> t0[j]]
    BY <1>3, <2>2 DEF Without, Only
  <2>4. DOMAIN t = ks /\ \A j \in ks : t[j] = sessions[j]
    BY <1>3, <2>3
  <2>5. Cardinality(ks) = n - 1
    BY <1>2, FS_RemoveElement
  <2>6. Cardinality(ks) \in Nat /\ Cardinality(ks) < MaxSessions
    BY <1>2, <2>1, <2>5, AuthAssumption
  <2>7. \A j \in L \ DOMAIN t : j = k
    BY <2>4
  <2> QED
    BY <2>1, <2>2, <2>4, <2>6, <2>7 DEF L
<1>5. CASE ~(n >= MaxSessions)
  <2>1. t = t0
    BY <1>3, <1>5 DEF Room, L, t0
  <2> QED
    BY <1>2, <1>3, <1>5, <2>1, AuthAssumption DEF L
<1> QED
  BY <1>4, <1>5

-------------------------------------------------------------------------------
\* What a request may hold.
ClientOK(r) ==
  /\ r \in ClientStates /\ r.verified <= identity /\ r.cookie <= issued
  /\ r.at # "idle" => r.cap \in Caps

\* A step of a request leaves the reloads alone.
LEMMA RequestCore ==
  ASSUME Core, NEW c \in Clients, NEW r, ClientOK(r),
         client' = [client EXCEPT ![c] = r] \/ client' = client,
         UNCHANGED <<world, verifier, identity, reload, overlapped>>,
         issued' \in Nat, issued' >= issued, now' \in Nat
  PROVE  Core'
<1>1. UNCHANGED <<active, files, edited, verifier, identity, reload, overlapped>>
  BY DEF world
<1>2. client' \in [Clients -> ClientStates]
  BY DEF Core, Typed, ClientOK
<1>3. \A d \in Clients : client'[d] = client[d] \/ client'[d] = r
  BY DEF Core, Typed
<1>4. Typed'
  BY <1>1, <1>2 DEF Core, Typed
<1>5. \A d \in Clients : client[d].cookie \in Nat /\ client[d].cookie <= issued
  BY DEF Core, Typed, StampsOK, ClientStates
<1>6. r.cookie \in Nat /\ r.cookie <= issued
  BY DEF ClientOK, ClientStates
<1>7. \A n \in Nat : n <= issued => n <= issued'
  BY DEF Core, Typed
<1>8. StampsOK'
  BY <1>1, <1>3, <1>5, <1>6, <1>7 DEF Core, StampsOK, ClientOK
<1>9. ClearsJustified' /\ Serial' /\ ReadIsCurrent' /\ AnnouncesChange'
  BY <1>1 DEF Core, ClearsJustified, Changes, Serial, ReadIsCurrent, Quiet, AnnouncesChange
<1> QED
  BY <1>4, <1>8, <1>9 DEF Core

\* A request nobody makes.
LEMMA NobodyOK ==
  ASSUME Core
  PROVE  ClientOK(Nobody)
<1> DEFINE actor == Nobody.actor
<1>1. actor \in Actors
  BY DEF Actors
<1>2. Nobody = [at |-> "idle", cap |-> "none", cookie |-> 0, actor |-> actor, verified |-> 0]
  BY DEF Nobody
<1>3. 0 <= identity /\ 0 <= issued
  BY DEF Core, Typed
<1> HIDE DEF actor
<1> QED
  BY <1>1, <1>2, <1>3 DEF ClientOK, ClientStates

\* A request that has been authenticated.
LEMMA BecomesFacts ==
  ASSUME Core, NEW c \in Clients, NEW cap \in Caps, NEW k \in 0 .. issued,
         NEW actor \in Actors, NEW stamp \in Nat, stamp <= identity,
         Becomes(c, cap, k, actor, stamp)
  PROVE  \E r : ClientOK(r) /\ client' = [client EXCEPT ![c] = r]
<1> DEFINE at == IF k # 0 /\ UnsafeMethod(Method(cap)) THEN "csrf" ELSE "allowed"
           r == [at |-> at, cap |-> cap, cookie |-> k, actor |-> actor, verified |-> stamp]
<1>1. client' = [client EXCEPT ![c] = r]
  BY DEF Becomes
<1>2. at \in {"csrf", "allowed"}
  OBVIOUS
<1>3. k \in Nat /\ k <= issued
  BY DEF Core, Typed
<1> HIDE DEF at
<1>4. ClientOK(r)
  BY <1>2, <1>3 DEF ClientOK, ClientStates
<1> QED
  BY <1>1, <1>4

\* What a request does to the table apart from creating a session.
LEMMA LookStep ==
  ASSUME IInv, NEW c \in Clients, NEW cap \in Caps,
         \/ \E t \in verifier.tokens : AuthenticateBearer(c, t, cap)
         \/ \E k \in 0 .. issued : AuthenticateCookie(c, k, cap) \/ AuthenticateNeither(c, k, cap)
         \/ Authorize(c)
  PROVE  /\ IInv'
         /\ \A j \in DOMAIN sessions \ DOMAIN sessions' : Expired(sessions[j])
<1> DEFINE Held == \E r : /\ ClientOK(r)
                          /\ client' = [client EXCEPT ![c] = r] \/ client' = client
<1>1. Core /\ Typed /\ TableOK /\ ClearsOwed
  BY DEF IInv, Core
<1>2. UNCHANGED <<world, verifier, identity, issued, now, reload, overlapped>>
  BY DEF AuthenticateBearer, AuthenticateCookie, AuthenticateNeither, Authorize, table
<1>3. \E k : Lookup(k) \/ DropExpired(k) \/ sessions' = sessions
  BY DEF AuthenticateBearer, AuthenticateCookie, AuthenticateNeither, Authorize, table
<1>4. /\ Keeps(sessions')
      /\ \A j \in DOMAIN sessions \ DOMAIN sessions' : Expired(sessions[j])
  BY <1>1, <1>3, LookFacts
<1>5. TableOK' /\ ClearsOwed'
  BY <1>1, <1>2, <1>4, KeepsTable
<1>6. identity \in Nat /\ issued \in Nat /\ now \in Nat
  BY <1>1 DEF Typed
<1>7. ASSUME NEW t \in verifier.tokens, AuthenticateBearer(c, t, cap)
      PROVE  Held
  <2>1. Principal(t) \in Actors
    BY <1>1 DEF Typed, Actors
  <2>2. 0 \in 0 .. issued /\ identity <= identity
    BY <1>6
  <2>3. Becomes(c, cap, 0, Principal(t), identity)
    BY <1>7 DEF AuthenticateBearer
  <2> QED
    BY <1>1, <1>6, <2>1, <2>2, <2>3, BecomesFacts
<1>8. ASSUME NEW k \in 0 .. issued, AuthenticateCookie(c, k, cap)
      PROVE  Held
  <2>1. k \in DOMAIN sessions /\ Becomes(c, cap, k, sessions[k].principal, sessions[k].verified)
    BY <1>8 DEF AuthenticateCookie, Live
  <2>2. /\ sessions[k].principal \in Actors
        /\ sessions[k].verified \in Nat /\ sessions[k].verified <= identity
    BY <1>1, <2>1 DEF TableOK, SessionStates
  <2> QED
    BY <1>1, <2>1, <2>2, BecomesFacts
<1>9. ASSUME NEW k \in 0 .. issued, AuthenticateNeither(c, k, cap)
      PROVE  Held
  <2>1. CASE Becomes(c, cap, k, LoopbackPrincipal, identity)
    <3>1. LoopbackPrincipal \in Actors /\ identity <= identity
      BY <1>6 DEF Actors
    <3> QED
      BY <1>1, <1>6, <2>1, <3>1, BecomesFacts
  <2>2. CASE client' = client
    BY <1>1, <2>2, NobodyOK
  <2> QED
    BY <1>9, <2>1, <2>2 DEF AuthenticateNeither
<1>10. ASSUME Authorize(c)
       PROVE  Held
  <2>1. CASE client' = [client EXCEPT ![c] = Nobody]
    BY <1>1, <2>1, NobodyOK
  <2>2. CASE client' = [client EXCEPT ![c].at = "allowed"]
    <3> DEFINE q == client[c]
               r == [at |-> "allowed", cap |-> q.cap, cookie |-> q.cookie,
                     actor |-> q.actor, verified |-> q.verified]
    <3>1. q \in ClientStates /\ q.at = "csrf"
      BY <1>1, <1>10 DEF Typed, Authorize
    <3> DEFINE y == [q EXCEPT !.at = "allowed"]
    <3>2. client' = [client EXCEPT ![c] = r]
      <4>1. client' = [client EXCEPT ![c] = y]
        BY <2>2
      <4>2. y = r
        BY <3>1 DEF ClientStates
      <4> HIDE DEF y, r
      <4> QED
        BY <4>1, <4>2
    <3>3. ClientOK(r)
      BY <1>1, <3>1 DEF ClientOK, ClientStates, Core, StampsOK
    <3> QED
      BY <3>2, <3>3
  <2> QED
    BY <1>10, <2>1, <2>2 DEF Authorize
<1>11. Held
  BY <1>7, <1>8, <1>9, <1>10
<1>12. Core'
  <2>1. PICK r : /\ ClientOK(r)
                 /\ client' = [client EXCEPT ![c] = r] \/ client' = client
    BY <1>11
  <2>2. issued' \in Nat /\ issued' >= issued /\ now' \in Nat
    BY <1>2, <1>6
  <2> QED
    BY <1>1, <1>2, <2>1, <2>2, RequestCore
<1> QED
  BY <1>4, <1>5, <1>12 DEF IInv, Core

\* Why a session may be gone after a step (SessionLostForCause).
LostForCause(k) ==
  \/ Expired(sessions[k])
  \/ \E c \in Clients : /\ client[c].at = "allowed" /\ client[c].cookie = k
                        /\ client[c].cap = "session.delete"
  \/ \E w \in Reloads : /\ reload[w].at \in {"notify", "clear"}
                        /\ reload'[w].at # reload[w].at
                        /\ identity > reload[w].since
  \/ /\ Cardinality(Live(sessions)) = MaxSessions /\ issued' > issued
     /\ \A j \in Live(sessions) : sessions[k].lastSeen <= sessions[j].lastSeen

Lost == \A k \in DOMAIN sessions \ DOMAIN sessions' : LostForCause(k)

\* A new session takes its place in the table.
LEMMA CreateFacts ==
  ASSUME IInv, NEW c \in Clients, Create(c), UNCHANGED <<identity, reload, overlapped>>
  PROVE  TableOK' /\ ClearsOwed' /\ Lost
<1> DEFINE new == [principal |-> client[c].actor, createdAt |-> now, lastSeen |-> now,
                   verified |-> client[c].verified, made |-> identity]
<1>1. Typed /\ TableOK /\ ClearsOwed /\ StampsOK
  BY DEF IInv
<1>2. PICK t \in Room(Only(sessions, Live(sessions))) :
        sessions' = [k \in DOMAIN t \cup {issued + 1} |-> IF k \in DOMAIN t THEN t[k] ELSE new]
  BY DEF Create
<1>3. issued' = issued + 1 /\ issued \in Nat /\ identity \in Nat
  BY <1>1 DEF Create, Typed
<1> DEFINE D == DOMAIN t
           E == D \cup {issued + 1}
<1>4. /\ D \subseteq Live(sessions) /\ \A k \in D : t[k] = sessions[k]
      /\ Cardinality(D) \in Nat /\ Cardinality(D) < MaxSessions
      /\ \A k \in Live(sessions) \ D :
           /\ Cardinality(Live(sessions)) = MaxSessions
           /\ \A j \in Live(sessions) : sessions[k].lastSeen <= sessions[j].lastSeen
  BY <1>1, RoomFacts
<1>5. D \in SUBSET DOMAIN sessions /\ IsFiniteSet(D) /\ issued + 1 \notin D
  <2>1. D \in SUBSET DOMAIN sessions
    BY <1>4 DEF Live
  <2>2. DOMAIN sessions \subseteq 1 .. issued
    BY <1>1 DEF TableOK
  <2> QED
    BY <1>1, <1>3, <2>1, <2>2, TableFinite
<1>6. new \in SessionStates /\ new.verified <= identity /\ new.made = identity
  <2>1. client[c] \in ClientStates /\ client[c].verified <= identity /\ now \in Nat
    BY <1>1 DEF Typed, StampsOK
  <2> QED
    BY <1>3, <2>1 DEF SessionStates, ClientStates
<1> HIDE DEF new
<1>7. /\ DOMAIN sessions' = E
      /\ \A k \in D : sessions'[k] = sessions[k]
      /\ sessions'[issued + 1] = new
  BY <1>2, <1>4, <1>5
<1>8. E \subseteq 1 .. issued'
  BY <1>1, <1>3, <1>5 DEF TableOK
<1>9. Cardinality(E) <= MaxSessions
  <2>1. Cardinality(E) = Cardinality(D) + 1
    BY <1>5, FS_AddElement
  <2> QED
    BY <1>4, <2>1, AuthAssumption
<1>10. TableOK'
  BY <1>1, <1>5, <1>6, <1>7, <1>8, <1>9 DEF TableOK
<1>11. ClearsOwed'
  BY <1>1, <1>5, <1>6, <1>7 DEF ClearsOwed
<1>12. ASSUME NEW k \in DOMAIN sessions \ DOMAIN sessions'
       PROVE  LostForCause(k)
  <2>1. k \notin D /\ issued' > issued
    BY <1>3, <1>7
  <2>2. CASE k \in Live(sessions)
    BY <1>4, <2>1, <2>2 DEF LostForCause
  <2>3. CASE k \notin Live(sessions)
    BY <2>3 DEF LostForCause, Live
  <2> QED
    BY <2>2, <2>3
<1> QED
  BY <1>10, <1>11, <1>12 DEF Lost

\* A request is handled.
LEMMA HandleStep ==
  ASSUME IInv, NEW c \in Clients, Handle(c)
  PROVE  IInv' /\ Lost
<1> DEFINE q == client[c]
<1>1. Core /\ Typed /\ TableOK /\ ClearsOwed
  BY DEF IInv, Core
<1>2. /\ q.at = "allowed" /\ client' = [client EXCEPT ![c] = Nobody]
      /\ UNCHANGED <<world, verifier, identity, now, reload, overlapped>>
  BY DEF Handle
<1>3. q.cap \in Caps /\ issued \in Nat /\ now \in Nat
  BY <1>1, <1>2 DEF Core, StampsOK, Typed
<1>4. \/ q.cap = "session.create" /\ Create(c)
      \/ q.cap = "session.get" /\ Lookup(q.cookie) /\ issued' = issued
      \/ q.cap = "session.delete" /\ sessions' = Without(sessions, q.cookie) /\ issued' = issued
  <2>1. CASE q.cap = "session.create"
    BY <2>1 DEF Handle
  <2>2. CASE q.cap = "session.get"
    BY <2>2 DEF Handle
  <2>3. CASE q.cap = "session.delete"
    BY <2>3 DEF Handle
  <2> QED
    BY <1>3, <2>1, <2>2, <2>3 DEF Caps
<1>5. TableOK' /\ ClearsOwed' /\ Lost
  <2>1. CASE Create(c)
    BY <1>2, <2>1, CreateFacts
  <2>2. CASE Lookup(q.cookie) /\ issued' = issued
    <3>1. /\ Keeps(sessions')
          /\ \A j \in DOMAIN sessions \ DOMAIN sessions' : Expired(sessions[j])
      BY <1>1, <2>2, LookFacts
    <3>2. TableOK' /\ ClearsOwed'
      BY <1>1, <1>2, <2>2, <3>1, KeepsTable
    <3> QED
      BY <3>1, <3>2 DEF Lost, LostForCause
  <2>3. CASE /\ q.cap = "session.delete" /\ sessions' = Without(sessions, q.cookie)
             /\ issued' = issued
    <3>1. Keeps(sessions') /\ DOMAIN sessions' = DOMAIN sessions \ {q.cookie}
      BY <1>1, <2>3, DeleteFacts
    <3>2. TableOK' /\ ClearsOwed'
      BY <1>1, <1>2, <2>3, <3>1, KeepsTable
    <3> QED
      BY <1>2, <2>3, <3>1, <3>2 DEF Lost, LostForCause
  <2> QED
    BY <1>4, <2>1, <2>2, <2>3
<1>6. issued' \in Nat /\ issued' >= issued /\ now' \in Nat
  BY <1>2, <1>3, <1>4 DEF Create
<1>7. Core'
  BY <1>1, <1>2, <1>6, NobodyOK, RequestCore
<1> QED
  BY <1>5, <1>7 DEF IInv, Core

\* The clock ticks.
LEMMA TickStep ==
  ASSUME IInv, Tick
  PROVE  IInv' /\ Lost
<1>1. /\ now' = now + 1
      /\ UNCHANGED <<active, files, edited, verifier, identity, sessions, issued, reload,
                     overlapped, client>>
  BY DEF Tick, world
<1>2. Typed' /\ TableOK' /\ StampsOK' /\ ClearsOwed'
  BY <1>1 DEF IInv, Typed, TableOK, StampsOK, ClearsOwed
<1>3. ClearsJustified' /\ Serial' /\ ReadIsCurrent' /\ AnnouncesChange'
  BY <1>1 DEF IInv, ClearsJustified, Changes, Serial, ReadIsCurrent, Quiet, AnnouncesChange
<1>4. Lost
  BY <1>1 DEF Lost
<1> QED
  BY <1>2, <1>3, <1>4 DEF IInv

\* A step of an apply or reset, or an edit: the table stays, or it is cleared.
LEMMA ReloadStep ==
  ASSUME IInv, NEW w \in Reloads,
         \/ ApplySwaps(w) \/ (\E spec \in Specs : ResetSwaps(w, spec))
         \/ HookReads(w) \/ HookCompares(w) \/ ReplaceCompares(w) \/ ReplaceSets(w)
         \/ ReplaceNotifies(w) \/ HookClears(w)
  PROVE  IInv' /\ Lost
<1> DEFINE r == reload[w]
           x == reload'[w]
<1>1. Core /\ Typed /\ TableOK /\ ClearsOwed /\ AnnouncesChange /\ Serial /\ ClearsJustified
  BY DEF IInv, Core
<1>2. CASE ApplySwaps(w) \/ \E spec \in Specs : ResetSwaps(w, spec)
  <2>1. Begins(w) /\ active' \in Specs
    BY <1>1, <1>2 DEF ApplySwaps, ResetSwaps, Typed
  <2>2. /\ Moved(w, x) /\ r.at = "idle"
        /\ UNCHANGED <<identity, table>> /\ (overlapped => overlapped')
        /\ overlapped' \in BOOLEAN
    BY <1>1, <2>1, BeginsFacts DEF Typed
  <2>3. Core' /\ TableOK' /\ Lost
    BY <1>1, <2>1, <2>2, BeginsStep DEF TableOK, Lost, table
  <2>4. ClearsOwed'
    BY <1>1, <2>2 DEF ClearsOwed, Moved, table
  <2> QED
    BY <2>3, <2>4 DEF IInv, Core
<1>3. CASE HookReads(w) \/ HookCompares(w) \/ ReplaceCompares(w)
  <2>1. /\ Moved(w, x) /\ r.at # "notify" /\ UNCHANGED <<identity, table, overlapped>>
    BY <1>1, <1>3, ReadsFacts, ComparesFacts DEF HookReads, HookCompares, ReplaceCompares
  <2>2. Core' /\ TableOK' /\ Lost
    BY <1>1, <1>3, <2>1, ReadsStep, ComparesStep DEF TableOK, Lost, table
  <2>3. ClearsOwed'
    BY <1>1, <2>1 DEF ClearsOwed, Moved, table
  <2> QED
    BY <2>2, <2>3 DEF IInv, Core
<1>4. CASE ReplaceSets(w)
  <2>1. /\ Moved(w, x) /\ r.at = "set" /\ UNCHANGED <<table, overlapped>>
        /\ identity' = IF verifier = r.next THEN identity ELSE identity + 1
        /\ r.changed => x.at = "notify"
    BY <1>1, <1>4, SetsFacts DEF ReplaceSets
  <2>2. Core' /\ Lost
    BY <1>1, <1>4, <2>1, SetsStep DEF Lost, table
  <2>3. identity <= identity'
    BY <1>1, <2>1 DEF Typed
  <2>4. TableOK'
    BY <1>1, <2>1, <2>3 DEF TableOK, Typed, table, SessionStates
  <2>5. ClearsOwed'
    <3>1. CASE verifier = r.next
      BY <1>1, <2>1, <3>1 DEF ClearsOwed, Moved, table
    <3>2. CASE verifier # r.next
      BY <1>1, <2>1, <3>2 DEF ClearsOwed, AnnouncesChange, Moved
    <3> QED
      BY <3>1, <3>2
  <2> QED
    BY <2>2, <2>4, <2>5 DEF IInv, Core
<1>5. CASE ReplaceNotifies(w) \/ HookClears(w)
  <2>1. /\ r.at \in {"notify", "clear"} /\ x.at # r.at
        /\ sessions' = << >> /\ UNCHANGED <<identity, issued>>
    BY <1>1, <1>5, ClearsFacts
  <2>2. Core'
    BY <1>1, <1>5, ClearsStep
  <2>3. DOMAIN << >> = {} /\ Cardinality({}) = 0
    BY FS_EmptySet
  <2>4. TableOK' /\ ClearsOwed'
    BY <2>1, <2>3, AuthAssumption DEF TableOK, ClearsOwed
  <2>5. identity > r.since
    BY <1>1, <2>1 DEF ClearsJustified
  <2>6. Lost
    BY <2>1, <2>5 DEF Lost, LostForCause
  <2> QED
    BY <2>2, <2>4, <2>6 DEF IInv, Core
<1> QED
  BY <1>2, <1>3, <1>4, <1>5

-------------------------------------------------------------------------------
\* The process starts with a verifier of its own and an empty table.
LEMMA InitIInv == Init => IInv
<1> SUFFICES ASSUME Init
             PROVE  IInv
  OBVIOUS
<1>1. /\ active = FirstSpec /\ files = File0 /\ verifier = FromSpec(FirstSpec, File0)
      /\ sessions = << >> /\ issued = 0 /\ now = 0 /\ identity = 0
      /\ edited = FALSE /\ overlapped = FALSE
      /\ reload = [w \in Reloads |-> Resting] /\ client = [c \in Clients |-> Nobody]
  BY DEF Init
<1>2. Nobody \in ClientStates /\ Nobody.verified = 0 /\ Nobody.cookie = 0 /\ Nobody.at = "idle"
  <2> DEFINE actor == Nobody.actor
  <2>1. actor \in Actors
    BY DEF Actors
  <2>2. Nobody = [at |-> "idle", cap |-> "none", cookie |-> 0, actor |-> actor, verified |-> 0]
    BY DEF Nobody
  <2> HIDE DEF actor
  <2> QED
    BY <2>1, <2>2 DEF ClientStates
<1>3. \A w \in Reloads : /\ reload[w] \in ReloadStates /\ reload[w].at = "idle"
                         /\ reload[w].since = 0 /\ reload[w].hook = "mcp"
  BY <1>1, RestingType
<1>4. Typed
  BY <1>1, <1>2, RestingType, AuthAssumption DEF Typed
<1>5. StampsOK
  BY <1>1, <1>2, <1>3 DEF StampsOK
<1>6. TableOK /\ ClearsOwed
  <2>1. DOMAIN << >> = {} /\ Cardinality({}) = 0
    BY FS_EmptySet
  <2> QED
    BY <1>1, <2>1, AuthAssumption DEF TableOK, ClearsOwed
<1>7. ClearsJustified /\ Serial /\ ReadIsCurrent /\ AnnouncesChange
  BY <1>1, <1>3 DEF ClearsJustified, Serial, ReadIsCurrent, AnnouncesChange
<1> QED
  BY <1>4, <1>5, <1>6, <1>7 DEF IInv

\* No step breaks the strengthened invariant, and none loses a session without cause.
LEMMA IInvStep == IInv /\ [Next]_vars => IInv' /\ [Lost]_vars
<1> SUFFICES ASSUME IInv, [Next]_vars
             PROVE  IInv' /\ [Lost]_vars
  OBVIOUS
<1>1. CASE UNCHANGED vars
  <2>1. UNCHANGED <<active, files, edited, verifier, identity, sessions, issued, now, reload,
                    overlapped, client>>
    BY <1>1 DEF vars, world, table
  <2>2. Typed' /\ TableOK' /\ StampsOK' /\ ClearsOwed'
    BY <2>1 DEF IInv, Typed, TableOK, StampsOK, ClearsOwed
  <2>3. ClearsJustified' /\ Serial' /\ ReadIsCurrent' /\ AnnouncesChange'
    BY <2>1 DEF IInv, ClearsJustified, Changes, Serial, ReadIsCurrent, Quiet, AnnouncesChange
  <2> QED
    BY <1>1, <2>2, <2>3 DEF IInv
<1>2. ASSUME NEW w \in Reloads,
             \/ ApplySwaps(w) \/ (\E spec \in Specs : ResetSwaps(w, spec))
             \/ HookReads(w) \/ HookCompares(w) \/ ReplaceCompares(w) \/ ReplaceSets(w)
             \/ ReplaceNotifies(w) \/ HookClears(w)
      PROVE  IInv' /\ Lost
  BY <1>2, ReloadStep
<1>3. ASSUME NEW f \in Files, NEW content \in Contents, EditFile(f, content)
      PROVE  IInv' /\ Lost
  <2>1. Core'
    BY <1>3, EditStep DEF IInv, Core
  <2>2. UNCHANGED <<sessions, issued, identity, reload, overlapped>>
    BY <1>3 DEF EditFile, table
  <2>3. TableOK' /\ ClearsOwed' /\ Lost
    BY <2>2 DEF IInv, TableOK, ClearsOwed, Lost
  <2> QED
    BY <2>1, <2>3 DEF IInv, Core
<1>4. ASSUME NEW c \in Clients, NEW cap \in Caps,
             \/ \E t \in verifier.tokens : AuthenticateBearer(c, t, cap)
             \/ \E k \in 0 .. issued : AuthenticateCookie(c, k, cap) \/ AuthenticateNeither(c, k, cap)
             \/ Authorize(c)
      PROVE  IInv' /\ Lost
  BY <1>4, LookStep DEF Lost, LostForCause
<1>5. ASSUME NEW c \in Clients, Authorize(c)
      PROVE  IInv' /\ Lost
  <2>1. "session.get" \in Caps
    BY DEF Caps
  <2> QED
    BY <1>4, <1>5, <2>1
<1>6. ASSUME NEW c \in Clients, Handle(c)
      PROVE  IInv' /\ Lost
  BY <1>6, HandleStep
<1>7. CASE Tick
  BY <1>7, TickStep
<1> QED
  BY <1>1, <1>2, <1>3, <1>4, <1>5, <1>6, <1>7 DEF Next

\* The strengthened invariant holds of every behaviour.
LEMMA Inductive == Spec => []IInv
<1>1. Init => IInv
  BY InitIInv
<1>2. IInv /\ [Next]_vars => IInv'
  BY IInvStep
<1> QED
  BY <1>1, <1>2, PTL DEF Spec

\* Every component stays in range and the table within its limit (TypeOK): Create
\* evicts before it inserts, and every step that changes the table holds Store.mu.
THEOREM TypeCorrect == Spec => []TypeOK
<1>1. IInv => TypeOK
  <2> SUFFICES ASSUME IInv
               PROVE  TypeOK
    OBVIOUS
  <2>1. verifier.mode \in {Bearer, Loopback}
    BY DEF IInv, Typed, Verifiers, Modes
  <2>2. \A w \in Reloads : reload[w] \in ReloadStates /\ reload[w].since <= identity
    BY DEF IInv, Typed, StampsOK
  <2>3. \A c \in Clients : /\ client[c] \in ClientStates /\ client[c].verified <= identity
                           /\ client[c].cookie <= issued
    BY DEF IInv, Typed, StampsOK
  <2>4. issued \in Nat
    BY DEF IInv, Typed
  <2>5. active \in Specs /\ files \in FileStates
    BY DEF IInv, Typed
  <2>6. /\ DOMAIN sessions \subseteq 1 .. issued
        /\ Cardinality(DOMAIN sessions) <= MaxSessions
    BY DEF IInv, TableOK
  <2>7. \A w \in Reloads :
          /\ reload[w].at \in {"idle", "load", "equivalent", "replace", "set", "notify", "clear"}
          /\ reload[w].hook \in {"mcp", "rest"} /\ reload[w].since <= identity
    BY <2>2 DEF ReloadStates
  <2>8. \A c \in Clients :
          /\ client[c].at \in {"idle", "csrf", "allowed"}
          /\ client[c].cookie \in 0 .. issued /\ client[c].verified <= identity
    BY <2>3, <2>4 DEF ClientStates
  <2> QED
    BY <2>1, <2>5, <2>6, <2>7, <2>8 DEF TypeOK, FileStates
<1> QED
  BY <1>1, Inductive, PTL

\* VerifierFollowsSnapshot: the hooks run after App.mu is released, so each reads the
\* snapshot that is active by then. Whatever mcp's reading found, rest's comes last,
\* and unless a file was edited after it or another apply or reset overlapped, what it
\* read is what the active snapshot says, and that is what Replace sets.
THEOREM VerifierFollows == Spec => []VerifierFollowsSnapshot
<1>1. IInv => VerifierFollowsSnapshot
  BY DEF IInv, ReadIsCurrent, VerifierFollowsSnapshot
<1> QED
  BY <1>1, Inductive, PTL

\* SessionsFollowIdentity: when Replace changes the identity it has compared against
\* the verifier it replaces, so it announces the change, and the announcement clears
\* every session that was made before; only a request that had verified already can
\* insert one later, and that one is marked (verified < made).
THEOREM SessionsFollow == Spec => []SessionsFollowIdentity
<1>1. ASSUME IInv, Quiet, ~overlapped, NEW k \in DOMAIN sessions
      PROVE  /\ sessions[k].made = identity
             /\ sessions[k].verified = identity \/ sessions[k].verified < identity
  <2>1. sessions[k].made = identity
    BY <1>1 DEF IInv, ClearsOwed, Quiet
  <2>2. /\ sessions[k].verified \in Nat /\ identity \in Nat
        /\ sessions[k].verified <= identity
    BY <1>1 DEF IInv, Typed, TableOK, SessionStates
  <2> QED
    BY <2>1, <2>2
<1>2. IInv => SessionsFollowIdentity
  BY <1>1 DEF SessionsFollowIdentity
<1> QED
  BY <1>2, Inductive, PTL

\* SessionLostForCause: also under overlapping reloads a table is cleared only by a
\* reload in whose course the identity changed, because it clears when it found the
\* verifier different from what it had read, and then either it set that verifier
\* itself or somebody else had changed it in between.
THEOREM SessionsLostForCause == Spec => SessionLostForCause
<1>1. IInv /\ [Next]_vars => [Lost]_vars
  BY IInvStep
<1>2. Spec => [][Lost]_vars
  BY <1>1, Inductive, PTL DEF Spec
<1>3. [Lost]_vars => [\A k \in DOMAIN sessions \ DOMAIN sessions' :
       \/ Expired(sessions[k])
       \/ \E c \in Clients : /\ client[c].at = "allowed" /\ client[c].cookie = k
                             /\ client[c].cap = "session.delete"
       \/ \E w \in Reloads : /\ reload[w].at \in {"notify", "clear"}
                             /\ reload'[w].at # reload[w].at
                             /\ identity > reload[w].since
       \/ /\ Cardinality(Live(sessions)) = MaxSessions /\ issued' > issued
          /\ \A j \in Live(sessions) : sessions[k].lastSeen <= sessions[j].lastSeen]_vars
  BY DEF Lost, LostForCause
<1> QED
  BY <1>2, <1>3, PTL DEF SessionLostForCause
=================================================================================

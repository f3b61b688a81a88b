------------------------------ MODULE ViewClock ------------------------------
(***************************************************************************)
(* The virtual clock of one filter: compiled from its view by apply and    *)
(* reset (compileView in internal/compiler), read by the packet handlers   *)
(* (handle in internal/ntpserver, View in internal/ntpview) while the next *)
(* snapshot is being compiled. The host has two clocks: the monotonic one, *)
(* and the wall clock, which may be stepped. Instants are integers on one  *)
(* scale, and Floor .. Ceil is what an NTP timestamp can show.             *)
(*                                                                         *)
(* Other filters do not matter to this one's clock: an apply that changes  *)
(* them, or anything else, is an apply of the same view.                   *)
(***************************************************************************)
EXTENDS Config

CONSTANTS
  Floor, Ceil,  \* ntpEra0Start, the last instant before ntpEra1End
  MaxDuration,  \* the longest time.Duration, about 292 years
  Views,        \* the views asked for, valid or not
  BootView,     \* the one of the bootstrap file at start
  Documents,    \* whole documents, for ValidatedDocumentsServe
  Handlers,     \* packet handlers
  MaxTime,      \* bound: ticks of the monotonic clock
  MaxSteps,     \* bound: how far the wall clock gets ahead
  MaxCompiles   \* bound: snapshots compiled

VARIABLES
  now,       \* the host's clocks, [mono, wall]
  store,     \* the installed snapshot: its generation, that of the last
             \* reset, and the filter's compiled view, if it is there
  compiled,  \* the snapshot compiled and not yet installed, at most one
  packets,   \* what each handler holds: when it received, then which view
  sent       \* the answer the last step sent, if it sent one
vars == <<now, store, compiled, packets, sent>>

Sole(set) == CHOOSE x \in set : TRUE

----------------------------------------------------------------------------
(* ntpview/view.go and ntpwire/time.go. A compiled view keeps the view it  *)
(* was compiled from, its generation, and where it starts: virtual at the  *)
(* host's instant epoch.                                                   *)

ClampServed(t) == IF t < Floor THEN Floor ELSE IF t > Ceil THEN Ceil ELSE t

saturatingDuration(d) ==
  IF d > MaxDuration THEN MaxDuration ELSE IF d < -MaxDuration THEN -MaxDuration ELSE d

Rate(v) == CASE v.spec.mode = "rate"     -> Sole(v.spec.rate)
             [] v.spec.mode = "absolute" -> 1
             [] OTHER                    -> 0

servedUnclamped(v, t) ==
  CASE v.spec.mode \in {"absolute", "freeze", "rate"} ->
         v.virtual + saturatingDuration((t.mono - v.epoch.mono) * Rate(v))
    [] v.spec.mode \in {"follow-real", "offset"} -> t.wall + v.spec.offset

Served(v, t) == ClampServed(servedUnclamped(v, t))

(* A hash of the generation and the host's second, within -jitter..jitter. *)
JitterDelta(v, second) ==
  ((v.gen * 2 + second) % (2 * v.spec.jitter + 1)) - v.spec.jitter

RefTime(v, xmt) == IF v.spec.mode \in {"freeze", "rate"} THEN v.virtual ELSE xmt

----------------------------------------------------------------------------
(* compileView. The previous view is the installed one of that name; there *)
(* is none for a new filter and for a reset.                               *)

rateEqual(p, spec)     == p.spec.rate # {} /\ p.spec.rate = spec.rate
sameEpochYAML(p, spec) == p.spec.epoch = spec.epoch
Kept(spec, prev)    == {p \in prev : rateEqual(p, spec) /\ sameEpochYAML(p, spec)}
Changed(spec, prev) == {p \in prev : p.spec.rate # {} /\ ~rateEqual(p, spec)}

(* Mutant: a clock that is kept is kept from now on.                       *)
MutRateEpoch(spec, t, prev) ==
  CASE Kept(spec, prev) # {} -> [virtual |-> Sole(Kept(spec, prev)).virtual, epoch |-> t]
    [] Kept(spec, prev) = {} /\ spec.epoch # <<>> ->
         [virtual |-> Instant(spec.epoch), epoch |-> t]
    [] Kept(spec, prev) = {} /\ spec.epoch = <<>> ->
         [virtual |-> IF Changed(spec, prev) # {} THEN Served(Sole(Changed(spec, prev)), t)
                      ELSE t.wall, epoch |-> t]

(* Where a rate clock starts: where it did, at the epoch written, where it *)
(* has come to, or at the host's time.                                     *)
RateEpoch(spec, t, prev) ==
  CASE Kept(spec, prev) # {} -> [virtual |-> Sole(Kept(spec, prev)).virtual,
                                 epoch |-> Sole(Kept(spec, prev)).epoch]
    [] Kept(spec, prev) = {} /\ spec.epoch # <<>> ->
         [virtual |-> Instant(spec.epoch), epoch |-> t]
    [] Kept(spec, prev) = {} /\ spec.epoch = <<>> ->
         [virtual |-> IF Changed(spec, prev) # {} THEN Served(Sole(Changed(spec, prev)), t)
                      ELSE t.wall, epoch |-> t]

Anchor(spec, t, prev) ==
  CASE spec.mode = "rate"     -> RateEpoch(spec, t, prev)
    [] spec.mode = "absolute" -> [virtual |-> Instant(spec.absolute), epoch |-> t]
    [] spec.mode = "freeze"   -> [virtual |-> Instant(spec.freezeAt), epoch |-> t]
    [] OTHER                  -> [virtual |-> t.wall + spec.offset, epoch |-> t]

(* The texts parsed here; Validate has looked at them.                     *)
CompileFails(spec, prev) ==
  \/ spec.mode = "absolute" /\ ~Parses(spec.absolute)
  \/ spec.mode = "freeze" /\ ~Parses(spec.freezeAt)
  \/ spec.mode = "rate" /\ Kept(spec, prev) = {} /\ spec.epoch # <<>> /\ ~Parses(spec.epoch)

compileView(spec, t, gen, prev) ==
  LET start == Anchor(spec, t, prev)
  IN [spec |-> spec, gen |-> gen, virtual |-> start.virtual, epoch |-> start.epoch]

(* A filter is there, with its view, or not.                               *)
Compile(filter, gen, boot, prev) ==
  [gen |-> gen, boot |-> boot,
   view |-> {compileView(materializeView(spec), now, gen, prev) : spec \in filter}]

Compiles(filter, prev) ==
  \A spec \in filter : validateView(materializeView(spec)) /\ ~CompileFails(spec, prev)

Filters == {{}} \cup {{spec} : spec \in Views}

(* What the parameters have to be: a duration spans the range, views are   *)
(* what the parser gives, and the process has started with a file that     *)
(* compiles.                                                               *)
Text == {<<>>, <<"blank">>, <<"junk">>} \cup ({"at", "zoned"} \X Int)

IsRecord(r, fields) == fields \subseteq DOMAIN r /\ r = [k \in DOMAIN r |-> r[k]]

IsView(spec) ==
  /\ IsRecord(spec, {"mode", "offset", "absolute", "freezeAt", "rate", "epoch", "leap",
                     "stratum", "refid", "jitter"})
  /\ spec.offset \in Int /\ spec.jitter \in Int
  /\ {spec.absolute, spec.freezeAt, spec.epoch} \subseteq Text
  /\ spec.rate \subseteq Int /\ \A r, q \in spec.rate : r = q

IsDocument(d) ==
  /\ IsRecord(d, {"listeners", "auth", "ntp", "filters", "logLevel", "auditRing"})
  /\ IsRecord(d.listeners, {"ntp", "management", "restPath", "mcpPath"})
  /\ IsRecord(d.auth, {"mode"})
  /\ IsRecord(d.ntp, {"versions", "serveMode", "restrict", "allow"})
  /\ d.ntp.versions \in Seq(Int) /\ Len(d.filters) \in Nat
  /\ DOMAIN d.filters = 1 .. Len(d.filters)
  /\ \A i \in DOMAIN d.filters : IsRecord(d.filters[i], {"view"}) /\ IsView(d.filters[i].view)

ASSUME ViewClockAssumption ==
  /\ Floor \in Int /\ Ceil \in Int /\ Floor < Ceil
  /\ MaxDuration \in Nat /\ MaxDuration > Ceil - Floor
  /\ MaxTime \in Nat /\ MaxSteps \in Nat /\ MaxCompiles \in Nat
  /\ \A spec \in Views \cup {BootView} : IsView(spec)
  /\ \A d \in Documents : IsDocument(d)
  /\ Compiles({BootView}, {})

----------------------------------------------------------------------------

Init ==
  /\ now = [mono |-> 0, wall |-> 0]
  /\ store = Compile({BootView}, 0, 0, {})
  /\ compiled = <<>>
  /\ packets = [h \in Handlers |-> <<>>]
  /\ sent = {}

Tick ==
  /\ now.mono < MaxTime
  /\ now' = [mono |-> now.mono + 1, wall |-> now.wall + 1]
  /\ sent' = {}
  /\ UNCHANGED <<store, compiled, packets>>

(* The host's clock is stepped, by hand or by its own NTP client.          *)
StepWall ==
  /\ \E d \in {-1, 1} :
       /\ now.wall + d - now.mono \in 0 .. MaxSteps
       /\ now' = [now EXCEPT !.wall = @ + d]
  /\ sent' = {}
  /\ UNCHANGED <<store, compiled, packets>>

(* App compiles under its mutex; what follows may still fail (keys file,   *)
(* diff, preflight, rebinds) and takes time before the snapshot is seen.   *)
MayCompile == compiled = <<>> /\ store.gen < MaxCompiles

ApplyCompiles ==
  /\ MayCompile
  /\ \E filter \in Filters :
       /\ Compiles(filter, store.view)
       /\ compiled' = <<Compile(filter, store.gen + 1, store.boot, store.view)>>
  /\ sent' = {}
  /\ UNCHANGED <<now, store, packets>>

ResetCompiles ==
  /\ MayCompile
  /\ \E filter \in Filters :
       /\ Compiles(filter, {})
       /\ compiled' = <<Compile(filter, store.gen + 1, store.gen + 1, {})>>
  /\ sent' = {}
  /\ UNCHANGED <<now, store, packets>>

Fails ==
  /\ compiled # <<>> /\ compiled' = <<>>
  /\ sent' = {}
  /\ UNCHANGED <<now, store, packets>>

Swap ==
  /\ compiled # <<>>
  /\ store' = compiled[1] /\ compiled' = <<>>
  /\ sent' = {}
  /\ UNCHANGED <<now, packets>>

(* handle: tRecv was read when the packet came, the snapshot is loaded     *)
(* once, and tXmit is read once the view is known.                         *)
Receive(h) ==
  /\ packets[h] = <<>>
  /\ packets' = [packets EXCEPT ![h] = <<now>>]
  /\ sent' = {}
  /\ UNCHANGED <<now, store, compiled>>

Load(h) ==
  /\ Len(packets[h]) = 1
  /\ packets' = [packets EXCEPT ![h] = IF store.view = {} THEN <<>>
                                       ELSE Append(@, Sole(store.view))]
  /\ sent' = {}
  /\ UNCHANGED <<now, store, compiled>>

(* The delta goes into the transmit time, and the reference time is made   *)
(* from that before the delta is added to it. FromTime clamps again.       *)
Answer(v, recv, xmt) ==
  LET jit     == JitterDelta(v, recv.wall)
      xmtVirt == Served(v, xmt) + jit
  IN [view |-> v, recv |-> recv, xmt |-> xmt,
      recTime |-> ClampServed(Served(v, recv) + jit),
      xmtTime |-> ClampServed(xmtVirt),
      refTime |-> ClampServed(RefTime(v, xmtVirt) + jit)]

(* Mutant: the snapshot is loaded again for the transmit time.             *)
MutReply(h) ==
  /\ Len(packets[h]) = 2
  /\ LET v == packets[h][2]
         w == IF store.view = {} THEN v ELSE Sole(store.view)
     IN sent' = {[Answer(v, packets[h][1], now) EXCEPT
                     !.xmtTime = Answer(w, packets[h][1], now).xmtTime]}
  /\ packets' = [packets EXCEPT ![h] = <<>>]
  /\ UNCHANGED <<now, store, compiled>>

Reply(h) ==
  /\ Len(packets[h]) = 2
  /\ sent' = {Answer(packets[h][2], packets[h][1], now)}
  /\ packets' = [packets EXCEPT ![h] = <<>>]
  /\ UNCHANGED <<now, store, compiled>>

Next ==
  \/ Tick \/ StepWall
  \/ ApplyCompiles \/ ResetCompiles \/ Fails \/ Swap
  \/ \E h \in Handlers : Receive(h) \/ Load(h) \/ Reply(h)

Spec == Init /\ [][Next]_vars

----------------------------------------------------------------------------

(* A rate view is a clock of its own: whatever else is applied, however    *)
(* the host's wall clock is stepped, and although the code computes it     *)
(* from an anchor, in saturating arithmetic, and hands it from snapshot to *)
(* snapshot, it does what VirtualClock says (D19).                         *)
RateView == {v \in store.view : v.spec.mode = "rate"}

Virtual == INSTANCE VirtualClock WITH
  MaxLag <- MaxTime,
  asked  <- IF RateView = {} THEN [rate |-> 0, epoch |-> <<>>, boot |-> -1]
            ELSE [rate |-> Rate(Sole(RateView)), epoch |-> Sole(RateView).spec.epoch,
                  boot |-> store.boot],
  hand   <- IF RateView = {} THEN 0
            ELSE LET v == Sole(RateView)
                 IN v.virtual + (now.mono - v.epoch.mono) * Rate(v),
  shown  <- IF RateView = {} THEN 0 ELSE Served(Sole(RateView), now)

RateKeepsTime == Virtual!Spec

(* Away from the ends of the range the times of a reply are as far apart   *)
(* as its view's clock ran while the packet was handled, and no reference  *)
(* time is later than the transmit time of a clock that runs forward,      *)
(* whatever is installed and however the host is stepped meanwhile. A      *)
(* clock that has run for longer than a duration holds stands still; from  *)
(* within the range it has then left it, from an epoch far outside it may  *)
(* have stopped inside.                                                    *)
Inside(t)  == t > Floor /\ t < Ceil
Runs(v, t) == (t.mono - v.epoch.mono) * Rate(v) \in -MaxDuration .. MaxDuration

RepliesAreConsistent ==
  \A r \in sent :
    LET v   == r.view
        ran == IF v.spec.mode \in {"follow-real", "offset"} THEN r.xmt.wall - r.recv.wall
               ELSE Rate(v) * (r.xmt.mono - r.recv.mono)
    IN /\ v.spec.jitter = 0 /\ Inside(r.recTime) /\ Inside(r.xmtTime)
            => r.xmtTime - r.recTime = ran \/ ~Runs(v, r.recv) \/ ~Runs(v, r.xmt)
       /\ v.spec.jitter = 0 /\ Rate(v) >= 0 => r.refTime <= r.xmtTime

(* (Refuted) docs/02-ntp-semantics.md: the same delta is added to receive, *)
(* transmit, and reference timestamps of one packet. The code adds it      *)
(* twice to the reference time of a view that has none of its own.         *)
OneDeltaPerPacket ==
  \A r \in sent : \E jit \in -r.view.spec.jitter .. r.view.spec.jitter :
    /\ r.recTime = ClampServed(Served(r.view, r.recv) + jit)
    /\ r.xmtTime = ClampServed(Served(r.view, r.xmt) + jit)
    /\ r.refTime = ClampServed(RefTime(r.view, Served(r.view, r.xmt)) + jit)

(* What validates is fit to serve: its views compile, a client the         *)
(* allowlist lets in finds a filter and a version, and to normalise it     *)
(* once more changes nothing, so its revision is that of its export. There *)
(* is one exception: an epoch of blanks is no epoch to Validate, and one   *)
(* that does not parse to Compile. Asked of the program as it starts.      *)
Starting == now = [mono |-> 0, wall |-> 0] /\ store.gen = 0 /\ compiled = <<>>

ValidatedDocumentsServe ==
  Starting => \A d \in Documents :
    LET n == Normalize(d) IN
    Validate(n) =>
      /\ \A i \in DOMAIN n.filters :
           LET v == n.filters[i].view IN
           CompileFails(v, store.view) <=> (v.mode = "rate" /\ v.epoch = <<"blank">>)
      /\ \A v6, lan, zoned \in BOOLEAN :
           LET addr == [v6 |-> v6, lan |-> lan, zoned |-> zoned]
           IN Allowed(n, addr) => Match(n, addr) # {}
      /\ VersionOK(n, 3) \/ VersionOK(n, 4)
      /\ Normalize(n) = n
=============================================================================

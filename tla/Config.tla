-------------------------------- MODULE Config --------------------------------
(***************************************************************************)
(* The configuration document from the parsed YAML or JSON to a document   *)
(* that may be compiled: Normalize and Validate (internal/config), and the *)
(* part of a snapshot the packet path asks: Allowed, Match and VersionOK   *)
(* (internal/snapshot). StateDoc has the operations that edit a document.  *)
(*                                                                         *)
(* An instant is an integer. A text that should be an instant is <<>> when *)
(* empty, <<"blank">>, <<"junk">>, or t spelled one way or the other:      *)
(* <<"at", t>>, <<"zoned", t>>; other texts are "", " " if blank, or a     *)
(* name. An optional number is a set with at most one.                     *)
(***************************************************************************)
EXTENDS Integers, Sequences, FiniteSets

CONSTANTS
  MaxAbsRate,     \* the largest |rate|
  MinDuration,    \* the duration no text spells, math.MinInt64
  MaxQueryLogSize

ASSUME ConfigAssumption ==
  /\ MaxAbsRate \in Nat \ {0} /\ MaxQueryLogSize \in Nat \ {0}
  /\ MinDuration \in Int /\ MinDuration < 0

Blank(name)    == name \in {"", " "}
BlankTime(txt) == txt \in {<<>>, <<"blank">>}
Parses(txt)    == Len(txt) = 2
Instant(txt)   == txt[2]   \* ParseRFC3339

Or(name, default) == IF Blank(name) THEN default ELSE name

----------------------------------------------------------------------------
(* normalize.go. allowClientCidrs has a third value, nil: the key is       *)
(* missing. Versions is a sequence, as written.                            *)

NilList == {"nil"}
Universal == {"0.0.0.0/0", "::/0"}

materializeView(v) ==
  [v EXCEPT !.leap = Or(@, "none"),
            !.refid = Or(@, CASE v.stratum = 1  -> "GPS"
                              [] v.stratum = 16 -> "INIT"
                              [] OTHER          -> "LOCL")]

defaultListeners(l) ==
  [l EXCEPT !.ntp = Or(@, ":123"), !.management = Or(@, ":8088"),
            !.restPath = Or(@, "/v1"), !.mcpPath = Or(@, "/mcp")]

defaultNTP(n) ==
  [n EXCEPT !.versions = IF @ = <<>> THEN <<3, 4>> ELSE @,
            !.serveMode = Or(@, "unicast"), !.restrict = Or(@, "serve"),
            !.allow = IF @ = NilList THEN Universal ELSE @]

defaultFilters(filters) ==
  [i \in DOMAIN filters |-> [filters[i] EXCEPT !.view = materializeView(@)]]

materializeDefaults(d) ==
  [d EXCEPT !.listeners = defaultListeners(@), !.auth.mode = Or(@, "bearer"),
            !.ntp = defaultNTP(@), !.filters = defaultFilters(@),
            !.logLevel = Or(@, "info"), !.auditRing = IF @ = 0 THEN 128 ELSE @]

Normalize(d) == materializeDefaults(d)

----------------------------------------------------------------------------
(* validate.go. A rule is a predicate; which violations a refusal lists is *)
(* left out.                                                               *)

Distinct(seq, Key(_)) ==
  \A i, j \in DOMAIN seq : Key(seq[i]) = Key(seq[j]) => i = j

validateDocument(d) == d.apiVersion = "v1alpha1" /\ d.kind = "LabNTP" /\ ~Blank(d.name)

(* A path or an address is told from a bad one by its first character.     *)
validateListeners(l) ==
  /\ \A addr \in {l.ntp, l.management} : ~Blank(addr) /\ addr # "junk"
  /\ \A path \in {l.restPath, l.mcpPath} : path # "junk"

validateAuth(a) ==
  /\ a.mode \in {"", "bearer", "dev-loopback-unauth"}
  /\ Distinct(a.tokens, LAMBDA t : t.id)
  /\ \A i \in DOMAIN a.tokens :
       /\ ~Blank(a.tokens[i].id) /\ ~Blank(a.tokens[i].secretFile)
       /\ a.tokens[i].role \in {"", "viewer", "operator", "administrator"}

validateManagement(m) ==
  /\ \A limit \in {m.bodyLimit, m.requestsPerSecond, m.burst, m.maxConcurrent} : limit >= 0
  /\ "*" \notin m.allowedOrigins

validateNTP(n) ==
  /\ n.serveMode \in {"", "unicast"} /\ ~n.nts
  /\ n.restrict \in {"", "serve", "limited", "ignore"}
  /\ \A i \in DOMAIN n.versions : n.versions[i] \in {3, 4}
  /\ Distinct(n.versions, LAMBDA v : v)
  /\ n.maxPacketsPerSec >= 1 /\ n.maxPacketsPerIP >= 1
  /\ n.queryLog \in 1 .. MaxQueryLogSize
  /\ "junk" \notin n.allow

(* The forbidden-field matrix. Blank texts are not present.                *)
Present(v) ==
  (IF v.offset # 0 THEN {"offset"} ELSE {})
  \cup (IF BlankTime(v.absolute) THEN {} ELSE {"absolute"})
  \cup (IF BlankTime(v.freezeAt) THEN {} ELSE {"freezeAt"})
  \cup (IF v.rate = {} THEN {} ELSE {"rate"})
  \cup (IF BlankTime(v.epoch) THEN {} ELSE {"epoch"})

Modes == {"follow-real", "offset", "absolute", "freeze", "rate"}
Legal == [m \in Modes |-> CASE m = "follow-real" -> {}
                            [] m = "offset"   -> {"offset"}
                            [] m = "absolute" -> {"absolute"}
                            [] m = "freeze"   -> {"freezeAt"}
                            [] m = "rate"     -> {"rate", "epoch"}]
Required == [m \in Modes |-> IF m = "offset" THEN {} ELSE Legal[m] \ {"epoch"}]

MinPoll == -6
MaxPoll == 17

(* Advertised quality; rootDelay and rootDispersion are bounded as jitter. *)
validateQuality(v) ==
  /\ v.leap \in {"", "none", "insert", "delete", "unsync"}
  /\ v.stratum \in 1 .. 16
  /\ v.jitter >= 0
  /\ v.minpoll \cup v.maxpoll \subseteq MinPoll .. MaxPoll
  /\ \A lo \in v.minpoll, hi \in v.maxpoll : lo <= hi
  /\ v.refid # "toolong"

(* Mutant: the epoch's text is not looked at.                              *)
MutValidateView(v) ==
  /\ v.offset # MinDuration /\ v.mode \in Modes
  /\ Required[v.mode] \subseteq Present(v) /\ Present(v) \subseteq Legal[v.mode]
  /\ "absolute" \in Present(v) => Parses(v.absolute)
  /\ "freezeAt" \in Present(v) => Parses(v.freezeAt)
  /\ \A r \in v.rate : r \in -MaxAbsRate .. MaxAbsRate
  /\ validateQuality(v)

validateView(v) ==
  /\ v.offset # MinDuration /\ v.mode \in Modes
  /\ Required[v.mode] \subseteq Present(v) /\ Present(v) \subseteq Legal[v.mode]
  /\ "absolute" \in Present(v) => Parses(v.absolute)
  /\ "freezeAt" \in Present(v) => Parses(v.freezeAt)
  /\ "epoch" \in Present(v) => Parses(v.epoch)
  /\ \A r \in v.rate : r \in -MaxAbsRate .. MaxAbsRate
  /\ validateQuality(v)

(* A network is the default of a family, a part of it, or junk.            *)
validateFilters(filters) ==
  /\ \A i \in DOMAIN filters :
       LET f == filters[i] IN
         /\ f.name \notin {"", " ", "junk"}
         /\ f.enabled => f.cidrs # {}
         /\ "junk" \notin f.cidrs
         /\ validateView(f.view)
  /\ Distinct(filters, LAMBDA f : f.name)
  /\ \A default \in Universal :
       \E i \in DOMAIN filters : filters[i].enabled /\ default \in filters[i].cidrs

Validate(d) ==
  /\ validateDocument(d) /\ validateListeners(d.listeners) /\ validateAuth(d.auth)
  /\ validateManagement(d.management) /\ validateNTP(d.ntp)
  /\ validateFilters(d.filters)
  /\ d.logLevel \in {"", "debug", "info", "warn", "error"}

----------------------------------------------------------------------------
(* snapshot.go. An address is of a family, in or out of the LAN, and may   *)
(* be a zoned one (link-local IPv6), which no prefix contains.             *)

Contains(net, addr) ==
  ~addr.zoned /\ \/ net = (IF addr.v6 THEN "::/0" ELSE "0.0.0.0/0")
                 \/ net = (IF addr.v6 THEN "lan6" ELSE "lan4") /\ addr.lan

ContainedIn(nets, addr) == \E net \in nets : Contains(net, addr)

Allowed(d, addr) == ContainedIn(d.ntp.allow, addr)   \* [] is deny-all

(* The first enabled filter with a prefix that contains the address.       *)
Match(d, addr) ==
  LET hits == {i \in DOMAIN d.filters :
                 d.filters[i].enabled /\ ContainedIn(d.filters[i].cidrs, addr)}
  IN IF hits = {} THEN {} ELSE {CHOOSE i \in hits : \A j \in hits : i <= j}

VersionOK(d, vn) == \E i \in DOMAIN d.ntp.versions : d.ntp.versions[i] = vn
=============================================================================

----------------------------- MODULE MCViewClock -----------------------------
(***************************************************************************)
(* The views TLC applies and the documents it validates: a usual one, and  *)
(* what it becomes when one or two of its parts are changed.               *)
(***************************************************************************)
EXTENDS ViewClock

MCFloor == -1
MCMinDuration == -99

At(t) == <<"at", t>>

Plain ==
  [mode |-> "follow-real", offset |-> 0, absolute |-> <<>>, freezeAt |-> <<>>,
   rate |-> {}, epoch |-> <<>>, leap |-> "", stratum |-> 2, refid |-> "",
   jitter |-> 0, minpoll |-> {}, maxpoll |-> {}]

RateView2 == [Plain EXCEPT !.mode = "rate", !.rate = {2}]

MCViews ==
  {Plain, RateView2, [Plain EXCEPT !.mode = "absolute", !.absolute = At(3)],
   [RateView2 EXCEPT !.rate = {-1}], [RateView2 EXCEPT !.epoch = At(4)],
   [RateView2 EXCEPT !.epoch = <<"zoned", 4>>], [RateView2 EXCEPT !.epoch = <<"blank">>],
   [RateView2 EXCEPT !.rate = {9}]}

Texts == {<<>>, <<"blank">>, <<"junk">>, At(3)}

DocViews ==
  {[Plain EXCEPT !.mode = m, !.offset = o, !.absolute = a, !.rate = r] :
     m \in Modes \cup {"", "junk"}, o \in {0, 2, MinDuration}, a \in Texts, r \in {{}, {2}, {9}}}
  \cup {[Plain EXCEPT !.mode = m, !.freezeAt = f, !.rate = r, !.epoch = e] :
          m \in Modes, f \in Texts, r \in {{}, {2}, {-2}}, e \in Texts}
  \cup {[Plain EXCEPT !.leap = l, !.stratum = s, !.refid = i, !.jitter = j,
                      !.minpoll = lo, !.maxpoll = hi] :
          l \in {"", " ", "unsync", "junk"}, s \in {0, 1, 2, 16, 17},
          i \in {"", "GPS", "toolong"}, j \in {-1, 0, 1},
          lo \in {{}, {-7}, {3}}, hi \in {{}, {2}, {18}}}

AFilter(name, on, cidrs, v) == [name |-> name, enabled |-> on, cidrs |-> cidrs, view |-> v]

UsualDoc ==
  [apiVersion |-> "v1alpha1", kind |-> "LabNTP", name |-> "lab",
   listeners |-> [ntp |-> "", management |-> "", restPath |-> "", mcpPath |-> ""],
   auth |-> [mode |-> "", tokens |-> <<>>],
   management |-> [bodyLimit |-> 0, requestsPerSecond |-> 0, burst |-> 0,
                   maxConcurrent |-> 0, allowedOrigins |-> {}],
   ntp |-> [versions |-> <<>>, serveMode |-> "", nts |-> FALSE, restrict |-> "",
            allow |-> NilList, maxPacketsPerSec |-> 1, maxPacketsPerIP |-> 1, queryLog |-> 1],
   filters |-> <<AFilter("all", TRUE, Universal, Plain)>>,
   logLevel |-> "", auditRing |-> 0]

Lists == {{}, {"0.0.0.0/0"}, {"::/0"}, {"lan4"}, {"lan4", "lan6"}, {"junk", "::/0"},
          {"0.0.0.0/0", "::/0"}}

MCDocuments ==
  {[UsualDoc EXCEPT !.filters[1].view = v] : v \in DocViews}
  \cup {[UsualDoc EXCEPT !.ntp.allow = allow,
           !.filters = <<AFilter(a, on, one, Plain), AFilter("b", ~on \/ a = "a", two, Plain)>>] :
          allow \in {{}, {"lan4"}, {"lan4", "::/0"}, {"junk"}, NilList},
          a \in {"a", "b", ""}, on \in BOOLEAN, one \in Lists, two \in Lists}
  \cup {[UsualDoc EXCEPT !.ntp.versions = vs, !.ntp.queryLog = q, !.ntp.maxPacketsPerSec = p,
                         !.ntp.serveMode = m] :
          vs \in {<<>>, <<4>>, <<4, 3>>, <<4, 4>>, <<5>>}, q \in {0, 1, 3}, p \in {0, 1},
          m \in {"", " ", "unicast", "broadcast"}}
  \cup {[UsualDoc EXCEPT !.auth.tokens = <<[id |-> a, role |-> r, secretFile |-> s],
                                           [id |-> "b", role |-> "", secretFile |-> "f"]>>,
                         !.listeners.ntp = l, !.management.burst = u, !.kind = k] :
          a \in {"", "a", "b"}, r \in {"", "viewer", "junk"}, s \in {"", "f"},
          l \in {"", " ", "junk"}, u \in {-1, 0}, k \in {"LabNTP", ""}}
=============================================================================

------------------------------- MODULE StateDoc -------------------------------
(***************************************************************************)
(* The state document as plan and apply see it: the operations of a        *)
(* request (internal/app/operations.go), their fingerprint                 *)
(* (internal/app/idempotency.go), and what normalisation and validation    *)
(* do to the result (internal/config). A filter has a name, an enabled     *)
(* flag, the networks it matches and a view.                               *)
(***************************************************************************)
EXTENDS Naturals, Sequences, SequencesExt

CONSTANTS
  NoAddr,         \* an empty listen address
  DefaultMgmt,    \* DefaultMgmtAddress
  RejectedDoc,    \* the error result
  MaxQueryLog     \* MaxQueryLogSize

\* allowClientCidrs: nil, an empty list, or networks.
NilCidrs == "nil"

EmptyCidrs == "[]"

UniversalCidrs == "0.0.0.0/0,::/0"

\* upsertFilter: replace the first filter of that name in place, or append.
upsertFilter(list, f) ==
  LET i == SelectInSeq(list, LAMBDA g : g.name = f.name)
  IN  IF i = 0 THEN Append(list, f) ELSE [list EXCEPT ![i] = f]

\* removeFilter keeps the order of the others.
removeFilter(list, name) == SelectSeq(list, LAMBDA g : g.name # name)

HasFilter(list, name) == \E i \in DOMAIN list : list[i].name = name

\* applyOne on a document; RejectedDoc for an unknown verb, a missing
\* argument or a filter that does not exist. replaceLimits stands for
\* replaceRestrict, replaceAdmission and replaceManagementHTTP, which each
\* replace one setting whole.
applyOne(d, op) ==
  IF d = RejectedDoc THEN RejectedDoc
  ELSE CASE op.op = "replaceFilters" -> [d EXCEPT !.live.filters = op.filters]
         [] op.op = "upsertFilter" ->
              [d EXCEPT !.live.filters = upsertFilter(@, op.filter)]
         [] op.op = "removeFilter" /\ HasFilter(d.live.filters, op.name) ->
              [d EXCEPT !.live.filters = removeFilter(@, op.name)]
         [] op.op = "replaceAllowClientCidrs" ->
              [d EXCEPT !.live.allow = op.allowClientCidrs]
         [] op.op = "replaceQueryLog" -> [d EXCEPT !.qsize = op.size]
         [] op.op = "replaceLimits" -> [d EXCEPT !.live.limits = op.limits]
         [] OTHER -> RejectedDoc

\* applyOperations: in order, stopping at the first error.
ApplyOps(d, body) == FoldLeft(applyOne, d, body.operations)

\* fingerprintChange: JSON of the operations leaves an empty list out
\* (omitempty), as it does a nil one.
FingerprintOp(op) ==
  IF op.op = "replaceAllowClientCidrs" /\ op.allowClientCidrs = EmptyCidrs
  THEN [op EXCEPT !.allowClientCidrs = NilCidrs]
  ELSE op

fingerprintChange(body) ==
  [body EXCEPT !.operations = [i \in DOMAIN @ |-> FingerprintOp(@[i])]]

\* materializeDefaults, as far as plan and apply can meet it.
Normalize(d) ==
  [d EXCEPT !.mgmt = IF @ = NoAddr THEN DefaultMgmt ELSE @,
            !.live.allow = IF @ = NilCidrs THEN UniversalCidrs ELSE @]

\* validateFilters: distinct names, an enabled filter has a network, and
\* the enabled filters cover both address families.
ValidFilters(list) ==
  /\ \A i, j \in DOMAIN list : list[i].name = list[j].name => i = j
  /\ \A i \in DOMAIN list : list[i].enabled => list[i].cidrs # {}
  /\ \A default \in {"0.0.0.0/0", "::/0"} :
       \E i \in DOMAIN list : list[i].enabled /\ default \in list[i].cidrs

Valid(d) == d.qsize \in 1 .. MaxQueryLog /\ ValidFilters(d.live.filters)

\* compiler.Compile: normalise, then validate.
CompileDoc(d) == IF Valid(Normalize(d)) THEN Normalize(d) ELSE RejectedDoc
===============================================================================

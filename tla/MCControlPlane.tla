---------------------------- MODULE MCControlPlane ----------------------------
(***************************************************************************)
(* Instances of ControlPlane for TLC: bootstrap files with different       *)
(* listeners, and requests that add and remove a filter, so that a         *)
(* revision can come back.                                                 *)
(***************************************************************************)
EXTENDS ControlPlane, StateDoc

CONSTANTS a1, a2, b1, b2, token1, token2

All == [name |-> "default", enabled |-> TRUE,
        cidrs |-> {"0.0.0.0/0", "::/0"}, view |-> "follow"]

Skewed == [name |-> "x", enabled |-> TRUE, cidrs |-> {"10.0.0.0/8"}, view |-> "skew"]

MCFilterLists == {<<All>>, <<All, Skewed>>, <<Skewed>>, << >>}

MCLive == [filters : MCFilterLists,
           allow : {NilCidrs, EmptyCidrs, UniversalCidrs}, limits : {"l1", "l2"}]

Base == [filters |-> <<All>>, allow |-> UniversalCidrs, limits |-> "l1"]

File1 == [ntp |-> a1, mgmt |-> b1, auth |-> token1, qsize |-> 1, live |-> Base]

File2 == [ntp |-> a2, mgmt |-> b2, auth |-> token2, qsize |-> 2, live |-> Base]

\* Only the management address differs from File1.
File3 == [File1 EXCEPT !.mgmt = b2]

\* File1 before normalisation: no management address and nil CIDRs.
FileRaw == [File1 EXCEPT !.mgmt = Off, !.live.allow = NilCidrs]

MCFiles == {FileRaw, File2, File3}

Body(ops) == [reason |-> "r", operations |-> ops]

\* Add a filter, enlarge the query log, and admit every client or none: two
\* requests with one fingerprint.
Upsert(allow) ==
  Body(<<[op |-> "upsertFilter", filter |-> Skewed],
         [op |-> "replaceQueryLog", size |-> 2],
         [op |-> "replaceAllowClientCidrs", allowClientCidrs |-> allow]>>)

\* Take it all back; the last operation fails after the others where there is no
\* such filter.
RemoveX ==
  Body(<<[op |-> "replaceAllowClientCidrs", allowClientCidrs |-> NilCidrs],
         [op |-> "replaceQueryLog", size |-> 1],
         [op |-> "removeFilter", name |-> "x"]>>)

\* The operation succeeds and the validator refuses its result.
NoCatchAll == Body(<<[op |-> "replaceFilters", filters |-> <<Skewed>>]>>)

MCBodies == {Upsert(NilCidrs), Upsert(EmptyCidrs), RemoveX, NoCatchAll}

\* Clients choose keys at random: no key is treated differently.
MCKeySymmetry == Permutations(IdempKeys)

\* The revisions that clients know of: those of two files, what the first
\* upsert makes of one of them, and a missing one.
MCSent ==
  {NoRevision, Revision(File1), Revision(File2),
   Revision([File1 EXCEPT !.live.filters = <<All, Skewed>>, !.qsize = 2])}
===============================================================================

----------------------------- MODULE MCAuthReload -----------------------------
(* The tokens, files and times TLC checks AuthReload with.                 *)
EXTENDS AuthReload

CONSTANTS f1, f2, s1, s2

MCFiles == {f1, f2}
MCFile0 == (f1 :> s1) @@ (f2 :> s2)
Entry(id, role, file) == [id |-> id, role |-> role, scopes |-> {}, file |-> file]

(* An administrator; the same id and secret as a viewer, with a second     *)
(* token; and no token at all, loopback clients only.                      *)
MCFirstSpec == [mode |-> "", tokens |-> {Entry("one", "", f1)}]
MCSpecs ==
  {MCFirstSpec,
   [mode |-> Bearer, tokens |-> {Entry("one", "viewer", f1), Entry("two", "operator", f2)}],
   [mode |-> Loopback, tokens |-> {}]}

\* Nothing tells one call from another.
MCSymmetry == Permutations(Reloads)
=============================================================================

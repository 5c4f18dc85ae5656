-------------------------- MODULE MCPreferencesImpl --------------------------
(***************************************************************************)
(* PreferencesImpl on small instances.                                      *)
(***************************************************************************)
EXTENDS PreferencesImpl, TLC

\* Clients are interchangeable.  Keys and values are not: NoKey and NoArg
\* choose one of each.
Symmetry == Permutations(Clients)
=============================================================================

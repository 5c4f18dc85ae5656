----------------------------- MODULE MCObservers -----------------------------
(***************************************************************************)
(* Observers on small instances.  Observers of different modes share no     *)
(* list, so a behaviour has the owners of one mode, or a JS proxy alone.    *)
(***************************************************************************)
EXTENDS Observers, TLC

CONSTANTS f1, f2

\* Keys are interchangeable: no mix names one.
Symmetry == Permutations(Keys)

Of(mode) == {s \in Subs : s.mode = mode}

SmallMixes ==
    {{s \in Of("data") : s.who # "native" /\ s.fn # f2}, {s \in Of("data") : s.who # "js"},
     Of("local"),
     {s \in Of("multi") : s.who # "native" /\ s.fn # f2}, {s \in Of("multi") : s.who # "js"},
     {s \in Of("multi") : s.who = "js"},
     {s \in Subs : s.who = "js" /\ s.fn = f1 /\ s.mode # "multi"}}
=============================================================================

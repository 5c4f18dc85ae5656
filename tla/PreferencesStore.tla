--------------------------- MODULE PreferencesStore ---------------------------
(***************************************************************************)
(* What a Preferences object promises its clients (the contract written in *)
(* interfaces/inner_api/include/preferences.h), without threads or locks:   *)
(* a map that is loaded once, then changed only by Put, Delete and Clear,   *)
(* and a saved copy that only ever becomes a snapshot of that map.          *)
(***************************************************************************)
CONSTANTS Keys, Values, NoValue

Maps == [Keys -> Values \cup {NoValue}]

EmptyMap == [k \in Keys |-> NoValue]

VARIABLES
    loaded,     \* the map has been filled from the saved copy
    store,      \* what clients read
    saving,     \* a snapshot is being saved
    snapshot,   \* that snapshot, EmptyMap if there is none
    saved       \* the saved copy

vars == <<loaded, store, saving, snapshot, saved>>

Init ==
    /\ loaded = FALSE
    /\ store = EmptyMap
    /\ saving = FALSE
    /\ snapshot = EmptyMap
    /\ saved \in Maps

\* The one load, before any client has changed anything.
Load ==
    /\ ~loaded
    /\ loaded' = TRUE
    /\ store' = saved
    /\ UNCHANGED <<saving, snapshot, saved>>

Put(k, v) ==
    /\ loaded
    /\ store' = [store EXCEPT ![k] = v]
    /\ UNCHANGED <<loaded, saving, snapshot, saved>>

Delete(k) ==
    /\ loaded
    /\ store' = [store EXCEPT ![k] = NoValue]
    /\ UNCHANGED <<loaded, saving, snapshot, saved>>

Clear ==
    /\ loaded
    /\ store' = EmptyMap
    /\ UNCHANGED <<loaded, saving, snapshot, saved>>

BeginSave ==
    /\ ~saving
    /\ saving' = TRUE
    /\ snapshot' = store
    /\ UNCHANGED <<loaded, store, saved>>

\* Nothing to save, or the write failed: the old copy stays, or is lost.
AbandonSave ==
    /\ saving
    /\ saving' = FALSE
    /\ snapshot' = EmptyMap
    /\ saved' \in {saved, EmptyMap}
    /\ UNCHANGED <<loaded, store>>

EndSave ==
    /\ saving
    /\ loaded
    /\ saving' = FALSE
    /\ snapshot' = EmptyMap
    /\ saved' = snapshot
    /\ UNCHANGED <<loaded, store>>

Next ==
    \/ Load
    \/ \E k \in Keys, v \in Values : Put(k, v)
    \/ \E k \in Keys : Delete(k)
    \/ Clear
    \/ BeginSave
    \/ AbandonSave
    \/ EndSave

Spec == Init /\ [][Next]_vars
=============================================================================

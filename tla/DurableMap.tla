------------------------------ MODULE DurableMap ------------------------------
(***************************************************************************)
(* What bts::db::cached_level_map promises its callers, without saying     *)
(* how: a map that is always up to date in memory, a saved copy that a     *)
(* restart of the process falls back to, and an account of the keys on     *)
(* which the two may differ.                                               *)
(*                                                                         *)
(* `pending' holds the keys whose last change is going to be saved by the  *)
(* next save; `refused' those whose last change the database reported it   *)
(* could not write (the caller got an exception).                          *)
(***************************************************************************)
CONSTANTS Key, Value, NoValue

VARIABLES map, saved, pending, refused

vars == <<map, saved, pending, refused>>

Content == [Key -> Value \cup {NoValue}]

Init ==
    /\ map = saved
    /\ saved \in Content
    /\ pending = {}
    /\ refused = {}

\* The change is in the saved copy when the call returns.
PutSaved(k, x) ==
    /\ map' = [map EXCEPT ![k] = x]
    /\ saved' = [saved EXCEPT ![k] = x]
    /\ refused' = refused \ {k}
    /\ UNCHANGED pending

\* The change is kept in memory until the next save.
PutPending(k, x) ==
    /\ map' = [map EXCEPT ![k] = x]
    /\ pending' = pending \cup {k}
    /\ refused' = refused \ {k}
    /\ UNCHANGED saved

\* The database could not be written.
PutRefused(k, x) ==
    /\ map' = [map EXCEPT ![k] = x]
    /\ refused' = refused \cup {k}
    /\ UNCHANGED <<saved, pending>>

\* Exactly the pending keys are brought up to date, all at once.
SavedPending == [k \in Key |-> IF k \in pending THEN map[k] ELSE saved[k]]

Save ==
    /\ saved' = SavedPending
    /\ pending' = {}
    /\ UNCHANGED <<map, refused>>

\* The save went through although the caller was told that it did not.
SaveUnconfirmed ==
    /\ saved' = SavedPending
    /\ UNCHANGED <<map, pending, refused>>

\* An orderly restart saves first.
Reopen ==
    /\ saved' = SavedPending
    /\ map' = saved'
    /\ pending' = {}
    /\ refused' = {}

\* A crash falls back to the saved copy.
Crash ==
    /\ map' = saved
    /\ pending' = {}
    /\ refused' = {}
    /\ UNCHANGED saved

Next ==
    \/ \E k \in Key, x \in Value \cup {NoValue} :
          PutSaved(k, x) \/ PutPending(k, x) \/ PutRefused(k, x)
    \/ Save
    \/ SaveUnconfirmed
    \/ Reopen
    \/ Crash

Spec == Init /\ [][Next]_vars
===============================================================================

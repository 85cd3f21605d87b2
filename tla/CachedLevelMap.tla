---------------------------- MODULE CachedLevelMap ----------------------------
(***************************************************************************)
(* bts::db::cached_level_map: a std::map in front of a LevelDB database.   *)
(* Every read is answered from the cache; a write goes to the database at  *)
(* once (`write_through') or leaves its key in one of the two dirty sets   *)
(* until the next flush.  The process may be killed at any moment, and the *)
(* database may refuse a write.                                            *)
(*                                                                         *)
(* LevelDB is external: a write or a batch is applied whole or not at all, *)
(* and what it applied survives the death of the process.                  *)
(***************************************************************************)
CONSTANTS Key, Value, NoValue

ASSUME NoValueAssumption == NoValue \notin Value

VARIABLES
    is_open,        \* level_map::_db is set
    cache,          \* _cache, a key that is not there maps to NoValue
    db,             \* what LevelDB holds
    dirty_store,    \* _dirty_store
    dirty_remove,   \* _dirty_remove
    write_through,  \* _write_through
    refused         \* history: keys whose last write threw db_exception

vars == <<is_open, cache, db, dirty_store, dirty_remove, write_through, refused>>

Content == [Key -> Value \cup {NoValue}]

Empty == [k \in Key |-> NoValue]

TypeOK ==
    /\ is_open \in BOOLEAN
    /\ cache \in Content
    /\ db \in Content
    /\ dirty_store \subseteq Key
    /\ dirty_remove \subseteq Key
    /\ write_through \in BOOLEAN
    /\ refused \subseteq Key

Init ==
    /\ is_open = FALSE
    /\ cache = Empty
    /\ db = Empty
    /\ dirty_store = {}
    /\ dirty_remove = {}
    /\ write_through = TRUE
    /\ refused = {}

(***************************************************************************)
(* open: emplace_hint leaves a key alone that the cache already holds.     *)
(***************************************************************************)
Open(wt) ==
    /\ ~is_open
    /\ is_open' = TRUE
    /\ cache' = [k \in Key |-> IF cache[k] # NoValue THEN cache[k] ELSE db[k]]
    /\ write_through' = wt
    /\ UNCHANGED <<db, dirty_store, dirty_remove, refused>>

(***************************************************************************)
(* flush: one batch, the stores before the removes, so that a key in both  *)
(* dirty sets would end up removed.  A batch that the database refuses is  *)
(* tried once more by the destructor of write_batch; either way the dirty  *)
(* sets stay as they are and the exception reaches the caller.             *)
(***************************************************************************)
\* Mutant: the removed keys are left in the database.
FlushedStoresOnly == [k \in Key |-> IF k \in dirty_store THEN cache[k] ELSE db[k]]

Flushed ==
    [k \in Key |-> IF k \in dirty_remove THEN NoValue
                   ELSE IF k \in dirty_store THEN cache[k]
                   ELSE db[k]]

\* _cache.at( key ) throws for a dirty key that is not in the cache.
BatchBuilt == \A k \in dirty_store : cache[k] # NoValue

flush ==
    /\ BatchBuilt
    /\ db' = Flushed
    /\ dirty_store' = {}
    /\ dirty_remove' = {}

Flush ==
    /\ is_open
    /\ flush
    /\ UNCHANGED <<is_open, cache, write_through, refused>>

FlushRefusedThenRetried ==
    /\ is_open
    /\ BatchBuilt
    /\ db' = Flushed
    /\ UNCHANGED <<is_open, cache, dirty_store, dirty_remove, write_through, refused>>

\* close of a map that is not open throws in flush and changes nothing.
Close ==
    /\ is_open
    /\ flush
    /\ is_open' = FALSE
    /\ cache' = Empty
    /\ refused' = {}
    /\ UNCHANGED write_through

\* Mutant: switching back to write-through does not flush.
SetWriteThroughUnflushed(wt) ==
    /\ is_open
    /\ wt # write_through
    /\ write_through' = wt
    /\ UNCHANGED <<is_open, cache, db, dirty_store, dirty_remove, refused>>

SetWriteThrough(wt) ==
    /\ is_open
    /\ wt # write_through
    /\ IF wt THEN flush ELSE UNCHANGED <<db, dirty_store, dirty_remove>>
    /\ write_through' = wt
    /\ UNCHANGED <<is_open, cache, refused>>

(***************************************************************************)
(* store and remove.  The cache is changed first; when LevelDB then        *)
(* refuses the write the exception leaves the change in the cache and the  *)
(* key in no dirty set.                                                    *)
(***************************************************************************)
WrittenThrough(k, x) ==
    /\ write_through
    /\ \/ /\ db' = [db EXCEPT ![k] = x]
          /\ refused' = refused \ {k}
       \/ /\ refused' = refused \cup {k}
          /\ UNCHANGED db
    /\ UNCHANGED <<dirty_store, dirty_remove>>

Store(k, v) ==
    /\ is_open
    /\ cache' = [cache EXCEPT ![k] = v]
    /\ \/ WrittenThrough(k, v)
       \/ /\ ~write_through
          /\ dirty_store' = dirty_store \cup {k}
          /\ dirty_remove' = dirty_remove \ {k}
          /\ refused' = refused \ {k}
          /\ UNCHANGED db
    /\ UNCHANGED <<is_open, write_through>>

Remove(k) ==
    /\ is_open
    /\ cache' = [cache EXCEPT ![k] = NoValue]
    /\ \/ WrittenThrough(k, NoValue)
       \/ /\ ~write_through
          /\ dirty_store' = dirty_store \ {k}
          /\ dirty_remove' = dirty_remove \cup {k}
          /\ refused' = refused \ {k}
          /\ UNCHANGED db
    /\ UNCHANGED <<is_open, write_through>>

\* The process is killed: only what LevelDB holds is left.
Crash ==
    /\ is_open' = FALSE
    /\ cache' = Empty
    /\ dirty_store' = {}
    /\ dirty_remove' = {}
    /\ write_through' = TRUE
    /\ refused' = {}
    /\ UNCHANGED db

Next ==
    \/ \E wt \in BOOLEAN : Open(wt) \/ SetWriteThrough(wt)
    \/ Flush
    \/ FlushRefusedThenRetried
    \/ Close
    \/ \E k \in Key : Remove(k) \/ \E v \in Value : Store(k, v)
    \/ Crash

Spec == Init /\ [][Next]_vars

-------------------------------------------------------------------------------
dirty == dirty_store \cup dirty_remove

Abs == INSTANCE DurableMap
           WITH map <- IF is_open THEN cache ELSE db, saved <- db, pending <- dirty

(***************************************************************************)
(* cached_level_map implements the durable map: a flush saves exactly the  *)
(* keys changed since the last one, whatever mixture of stores and removes *)
(* changed them, and neither a close, a change of mode nor a crash saves   *)
(* or forgets anything else.                                               *)
(***************************************************************************)
ImplementsDurableMap == Abs!Spec

(***************************************************************************)
(* flush() never meets a dirty key that left the cache (`_cache.at' would  *)
(* throw and nothing would ever be flushed again).                         *)
(***************************************************************************)
FlushNeverThrows == BatchBuilt

(***************************************************************************)
(* In write-through mode nothing waits in memory: every key that the       *)
(* database did not refuse reads the same now and after a crash.           *)
(***************************************************************************)
WriteThroughSaved ==
    is_open /\ write_through => \A k \in Key \ refused : cache[k] = db[k]

(***************************************************************************)
(* The inductive invariant behind these: the dirty sets tell apart exactly *)
(* the changed keys that are and that are not in the cache, they are empty *)
(* in write-through mode and in a closed map, and every key that differs   *)
(* from the database is accounted for.                                     *)
(***************************************************************************)
DirtyAccountsForChanges ==
    /\ \A k \in dirty_store : cache[k] # NoValue
    /\ \A k \in dirty_remove : cache[k] = NoValue
    /\ write_through \/ ~is_open => dirty = {}
    /\ ~is_open => cache = Empty /\ refused = {}
    /\ is_open => \A k \in Key \ (dirty \cup refused) : cache[k] = db[k]
===============================================================================

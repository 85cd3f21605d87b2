------------------------- MODULE CachedLevelMapProofs -------------------------
(***************************************************************************)
(* For every set of keys and values: cached_level_map keeps its account of *)
(* unsaved keys exact, and implements DurableMap.                          *)
(***************************************************************************)
EXTENDS CachedLevelMap, TLAPS

Inv == TypeOK /\ DirtyAccountsForChanges

LEMMA InitInv == Init => Inv
BY DEF Init, Inv, TypeOK, DirtyAccountsForChanges, Content, Empty, dirty

(***************************************************************************)
(* What flush writes: afterwards every key the database did not refuse     *)
(* earlier agrees with the cache.                                          *)
(***************************************************************************)
LEMMA FlushedContent ==
    ASSUME Inv, is_open
    PROVE  /\ Flushed \in Content
           /\ Flushed = [k \in Key |-> IF k \in dirty THEN cache[k] ELSE db[k]]
           /\ \A k \in Key \ refused : Flushed[k] = cache[k]
BY DEF Inv, TypeOK, DirtyAccountsForChanges, Flushed, Content, dirty

LEMMA OpenInv ==
    ASSUME Inv, NEW wt \in BOOLEAN, Open(wt)
    PROVE  Inv'
BY NoValueAssumption DEF Inv, TypeOK, DirtyAccountsForChanges, Open, Content, Empty, dirty

LEMMA FlushInv ==
    ASSUME Inv, Flush \/ FlushRefusedThenRetried
    PROVE  Inv'
<1>1. is_open
  BY DEF Flush, FlushRefusedThenRetried
<1>2. /\ Flushed \in Content
      /\ \A k \in Key \ refused : Flushed[k] = cache[k]
  BY <1>1, FlushedContent
<1>3. CASE Flush
  BY <1>2, <1>3 DEF Inv, TypeOK, DirtyAccountsForChanges, Flush, flush, dirty
<1>4. CASE FlushRefusedThenRetried
  BY <1>2, <1>4 DEF Inv, TypeOK, DirtyAccountsForChanges, FlushRefusedThenRetried, dirty
<1> QED BY <1>3, <1>4

LEMMA CloseInv ==
    ASSUME Inv, Close
    PROVE  Inv'
<1>1. Flushed \in Content
  BY FlushedContent DEF Close
<1> QED BY <1>1 DEF Inv, TypeOK, DirtyAccountsForChanges, Close, flush, Content, Empty, dirty

LEMMA SetWriteThroughInv ==
    ASSUME Inv, NEW wt \in BOOLEAN, SetWriteThrough(wt)
    PROVE  Inv'
<1>1. /\ Flushed \in Content
      /\ \A k \in Key \ refused : Flushed[k] = cache[k]
  BY FlushedContent DEF SetWriteThrough
<1>2. CASE wt
  BY <1>1, <1>2 DEF Inv, TypeOK, DirtyAccountsForChanges, SetWriteThrough, flush, dirty
<1>3. CASE ~wt
  BY <1>3 DEF Inv, TypeOK, DirtyAccountsForChanges, SetWriteThrough, dirty
<1> QED BY <1>2, <1>3

LEMMA StoreInv ==
    ASSUME Inv, NEW k \in Key, NEW v \in Value, Store(k, v)
    PROVE  Inv'
<1>1. CASE WrittenThrough(k, v)
  BY <1>1, NoValueAssumption
  DEF Inv, TypeOK, DirtyAccountsForChanges, Store, WrittenThrough, Content, dirty
<1>2. CASE ~write_through
  BY <1>2, NoValueAssumption
  DEF Inv, TypeOK, DirtyAccountsForChanges, Store, WrittenThrough, Content, dirty
<1> QED BY <1>1, <1>2 DEF Store

LEMMA RemoveInv ==
    ASSUME Inv, NEW k \in Key, Remove(k)
    PROVE  Inv'
<1>1. CASE WrittenThrough(k, NoValue)
  BY <1>1 DEF Inv, TypeOK, DirtyAccountsForChanges, Remove, WrittenThrough, Content, dirty
<1>2. CASE ~write_through
  BY <1>2 DEF Inv, TypeOK, DirtyAccountsForChanges, Remove, WrittenThrough, Content, dirty
<1> QED BY <1>1, <1>2 DEF Remove

LEMMA CrashInv ==
    ASSUME Inv, Crash
    PROVE  Inv'
BY DEF Inv, TypeOK, DirtyAccountsForChanges, Crash, Content, Empty, dirty

LEMMA NextInv == Inv /\ [Next]_vars => Inv'
<1> SUFFICES ASSUME Inv, [Next]_vars PROVE Inv'
  OBVIOUS
<1>1. CASE UNCHANGED vars
  BY <1>1 DEF Inv, TypeOK, DirtyAccountsForChanges, vars, dirty
<1>2. CASE Next
  BY <1>2, OpenInv, FlushInv, CloseInv, SetWriteThroughInv, StoreInv, RemoveInv, CrashInv
  DEF Next
<1> QED BY <1>1, <1>2

(***************************************************************************)
(* The inductive invariant of cached_level_map holds at all times.         *)
(***************************************************************************)
LEMMA AlwaysInv == Spec => []Inv
<1>1. Init => Inv
  BY InitInv
<1>2. Inv /\ [Next]_vars => Inv'
  BY NextInv
<1> QED BY <1>1, <1>2, PTL DEF Spec

(***************************************************************************)
(* The dirty sets account for every change not yet saved, at all times.    *)
(***************************************************************************)
THEOREM AlwaysAccounted == Spec => []DirtyAccountsForChanges
<1>1. Inv => DirtyAccountsForChanges
  BY DEF Inv
<1> QED BY <1>1, AlwaysInv, PTL

(***************************************************************************)
(* While a map is open in write-through mode, a crash loses only the       *)
(* writes whose callers were told that they failed.                        *)
(***************************************************************************)
THEOREM AlwaysSavedInWriteThrough == Spec => []WriteThroughSaved
<1>1. Inv => WriteThroughSaved
  BY DEF Inv, DirtyAccountsForChanges, WriteThroughSaved
<1> QED BY <1>1, AlwaysInv, PTL

(***************************************************************************)
(* flush() never throws because of a dirty key without a cached value.     *)
(***************************************************************************)
THEOREM FlushAlwaysBuilds == Spec => []FlushNeverThrows
<1>1. Inv => FlushNeverThrows
  BY DEF Inv, DirtyAccountsForChanges, FlushNeverThrows, BatchBuilt
<1> QED BY <1>1, AlwaysInv, PTL
-------------------------------------------------------------------------------
(***************************************************************************)
(* The refinement, action by action.  The abstract specification sees the  *)
(* cache of an open map and the database of a closed one.                  *)
(***************************************************************************)
LEMMA OpenRefines ==
    ASSUME Inv, NEW wt \in BOOLEAN, Open(wt)
    PROVE  UNCHANGED Abs!vars
<1>1. cache = Empty
  BY DEF Inv, DirtyAccountsForChanges, Open
<1>2. cache' = db
  BY <1>1 DEF Inv, TypeOK, Content, Open, Empty
<1> QED BY <1>2 DEF Open, Abs!vars, dirty

LEMMA FlushRefines ==
    ASSUME Inv, Flush \/ FlushRefusedThenRetried
    PROVE  Abs!Next
<1>1. is_open
  BY DEF Flush, FlushRefusedThenRetried
<1>2. Flushed = Abs!SavedPending
  BY <1>1, FlushedContent DEF Abs!SavedPending
<1>3. CASE Flush
  <2>1. Abs!Save
    BY <1>1, <1>2, <1>3 DEF Flush, flush, Abs!Save, dirty
  <2> QED BY <2>1 DEF Abs!Next
<1>4. CASE FlushRefusedThenRetried
  <2>1. Abs!SaveUnconfirmed
    BY <1>1, <1>2, <1>4 DEF FlushRefusedThenRetried, Abs!SaveUnconfirmed, dirty
  <2> QED BY <2>1 DEF Abs!Next
<1> QED BY <1>3, <1>4

LEMMA CloseRefines ==
    ASSUME Inv, Close
    PROVE  Abs!Next
<1>1. Flushed = Abs!SavedPending
  BY FlushedContent DEF Abs!SavedPending, Close
<1>2. Abs!Reopen
  BY <1>1 DEF Close, flush, Abs!Reopen, dirty
<1> QED BY <1>2 DEF Abs!Next

LEMMA SetWriteThroughRefines ==
    ASSUME Inv, NEW wt \in BOOLEAN, SetWriteThrough(wt)
    PROVE  Abs!Next \/ UNCHANGED Abs!vars
<1>1. CASE wt
  <2>1. Flushed = Abs!SavedPending
    BY FlushedContent DEF Abs!SavedPending, SetWriteThrough
  <2>2. Abs!Save
    BY <1>1, <2>1 DEF SetWriteThrough, flush, Abs!Save, dirty
  <2> QED BY <2>2 DEF Abs!Next
<1>2. CASE ~wt
  BY <1>2 DEF SetWriteThrough, Abs!vars, dirty
<1> QED BY <1>1, <1>2

LEMMA StoreRefines ==
    ASSUME Inv, NEW k \in Key, NEW v \in Value, Store(k, v)
    PROVE  Abs!Next
<1>1. CASE WrittenThrough(k, v)
  <2>1. Abs!PutSaved(k, v) \/ Abs!PutRefused(k, v)
    BY <1>1 DEF Store, WrittenThrough, Abs!PutSaved, Abs!PutRefused, dirty
  <2> QED BY <2>1 DEF Abs!Next
<1>2. CASE ~write_through
  <2>1. Abs!PutPending(k, v)
    BY <1>2 DEF Store, WrittenThrough, Abs!PutPending, dirty
  <2> QED BY <2>1 DEF Abs!Next
<1> QED BY <1>1, <1>2 DEF Store

LEMMA RemoveRefines ==
    ASSUME Inv, NEW k \in Key, Remove(k)
    PROVE  Abs!Next
<1>1. CASE WrittenThrough(k, NoValue)
  <2>1. Abs!PutSaved(k, NoValue) \/ Abs!PutRefused(k, NoValue)
    BY <1>1 DEF Remove, WrittenThrough, Abs!PutSaved, Abs!PutRefused, dirty
  <2> QED BY <2>1 DEF Abs!Next
<1>2. CASE ~write_through
  <2>1. Abs!PutPending(k, NoValue)
    BY <1>2 DEF Remove, WrittenThrough, Abs!PutPending, dirty
  <2> QED BY <2>1 DEF Abs!Next
<1> QED BY <1>1, <1>2 DEF Remove

LEMMA CrashRefines ==
    ASSUME Inv, Crash
    PROVE  Abs!Next
<1>1. Abs!Crash
  BY DEF Crash, Abs!Crash, dirty
<1> QED BY <1>1 DEF Abs!Next

(***************************************************************************)
(* cached_level_map implements the durable map of DurableMap.tla.          *)
(***************************************************************************)
THEOREM Refinement == Spec => ImplementsDurableMap
<1>1. Init => Abs!Init
  BY DEF Init, Abs!Init, Abs!Content, Empty, dirty
<1>2. Inv /\ [Next]_vars => [Abs!Next]_(Abs!vars)
  <2> SUFFICES ASSUME Inv, [Next]_vars PROVE Abs!Next \/ UNCHANGED Abs!vars
    OBVIOUS
  <2>1. CASE UNCHANGED vars
    BY <2>1 DEF vars, Abs!vars, dirty
  <2>2. CASE Next
    BY <2>2, OpenRefines, FlushRefines, CloseRefines, SetWriteThroughRefines,
       StoreRefines, RemoveRefines, CrashRefines
    DEF Next
  <2> QED BY <2>1, <2>2
<1> QED BY <1>1, <1>2, AlwaysInv, PTL DEF Spec, ImplementsDurableMap, Abs!Spec
===============================================================================

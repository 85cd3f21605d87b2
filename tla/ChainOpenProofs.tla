--------------------------- MODULE ChainOpenProofs ---------------------------
(***************************************************************************)
(* Recovery of the chain database after a kill, for every number of        *)
(* blocks, of kills and of blocks between two flushes.                     *)
(***************************************************************************)
EXTENDS ChainOpen, TLAPS

\* What FindHead reads off numbers without a gap.
LEMMA LastNumber ==
    ASSUME NEW n \in Nat, n # 0
    PROVE  Max(1..n) = n
<1>1. n \in 1..n /\ \A y \in 1..n : n >= y
  OBVIOUS
<1>2. \A x \in 1..n : (\A y \in 1..n : x >= y) => x = n
  BY <1>1
<1> QED BY <1>1, <1>2 DEF Max

\* An empty directory is recoverable.
LEMMA InitRecovery == Init => Recovery
<1> SUFFICES ASSUME Init PROVE Recovery
  OBVIOUS
<1>1. Shape
  BY DEF Init, Shape, EmptyIndex, NoObject, Cached, NoGenesis, Steps
<1>2. WhileStarting
  <2>1. raw.num_to_id = 1..0 /\ Recoverable(0)
    BY DEF Init, Recoverable, EmptyIndex, Cached, NoGenesis
  <2> QED BY <2>1 DEF Init, WhileStarting, NoObject
<1> QED BY <1>1, <1>2 DEF Init, Recovery, Starting

-------------------------------------------------------------------------------
\* The steps of open up to the loop over the raw blocks, and the options.
LEMMA OpenDatabaseRecovery ==
    ASSUME Recovery, OpenDatabase
    PROVE  Recovery'
BY DEF OpenDatabase, WipedIfNoVersion, Recovery, Shape, WhileStarting, Starting, EmptyIndex,
       NoObject, Cached, NoGenesis, Steps, Whole, Recoverable

LEMMA StoreVersionRecovery ==
    ASSUME Recovery, StoreVersion
    PROVE  Recovery'
BY DEF StoreVersion, Recovery, Shape, WhileStarting, Starting, EmptyIndex,
       NoObject, Cached, NoGenesis, Steps, Whole, Recoverable

LEMMA RemoveIndexRecovery ==
    ASSUME Recovery, RemoveIndex
    PROVE  Recovery'
BY DEF RemoveIndex, Recovery, Shape, WhileStarting, Starting, EmptyIndex,
       NoObject, Cached, NoGenesis, Steps, Whole, Recoverable

LEMMA RenameDataRecovery ==
    ASSUME Recovery, RenameData
    PROVE  Recovery'
BY DEF RenameData, Recovery, Shape, WhileStarting, Starting, EmptyIndex,
       NoObject, Cached, NoGenesis, Steps, Whole, Recoverable

LEMMA InitializeGenesisRecovery ==
    ASSUME Recovery, InitializeGenesis
    PROVE  Recovery'
BY DEF InitializeGenesis, Recovery, Shape, WhileStarting, Starting, EmptyIndex,
       NoObject, Cached, NoGenesis, Steps, Whole, Recoverable

LEMMA RebuildIndexOptionRecovery ==
    ASSUME Recovery, RebuildIndexOption
    PROVE  Recovery'
BY DEF RebuildIndexOption, Recovery, Shape, WhileStarting, Starting, EmptyIndex,
       NoObject, Cached, NoGenesis, Steps, Whole, Recoverable

LEMMA ResyncOptionRecovery ==
    ASSUME Recovery, ResyncOption
    PROVE  Recovery'
BY DEF ResyncOption, Recovery, Shape, WhileStarting, Starting, EmptyIndex,
       NoObject, Cached, NoGenesis, Steps, Whole, Recoverable

LEMMA NewDatabaseVersionRecovery ==
    ASSUME Recovery, NewDatabaseVersion
    PROVE  Recovery'
BY DEF NewDatabaseVersion, Recovery, Shape, WhileStarting, Starting, EmptyIndex,
       NoObject, Cached, NoGenesis, Steps, Whole, Recoverable

LEMMA FindHeadRecovery ==
    ASSUME Recovery, FindHead
    PROVE  Recovery'
<1>1. pc = "find_head" /\ Shape /\ WhileStarting
  BY DEF FindHead, Recovery, Starting
<1>2. PICK n \in {0} \cup raw.num_to_id :
          raw.num_to_id = 1..n /\ (Whole => Recoverable(n))
  BY <1>1 DEF WhileStarting
<1>3. n \in Nat
  BY <1>1 DEF Shape
<1>4. (IF raw.num_to_id = {} THEN 0 ELSE Max(raw.num_to_id)) = n
  <2>1. n = 0 <=> raw.num_to_id = {}
    BY <1>2, <1>3
  <2> QED BY <1>2, <1>3, <2>1, LastNumber
<1>5. Whole' => Recoverable(n)'
  BY <1>2 DEF FindHead, Whole, Recoverable
<1> DEFINE found == ~mem.rebuild /\ n # 0 /\ n \in index.records
<1>6. /\ mem' = [mem EXCEPT !.head = IF found THEN n ELSE 0, !.rebuild = ~found]
      /\ pc' = IF found THEN "check" ELSE "remove_index"
      /\ UNCHANGED <<index, raw>>
  BY <1>4, Zenon DEF FindHead
<1>7. CASE found
  <2>1. mem' = [mem EXCEPT !.head = n, !.rebuild = FALSE] /\ pc' = "check"
    BY <1>6, <1>7, Zenon
  <2> QED BY <1>1, <1>2, <1>3, <1>5, <1>6, <2>1
          DEF Recovery, Shape, Steps, NoObject, EmptyIndex, Starting, WhileStarting, WhileWorking,
              Recoverable
<1>8. CASE ~found
  <2>1. mem' = [mem EXCEPT !.head = 0, !.rebuild = TRUE] /\ pc' = "remove_index"
    BY <1>6, <1>8, Zenon
  <2> QED BY <1>1, <1>2, <1>3, <1>5, <1>6, <2>1
          DEF Recovery, Shape, Steps, NoObject, EmptyIndex, Starting, WhileStarting, Recoverable
<1> QED BY <1>7, <1>8

LEMMA LoadNumToIdRecovery ==
    ASSUME Recovery, LoadNumToId
    PROVE  Recovery'
BY DEF LoadNumToId, Recovery, Shape, WhileStarting, WhileWorking, Starting, Ahead,
       EmptyIndex, NoObject, Cached, NoGenesis, Steps, Whole, Recoverable

(***************************************************************************)
(* A process that stops while its head is the last number on disk leaves   *)
(* that number behind.                                                     *)
(***************************************************************************)
LEMMA StoppedRecovery ==
    ASSUME Shape', pc' = "down", mem' = NoObject, NEW n \in Nat,
           raw'.num_to_id = 1..n, Whole' => Recoverable(n)'
    PROVE  Recovery'
<1>1. n \in {0} \cup raw'.num_to_id
  OBVIOUS
<1> QED BY <1>1 DEF Recovery, WhileStarting, Starting, NoObject, Whole, Recoverable

LEMMA CheckChainIdRecovery ==
    ASSUME Recovery, CheckChainId
    PROVE  Recovery'
<1>1. pc = "check" /\ Shape /\ WhileWorking
  BY DEF CheckChainId, Recovery, Starting
<1>2. CASE mem.cached["property"] = NoGenesis
  <2>1. PICK n \in Nat : n = mem.head
    BY <1>1 DEF Shape
  <2>2. /\ index' = EmptyIndex(FALSE) /\ mem' = NoObject /\ pc' = "down"
        /\ raw' = raw
    BY <1>2 DEF CheckChainId
  <2>3. Recoverable(n)'
    BY <2>2 DEF Recoverable, EmptyIndex, Cached, NoGenesis
  <2>4. Shape'
    BY <1>1, <2>2 DEF Shape, Steps, EmptyIndex, NoObject, Cached, NoGenesis
  <2> QED BY <1>1, <2>1, <2>2, <2>3, <2>4, StoppedRecovery DEF WhileWorking
<1>3. CASE mem.cached["property"] # NoGenesis
  <2>1. pc' = "running" /\ UNCHANGED <<index, mem, raw, torn>>
    BY <1>3 DEF CheckChainId
  <2> QED BY <1>1, <1>3, <2>1
          DEF Recovery, Shape, Steps, NoObject, EmptyIndex, Starting, WhileWorking, Whole, Recoverable
<1> QED BY <1>2, <1>3

LEMMA CloseRecovery ==
    ASSUME Recovery, Close
    PROVE  Recovery'
BY DEF Close, Recovery, Shape, WhileStarting, WhileWorking, Starting, Ahead,
       EmptyIndex, NoObject, Cached, NoGenesis, Steps, Whole, Recoverable

LEMMA CrashRecovery ==
    ASSUME Recovery, Crash
    PROVE  Recovery'
<1>1. /\ Shape
      /\ Shape'
  BY DEF Crash, Recovery, Shape, Steps, NoObject, EmptyIndex, Cached, NoGenesis
<1>2. CASE pc \in Starting
  <2>1. WhileStarting
    BY <1>2 DEF Recovery
  <2>2. PICK n \in {0} \cup raw.num_to_id :
            raw.num_to_id = 1..n /\ (Whole => Recoverable(n))
    BY <2>1 DEF WhileStarting
  <2>3. n \in Nat
    BY <1>1 DEF Shape
  <2>4. Whole' => Recoverable(n)'
    BY <2>2 DEF Crash, Whole, Recoverable
  <2> QED BY <1>1, <2>2, <2>3, <2>4, StoppedRecovery DEF Crash
<1>3. CASE pc \notin Starting
  <2>1. WhileWorking
    BY <1>3 DEF Recovery
  <2>2. PICK n \in Nat : n = mem.head
    BY <1>1 DEF Shape
  <2>3. ASSUME Whole' PROVE Recoverable(n)
    <3>1. /\ Whole /\ ~Applying
          /\ ~(Reindexing /\ pc # "finish" /\ index.cached["property"] # NoGenesis)
      BY <2>3 DEF Crash, Whole
    <3>2. CASE mem.write_through
      <4>1. mem.cached = index.cached /\ pc \notin {"apply_records", "num"}
        BY <2>1, <3>1, <3>2 DEF WhileWorking, Applying
      <4> QED BY <2>1, <2>2, <3>1, <4>1 DEF WhileWorking, Ahead, Recoverable, Cached
    <3>3. CASE ~mem.write_through
      BY <1>1, <1>3, <2>1, <3>1, <3>3 DEF Shape, WhileWorking, Reindexing, Recoverable, Starting
    <3> QED BY <3>2, <3>3
  <2>4. Recoverable(n) => Recoverable(n)'
    BY DEF Crash, Recoverable
  <2> QED BY <1>1, <2>1, <2>2, <2>3, <2>4, StoppedRecovery DEF Crash, WhileWorking
<1> QED BY <1>2, <1>3

-------------------------------------------------------------------------------
\* Pushing a block, in normal operation and in the loop, and the end of the loop.
LEMMA PushBlockRecovery ==
    ASSUME Recovery, NEW b \in Block, PushBlock(b)
    PROVE  Recovery'
BY DEF PushBlock, Recovery, Shape, WhileWorking, Starting, Ahead, EmptyIndex,
       NoObject, Cached, NoGenesis, Steps, Whole, Recoverable, StateMatchesHead

LEMMA InsertBlockRecovery ==
    ASSUME Recovery, InsertBlock
    PROVE  Recovery'
BY DEF InsertBlock, Recovery, Shape, WhileWorking, Starting, Ahead, EmptyIndex,
       NoObject, Cached, NoGenesis, Steps, Whole, Recoverable

LEMMA StoreRecordRecovery ==
    ASSUME Recovery, StoreRecord
    PROVE  Recovery'
BY DEF StoreRecord, Recovery, Shape, WhileWorking, Starting, Ahead, EmptyIndex,
       NoObject, Cached, NoGenesis, Steps, Whole, Recoverable, AfterStore

LEMMA ApplyChangesRecovery ==
    ASSUME Recovery, ApplyChanges
    PROVE  Recovery'
BY DEF ApplyChanges, Recovery, Shape, WhileWorking, Starting, Ahead, EmptyIndex,
       NoObject, Cached, NoGenesis, Steps, Whole, Recoverable, StoreCached

LEMMA StoreNumToIdRecovery ==
    ASSUME Recovery, StoreNumToId
    PROVE  Recovery'
BY DEF StoreNumToId, Recovery, Shape, WhileWorking, Starting, Ahead, EmptyIndex,
       NoObject, Cached, NoGenesis, Steps, Whole, Recoverable, AfterStore

LEMMA PushedRecovery ==
    ASSUME Recovery, Pushed
    PROVE  Recovery'
BY DEF Pushed, Recovery, Shape, WhileWorking, Starting, Ahead, EmptyIndex,
       NoObject, Cached, NoGenesis, Steps, Whole, Recoverable

LEMMA ReindexDoneRecovery ==
    ASSUME Recovery, ReindexDone
    PROVE  Recovery'
BY DEF ReindexDone, Recovery, Shape, WhileWorking, Starting, Ahead, EmptyIndex,
       NoObject, Cached, NoGenesis, Steps, Whole, Recoverable

LEMMA FlushCachesRecovery ==
    ASSUME Recovery, FlushCaches
    PROVE  Recovery'
BY DEF FlushCaches, Recovery, Shape, WhileWorking, Starting, Ahead, EmptyIndex,
       NoObject, Cached, NoGenesis, Steps, Whole, Recoverable

LEMMA RemoveOrigRecovery ==
    ASSUME Recovery, RemoveOrig
    PROVE  Recovery'
BY DEF RemoveOrig, Recovery, Shape, WhileWorking, Starting, Ahead, EmptyIndex,
       NoObject, Cached, NoGenesis, Steps, Whole, Recoverable

LEMMA NextRecovery == Recovery /\ [Next]_vars => Recovery'
<1> SUFFICES ASSUME Recovery, [Next]_vars PROVE Recovery'
  OBVIOUS
<1>1. CASE UNCHANGED vars
  BY <1>1 DEF vars, Recovery, Shape, WhileStarting, WhileWorking, Ahead, Whole, Recoverable
<1>2. CASE Process
  BY <1>2, OpenDatabaseRecovery, StoreVersionRecovery, FindHeadRecovery, RemoveIndexRecovery,
     RenameDataRecovery, InitializeGenesisRecovery, LoadNumToIdRecovery, InsertBlockRecovery,
     StoreRecordRecovery, ApplyChangesRecovery, StoreNumToIdRecovery, PushedRecovery,
     ReindexDoneRecovery, FlushCachesRecovery, RemoveOrigRecovery, CheckChainIdRecovery
     DEF Process
<1>3. CASE \E b \in Block : PushBlock(b)
  BY <1>3, PushBlockRecovery
<1>4. CASE Close \/ Crash
  BY <1>4, CloseRecovery, CrashRecovery
<1>5. CASE RebuildIndexOption \/ ResyncOption \/ NewDatabaseVersion
  BY <1>5, RebuildIndexOptionRecovery, ResyncOptionRecovery, NewDatabaseVersionRecovery
<1> QED BY <1>1, <1>2, <1>3, <1>4, <1>5 DEF Next

(***************************************************************************)
(* However often the process is killed, an open chain database holds the   *)
(* state of its head, unless a kill hit the middle of apply_changes or a   *)
(* re-indexing that had flushed before, and the index was not rebuilt      *)
(* since.                                                                  *)
(***************************************************************************)
THEOREM AlwaysRecovered == Spec => []StateRecovered
<1>1. Init => Recovery
  BY InitRecovery
<1>2. Recovery /\ [Next]_vars => Recovery'
  BY NextRecovery
<1>3. Recovery => StateRecovered
  <2> SUFFICES ASSUME Recovery, pc = "running", Whole PROVE StateMatchesHead
    BY DEF StateRecovered, Whole
  <2>1. WhileWorking /\ Shape
    BY DEF Recovery, Starting
  <2> QED BY <2>1 DEF WhileWorking, Shape, Recoverable, StateMatchesHead
<1> QED BY <1>1, <1>2, <1>3, PTL DEF Spec
==============================================================================

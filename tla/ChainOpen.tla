------------------------------- MODULE ChainOpen -------------------------------
(***************************************************************************)
(* What chain_database keeps on disk, how chain_database::open finds its   *)
(* way back after the process was killed, and re-indexing: the rebuild of  *)
(* every index from the raw blocks, with the cached databases' writes      *)
(* postponed and the raw blocks copied from one database to another.       *)
(*                                                                         *)
(* The chain is linear: block n is the only block with that number, and    *)
(* its id is n (ChainDatabase models forks).  The cached state databases   *)
(* are two: "property", the first that apply_changes and                   *)
(* set_db_cache_write_through write, and "records" for all the others;     *)
(* each holds the number of blocks applied to it, NoGenesis before         *)
(* initialize_genesis.  A write to one database, and the removal or        *)
(* renaming of a directory, is atomic; the process may be killed between   *)
(* any two of them.                                                        *)
(***************************************************************************)
EXTENDS Integers, Sequences, FiniteSets, FiniteSetsExt, SequencesExt

CONSTANTS
    MaxBlocks,      \* blocks the network ever produces
    FlushInterval,  \* blocks between two flushes while re-indexing (1000)
    IdOrder,        \* the blocks in the order of their ids
    MaxCrashes      \* bound on the number of kills

ASSUME BoundsAssumption ==
    /\ MaxBlocks \in Nat
    /\ FlushInterval \in Nat \ {0}
    /\ MaxCrashes \in Nat
    /\ IdOrder \in SetToSeqs(1..MaxBlocks)

VARIABLES
    index,      \* the directory "index": exists, version stored, cached
                \* databases, block records (block_record_db, fork_db, ...)
    raw,        \* the directory "raw_chain": block_num_to_id_db,
                \* block_id_to_block_data_db, id_to_data_orig (or NoDir)
    mem,        \* the chain_database object
    pc,         \* where the process is
    crashes,
    applied,    \* history: blocks that were ever part of the chain
    torn        \* history: kills that may have left the state behind the head

vars == <<index, raw, mem, pc, crashes, applied, torn>>

NoGenesis == -1
NoDir == {0}
Cached == {"property", "records"}
Block == 1..MaxBlocks

Steps == {"down", "version", "version_again", "find_head", "remove_index", "rename_data", "genesis",
          "load", "insert", "record", "pushed", "apply_property", "apply_records", "num",
          "flush_property", "flush_records", "finish", "check", "running"}

TypeOK ==
    /\ index \in [exists : BOOLEAN, version : BOOLEAN, records : SUBSET Block,
                  cached : [Cached -> NoGenesis..MaxBlocks]]
    /\ raw \in [num_to_id : SUBSET Block, data : SUBSET Block,
                orig : SUBSET Block \cup {NoDir}]
    /\ mem.head \in 0..MaxBlocks
    /\ mem.cached \in [Cached -> NoGenesis..MaxBlocks]
    /\ mem.rebuild \in BOOLEAN /\ mem.write_through \in BOOLEAN
    /\ mem.block \in 0..MaxBlocks
    /\ mem.todo \in Seq(Block)
    /\ mem.indexed \in 0..MaxBlocks
    /\ pc \in Steps
    /\ crashes \in 0..MaxCrashes
    /\ applied \subseteq Block
    /\ torn \subseteq {"apply", "flush", "reindex"}

EmptyIndex(exists) ==
    [exists |-> exists, version |-> FALSE, records |-> {},
     cached |-> [d \in Cached |-> NoGenesis]]

NoObject ==
    [head |-> 0, cached |-> [d \in Cached |-> NoGenesis], rebuild |-> FALSE,
     write_through |-> TRUE, block |-> 0, todo |-> <<>>, indexed |-> 0]

Init ==
    /\ index = EmptyIndex(FALSE)
    /\ raw = [num_to_id |-> {}, data |-> {}, orig |-> NoDir]
    /\ mem = NoObject
    /\ pc = "down"
    /\ crashes = 0
    /\ applied = {}
    /\ torn = {}

-------------------------------------------------------------------------------
(***************************************************************************)
(* open_database: an index directory without a database version is         *)
(* removed and created anew.  It runs at the start of open and again       *)
(* after re-indexing emptied the directory.                                *)
(***************************************************************************)
WipedIfNoVersion(i) == IF i.version THEN i ELSE EmptyIndex(TRUE)

OpenDatabase ==
    /\ pc = "down"
    /\ mem' = [NoObject EXCEPT !.rebuild = ~index.exists]
    /\ index' = WipedIfNoVersion(index)
    /\ torn' = IF index.version THEN torn ELSE torn \ {"apply", "flush"}
    /\ pc' = "version"
    /\ UNCHANGED <<raw, crashes, applied>>

\* set_property( database_version ), written through; the caches are loaded.
StoreVersion ==
    /\ \/ pc = "version" /\ pc' = "find_head"
       \/ pc = "version_again" /\ pc' = "genesis"
    /\ index' = [index EXCEPT !.version = TRUE]
    /\ mem' = [mem EXCEPT !.cached = index.cached]
    /\ UNCHANGED <<raw, crashes, applied, torn>>

(***************************************************************************)
(* The head is the last entry of block_num_to_id_db.  The index must be    *)
(* rebuilt when its directory did not exist, when there is no such entry   *)
(* or when the head's record is missing.                                   *)
(***************************************************************************)
FindHead ==
    /\ pc = "find_head"
    /\ LET last == IF raw.num_to_id = {} THEN 0 ELSE Max(raw.num_to_id)
           found == ~mem.rebuild /\ last # 0 /\ last \in index.records
       IN  /\ mem' = [mem EXCEPT !.head = IF found THEN last ELSE 0, !.rebuild = ~found]
           /\ pc' = IF found THEN "check" ELSE "remove_index"
    /\ UNCHANGED <<index, raw, crashes, applied, torn>>

(***************************************************************************)
(* Re-indexing.  The index goes, the raw blocks are renamed to             *)
(* id_to_data_orig unless an earlier attempt already did that, genesis is  *)
(* put into the caches, and block_num_to_id_db is read into memory and     *)
(* removed from disk.                                                      *)
(***************************************************************************)
RemoveIndex ==
    /\ pc = "remove_index"
    /\ index' = EmptyIndex(FALSE)
    /\ torn' = torn \ {"apply", "flush"}
    /\ pc' = "rename_data"
    /\ UNCHANGED <<raw, mem, crashes, applied>>

\* Mutant: id_to_data_orig of an earlier attempt is overwritten.
RenameDataAgain ==
    /\ pc = "rename_data"
    /\ index' = EmptyIndex(TRUE)
    /\ raw' = [raw EXCEPT !.orig = raw.data, !.data = {}]
    /\ pc' = "version_again"
    /\ UNCHANGED <<mem, crashes, applied, torn>>

RenameData ==
    /\ pc = "rename_data"
    /\ index' = EmptyIndex(TRUE)
    /\ raw' = IF raw.orig = NoDir THEN [raw EXCEPT !.orig = raw.data, !.data = {}] ELSE raw
    /\ pc' = "version_again"
    /\ UNCHANGED <<mem, crashes, applied, torn>>

InitializeGenesis ==
    /\ pc = "genesis"
    /\ mem' = [mem EXCEPT !.write_through = FALSE, !.cached = [d \in Cached |-> 0]]
    /\ pc' = "load"
    /\ UNCHANGED <<index, raw, crashes, applied, torn>>

LoadNumToId ==
    /\ pc = "load"
    /\ mem' = [mem EXCEPT !.todo =
                  IF raw.num_to_id = {}
                  THEN SelectSeq(IdOrder, LAMBDA b : b \in raw.orig)
                  ELSE SelectSeq([n \in 1..MaxBlocks |-> n],
                                 LAMBDA b : b \in raw.num_to_id \cap raw.orig)]
    /\ raw' = [raw EXCEPT !.num_to_id = {}]
    /\ pc' = "insert"
    /\ UNCHANGED <<index, crashes, applied, torn>>

\* insert_block: the first write of store_and_index.
InsertBlock ==
    /\ pc = "insert"
    /\ mem.todo # <<>>
    /\ mem' = [mem EXCEPT !.block = Head(mem.todo), !.todo = Tail(mem.todo),
                          !.indexed = mem.indexed + 1]
    /\ raw' = [raw EXCEPT !.data = raw.data \cup {Head(mem.todo)}]
    /\ pc' = "record"
    /\ UNCHANGED <<index, crashes, applied, torn>>

-------------------------------------------------------------------------------
(***************************************************************************)
(* push_block in normal operation.  A database whose state does not match  *)
(* its head would apply blocks to the wrong state; what comes of that is   *)
(* not modelled.                                                           *)
(***************************************************************************)
StateMatchesHead == \A d \in Cached : mem.cached[d] = mem.head

PushBlock(b) ==
    /\ pc = "running"
    /\ b \notin raw.data
    /\ StateMatchesHead
    /\ mem' = [mem EXCEPT !.block = b]
    /\ raw' = [raw EXCEPT !.data = raw.data \cup {b}]
    /\ pc' = "record"
    /\ UNCHANGED <<index, crashes, applied, torn>>

\* The rest of store_and_index; then every block now linked is applied.
AfterStore(records, head) == IF head + 1 \in records THEN "apply_property" ELSE "pushed"

StoreRecord ==
    /\ pc = "record"
    /\ index' = [index EXCEPT !.records = @ \cup {mem.block}]
    /\ pc' = AfterStore(index'.records, mem.head)
    /\ UNCHANGED <<raw, mem, crashes, applied, torn>>

\* Mutant: one of the databases is never set back to write-through.
StoreCachedForgotten(d, n) ==
    /\ mem' = [mem EXCEPT !.cached[d] = n]
    /\ index' = IF mem.write_through /\ d = "property"
                THEN [index EXCEPT !.cached[d] = n] ELSE index

\* A store into a cached database.
StoreCached(d, n) ==
    /\ mem' = [mem EXCEPT !.cached[d] = n]
    /\ index' = IF mem.write_through THEN [index EXCEPT !.cached[d] = n] ELSE index

(***************************************************************************)
(* extend_chain: apply_changes writes the databases one after the other,   *)
(* and the block is entered into block_num_to_id_db last.                  *)
(***************************************************************************)
ApplyChanges ==
    /\ \/ /\ pc = "apply_property"
          /\ StoreCached("property", mem.head + 1)
          /\ pc' = "apply_records"
       \/ /\ pc = "apply_records"
          /\ StoreCached("records", mem.head + 1)
          /\ pc' = "num"
    /\ UNCHANGED <<raw, crashes, applied, torn>>

StoreNumToId ==
    /\ pc = "num"
    /\ mem' = [mem EXCEPT !.head = @ + 1]
    /\ raw' = [raw EXCEPT !.num_to_id = @ \cup {mem.head + 1}]
    /\ applied' = applied \cup {mem.head + 1}
    /\ pc' = AfterStore(index.records, mem.head + 1)
    /\ UNCHANGED <<index, crashes, torn>>

-------------------------------------------------------------------------------
\* push_block returned to insert_block, or to its caller in normal operation.
Pushed ==
    /\ pc = "pushed"
    /\ pc' = IF ~mem.rebuild THEN "running"
             ELSE IF mem.indexed % FlushInterval = 0 THEN "flush_property" ELSE "insert"
    /\ UNCHANGED <<index, raw, mem, crashes, applied, torn>>

ReindexDone ==
    /\ pc = "insert"
    /\ mem.todo = <<>>
    /\ pc' = "flush_property"
    /\ mem' = [mem EXCEPT !.block = 0]
    /\ UNCHANGED <<index, raw, crashes, applied, torn>>

\* set_db_cache_write_through flushes one database after the other.
FlushCaches ==
    /\ \/ /\ pc = "flush_property"
          /\ index' = [index EXCEPT !.cached["property"] = mem.cached["property"]]
          /\ pc' = "flush_records"
          /\ UNCHANGED mem
       \/ /\ pc = "flush_records"
          /\ index' = [index EXCEPT !.cached["records"] = mem.cached["records"]]
          /\ mem' = [mem EXCEPT !.write_through = (mem.block = 0)]
          /\ pc' = IF mem.block = 0 THEN "finish" ELSE "insert"
    /\ UNCHANGED <<raw, crashes, applied, torn>>

RemoveOrig ==
    /\ pc = "finish"
    /\ raw' = [raw EXCEPT !.orig = NoDir]
    /\ mem' = [mem EXCEPT !.rebuild = FALSE]
    /\ pc' = "check"
    /\ UNCHANGED <<index, crashes, applied, torn>>

\* Mutant: open fails and leaves the index as it is.
CheckChainIdKeepsIndex ==
    /\ pc = "check"
    /\ IF mem.cached["property"] = NoGenesis
       THEN mem' = NoObject /\ pc' = "down"
       ELSE pc' = "running" /\ UNCHANGED mem
    /\ UNCHANGED <<index, raw, crashes, applied, torn>>

\* get_property( chain_id ) throws when genesis never reached the disk:
\* the index is removed and open fails.
CheckChainId ==
    /\ pc = "check"
    /\ IF mem.cached["property"] = NoGenesis
       THEN /\ index' = EmptyIndex(FALSE)
            /\ torn' = torn \ {"apply", "flush"}
            /\ mem' = NoObject
            /\ pc' = "down"
       ELSE pc' = "running" /\ UNCHANGED <<index, mem, torn>>
    /\ UNCHANGED <<raw, crashes, applied>>

\* close() in normal operation; the caches are written through already.
Close ==
    /\ pc = "running"
    /\ mem' = NoObject
    /\ pc' = "down"
    /\ UNCHANGED <<index, raw, crashes, applied, torn>>

(***************************************************************************)
(* Between two runs: --rebuild-index deletes the index, --resync-blockchain *)
(* everything, and a program with a newer BTS_BLOCKCHAIN_DATABASE_VERSION  *)
(* takes the stored version for none.                                      *)
(***************************************************************************)
RebuildIndexOption ==
    /\ pc = "down"
    /\ index.exists
    /\ index' = EmptyIndex(FALSE)
    /\ torn' = torn \ {"apply", "flush"}
    /\ UNCHANGED <<raw, mem, pc, crashes, applied>>

ResyncOption ==
    /\ pc = "down"
    /\ index.exists
    /\ index' = EmptyIndex(FALSE)
    /\ raw' = [num_to_id |-> {}, data |-> {}, orig |-> NoDir]
    /\ applied' = {}
    /\ torn' = {}
    /\ UNCHANGED <<mem, pc, crashes>>

NewDatabaseVersion ==
    /\ pc = "down"
    /\ index.version
    /\ index' = [index EXCEPT !.version = FALSE]
    /\ UNCHANGED <<raw, mem, pc, crashes, applied, torn>>

(***************************************************************************)
(* The process is killed.  `torn' remembers the three moments whose traces *)
(* open does not recognise.                                                *)
(***************************************************************************)
Applying == pc \in {"apply_records", "num"} /\ mem.write_through

Reindexing == mem.rebuild /\ pc # "load" /\ (~mem.write_through \/ pc = "finish")

Crash ==
    /\ crashes < MaxCrashes
    /\ pc # "down"
    /\ crashes' = crashes + 1
    /\ torn' = torn \cup (IF Applying THEN {"apply"} ELSE {})
                    \cup (IF Reindexing /\ pc # "finish" /\ index.cached["property"] # NoGenesis
                          THEN {"flush"} ELSE {})
                    \cup (IF Reindexing /\ raw.num_to_id # {} THEN {"reindex"} ELSE {})
    /\ mem' = NoObject
    /\ pc' = "down"
    /\ UNCHANGED <<index, raw, applied>>

Process ==
    \/ OpenDatabase \/ StoreVersion \/ FindHead
    \/ RemoveIndex \/ RenameData \/ InitializeGenesis \/ LoadNumToId \/ InsertBlock
    \/ StoreRecord \/ ApplyChanges \/ StoreNumToId \/ Pushed
    \/ ReindexDone \/ FlushCaches \/ RemoveOrig \/ CheckChainId

Next ==
    \/ Process
    \/ \E b \in Block : PushBlock(b)
    \/ Close
    \/ RebuildIndexOption \/ ResyncOption \/ NewDatabaseVersion
    \/ Crash

Spec == Init /\ [][Next]_vars

\* A process that was started goes on, and one that stopped is started again.
FairSpec == Spec /\ WF_vars(Process)

-------------------------------------------------------------------------------
(***************************************************************************)
(* An open database whose blocks and indexes were not torn apart by a kill *)
(* in the middle of apply_changes, or between two flushes of a re-indexing *)
(* that had already flushed once, holds exactly the state of its head; a   *)
(* kill at any other moment of open, of re-indexing or of normal operation *)
(* is recovered from, and so is a torn state once the index is rebuilt.    *)
(***************************************************************************)
StateRecovered ==
    pc = "running" /\ torn \cap {"apply", "flush"} = {} => StateMatchesHead

(***************************************************************************)
(* The inductive invariant behind StateRecovered.  Before the loop over    *)
(* the raw blocks, what is on disk is the state of the last number on      *)
(* disk, or genesis never reached it; from then on the numbers on disk are *)
(* those up to the head, and the caches are at the head or on their way to *)
(* the next block.                                                         *)
(***************************************************************************)
Starting == {"down", "version", "find_head", "remove_index", "rename_data", "version_again",
             "genesis", "load"}

Whole == torn \cap {"apply", "flush"} = {}

Recoverable(n) ==
    index.cached["property"] = NoGenesis \/ \A d \in Cached : index.cached[d] = n

Shape ==
    /\ DOMAIN mem = DOMAIN NoObject
    /\ mem.head \in Nat
    /\ mem.cached \in [Cached -> Int]
    /\ mem.rebuild \in BOOLEAN /\ mem.write_through \in BOOLEAN
    /\ DOMAIN index = DOMAIN EmptyIndex(TRUE)
    /\ index.cached \in [Cached -> Int]
    /\ DOMAIN raw = {"num_to_id", "data", "orig"}
    /\ raw.num_to_id \subseteq Nat
    /\ pc \in Steps

WhileStarting ==
    /\ mem.head = 0
    /\ mem.write_through <=> pc # "load"
    /\ \E n \in {0} \cup raw.num_to_id : raw.num_to_id = 1..n /\ (Whole => Recoverable(n))
    /\ pc = "find_head" => mem.cached = index.cached
    /\ pc = "load" => \A d \in Cached : mem.cached[d] = 0
    /\ pc \notin {"down", "version", "find_head"} => mem.rebuild
    /\ pc \in {"rename_data", "version_again", "genesis", "load"} =>
          Whole /\ index.cached["property"] = NoGenesis

Ahead(steps) == IF pc \in steps THEN mem.head + 1 ELSE mem.head

WhileWorking ==
    /\ raw.num_to_id = 1..mem.head
    /\ mem.write_through <=> (mem.rebuild => pc = "finish")
    /\ mem.write_through => mem.cached = index.cached
    /\ pc \in {"insert", "flush_property", "flush_records", "finish"} => mem.rebuild
    /\ pc \in {"check", "running"} => ~mem.rebuild /\ (Whole => Recoverable(mem.head))
    /\ pc = "running" => mem.cached["property"] # NoGenesis
    /\ pc \notin {"check", "running"} =>
          /\ mem.cached["property"] = Ahead({"apply_records", "num"})
          /\ mem.cached["records"] = Ahead({"num"})
    /\ pc = "flush_records" => index.cached["property"] = mem.cached["property"]

Recovery ==
    /\ Shape
    /\ IF pc \in Starting THEN WhileStarting ELSE WhileWorking

(***************************************************************************)
(* Stop-and-copy keeps the chain: unless a re-indexing was interrupted     *)
(* after it re-entered its first block, every block that was ever applied  *)
(* is still on disk, and an open database has them all on its chain.       *)
(***************************************************************************)
ChainSurvives ==
    "reindex" \notin torn =>
        /\ applied \subseteq raw.data \cup raw.orig
        /\ pc = "running" => applied \subseteq 1..mem.head

(***************************************************************************)
(* Whatever was interrupted: every block that block_num_to_id_db names can *)
(* be read once the database is open, its record included.                 *)
(***************************************************************************)
MainChainReadable ==
    /\ raw.num_to_id \subseteq raw.data \cup raw.orig
    /\ pc = "running" => /\ raw.num_to_id = 1..mem.head
                         /\ raw.num_to_id \subseteq raw.data \cap index.records

(***************************************************************************)
(* However often it is killed, a node that is started again and again ends *)
(* up with an open database.                                               *)
(***************************************************************************)
AlwaysReopens == [](pc = "down" => <>(pc = "running"))

(***************************************************************************)
(* Violated (see README): what the comment on re-indexing promises, that   *)
(* it garbage-collects the raw chain, also when it is interrupted.         *)
(***************************************************************************)
NoBlockLost == applied \subseteq raw.data \cup raw.orig
===============================================================================

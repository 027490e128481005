------------------------------ MODULE FilSpace ------------------------------
(***************************************************************************)
(* The memory cache of tablespaces of fil/fil0fil.c: single-table          *)
(* tablespaces of one file each.  Each operation is one section of the     *)
(* code under the mutex of fil_system; PageIo says which thread runs it    *)
(* when.  The system tablespace, which is always open, is left out.        *)
(***************************************************************************)
EXTENDS Naturals, FiniteSets

CONSTANTS
    Spaces,             \* the ids of the tablespaces
    Flushers            \* the threads that call fil_flush

ASSUME FilSpaceAssumption == IsFiniteSet(Flushers)

VARIABLES
    max_n_open,         \* innodb_open_files
    space,              \* the fields of fil_space_t, by id
    node,               \* the fields of the one fil_node_t of each
    tablespace_version, \* the last version given to a space object
    flushing            \* the calls of fil_flush that are under way

fil_vars == <<max_n_open, space, node, tablespace_version, flushing>>

SpaceType == [exists : BOOLEAN, version : Nat, stop_ios : BOOLEAN, stop_ibuf_merges : BOOLEAN,
              is_being_deleted : BOOLEAN, n_pending_flushes : Nat, n_pending_ibuf_merges : Nat]

NodeType == [open : BOOLEAN, n_pending : Nat, n_pending_flushes : Nat,
             modification_counter : Nat, flush_counter : Nat]

\* wait: another thread flushes the file.  flush: os_file_flush is called.
\* done: it has returned.
FlushType == [at : {"none", "wait", "flush", "done"}, space : Spaces, old_mod_counter : Nat]

NewSpace(v) ==
    [exists |-> TRUE, version |-> v, stop_ios |-> FALSE, stop_ibuf_merges |-> FALSE,
     is_being_deleted |-> FALSE, n_pending_flushes |-> 0, n_pending_ibuf_merges |-> 0]

NewNode == [open |-> FALSE, n_pending |-> 0, n_pending_flushes |-> 0,
            modification_counter |-> 0, flush_counter |-> 0]

FilInit(limit) ==
    /\ max_n_open = limit
    /\ space = [s \in Spaces |-> NewSpace(1)]
    /\ node = [s \in Spaces |-> NewNode]
    /\ tablespace_version = 1
    /\ flushing = [f \in Flushers |-> [at |-> "none", space |-> CHOOSE s \in Spaces : TRUE,
                                       old_mod_counter |-> 0]]

Exists(s) == space[s].exists

\* fil_tablespace_deleted_or_being_deleted_in_mem; version 0 is the -1 of the
\* code, any version will do.
DeletedOrBeingDeleted(s, v) ==
    \/ ~Exists(s) \/ space[s].is_being_deleted
    \/ v # 0 /\ space[s].version # v

Unflushed(s) == Exists(s) /\ node[s].modification_counter > node[s].flush_counter

-----------------------------------------------------------------------------
(* I/o *)

OpenFiles == { s \in Spaces : node[s].open }

\* What fil_try_to_close_file_in_LRU may close; in the LRU list are the open
\* files with no i/o pending.
Closable ==
    { s \in OpenFiles :
        /\ node[s].n_pending = 0
        /\ node[s].n_pending_flushes = 0
        /\ node[s].modification_counter = node[s].flush_counter }

\* fil_mutex_enter_and_prepare_for_io: the files it closes.  If none can be
\* closed the caller has the spaces flushed and tries twice more, then opens one
\* file too many; how often it has tried is left out.
ClosedForIo(s) ==
    IF Cardinality(OpenFiles) < max_n_open \/ node[s].open \/ Closable = {}
    THEN { {} }
    ELSE { {c} : c \in Closable }

\* New i/o waits for a rename only if the caller might have to open a file.
IoStopped(s) == Cardinality(OpenFiles) >= max_n_open /\ space[s].stop_ios

\* fil_io up to fil_node_prepare_for_io, which opens the file.
PrepareForIo(s) ==
    /\ Exists(s)
    /\ ~IoStopped(s)
    /\ \E closed \in ClosedForIo(s) :
           node' = [f \in Spaces |->
               IF f = s THEN [node[f] EXCEPT !.open = TRUE, !.n_pending = @ + 1]
               ELSE IF f \in closed THEN [node[f] EXCEPT !.open = FALSE]
               ELSE node[f]]
    /\ UNCHANGED <<max_n_open, space, tablespace_version, flushing>>

\* fil_node_complete_io
CompleteIo(s, type) ==
    /\ node' = [node EXCEPT ![s].n_pending = @ - 1,
                            ![s].modification_counter = IF type = "write" THEN @ + 1 ELSE @]
    /\ UNCHANGED <<max_n_open, space, tablespace_version, flushing>>

-----------------------------------------------------------------------------
(* fil_flush *)

\* The thread f has found unflushed modifications in s.
StartFlush(f, s) ==
    /\ flushing[f].at = "none"
    /\ Unflushed(s)
    /\ ~space[s].is_being_deleted
    /\ space' = [space EXCEPT ![s].n_pending_flushes = @ + 1]
    /\ LET busy == node[s].n_pending_flushes > 0
       IN  /\ flushing' = [flushing EXCEPT ![f] =
                  [at |-> IF busy THEN "wait" ELSE "flush", space |-> s,
                   old_mod_counter |-> node[s].modification_counter]]
           /\ node' = IF busy THEN node ELSE [node EXCEPT ![s].n_pending_flushes = @ + 1]
    /\ UNCHANGED <<max_n_open, tablespace_version>>

\* What f does after the flush, or after another one has done it: the file is
\* flushed as far as it had been written before, not as far as it is now.
FlushedTo(f, old, flushes) ==
    LET s == flushing[f].space
    IN  /\ node' = [node EXCEPT ![s].n_pending_flushes = @ - flushes,
                                ![s].flush_counter = IF @ < old THEN old ELSE @]
        /\ space' = [space EXCEPT ![s].n_pending_flushes = @ - 1]
        /\ flushing' = [flushing EXCEPT ![f].at = "none"]
        /\ UNCHANGED <<max_n_open, tablespace_version>>

RetryFlush(f) ==
    LET s == flushing[f].space
        old == flushing[f].old_mod_counter
    IN  /\ flushing[f].at = "wait"
        /\ \/ node[s].flush_counter >= old /\ FlushedTo(f, old, 0)
           \/ /\ node[s].flush_counter < old
              /\ node[s].n_pending_flushes = 0
              /\ node' = [node EXCEPT ![s].n_pending_flushes = 1]
              /\ flushing' = [flushing EXCEPT ![f].at = "flush"]
              /\ UNCHANGED <<max_n_open, space, tablespace_version>>

\* os_file_flush
OsFlush(f) ==
    /\ flushing[f].at = "flush"
    /\ flushing' = [flushing EXCEPT ![f].at = "done"]
    /\ UNCHANGED <<max_n_open, space, node, tablespace_version>>

\* Mutant: what was written during the flush is taken for flushed.
EndFlushUpToNow(f) ==
    /\ flushing[f].at = "done"
    /\ FlushedTo(f, node[flushing[f].space].modification_counter, 1)

EndFlush(f) ==
    /\ flushing[f].at = "done"
    /\ FlushedTo(f, flushing[f].old_mod_counter, 1)

-----------------------------------------------------------------------------
(* Counting of merges, deletion, import and rename *)

\* fil_inc_pending_ibuf_merges, if it does not refuse
CountMerge(s) ==
    /\ Exists(s) /\ ~space[s].stop_ibuf_merges
    /\ space' = [space EXCEPT ![s].n_pending_ibuf_merges = @ + 1]
    /\ UNCHANGED <<max_n_open, node, tablespace_version, flushing>>

\* fil_decr_pending_ibuf_merges
UncountMerge(s) ==
    /\ space' = [space EXCEPT ![s].n_pending_ibuf_merges = @ - 1]
    /\ UNCHANGED <<max_n_open, node, tablespace_version, flushing>>

\* fil_delete_tablespace, one iteration of each of its two loops
StopIbufMerges(s) ==
    /\ space' = [space EXCEPT ![s].stop_ibuf_merges = TRUE]
    /\ UNCHANGED <<max_n_open, node, tablespace_version, flushing>>

NoMerges(s) == space[s].n_pending_ibuf_merges = 0

StartDelete(s) ==
    /\ space' = [space EXCEPT ![s].is_being_deleted = TRUE]
    /\ UNCHANGED <<max_n_open, node, tablespace_version, flushing>>

NoIo(s) == space[s].n_pending_flushes = 0 /\ node[s].n_pending = 0

\* fil_space_free and the deletion of the file
FreeSpace(s) ==
    /\ space' = [space EXCEPT ![s].exists = FALSE]
    /\ node' = [node EXCEPT ![s].open = FALSE, ![s].modification_counter = node[s].flush_counter]
    /\ UNCHANGED <<max_n_open, tablespace_version, flushing>>

\* fil_space_create and fil_node_create for a tablespace that is imported
CreateSpace(s) ==
    /\ ~Exists(s)
    /\ tablespace_version' = tablespace_version + 1
    /\ space' = [space EXCEPT ![s] = NewSpace(tablespace_version + 1)]
    /\ node' = [node EXCEPT ![s] = NewNode]
    /\ UNCHANGED <<max_n_open, flushing>>

\* fil_rename_tablespace, a turn of its loop that finds the file in use,
StopIos(s) ==
    /\ node[s].n_pending > 0 \/ node[s].n_pending_flushes > 0 \/ Unflushed(s)
    /\ space' = [space EXCEPT ![s].stop_ios = TRUE]
    /\ UNCHANGED <<max_n_open, node, tablespace_version, flushing>>

\* the last one, after 25000 turns,
GiveUpRename(s) ==
    /\ space[s].stop_ios
    /\ space' = [space EXCEPT ![s].stop_ios = FALSE]
    /\ UNCHANGED <<max_n_open, node, tablespace_version, flushing>>

\* and one that closes the file and renames it.
Rename(s) ==
    /\ s \in Closable \/ ~node[s].open
    /\ node' = [node EXCEPT ![s].open = FALSE]
    /\ space' = [space EXCEPT ![s].stop_ios = FALSE]
    /\ UNCHANGED <<max_n_open, tablespace_version, flushing>>

-----------------------------------------------------------------------------
\* The calls of fil_flush for s that are at one of the points at.
CallsAt(s, at) == { f \in Flushers : flushing[f].at \in at /\ flushing[f].space = s }

\* The pending flushes are counted, of a file by at most one at a time; what
\* fil_node_close_file, fil_node_prepare_for_io and fil_flush assert of a file
\* that is closed holds.
FilTypeOK ==
    /\ max_n_open \in Nat
    /\ space \in [Spaces -> SpaceType]
    /\ node \in [Spaces -> NodeType]
    /\ tablespace_version \in Nat
    /\ flushing \in [Flushers -> FlushType]
    /\ \A s \in Spaces :
           /\ space[s].n_pending_flushes = Cardinality(CallsAt(s, {"wait", "flush", "done"}))
           /\ node[s].n_pending_flushes = Cardinality(CallsAt(s, {"flush", "done"}))
           /\ node[s].n_pending_flushes <= 1
           /\ ~node[s].open =>
                  /\ node[s].n_pending = 0
                  /\ node[s].n_pending_flushes = 0
                  /\ node[s].modification_counter = node[s].flush_counter
           /\ space[s].is_being_deleted => space[s].n_pending_ibuf_merges = 0
=============================================================================

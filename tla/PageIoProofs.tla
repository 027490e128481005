---------------------------- MODULE PageIoProofs ----------------------------
(***************************************************************************)
(* Proofs about pages, files and the insert buffer: for every number of    *)
(* tablespaces, pages, entries, sessions and flushing threads, nothing of  *)
(* a tablespace that is gone is in the pool, what fil_flush says is on     *)
(* disk, and an insert that has returned is in one place.                  *)
(*                                                                         *)
(* After the invariant come lemmas about FilSpace, which say what each     *)
(* operation on a tablespace keeps; lemmas about counts; the parts of the  *)
(* invariant that all steps keep which change no contents (QuietStep,      *)
(* SessionMoves, CallSteps, FlagsStep); and a lemma for each action.       *)
(***************************************************************************)
EXTENDS PageIo, FiniteSetTheorems, SequenceTheorems, TLAPS

-----------------------------------------------------------------------------
(* The invariant: types and counts *)

FilTypes ==
    /\ max_n_open \in Nat
    /\ space \in [Spaces -> SpaceType]
    /\ node \in [Spaces -> NodeType]
    /\ tablespace_version \in Nat
    /\ flushing \in [Flushers -> FlushType]
PoolTypes ==
    /\ where \in [Pages -> {"out", "zip", "full"}]
    /\ io \in [Pages -> ReadPhases \cup WritePhases \cup {"none"}]
    /\ born \in [Pages -> Nat]
    /\ dirty \subseteq Pages
    /\ frame \in [Pages -> SUBSET Contents]
    /\ disk \in [Pages -> SUBSET Contents]
    /\ cached \subseteq Pages
ThreadTypes ==
    /\ plan \in Plans
    /\ buffered \subseteq Entries
    /\ ibuf_latch \in Sessions \cup Pages \cup {Nobody}
    /\ pc \in [Sessions -> {"idle", "search", "get", "latch", "ibuf", "bitmap", "buffer"}]
    /\ todo \in [Sessions -> Seq(Entries \cup Pages)]
    /\ master \in [at : {"idle", "read", "delete"}, page : Pages \cup {Nobody}, version : Nat]
    /\ ddl \in DdlLabels
    /\ inserted \subseteq Entries
    /\ evictions \in 0 .. plan.evictions

AllCalls == {"wait", "flush", "done"}
Flushes == {"flush", "done"}
CallsCounted ==
    \A s \in Spaces :
        /\ space[s].n_pending_flushes = Cardinality(CallsAt(s, AllCalls))
        /\ node[s].n_pending_flushes = Cardinality(CallsAt(s, Flushes))
        /\ node[s].n_pending_flushes <= 1
ClosedAreIdle ==
    \A s \in Spaces :
        /\ ~ node[s].open => /\ node[s].n_pending = 0
                             /\ node[s].n_pending_flushes = 0
                             /\ node[s].modification_counter = node[s].flush_counter
        /\ space[s].is_being_deleted => space[s].n_pending_ibuf_merges = 0

\* No file is flushed, or about to be, further than it was written.
FlushesAreRight ==
    /\ \A s \in Spaces : node[s].flush_counter <= node[s].modification_counter
    /\ \A f \in Flushers : flushing[f].at # "none" =>
           flushing[f].old_mod_counter <= node[flushing[f].space].modification_counter
Files == FilTypes /\ CallsCounted /\ ClosedAreIdle /\ FlushesAreRight

InIo == {"reading", "writing"}
InMerge == {"bitmap", "merge", "reset", "merged"}
PagesCounted ==
    \A s \in Spaces : /\ node[s].n_pending = Cardinality(PagesIn(s, InIo))
                      /\ space[s].n_pending_ibuf_merges = Cardinality(PagesIn(s, InMerge))

\* The leaf of the insert buffer is latched by one that is there to unlatch it.
LatchIsRight ==
    /\ \A u \in Sessions : ibuf_latch = u <=> pc[u] \in {"bitmap", "buffer"}
    /\ \A p \in Pages : /\ ibuf_latch = p => io[p] \in {"merge", "reset"}
                        /\ io[p] = "reset" => ibuf_latch = p

-----------------------------------------------------------------------------
(* The invariant: files and their tablespaces *)

\* What is still cached was written after the last flush began.
CachedAreRight ==
    \A s \in Spaces : cached \cap PagesOf(s) # {} =>
        /\ Exists(s) => Unflushed(s)
        /\ \A f \in CallsAt(s, {"done"}) :
               flushing[f].old_mod_counter < node[s].modification_counter

\* How far the deletion of the tablespace has got.
Untouched(s) == Exists(s) /\ ~ space[s].is_being_deleted /\ ~ space[s].stop_ibuf_merges
Quiet(s) == /\ space[s].is_being_deleted /\ space[s].n_pending_flushes = 0
            /\ space[s].stop_ibuf_merges
Discarded == {"discard", "import_clean", "import"}
OthersUntouched ==
    /\ tablespace_version >= 1
    /\ \A s \in Spaces \ {plan.target} : Untouched(s) /\ space[s].version = 1
TargetIsRight(t) ==
    /\ ddl # "done" => space[t].version = 1
    /\ ddl \in {"idle", "rename"} => Untouched(t)
    /\ ddl = "stop_merges" => Exists(t) /\ ~ space[t].is_being_deleted
    /\ ddl = "stop_io" => Exists(t) /\ space[t].stop_ibuf_merges /\ NoMerges(t)
    /\ ddl \in {"invalidate", "free"} => Exists(t) /\ Quiet(t)
    /\ ddl \in Discarded => ~ Exists(t) /\ Quiet(t) /\ plan.ddl = "import"
    /\ ddl = "done" => \/ Untouched(t) /\ (space[t].version # 1 => plan.ddl = "import")
                       \/ ~ Exists(t) /\ Quiet(t) /\ space[t].version = 1
\* What is gone of the tablespace.
GoneIsRight(t) ==
    /\ ddl = "free" => \A p \in PagesOf(t) : ~ Resident(p)
    /\ ddl \in Discarded => \A e \in inserted : SpaceOf[Home[e]] # t
    /\ ddl \in {"import_clean", "import"} => \A e \in buffered : SpaceOf[Home[e]] # t

-----------------------------------------------------------------------------
(* The invariant: pages, entries and threads *)

Unread == {"read", "reading"}
Current(p) == Exists(SpaceOf[p]) /\ born[p] = space[SpaceOf[p]].version
PageIsRight(p) ==
    /\ io[p] # "none" => Resident(p)
    /\ p \in dirty => Resident(p)
    /\ Resident(p) => Current(p)
    /\ Resident(p) /\ io[p] \notin Unread /\ (p \notin dirty \/ io[p] = "written") => frame[p] = disk[p]
    /\ io[p] \in InMerge \cup {"delete"} => p \in Leaves /\ where[p] = "full"
    /\ io[p] = "delete" => space[SpaceOf[p]].stop_ibuf_merges

\* While entries are buffered for a leaf, or about to be, nobody can latch it before
\* they are merged, and the bitmap says so.
Unmerged(p) == where[p] # "full" \/ io[p] \in {"read", "reading", "loaded", "bitmap", "merge", "delete"}
Coming(p) == \E u \in Sessions : pc[u] = "buffer" /\ Target(u) = p
Expected(p) == buffered \cap EntriesOf(p) # {} \/ Coming(p)
LeafIsRight(p) ==
    Expected(p) => /\ Unmerged(p)
                   /\ ~ space[SpaceOf[p]].is_being_deleted => p \in Content(BitmapOf[p])

\* An entry is inserted once.
Pending(e) == \E u \in Sessions : \E i \in DOMAIN todo[u] : todo[u][i] = e
TodoIsRight ==
    \A u, v \in Sessions : \A i \in DOMAIN todo[u], j \in DOMAIN todo[v] :
        todo[u][i] = todo[v][j] /\ todo[u][i] \in Entries => u = v /\ i = j
EntryIsNew(e) == /\ e \notin buffered /\ e \notin inserted
                 /\ e \notin frame[Home[e]] /\ e \notin disk[Home[e]]
\* Until the tablespace is discarded, it is in one place.
EntryIsPlaced(e) ==
    e \in inserted /\ ~ space[SpaceOf[Home[e]]].stop_ibuf_merges /\ space[SpaceOf[Home[e]]].version = 1
        => (e \in buffered) # (e \in Content(Home[e]))
EntryIsRight(e) ==
    /\ Pending(e) => EntryIsNew(e)
    /\ e \in buffered => Home[e] \in Leaves
    /\ EntryIsPlaced(e)
    /\ e \in inserted /\ space[SpaceOf[Home[e]]].version # 1 => plan.later

SessionIsRight(u) ==
    pc[u] # "idle" =>
        /\ todo[u] # <<>>
        /\ Usable(SpaceOf[Target(u)])
        /\ Head(todo[u]) \in Entries /\ space[SpaceOf[Target(u)]].version # 1 => plan.later
        /\ pc[u] \in {"ibuf", "bitmap", "buffer"} => Head(todo[u]) \in Entries /\ Target(u) \in Leaves

MasterIsRight ==
    /\ master.at # "idle" => master.page \in Pages
    /\ master.at = "read" => master.version \in {0, 1, space[SpaceOf[master.page]].version}
    /\ master.at = "delete" => \/ space[SpaceOf[master.page]].stop_ibuf_merges
                               \/ space[SpaceOf[master.page]].version # 1

IInv ==
    /\ Files /\ PoolTypes /\ ThreadTypes
    /\ PagesCounted /\ LatchIsRight /\ CachedAreRight
    /\ OthersUntouched /\ TargetIsRight(plan.target) /\ GoneIsRight(plan.target)
    /\ \A p \in Pages : PageIsRight(p)
    /\ \A p \in Leaves : LeafIsRight(p)
    /\ TodoIsRight /\ \A e \in Entries : EntryIsRight(e)
    /\ \A u \in Sessions : SessionIsRight(u)
    /\ MasterIsRight

-----------------------------------------------------------------------------
(* Files: what the operations of FilSpace change *)

LEMMA FileFields ==
    ASSUME FilTypes, NEW s \in Spaces
    PROVE  /\ space[s] \in SpaceType /\ node[s] \in NodeType
           /\ space[s].n_pending_flushes \in Nat /\ space[s].n_pending_ibuf_merges \in Nat
           /\ space[s].version \in Nat
           /\ node[s].n_pending \in Nat /\ node[s].n_pending_flushes \in Nat
           /\ node[s].modification_counter \in Nat /\ node[s].flush_counter \in Nat
  BY DEF FilTypes, SpaceType, NodeType

LEMMA FlushFields ==
    ASSUME FilTypes, NEW f \in Flushers
    PROVE  /\ flushing[f] \in FlushType /\ flushing[f].at \in {"none"} \cup AllCalls
           /\ flushing[f].space \in Spaces /\ flushing[f].old_mod_counter \in Nat
  BY DEF FilTypes, FlushType, AllCalls

\* What no step of an i/o, a merge or a flush changes of the tablespaces.
KeepsSpaces ==
    \A s \in Spaces :
        /\ Exists(s)' = Exists(s) /\ space'[s].version = space[s].version
        /\ space'[s].is_being_deleted = space[s].is_being_deleted
        /\ space'[s].stop_ibuf_merges = space[s].stop_ibuf_merges
        /\ space[s].is_being_deleted /\ space[s].n_pending_flushes = 0
               => space'[s].n_pending_flushes = 0
        /\ space[s].stop_ibuf_merges /\ NoMerges(s) => NoMerges(s)'
\* What of the counters the files in the cache of the operating system depend on.
KeepsCounters ==
    \A s \in Spaces : /\ node'[s].modification_counter = node[s].modification_counter
                      /\ node'[s].flush_counter = node[s].flush_counter

\* A file that is opened for an i/o, and perhaps another one closed.
LEMMA PrepareKeeps ==
    ASSUME Files, NEW s \in Spaces, PrepareForIo(s)
    PROVE  /\ Files' /\ KeepsSpaces /\ KeepsCounters
           /\ space' = space /\ flushing' = flushing /\ tablespace_version' = tablespace_version
           /\ \A x \in Spaces : node'[x].n_pending =
                                    IF x = s THEN node[x].n_pending + 1 ELSE node[x].n_pending
<1>1. PICK closed \in ClosedForIo(s) :
          node' = [f \in Spaces |->
               IF f = s THEN [node[f] EXCEPT !.open = TRUE, !.n_pending = @ + 1]
               ELSE IF f \in closed THEN [node[f] EXCEPT !.open = FALSE]
               ELSE node[f]]
  BY DEF PrepareForIo
<1>2. closed \subseteq Closable BY DEF ClosedForIo
<1>3. UNCHANGED <<max_n_open, space, tablespace_version, flushing>> BY DEF PrepareForIo
<1>4. ASSUME NEW x \in Spaces
      PROVE  /\ node'[x] \in NodeType
             /\ node'[x].modification_counter = node[x].modification_counter
             /\ node'[x].flush_counter = node[x].flush_counter
             /\ node'[x].n_pending_flushes = node[x].n_pending_flushes
             /\ node'[x].n_pending = IF x = s THEN node[x].n_pending + 1 ELSE node[x].n_pending
             /\ ~ node'[x].open => /\ node[x].n_pending = 0 /\ x # s
                                   /\ node[x].n_pending_flushes = 0
                                   /\ node[x].modification_counter = node[x].flush_counter
 <2>1. node[x] \in NodeType /\ node[x].n_pending \in Nat BY <1>4, FileFields DEF Files
 <2>2. CASE x = s
  <3>1. node'[x] = [node[x] EXCEPT !.open = TRUE, !.n_pending = node[x].n_pending + 1]
    BY <1>1, <2>2
  <3>2. node'[x] \in NodeType
   <4>1. node[x].n_pending + 1 \in Nat BY <2>1
   <4> QED BY <2>1, <3>1, <4>1 DEF NodeType
  <3>4. node'[x].open /\ node'[x].n_pending = node[x].n_pending + 1 BY <2>1, <3>1 DEF NodeType
  <3>3. /\ node'[x].modification_counter = node[x].modification_counter
        /\ node'[x].flush_counter = node[x].flush_counter
        /\ node'[x].n_pending_flushes = node[x].n_pending_flushes
    BY <2>1, <3>1 DEF NodeType
  <3> QED BY <2>2, <3>2, <3>3, <3>4
 <2>3. CASE x # s /\ x \in closed BY <1>1, <1>2, <2>1, <2>3 DEF NodeType, Closable
 <2>4. CASE x # s /\ x \notin closed BY <1>1, <2>1, <2>4 DEF Files, ClosedAreIdle
 <2> QED BY <2>2, <2>3, <2>4
<1>5. node' \in [Spaces -> NodeType] BY Zenon, <1>1, <1>4
<1>6. FilTypes' BY <1>3, <1>5 DEF Files, FilTypes
<1>7. CallsCounted' /\ ClosedAreIdle'
 <2>1. \A x \in Spaces : CallsAt(x, AllCalls)' = CallsAt(x, AllCalls)
                        /\ CallsAt(x, Flushes)' = CallsAt(x, Flushes)
   BY <1>3 DEF CallsAt
 <2>2. CallsCounted' BY <1>3, <1>4, <2>1 DEF Files, CallsCounted
 <2> QED BY <1>3, <1>4, <2>2 DEF Files, ClosedAreIdle
<1>8. FlushesAreRight'
 <2>1. \A f \in Flushers : flushing[f].space \in Spaces BY FlushFields DEF Files
 <2> QED BY <1>3, <1>4, <2>1 DEF Files, FlushesAreRight
<1> QED BY <1>3, <1>4, <1>6, <1>7, <1>8 DEF Files, KeepsSpaces, KeepsCounters, Exists, NoMerges

LEMMA CompleteKeeps ==
    ASSUME Files, NEW s \in Spaces, NEW type \in {"read", "write"}, CompleteIo(s, type),
           node[s].n_pending > 0
    PROVE  /\ Files' /\ KeepsSpaces /\ (type = "read" => KeepsCounters)
           /\ space' = space /\ flushing' = flushing /\ tablespace_version' = tablespace_version
           /\ \A x \in Spaces :
                  /\ node'[x].n_pending = IF x = s THEN node[x].n_pending - 1 ELSE node[x].n_pending
                  /\ node'[x].flush_counter = node[x].flush_counter
                  /\ node'[x].modification_counter =
                         IF x = s /\ type = "write" THEN node[x].modification_counter + 1
                         ELSE node[x].modification_counter
<1>1. UNCHANGED <<max_n_open, space, tablespace_version, flushing>> BY DEF CompleteIo
<1>2. ASSUME NEW x \in Spaces
      PROVE  /\ node'[x] \in NodeType
             /\ node'[x].flush_counter = node[x].flush_counter
             /\ node'[x].n_pending_flushes = node[x].n_pending_flushes
             /\ node'[x].open = node[x].open
             /\ node'[x].n_pending = IF x = s THEN node[x].n_pending - 1 ELSE node[x].n_pending
             /\ node'[x].modification_counter =
                    IF x = s /\ type = "write" THEN node[x].modification_counter + 1
                    ELSE node[x].modification_counter
 <2>1. node[x] \in NodeType /\ node[s].n_pending \in Nat /\ node[s].modification_counter \in Nat
   BY <1>2, FileFields DEF Files
 <2>2. CASE x = s
  <3>1. node'[x] = [node[x] EXCEPT !.n_pending = node[x].n_pending - 1,
                                   !.modification_counter = IF type = "write"
                                       THEN node[x].modification_counter + 1
                                       ELSE node[x].modification_counter]
    BY <2>2 DEF CompleteIo, Files, FilTypes
  <3>2. /\ node[x].n_pending - 1 \in Nat
        /\ (IF type = "write" THEN node[x].modification_counter + 1
                              ELSE node[x].modification_counter) \in Nat
    BY <2>1, <2>2
  <3>3. node'[x] \in NodeType BY <2>1, <3>1, <3>2 DEF NodeType
  <3>4. /\ node'[x].flush_counter = node[x].flush_counter
        /\ node'[x].n_pending_flushes = node[x].n_pending_flushes
        /\ node'[x].open = node[x].open
    BY <2>1, <3>1 DEF NodeType
  <3>5. /\ node'[x].n_pending = node[x].n_pending - 1
        /\ node'[x].modification_counter =
               IF type = "write" THEN node[x].modification_counter + 1
               ELSE node[x].modification_counter
    BY <2>1, <3>1 DEF NodeType
  <3> QED BY <2>2, <3>3, <3>4, <3>5
 <2>3. CASE x # s BY <2>1, <2>3 DEF CompleteIo, Files, FilTypes
 <2> QED BY <2>2, <2>3
<1>3. FilTypes'
 <2>1. node' \in [Spaces -> NodeType] BY <1>2 DEF CompleteIo, Files, FilTypes
 <2> QED BY <1>1, <2>1 DEF Files, FilTypes
<1>4. node[s].open BY DEF Files, ClosedAreIdle
<1>5. CallsCounted' /\ ClosedAreIdle'
  BY <1>1, <1>2, <1>4 DEF Files, CallsCounted, ClosedAreIdle, CallsAt
<1>6. FlushesAreRight'
 <2>1. \A f \in Flushers : flushing[f].space \in Spaces /\ flushing[f].old_mod_counter \in Nat
   BY FlushFields DEF Files
 <2>2. \A x \in Spaces : /\ node[x].modification_counter \in Nat /\ node[x].flush_counter \in Nat
                         /\ node'[x].modification_counter >= node[x].modification_counter
   BY <1>2, FileFields DEF Files
 <2> QED BY <1>1, <1>2, <2>1, <2>2 DEF Files, FlushesAreRight
<1> QED BY <1>1, <1>2, <1>3, <1>5, <1>6 DEF Files, KeepsSpaces, KeepsCounters, Exists, NoMerges

\* A merge is counted, or not any more.
LEMMA MergeCountKeeps ==
    ASSUME Files, NEW s \in Spaces,
           \/ CountMerge(s) /\ ~ space[s].is_being_deleted
           \/ UncountMerge(s) /\ space[s].n_pending_ibuf_merges > 0
    PROVE  /\ Files' /\ KeepsSpaces /\ KeepsCounters
           /\ node' = node /\ flushing' = flushing /\ tablespace_version' = tablespace_version
           /\ \A x \in Spaces : space'[x].n_pending_ibuf_merges =
                  IF x # s THEN space[x].n_pending_ibuf_merges
                  ELSE IF CountMerge(s) THEN space[x].n_pending_ibuf_merges + 1
                  ELSE space[x].n_pending_ibuf_merges - 1
<1>1. UNCHANGED <<max_n_open, node, tablespace_version, flushing>> BY DEF CountMerge, UncountMerge
<1> DEFINE m == space[s].n_pending_ibuf_merges
           n == IF CountMerge(s) THEN m + 1 ELSE m - 1
<1>2. /\ n \in Nat /\ space' = [space EXCEPT ![s].n_pending_ibuf_merges = n]
      /\ space[s].stop_ibuf_merges => ~ CountMerge(s)
 <2>1. m \in Nat BY FileFields DEF Files
 <2>2. CASE CountMerge(s) BY <2>1, <2>2 DEF CountMerge
 <2>3. CASE ~ CountMerge(s) BY <2>1, <2>3 DEF UncountMerge
 <2> QED BY <2>2, <2>3
<1> HIDE DEF n
<1>3. ASSUME NEW x \in Spaces
      PROVE  /\ space'[x] \in SpaceType
             /\ space'[x].exists = space[x].exists /\ space'[x].version = space[x].version
             /\ space'[x].is_being_deleted = space[x].is_being_deleted
             /\ space'[x].stop_ibuf_merges = space[x].stop_ibuf_merges
             /\ space'[x].n_pending_flushes = space[x].n_pending_flushes
             /\ space'[x].n_pending_ibuf_merges = IF x = s THEN n ELSE space[x].n_pending_ibuf_merges
 <2>1. space[x] \in SpaceType /\ space[s] \in SpaceType BY <1>3, FileFields DEF Files
 <2> QED BY <1>2, <2>1 DEF Files, FilTypes, SpaceType
<1>4. FilTypes'
 <2>1. space' \in [Spaces -> SpaceType] BY <1>2, <1>3 DEF Files, FilTypes
 <2> QED BY <1>1, <2>1 DEF Files, FilTypes
<1>5. ~ space[s].is_being_deleted BY DEF Files, ClosedAreIdle
<1>6. CallsCounted' /\ FlushesAreRight'
  BY ZenonT(60), <1>1, <1>3 DEF Files, CallsCounted, FlushesAreRight, CallsAt
<1>7. ClosedAreIdle' BY <1>1, <1>3, <1>5 DEF Files, ClosedAreIdle
<1>8. \A x \in Spaces : space[x].stop_ibuf_merges /\ NoMerges(x) => NoMerges(x)'
  BY <1>2, <1>3 DEF NoMerges
<1>9. \A x \in Spaces : space'[x].n_pending_ibuf_merges =
                  IF x # s THEN space[x].n_pending_ibuf_merges
                  ELSE IF CountMerge(s) THEN space[x].n_pending_ibuf_merges + 1
                  ELSE space[x].n_pending_ibuf_merges - 1
  BY <1>3 DEF n
<1> QED BY <1>1, <1>3, <1>4, <1>6, <1>7, <1>8, <1>9 DEF Files, KeepsSpaces, KeepsCounters, Exists

\* How counts change when f joins or leaves a set of threads.
LEMMA CallsCount ==
    ASSUME NEW S \in SUBSET Flushers, NEW f
    PROVE  /\ Cardinality(S) \in Nat
           /\ f \notin S => Cardinality(S \cup {f}) = Cardinality(S) + 1
           /\ f \in S => Cardinality(S \ {f}) = Cardinality(S) - 1
<1>1. IsFiniteSet(S) BY FilSpaceAssumption, FS_Subset
<1> QED BY <1>1, FS_CardinalityType, FS_AddElement, FS_RemoveElement

LEMMA CallsAreThreads ==
    ASSUME NEW s, NEW at
    PROVE  CallsAt(s, at) \in SUBSET Flushers
  BY DEF CallsAt

\* Nobody is in a call for s when none is counted.
LEMMA NoCalls ==
    ASSUME Files, NEW s \in Spaces, space[s].n_pending_flushes = 0
    PROVE  CallsAt(s, AllCalls) = {} /\ node[s].n_pending_flushes = 0
<1>1. CallsAt(s, AllCalls) \subseteq Flushers /\ CallsAt(s, Flushes) \subseteq CallsAt(s, AllCalls)
  BY DEF CallsAt, AllCalls, Flushes
<1>2. IsFiniteSet(CallsAt(s, AllCalls)) BY <1>1, FilSpaceAssumption, FS_Subset
<1>3. CallsAt(s, AllCalls) = {} BY <1>2, FS_EmptySet DEF Files, CallsCounted
<1> QED BY <1>1, <1>3, FS_EmptySet DEF Files, CallsCounted

LEMMA StartFlushKeeps ==
    ASSUME Files, NEW f \in Flushers, NEW s \in Spaces, StartFlush(f, s)
    PROVE  /\ Files' /\ KeepsSpaces /\ KeepsCounters /\ tablespace_version' = tablespace_version
           /\ flushing[f].at = "none" /\ flushing'[f].at # "done"
           /\ \A g \in Flushers \ {f} : flushing'[g] = flushing[g]
           /\ \A x \in Spaces : /\ node'[x].n_pending = node[x].n_pending
                                /\ space'[x].n_pending_ibuf_merges = space[x].n_pending_ibuf_merges
<1> DEFINE busy == node[s].n_pending_flushes > 0
<1>1. PICK c \in FlushType :
          /\ flushing' = [flushing EXCEPT ![f] = c]
          /\ c.at = (IF busy THEN "wait" ELSE "flush") /\ c.space = s
          /\ c.old_mod_counter = node[s].modification_counter
 <2> DEFINE d == [at |-> IF busy THEN "wait" ELSE "flush", space |-> s,
                  old_mod_counter |-> node[s].modification_counter]
 <2>1. d \in FlushType /\ flushing' = [flushing EXCEPT ![f] = d]
   BY FileFields DEF StartFlush, Files, FlushType
 <2> QED BY <2>1
<1>2. /\ flushing[f].at = "none" /\ Unflushed(s) /\ ~ space[s].is_being_deleted
      /\ space' = [space EXCEPT ![s].n_pending_flushes = space[s].n_pending_flushes + 1]
      /\ node' = IF busy THEN node
                 ELSE [node EXCEPT ![s].n_pending_flushes = node[s].n_pending_flushes + 1]
      /\ max_n_open' = max_n_open /\ tablespace_version' = tablespace_version
  BY DEF StartFlush
<1>3. ASSUME NEW x \in Spaces
      PROVE  /\ space'[x] \in SpaceType
             /\ space'[x].exists = space[x].exists /\ space'[x].version = space[x].version
             /\ space'[x].is_being_deleted = space[x].is_being_deleted
             /\ space'[x].stop_ibuf_merges = space[x].stop_ibuf_merges
             /\ space'[x].n_pending_ibuf_merges = space[x].n_pending_ibuf_merges
             /\ space'[x].n_pending_flushes =
                    IF x = s THEN space[x].n_pending_flushes + 1 ELSE space[x].n_pending_flushes
 <2>1. space[x] \in SpaceType /\ space[s].n_pending_flushes + 1 \in Nat
   BY <1>3, FileFields DEF Files
 <2> QED BY <1>2, <2>1 DEF Files, FilTypes, SpaceType
<1>4. ASSUME NEW x \in Spaces
      PROVE  /\ node'[x] \in NodeType
             /\ node'[x].open = node[x].open /\ node'[x].n_pending = node[x].n_pending
             /\ node'[x].modification_counter = node[x].modification_counter
             /\ node'[x].flush_counter = node[x].flush_counter
             /\ node'[x].n_pending_flushes = IF x = s /\ ~ busy THEN node[x].n_pending_flushes + 1
                                             ELSE node[x].n_pending_flushes
 <2>1. node[x] \in NodeType /\ node[s].n_pending_flushes + 1 \in Nat BY <1>4, FileFields DEF Files
 <2> QED BY <1>2, <2>1 DEF Files, FilTypes, NodeType
<1>5. FilTypes'
 <2>1. space' \in [Spaces -> SpaceType] /\ node' \in [Spaces -> NodeType]
   BY <1>2, <1>3, <1>4 DEF Files, FilTypes
 <2> QED BY <1>1, <1>2, <2>1 DEF Files, FilTypes
<1>6. CallsCounted'
 <2> SUFFICES ASSUME NEW x \in Spaces
              PROVE  /\ space'[x].n_pending_flushes = Cardinality(CallsAt(x, AllCalls)')
                     /\ node'[x].n_pending_flushes = Cardinality(CallsAt(x, Flushes)')
                     /\ node'[x].n_pending_flushes <= 1
   BY DEF CallsCounted
 <2> flushing \in [Flushers -> FlushType] BY DEF Files, FilTypes
 <2>1. f \notin CallsAt(x, AllCalls) /\ f \notin CallsAt(x, Flushes)
   BY <1>2 DEF CallsAt, AllCalls, Flushes
 <2>2. c.at \in AllCalls /\ (c.at \in Flushes <=> ~ busy) BY <1>1 DEF AllCalls, Flushes
 <2>3. /\ space[x].n_pending_flushes = Cardinality(CallsAt(x, AllCalls))
       /\ node[x].n_pending_flushes = Cardinality(CallsAt(x, Flushes))
       /\ node[x].n_pending_flushes <= 1 /\ node[x].n_pending_flushes \in Nat
   BY FileFields DEF Files, CallsCounted
 <2>4. CASE x = s
  <3>1. CallsAt(x, AllCalls)' = CallsAt(x, AllCalls) \cup {f} BY <1>1, <2>2, <2>4 DEF CallsAt
  <3>2. Cardinality(CallsAt(x, AllCalls)') = Cardinality(CallsAt(x, AllCalls)) + 1
    BY <2>1, <3>1, CallsAreThreads, CallsCount
  <3>3. CASE busy
   <4>1. CallsAt(x, Flushes)' = CallsAt(x, Flushes) \ {f} BY <1>1, <2>2, <3>3 DEF CallsAt
   <4>2. CallsAt(x, Flushes)' = CallsAt(x, Flushes) BY <2>1, <4>1
   <4> QED BY <1>3, <1>4, <2>3, <2>4, <3>2, <3>3, <4>2
  <3>4. CASE ~ busy
   <4>1. CallsAt(x, Flushes)' = CallsAt(x, Flushes) \cup {f}
     BY <1>1, <2>2, <2>4, <3>4 DEF CallsAt
   <4>2. Cardinality(CallsAt(x, Flushes)') = Cardinality(CallsAt(x, Flushes)) + 1
     BY <2>1, <4>1, CallsAreThreads, CallsCount
   <4>3. node'[x].n_pending_flushes = node[x].n_pending_flushes + 1 /\ node[x].n_pending_flushes = 0
     BY <1>4, <2>3, <2>4, <3>4
   <4> QED BY <1>3, <2>3, <2>4, <3>2, <4>2, <4>3
  <3> QED BY <3>3, <3>4
 <2>5. CASE x # s
  <3>1. CallsAt(x, AllCalls)' = CallsAt(x, AllCalls) \ {f} /\ CallsAt(x, Flushes)' = CallsAt(x, Flushes) \ {f}
    BY <1>1, <2>5 DEF CallsAt
  <3>2. CallsAt(x, AllCalls)' = CallsAt(x, AllCalls) /\ CallsAt(x, Flushes)' = CallsAt(x, Flushes)
    BY <2>1, <3>1
  <3> QED BY <1>3, <1>4, <2>3, <2>5, <3>2
 <2> QED BY <2>4, <2>5
<1>7. ClosedAreIdle'
 <2>1. node[s].open
  <3>1. node[s].modification_counter # node[s].flush_counter
    BY <1>2, FileFields DEF Unflushed, Files
  <3> QED BY <3>1 DEF Files, ClosedAreIdle
 <2> QED BY <1>3, <1>4, <2>1 DEF Files, ClosedAreIdle
<1>8. FlushesAreRight'
 <2>1. \A g \in Flushers \ {f} : flushing'[g] = flushing[g] /\ flushing[g].space \in Spaces
   BY <1>1, FlushFields DEF Files
 <2>2. flushing'[f] = c /\ node[s].modification_counter \in Nat
   BY <1>1, FileFields DEF Files, FilTypes
 <2> QED BY <1>1, <1>4, <2>1, <2>2 DEF Files, FlushesAreRight
<1>9. \A g \in Flushers \ {f} : flushing'[g] = flushing[g] BY <1>1 DEF Files, FilTypes
<1>10. flushing'[f].at # "done" BY <1>1 DEF Files, FilTypes
<1>11. KeepsSpaces BY <1>2, <1>3 DEF KeepsSpaces, Exists, NoMerges
<1> QED BY <1>2, <1>3, <1>4, <1>5, <1>6, <1>7, <1>8, <1>9, <1>10, <1>11 DEF Files, KeepsCounters

\* os_file_flush has returned.
LEMMA OsFlushKeeps ==
    ASSUME Files, NEW f \in Flushers, OsFlush(f)
    PROVE  /\ Files' /\ UNCHANGED <<space, node, tablespace_version>>
           /\ \A g \in Flushers \ {f} : flushing'[g] = flushing[g]
           /\ flushing[f].at = "flush"
           /\ flushing'[f].space = flushing[f].space
           /\ flushing'[f].old_mod_counter = flushing[f].old_mod_counter
<1>1. PICK c \in FlushType : /\ flushing' = [flushing EXCEPT ![f] = c]
                             /\ c.at = "done" /\ c.space = flushing[f].space
                             /\ c.old_mod_counter = flushing[f].old_mod_counter
 <2> DEFINE d == [flushing[f] EXCEPT !.at = "done"]
 <2>1. flushing' = [flushing EXCEPT ![f] = d] /\ flushing[f] \in FlushType
   BY FlushFields DEF OsFlush, Files
 <2>2. /\ d \in FlushType /\ d.at = "done" /\ d.space = flushing[f].space
       /\ d.old_mod_counter = flushing[f].old_mod_counter
   BY <2>1 DEF FlushType
 <2> HIDE DEF d
 <2> QED BY <2>1, <2>2
<1>2. flushing[f].at = "flush" /\ UNCHANGED <<max_n_open, space, node, tablespace_version>>
  BY DEF OsFlush
<1>3. FilTypes' /\ flushing'[f] = c /\ \A g \in Flushers \ {f} : flushing'[g] = flushing[g]
  BY <1>1, <1>2 DEF Files, FilTypes
<1>4. CallsCounted'
 <2>1. ASSUME NEW x \in Spaces
       PROVE  CallsAt(x, AllCalls)' = CallsAt(x, AllCalls) /\ CallsAt(x, Flushes)' = CallsAt(x, Flushes)
  <3>1. flushing[f].at \in Flushes /\ c.at \in Flushes /\ Flushes \subseteq AllCalls
    BY <1>1, <1>2 DEF Flushes, AllCalls
  <3> QED BY <1>1, <1>3, <3>1 DEF CallsAt
 <2> QED BY <1>2, <2>1 DEF Files, CallsCounted
<1>5. ClosedAreIdle' BY <1>2 DEF Files, ClosedAreIdle
<1>6. FlushesAreRight'
 <2>1. \A g \in Flushers \ {f} : flushing'[g] = flushing[g] BY <1>3
 <2> QED BY <1>1, <1>2, <1>3, <2>1 DEF Files, FlushesAreRight
<1> QED BY <1>1, <1>2, <1>3, <1>4, <1>5, <1>6 DEF Files

\* A call of fil_flush that ends: of one that has flushed, the flush of the file
\* is not counted any more; of one that has waited, n is 0.
LEMMA FlushedKeeps ==
    ASSUME Files, NEW f \in Flushers, NEW s \in Spaces, s = flushing[f].space,
           NEW old \in Nat, old = flushing[f].old_mod_counter, NEW n \in {0, 1},
           flushing[f].at = (IF n = 1 THEN "done" ELSE "wait"), FlushedTo(f, old, n)
    PROVE  /\ Files' /\ KeepsSpaces /\ tablespace_version' = tablespace_version
           /\ flushing'[f].at = "none" /\ \A g \in Flushers \ {f} : flushing'[g] = flushing[g]
           /\ \A x \in Spaces :
                  /\ node'[x].n_pending = node[x].n_pending
                  /\ node'[x].modification_counter = node[x].modification_counter
                  /\ node'[x].flush_counter = IF x = s /\ node[x].flush_counter < old THEN old
                                              ELSE node[x].flush_counter
                  /\ space'[x].n_pending_ibuf_merges = space[x].n_pending_ibuf_merges
<1>1. PICK c \in FlushType : /\ flushing' = [flushing EXCEPT ![f] = c]
                             /\ c.at = "none" /\ c.space = s /\ c.old_mod_counter = old
 <2> DEFINE d == [flushing[f] EXCEPT !.at = "none"]
 <2>1. flushing' = [flushing EXCEPT ![f] = d] /\ flushing[f] \in FlushType
   BY FlushFields DEF FlushedTo, Files
 <2>2. d \in FlushType /\ d.at = "none" /\ d.space = s /\ d.old_mod_counter = old
   BY <2>1 DEF FlushType
 <2> HIDE DEF d
 <2> QED BY <2>1, <2>2
<1>2. PICK m \in Nat : /\ m = (IF node[s].flush_counter < old THEN old ELSE node[s].flush_counter)
                       /\ node[s].flush_counter <= m
  BY FileFields DEF Files
<1>3. /\ node' = [node EXCEPT ![s].n_pending_flushes = node[s].n_pending_flushes - n,
                              ![s].flush_counter = m]
      /\ space' = [space EXCEPT ![s].n_pending_flushes = space[s].n_pending_flushes - 1]
      /\ max_n_open' = max_n_open /\ tablespace_version' = tablespace_version
  BY <1>2 DEF FlushedTo
<1>4. flushing'[f] = c /\ \A g \in Flushers \ {f} : flushing'[g] = flushing[g]
  BY <1>1 DEF Files, FilTypes
<1> flushing \in [Flushers -> FlushType] BY DEF Files, FilTypes
<1>5. /\ f \in CallsAt(s, AllCalls)
      /\ n = 1 => f \in CallsAt(s, Flushes)
      /\ n = 0 => f \notin CallsAt(s, Flushes)
      /\ \A x \in Spaces \ {s} : f \notin CallsAt(x, AllCalls) /\ f \notin CallsAt(x, Flushes)
  BY DEF CallsAt, AllCalls, Flushes
<1>6. \A x \in Spaces : /\ space[x].n_pending_flushes = Cardinality(CallsAt(x, AllCalls))
                        /\ node[x].n_pending_flushes = Cardinality(CallsAt(x, Flushes))
                        /\ node[x].n_pending_flushes <= 1
  BY DEF Files, CallsCounted
<1>7. /\ Cardinality(CallsAt(s, AllCalls) \ {f}) = space[s].n_pending_flushes - 1
      /\ space[s].n_pending_flushes - 1 \in Nat
 <2>1. CallsAt(s, AllCalls) \ {f} \in SUBSET Flushers BY CallsAreThreads
 <2>2. Cardinality(CallsAt(s, AllCalls) \ {f}) \in Nat BY <2>1, CallsCount
 <2>3. Cardinality(CallsAt(s, AllCalls) \ {f}) = Cardinality(CallsAt(s, AllCalls)) - 1
   BY <1>5, CallsAreThreads, CallsCount
 <2> QED BY <1>6, <2>2, <2>3
<1>8. n = 1 => /\ Cardinality(CallsAt(s, Flushes) \ {f}) = node[s].n_pending_flushes - 1
               /\ node[s].n_pending_flushes - 1 \in Nat
 <2>1. CallsAt(s, Flushes) \ {f} \in SUBSET Flushers BY CallsAreThreads
 <2>2. Cardinality(CallsAt(s, Flushes) \ {f}) \in Nat BY <2>1, CallsCount
 <2>3. n = 1 => Cardinality(CallsAt(s, Flushes) \ {f}) = Cardinality(CallsAt(s, Flushes)) - 1
   BY <1>5, CallsAreThreads, CallsCount
 <2> QED BY <1>6, <2>2, <2>3
<1>9. node[s].n_pending_flushes - n \in Nat
 <2>1. node[s].n_pending_flushes \in Nat BY FileFields DEF Files
 <2> QED BY <1>8, <2>1
<1>10. ASSUME NEW x \in Spaces
       PROVE  /\ space'[x] \in SpaceType
              /\ space'[x].exists = space[x].exists /\ space'[x].version = space[x].version
              /\ space'[x].is_being_deleted = space[x].is_being_deleted
              /\ space'[x].stop_ibuf_merges = space[x].stop_ibuf_merges
              /\ space'[x].n_pending_ibuf_merges = space[x].n_pending_ibuf_merges
              /\ space'[x].n_pending_flushes =
                     IF x = s THEN space[x].n_pending_flushes - 1 ELSE space[x].n_pending_flushes
 <2>1. space[x] \in SpaceType BY <1>10, FileFields DEF Files
 <2> QED BY <1>3, <1>7, <2>1 DEF Files, FilTypes, SpaceType
<1>11. ASSUME NEW x \in Spaces
       PROVE  /\ node'[x] \in NodeType
              /\ node'[x].open = node[x].open /\ node'[x].n_pending = node[x].n_pending
              /\ node'[x].modification_counter = node[x].modification_counter
              /\ node'[x].flush_counter = IF x = s THEN m ELSE node[x].flush_counter
              /\ node'[x].n_pending_flushes = IF x = s THEN node[x].n_pending_flushes - n
                                              ELSE node[x].n_pending_flushes
 <2>1. node[x] \in NodeType BY <1>11, FileFields DEF Files
 <2>2. CASE x = s
  <3>1. node'[x] = [node[x] EXCEPT !.n_pending_flushes = node[s].n_pending_flushes - n,
                                   !.flush_counter = m]
    BY <1>3, <2>2 DEF Files, FilTypes
  <3>2. node'[x] \in NodeType BY <1>2, <1>9, <2>1, <3>1 DEF NodeType
  <3>3. /\ node'[x].open = node[x].open /\ node'[x].n_pending = node[x].n_pending
        /\ node'[x].modification_counter = node[x].modification_counter
        /\ node'[x].flush_counter = m
        /\ node'[x].n_pending_flushes = node[s].n_pending_flushes - n
    BY <2>1, <3>1 DEF NodeType
  <3> QED BY <2>2, <3>2, <3>3
 <2>3. CASE x # s BY <1>3, <2>1, <2>3 DEF Files, FilTypes
 <2> QED BY <2>2, <2>3
<1>12. FilTypes'
 <2>1. space' \in [Spaces -> SpaceType] /\ node' \in [Spaces -> NodeType]
   BY Zenon, <1>3, <1>10, <1>11 DEF Files, FilTypes
 <2>2. flushing' \in [Flushers -> FlushType] BY <1>1
 <2> QED BY <1>3, <2>1, <2>2 DEF Files, FilTypes
<1>13. CallsCounted'
 <2> SUFFICES ASSUME NEW x \in Spaces
              PROVE  /\ space'[x].n_pending_flushes = Cardinality(CallsAt(x, AllCalls)')
                     /\ node'[x].n_pending_flushes = Cardinality(CallsAt(x, Flushes)')
                     /\ node'[x].n_pending_flushes <= 1
   BY DEF CallsCounted
 <2>1. c.at \notin AllCalls /\ c.at \notin Flushes BY <1>1 DEF AllCalls, Flushes
 <2>2. /\ CallsAt(x, AllCalls)' = CallsAt(x, AllCalls) \ {f}
       /\ CallsAt(x, Flushes)' = CallsAt(x, Flushes) \ {f}
   BY <1>1, <2>1 DEF CallsAt
 <2>3. CASE x = s
  <3>1. space'[x].n_pending_flushes = Cardinality(CallsAt(x, AllCalls)')
    BY <1>7, <1>10, <2>2, <2>3
  <3>2. CASE n = 1
   <4>1. node'[x].n_pending_flushes = Cardinality(CallsAt(x, Flushes)')
     BY <1>8, <1>11, <2>2, <2>3, <3>2
   <4>2. node[x].n_pending_flushes \in Nat /\ node[x].n_pending_flushes <= 1
     BY <1>6, FileFields DEF Files
   <4> QED BY <1>11, <2>3, <3>1, <3>2, <4>1, <4>2
  <3>3. CASE n = 0
   <4>1. CallsAt(x, Flushes)' = CallsAt(x, Flushes) BY <1>5, <2>2, <2>3, <3>3
   <4>2. node[x].n_pending_flushes \in Nat BY FileFields DEF Files
   <4> QED BY <1>6, <1>11, <2>3, <3>1, <3>3, <4>1, <4>2
  <3> QED BY <3>2, <3>3
 <2>4. CASE x # s
  <3>1. CallsAt(x, AllCalls)' = CallsAt(x, AllCalls) /\ CallsAt(x, Flushes)' = CallsAt(x, Flushes)
    BY <1>5, <2>2, <2>4
  <3> QED BY <1>6, <1>10, <1>11, <2>4, <3>1
 <2> QED BY <2>3, <2>4
<1>14. old <= node[s].modification_counter /\ m <= node[s].modification_counter
 <2>1. /\ node[s].flush_counter <= node[s].modification_counter
       /\ old <= node[s].modification_counter
   BY DEF Files, FlushesAreRight
 <2> QED BY <1>2, <2>1
<1>15. ClosedAreIdle'
 <2>1. ~ node[s].open => n = 0 /\ m = node[s].flush_counter
  <3>1. ~ node[s].open => /\ node[s].n_pending_flushes = 0
                          /\ node[s].modification_counter = node[s].flush_counter
    BY DEF Files, ClosedAreIdle
  <3>2. node[s].flush_counter \in Nat BY FileFields DEF Files
  <3> QED BY <1>2, <1>8, <1>14, <3>1, <3>2
 <2> QED BY <1>10, <1>11, <2>1 DEF Files, ClosedAreIdle
<1>16. FlushesAreRight'
 <2>1. \A g \in Flushers : flushing[g].space \in Spaces BY FlushFields DEF Files
 <2> QED BY <1>1, <1>4, <1>11, <1>14, <2>1 DEF Files, FlushesAreRight
<1>17. KeepsSpaces BY <1>3, <1>7, <1>10 DEF KeepsSpaces, Exists, NoMerges
<1>18. Files' BY <1>12, <1>13, <1>15, <1>16 DEF Files
<1>19. flushing'[f].at = "none" BY <1>1, <1>4
<1>20. \A x \in Spaces :
           /\ node'[x].n_pending = node[x].n_pending
           /\ node'[x].modification_counter = node[x].modification_counter
           /\ node'[x].flush_counter = IF x = s /\ node[x].flush_counter < old THEN old
                                       ELSE node[x].flush_counter
           /\ space'[x].n_pending_ibuf_merges = space[x].n_pending_ibuf_merges
  BY <1>2, <1>10, <1>11
<1> QED BY Zenon, <1>3, <1>4, <1>17, <1>18, <1>19, <1>20

\* A call that has waited and flushes the file now.
FlushesNow(f) ==
    LET s == flushing[f].space
    IN  /\ flushing[f].at = "wait"
        /\ node[s].flush_counter < flushing[f].old_mod_counter
        /\ node[s].n_pending_flushes = 0
        /\ node' = [node EXCEPT ![s].n_pending_flushes = 1]
        /\ flushing' = [flushing EXCEPT ![f].at = "flush"]
        /\ UNCHANGED <<max_n_open, space, tablespace_version>>

LEMMA FlushesNowKeeps ==
    ASSUME Files, NEW f \in Flushers, FlushesNow(f)
    PROVE  /\ Files' /\ KeepsSpaces /\ KeepsCounters /\ tablespace_version' = tablespace_version
           /\ flushing'[f].at = "flush" /\ \A g \in Flushers \ {f} : flushing'[g] = flushing[g]
           /\ \A x \in Spaces : /\ node'[x].n_pending = node[x].n_pending
                                /\ space'[x].n_pending_ibuf_merges = space[x].n_pending_ibuf_merges
<1>0. PICK s \in Spaces : s = flushing[f].space BY FlushFields DEF Files
<1>1. PICK c \in FlushType : /\ flushing' = [flushing EXCEPT ![f] = c]
                             /\ c.at = "flush" /\ c.space = s
                             /\ c.old_mod_counter = flushing[f].old_mod_counter
 <2> DEFINE d == [flushing[f] EXCEPT !.at = "flush"]
 <2>1. flushing' = [flushing EXCEPT ![f] = d] /\ flushing[f] \in FlushType
   BY FlushFields DEF FlushesNow, Files
 <2>2. d \in FlushType /\ d.at = "flush" /\ d.space = s /\ d.old_mod_counter = flushing[f].old_mod_counter
   BY <1>0, <2>1 DEF FlushType
 <2> HIDE DEF d
 <2> QED BY <2>1, <2>2
<1>2. /\ flushing[f].at = "wait" /\ node[s].flush_counter < flushing[f].old_mod_counter
      /\ node[s].n_pending_flushes = 0
      /\ node' = [node EXCEPT ![s].n_pending_flushes = 1]
      /\ UNCHANGED <<max_n_open, space, tablespace_version>>
  BY <1>0 DEF FlushesNow
<1>3. flushing'[f] = c /\ \A g \in Flushers \ {f} : flushing'[g] = flushing[g]
  BY <1>1 DEF Files, FilTypes
<1> flushing \in [Flushers -> FlushType] BY DEF Files, FilTypes
<1>4. ASSUME NEW x \in Spaces
      PROVE  /\ node'[x] \in NodeType
             /\ node'[x].open = node[x].open /\ node'[x].n_pending = node[x].n_pending
             /\ node'[x].modification_counter = node[x].modification_counter
             /\ node'[x].flush_counter = node[x].flush_counter
             /\ node'[x].n_pending_flushes = IF x = s THEN 1 ELSE node[x].n_pending_flushes
 <2>1. node[x] \in NodeType BY <1>4, FileFields DEF Files
 <2> QED BY <1>2, <2>1 DEF Files, FilTypes, NodeType
<1>5. FilTypes'
 <2>1. node' \in [Spaces -> NodeType] BY <1>2, <1>4 DEF Files, FilTypes
 <2>2. flushing' \in [Flushers -> FlushType] BY <1>1
 <2> QED BY <1>2, <2>1, <2>2 DEF Files, FilTypes
<1>6. CallsCounted'
 <2> SUFFICES ASSUME NEW x \in Spaces
              PROVE  /\ space'[x].n_pending_flushes = Cardinality(CallsAt(x, AllCalls)')
                     /\ node'[x].n_pending_flushes = Cardinality(CallsAt(x, Flushes)')
                     /\ node'[x].n_pending_flushes <= 1
   BY DEF CallsCounted
 <2>1. c.at \in AllCalls /\ c.at \in Flushes /\ flushing[f].at \in AllCalls /\ flushing[f].at \notin Flushes
   BY <1>1, <1>2 DEF AllCalls, Flushes
 <2>2. CallsAt(x, AllCalls)' = CallsAt(x, AllCalls) BY <1>0, <1>1, <1>3, <2>1 DEF CallsAt
 <2>3. /\ space[x].n_pending_flushes = Cardinality(CallsAt(x, AllCalls))
       /\ node[x].n_pending_flushes = Cardinality(CallsAt(x, Flushes))
       /\ node[x].n_pending_flushes <= 1
   BY DEF Files, CallsCounted
 <2>4. CASE x = s
  <3>1. CallsAt(x, Flushes)' = CallsAt(x, Flushes) \cup {f} /\ f \notin CallsAt(x, Flushes)
    BY <1>1, <2>1, <2>4 DEF CallsAt
  <3>2. Cardinality(CallsAt(x, Flushes)') = Cardinality(CallsAt(x, Flushes)) + 1
    BY <3>1, CallsAreThreads, CallsCount
  <3> QED BY <1>2, <1>4, <2>2, <2>3, <2>4, <3>2
 <2>5. CASE x # s
  <3>1. CallsAt(x, Flushes)' = CallsAt(x, Flushes) BY <1>0, <1>1, <1>3, <2>5 DEF CallsAt
  <3> QED BY <1>2, <1>4, <2>2, <2>3, <2>5, <3>1
 <2> QED BY <2>4, <2>5
<1>7. ClosedAreIdle'
 <2>1. node[s].open
  <3>1. /\ flushing[f].old_mod_counter <= node[s].modification_counter
        /\ flushing[f].old_mod_counter \in Nat
    BY <1>0, <1>2, FlushFields DEF Files, FlushesAreRight
  <3>2. node[s].modification_counter # node[s].flush_counter BY <1>2, <3>1, FileFields DEF Files
  <3> QED BY <3>2 DEF Files, ClosedAreIdle
 <2> QED BY <1>2, <1>4, <2>1 DEF Files, ClosedAreIdle
<1>8. FlushesAreRight'
 <2>1. \A g \in Flushers : flushing[g].space \in Spaces BY FlushFields DEF Files
 <2> QED BY <1>0, <1>1, <1>2, <1>3, <1>4, <2>1 DEF Files, FlushesAreRight
<1> QED
  BY <1>1, <1>2, <1>3, <1>4, <1>5, <1>6, <1>7, <1>8 DEF Files, KeepsSpaces, KeepsCounters, Exists,
     NoMerges

-----------------------------------------------------------------------------
(* Files: what the ddl changes *)

\* The other tablespaces, and what the counts and the counters say.
KeepsOthers(s) ==
    \A x \in Spaces \ {s} :
        /\ space'[x] = space[x] /\ node'[x].n_pending = node[x].n_pending
        /\ node'[x].modification_counter = node[x].modification_counter
        /\ node'[x].flush_counter = node[x].flush_counter

LEMMA FlagsKeep ==
    ASSUME Files, NEW s \in Spaces, NEW r \in SpaceType, space' = [space EXCEPT ![s] = r],
           UNCHANGED <<max_n_open, node, tablespace_version, flushing>>,
           r.n_pending_flushes = space[s].n_pending_flushes,
           r.n_pending_ibuf_merges = space[s].n_pending_ibuf_merges,
           r.is_being_deleted => space[s].is_being_deleted \/ NoMerges(s)
    PROVE  Files' /\ KeepsOthers(s) /\ space'[s] = r
<1>1. \A x \in Spaces : space'[x] = IF x = s THEN r ELSE space[x] BY DEF Files, FilTypes
<1>2. FilTypes' BY DEF Files, FilTypes
<1>3. CallsCounted' /\ FlushesAreRight'
 <2>1. \A x \in Spaces : CallsAt(x, AllCalls)' = CallsAt(x, AllCalls)
                        /\ CallsAt(x, Flushes)' = CallsAt(x, Flushes)
   BY DEF CallsAt
 <2>2. CallsCounted' BY <1>1, <2>1 DEF Files, CallsCounted
 <2> QED BY <2>2 DEF Files, FlushesAreRight
<1>4. ClosedAreIdle' BY <1>1 DEF Files, ClosedAreIdle, NoMerges
<1> QED BY <1>1, <1>2, <1>3, <1>4 DEF Files, KeepsOthers

LEMMA StopIbufMergesKeeps ==
    ASSUME Files, NEW s \in Spaces, StopIbufMerges(s)
    PROVE  /\ Files' /\ KeepsOthers(s) /\ UNCHANGED <<node, flushing, tablespace_version>>
           /\ Exists(s)' = Exists(s) /\ space'[s].version = space[s].version
           /\ space'[s].is_being_deleted = space[s].is_being_deleted /\ space'[s].stop_ibuf_merges
           /\ space'[s].n_pending_ibuf_merges = space[s].n_pending_ibuf_merges
<1> DEFINE r == [space[s] EXCEPT !.stop_ibuf_merges = TRUE]
<1>1. space[s] \in SpaceType BY FileFields DEF Files
<1>2. /\ r \in SpaceType /\ r.n_pending_flushes = space[s].n_pending_flushes
      /\ r.n_pending_ibuf_merges = space[s].n_pending_ibuf_merges
      /\ r.is_being_deleted = space[s].is_being_deleted
      /\ r.exists = space[s].exists /\ r.version = space[s].version /\ r.stop_ibuf_merges
  BY <1>1 DEF SpaceType
<1>3. space' = [space EXCEPT ![s] = r] /\ UNCHANGED <<max_n_open, node, tablespace_version, flushing>>
  BY DEF StopIbufMerges
<1> HIDE DEF r
<1>4. Files' /\ KeepsOthers(s) /\ space'[s] = r BY <1>2, <1>3, FlagsKeep
<1> QED BY <1>2, <1>3, <1>4 DEF Exists

LEMMA StartDeleteKeeps ==
    ASSUME Files, NEW s \in Spaces, StartDelete(s), NoMerges(s)
    PROVE  /\ Files' /\ KeepsOthers(s) /\ UNCHANGED <<node, flushing, tablespace_version>>
           /\ Exists(s)' = Exists(s) /\ space'[s].version = space[s].version
           /\ space'[s].is_being_deleted /\ space'[s].stop_ibuf_merges = space[s].stop_ibuf_merges
           /\ space'[s].n_pending_ibuf_merges = space[s].n_pending_ibuf_merges
           /\ space'[s].n_pending_flushes = space[s].n_pending_flushes
<1> DEFINE r == [space[s] EXCEPT !.is_being_deleted = TRUE]
<1>1. space[s] \in SpaceType BY FileFields DEF Files
<1>2. /\ r \in SpaceType /\ r.n_pending_flushes = space[s].n_pending_flushes
      /\ r.n_pending_ibuf_merges = space[s].n_pending_ibuf_merges
      /\ r.stop_ibuf_merges = space[s].stop_ibuf_merges
      /\ r.exists = space[s].exists /\ r.version = space[s].version /\ r.is_being_deleted
  BY <1>1 DEF SpaceType
<1>3. space' = [space EXCEPT ![s] = r] /\ UNCHANGED <<max_n_open, node, tablespace_version, flushing>>
  BY DEF StartDelete
<1> HIDE DEF r
<1>4. Files' /\ KeepsOthers(s) /\ space'[s] = r BY <1>2, <1>3, FlagsKeep
<1> QED BY <1>2, <1>3, <1>4 DEF Exists

\* The file of a tablespace that nobody uses is closed and deleted.
LEMMA FreeSpaceKeeps ==
    ASSUME Files, NEW s \in Spaces, FreeSpace(s), space[s].n_pending_flushes = 0, node[s].n_pending = 0
    PROVE  /\ Files' /\ KeepsOthers(s) /\ UNCHANGED <<flushing, tablespace_version>>
           /\ ~ Exists(s)' /\ space'[s].version = space[s].version
           /\ space'[s].is_being_deleted = space[s].is_being_deleted
           /\ space'[s].stop_ibuf_merges = space[s].stop_ibuf_merges
           /\ space'[s].n_pending_ibuf_merges = space[s].n_pending_ibuf_merges
           /\ space'[s].n_pending_flushes = 0 /\ node'[s].n_pending = 0
<1>1. /\ space[s] \in SpaceType /\ node[s] \in NodeType /\ node[s].flush_counter \in Nat
  BY FileFields DEF Files
<1>2. /\ space' = [space EXCEPT ![s].exists = FALSE]
      /\ node' = [node EXCEPT ![s].open = FALSE, ![s].modification_counter = node[s].flush_counter]
      /\ UNCHANGED <<max_n_open, tablespace_version, flushing>>
  BY DEF FreeSpace
<1>3. \A x \in Spaces \ {s} : space'[x] = space[x] /\ node'[x] = node[x] BY <1>2 DEF Files, FilTypes
<1>4. space'[s] = [space[s] EXCEPT !.exists = FALSE] BY <1>2 DEF Files, FilTypes
<1>5. /\ space'[s] \in SpaceType /\ ~ space'[s].exists
      /\ space'[s].version = space[s].version
      /\ space'[s].is_being_deleted = space[s].is_being_deleted
      /\ space'[s].stop_ibuf_merges = space[s].stop_ibuf_merges
      /\ space'[s].n_pending_ibuf_merges = space[s].n_pending_ibuf_merges
      /\ space'[s].n_pending_flushes = space[s].n_pending_flushes
  BY <1>1, <1>4 DEF SpaceType
<1>6. node'[s] = [node[s] EXCEPT !.open = FALSE, !.modification_counter = node[s].flush_counter]
  BY <1>2 DEF Files, FilTypes
<1>7. node'[s] \in NodeType BY <1>1, <1>6 DEF NodeType
<1>8. /\ node'[s].n_pending = node[s].n_pending /\ node'[s].n_pending_flushes = node[s].n_pending_flushes
      /\ node'[s].flush_counter = node[s].flush_counter
      /\ node'[s].modification_counter = node[s].flush_counter
  BY <1>1, <1>6 DEF NodeType
<1>9. FilTypes'
 <2>1. space' \in [Spaces -> SpaceType] /\ node' \in [Spaces -> NodeType]
   BY <1>2, <1>3, <1>5, <1>7 DEF Files, FilTypes
 <2> QED BY <1>2, <2>1 DEF Files, FilTypes
<1>10. CallsAt(s, AllCalls) = {} /\ node[s].n_pending_flushes = 0 BY NoCalls
<1>11. CallsCounted'
 <2>1. \A x \in Spaces : CallsAt(x, AllCalls)' = CallsAt(x, AllCalls)
                        /\ CallsAt(x, Flushes)' = CallsAt(x, Flushes)
   BY <1>2 DEF CallsAt
 <2> QED BY <1>3, <1>5, <1>8, <2>1 DEF Files, CallsCounted
<1>12. ClosedAreIdle' BY <1>3, <1>5, <1>8, <1>10 DEF Files, ClosedAreIdle
<1>13. FlushesAreRight'
 <2>1. \A f \in Flushers : flushing[f].at # "none" => flushing[f].space \in Spaces \ {s}
   BY <1>10, FlushFields DEF Files, CallsAt
 <2>2. \A x \in Spaces : node'[x].flush_counter <= node'[x].modification_counter
   BY <1>1, <1>3, <1>8 DEF Files, FlushesAreRight
 <2> QED BY ZenonT(60), <1>2, <1>3, <2>1, <2>2 DEF Files, FlushesAreRight
<1> QED BY <1>2, <1>3, <1>5, <1>8, <1>9, <1>11, <1>12, <1>13 DEF Files, KeepsOthers, Exists

LEMMA CreateSpaceKeeps ==
    ASSUME Files, NEW s \in Spaces, CreateSpace(s), space[s].n_pending_flushes = 0
    PROVE  /\ Files' /\ KeepsOthers(s) /\ flushing' = flushing
           /\ tablespace_version' = tablespace_version + 1 /\ tablespace_version \in Nat
           /\ Exists(s)' /\ space'[s].version = tablespace_version + 1
           /\ ~ space'[s].is_being_deleted /\ ~ space'[s].stop_ibuf_merges
           /\ space'[s].n_pending_ibuf_merges = 0 /\ node'[s].n_pending = 0
<1>1. tablespace_version \in Nat /\ tablespace_version + 1 \in Nat BY DEF Files, FilTypes
<1>2. /\ tablespace_version' = tablespace_version + 1
      /\ space' = [space EXCEPT ![s] = NewSpace(tablespace_version + 1)]
      /\ node' = [node EXCEPT ![s] = NewNode]
      /\ UNCHANGED <<max_n_open, flushing>>
  BY DEF CreateSpace
<1>3. \A x \in Spaces \ {s} : space'[x] = space[x] /\ node'[x] = node[x] BY <1>2 DEF Files, FilTypes
<1>4. /\ space'[s] \in SpaceType /\ space'[s].exists
      /\ space'[s].version = tablespace_version + 1 /\ ~ space'[s].is_being_deleted
      /\ ~ space'[s].stop_ibuf_merges /\ space'[s].n_pending_ibuf_merges = 0
      /\ space'[s].n_pending_flushes = 0
  BY <1>1, <1>2 DEF Files, FilTypes, NewSpace, SpaceType
<1>5. /\ node'[s] \in NodeType /\ node'[s].n_pending = 0 /\ node'[s].n_pending_flushes = 0
      /\ node'[s].flush_counter = 0 /\ node'[s].modification_counter = 0
  BY <1>2 DEF Files, FilTypes, NewNode, NodeType
<1>6. FilTypes'
 <2>1. space' \in [Spaces -> SpaceType] /\ node' \in [Spaces -> NodeType]
   BY <1>2, <1>3, <1>4, <1>5 DEF Files, FilTypes
 <2> QED BY <1>1, <1>2, <2>1 DEF Files, FilTypes
<1>7. CallsAt(s, AllCalls) = {} /\ node[s].n_pending_flushes = 0 BY NoCalls
<1>8. CallsCounted'
 <2>1. \A x \in Spaces : CallsAt(x, AllCalls)' = CallsAt(x, AllCalls)
                        /\ CallsAt(x, Flushes)' = CallsAt(x, Flushes)
   BY <1>2 DEF CallsAt
 <2>2. space[s].n_pending_flushes = Cardinality(CallsAt(s, AllCalls))
       /\ node[s].n_pending_flushes = Cardinality(CallsAt(s, Flushes))
   BY DEF Files, CallsCounted
 <2> QED BY <1>3, <1>4, <1>5, <1>7, <2>1, <2>2 DEF Files, CallsCounted
<1>9. ClosedAreIdle' BY <1>3, <1>4, <1>5 DEF Files, ClosedAreIdle
<1>10. FlushesAreRight'
 <2>1. \A f \in Flushers : flushing[f].at # "none" => flushing[f].space \in Spaces \ {s}
   BY <1>7, FlushFields DEF Files, CallsAt
 <2> QED BY <1>2, <1>3, <1>5, <2>1 DEF Files, FlushesAreRight
<1> QED BY <1>1, <1>2, <1>3, <1>4, <1>5, <1>6, <1>8, <1>9, <1>10 DEF Files, KeepsOthers, Exists

\* A step of a rename.
LEMMA RenameKeeps ==
    ASSUME Files, NEW s \in Spaces, StopIos(s) \/ GiveUpRename(s) \/ Rename(s)
    PROVE  /\ Files' /\ KeepsSpaces /\ KeepsCounters /\ UNCHANGED <<flushing, tablespace_version>>
           /\ \A x \in Spaces : /\ node'[x].n_pending = node[x].n_pending
                                /\ space'[x].n_pending_ibuf_merges = space[x].n_pending_ibuf_merges
<1>1. space[s] \in SpaceType /\ node[s] \in NodeType BY FileFields DEF Files
<1>2. PICK b \in BOOLEAN : space' = [space EXCEPT ![s].stop_ios = b]
  BY DEF StopIos, GiveUpRename, Rename
<1>3. UNCHANGED <<max_n_open, tablespace_version, flushing>> BY DEF StopIos, GiveUpRename, Rename
<1>4. \/ node' = node
      \/ node' = [node EXCEPT ![s].open = FALSE] /\ (s \in Closable \/ ~ node[s].open)
  BY DEF StopIos, GiveUpRename, Rename
<1>5. ASSUME NEW x \in Spaces
      PROVE  /\ space'[x] \in SpaceType /\ space'[x].exists = space[x].exists
             /\ space'[x].version = space[x].version
             /\ space'[x].is_being_deleted = space[x].is_being_deleted
             /\ space'[x].stop_ibuf_merges = space[x].stop_ibuf_merges
             /\ space'[x].n_pending_ibuf_merges = space[x].n_pending_ibuf_merges
             /\ space'[x].n_pending_flushes = space[x].n_pending_flushes
 <2>1. space[x] \in SpaceType BY <1>5, FileFields DEF Files
 <2> QED BY <1>2, <2>1 DEF Files, FilTypes, SpaceType
<1>6. ASSUME NEW x \in Spaces
      PROVE  /\ node'[x] \in NodeType /\ node'[x].n_pending = node[x].n_pending
             /\ node'[x].n_pending_flushes = node[x].n_pending_flushes
             /\ node'[x].flush_counter = node[x].flush_counter
             /\ node'[x].modification_counter = node[x].modification_counter
             /\ ~ node'[x].open => /\ node[x].n_pending = 0
                                   /\ node[x].n_pending_flushes = 0
                                   /\ node[x].modification_counter = node[x].flush_counter
 <2>1. node[x] \in NodeType BY <1>6, FileFields DEF Files
 <2>2. ~ node[x].open => /\ node[x].n_pending = 0
                         /\ node[x].n_pending_flushes = 0
                         /\ node[x].modification_counter = node[x].flush_counter
   BY DEF Files, ClosedAreIdle
 <2>3. CASE node' = node BY <2>1, <2>2, <2>3
 <2>4. CASE node' = [node EXCEPT ![s].open = FALSE] /\ x = s /\ (s \in Closable \/ ~ node[s].open)
  <3>1. node'[x] = [node[x] EXCEPT !.open = FALSE] BY <2>4 DEF Files, FilTypes
  <3>2. /\ node'[x] \in NodeType /\ node'[x].n_pending = node[x].n_pending
        /\ node'[x].n_pending_flushes = node[x].n_pending_flushes
        /\ node'[x].flush_counter = node[x].flush_counter
        /\ node'[x].modification_counter = node[x].modification_counter
    BY <2>1, <3>1 DEF NodeType
  <3> QED BY <2>2, <2>4, <3>2 DEF Closable
 <2>5. CASE node' = [node EXCEPT ![s].open = FALSE] /\ x # s
   BY <2>1, <2>2, <2>5 DEF Files, FilTypes
 <2> QED BY <1>4, <2>3, <2>4, <2>5
<1>7. FilTypes'
 <2>1. space' \in [Spaces -> SpaceType] /\ node' \in [Spaces -> NodeType]
   BY <1>2, <1>4, <1>5, <1>6 DEF Files, FilTypes
 <2> QED BY <1>3, <2>1 DEF Files, FilTypes
<1>8. CallsCounted' /\ ClosedAreIdle'
 <2>1. \A x \in Spaces : CallsAt(x, AllCalls)' = CallsAt(x, AllCalls)
                        /\ CallsAt(x, Flushes)' = CallsAt(x, Flushes)
   BY <1>3 DEF CallsAt
 <2>2. CallsCounted' BY <1>5, <1>6, <2>1 DEF Files, CallsCounted
 <2> QED BY <1>5, <1>6, <2>2 DEF Files, ClosedAreIdle
<1>9. FlushesAreRight'
 <2>1. \A f \in Flushers : flushing[f].space \in Spaces BY FlushFields DEF Files
 <2> QED BY <1>3, <1>6, <2>1 DEF Files, FlushesAreRight
<1> QED
  BY <1>3, <1>5, <1>6, <1>7, <1>8, <1>9 DEF Files, KeepsSpaces, KeepsCounters, Exists, NoMerges

-----------------------------------------------------------------------------
(* Facts about constants and states *)

LEMMA Places ==
    /\ \A p \in Pages : SpaceOf[p] \in Spaces
    /\ \A e \in Entries : Home[e] \in Pages /\ e \notin Pages /\ e \in Contents
    /\ \A p \in Leaves : /\ p \in Pages /\ p \in Contents /\ BitmapOf[p] \in Pages
                         /\ BitmapOf[p] \notin Leaves /\ SpaceOf[BitmapOf[p]] = SpaceOf[p]
    /\ \A u \in Sessions : u \notin Pages /\ u # Nobody
    /\ Nobody \notin Pages
  BY BufPoolAssumption, PageIoAssumption

LEMMA PlanFacts ==
    ASSUME ThreadTypes
    PROVE  /\ plan.target \in Spaces /\ plan.evictions \in Nat
           /\ plan.ddl \in {"none", "drop", "import", "rename"}
  BY PageIoAssumption DEF ThreadTypes, PlanAssumption

LEMMA TargetFacts ==
    ASSUME ThreadTypes, NEW u \in Sessions, todo[u] # <<>>
    PROVE  /\ Head(todo[u]) \in Entries \cup Pages /\ Target(u) \in Pages
           /\ Head(todo[u]) \in Entries => Target(u) = Home[Head(todo[u])]
           /\ Head(todo[u]) = todo[u][1] /\ 1 \in DOMAIN todo[u]
<1>1. todo[u] \in Seq(Entries \cup Pages) BY DEF ThreadTypes
<1>2. Head(todo[u]) \in Entries \cup Pages /\ Head(todo[u]) = todo[u][1] /\ 1 \in DOMAIN todo[u]
  BY <1>1
<1> QED BY <1>2, Places DEF Target

\* A tablespace that is being deleted has stopped the merges before, and one that
\* is gone was deleted.
LEMMA DeletedStops ==
    ASSUME IInv, NEW s \in Spaces
    PROVE  /\ space[s].is_being_deleted => space[s].stop_ibuf_merges
           /\ ~ Exists(s) => space[s].stop_ibuf_merges
           /\ space[s].version # 1 => s = plan.target /\ ddl = "done" /\ plan.ddl = "import"
           /\ ~ Exists(s) => space[s].n_pending_flushes = 0
<1>1. CASE s = plan.target
 <2>1. ddl \in DdlLabels /\ TargetIsRight(s) BY <1>1 DEF IInv, ThreadTypes
 <2>2. ddl \in {"idle", "rename"} \/ ddl = "stop_merges" \/ ddl = "stop_io" \/ ddl \in {"invalidate", "free"}
       \/ ddl \in Discarded \/ ddl = "done"
   BY <2>1 DEF DdlLabels, Discarded
 <2>3. CASE ddl = "done" BY <1>1, <2>1, <2>3 DEF TargetIsRight, Untouched, Quiet
 <2>4. CASE ddl \in {"idle", "rename"} BY <1>1, <2>1, <2>4 DEF TargetIsRight, Untouched
 <2>5. CASE ddl \in {"stop_merges", "stop_io"} BY <1>1, <2>1, <2>5 DEF TargetIsRight
 <2>6. CASE ddl \in {"invalidate", "free"} \cup Discarded
   BY <1>1, <2>1, <2>6 DEF TargetIsRight, Quiet, Discarded
 <2> QED BY <2>2, <2>3, <2>4, <2>5, <2>6
<1>2. CASE s # plan.target BY <1>2 DEF IInv, OthersUntouched, Untouched
<1> QED BY <1>1, <1>2

LEMMA MergingIsCounted ==
    ASSUME IInv, NEW p \in Pages
    PROVE  /\ io[p] \in InIo => node[SpaceOf[p]].n_pending > 0
           /\ io[p] \in InMerge => /\ space[SpaceOf[p]].n_pending_ibuf_merges > 0
                                   /\ ~ space[SpaceOf[p]].is_being_deleted
<1>1. PICK s \in Spaces : s = SpaceOf[p] BY Places
<1>2. ASSUME NEW phases, io[p] \in phases
      PROVE  Cardinality(PagesIn(s, phases)) > 0
 <2>1. p \in PagesIn(s, phases) /\ PagesIn(s, phases) \subseteq Pages
   BY <1>1, <1>2 DEF PagesIn, PagesOf
 <2>2. IsFiniteSet(PagesIn(s, phases)) BY <2>1, BufPoolAssumption, FS_Subset
 <2>3. Cardinality(PagesIn(s, phases)) \in Nat /\ Cardinality(PagesIn(s, phases)) # 0
   BY <2>1, <2>2, FS_CardinalityType, FS_EmptySet
 <2> QED BY <2>3
<1>3. /\ node[s].n_pending = Cardinality(PagesIn(s, InIo))
      /\ space[s].n_pending_ibuf_merges = Cardinality(PagesIn(s, InMerge))
  BY DEF IInv, PagesCounted
<1>4. io[p] \in InMerge => space[s].n_pending_ibuf_merges > 0 BY <1>2, <1>3
<1>5. space[s].is_being_deleted => space[s].n_pending_ibuf_merges = 0
  BY DEF IInv, Files, ClosedAreIdle
<1> QED BY <1>1, <1>2, <1>3, <1>4, <1>5

-----------------------------------------------------------------------------
(* Counting pages *)

LEMMA PagesCount ==
    ASSUME NEW S \in SUBSET Pages, NEW p
    PROVE  /\ Cardinality(S) \in Nat
           /\ p \notin S => Cardinality(S \cup {p}) = Cardinality(S) + 1
           /\ p \in S => Cardinality(S \ {p}) = Cardinality(S) - 1
<1>1. IsFiniteSet(S) BY BufPoolAssumption, FS_Subset
<1> QED BY <1>1, FS_CardinalityType, FS_AddElement, FS_RemoveElement

LEMMA PagesAreIn ==
    ASSUME NEW s, NEW phases
    PROVE  PagesIn(s, phases) \in SUBSET Pages
  BY DEF PagesIn, PagesOf

\* One page goes to another phase.
PageGoes(p, to) == p \in Pages /\ io' = [io EXCEPT ![p] = to]
SameCounts(s) == node'[s].n_pending = node[s].n_pending
                 /\ space'[s].n_pending_ibuf_merges = space[s].n_pending_ibuf_merges

LEMMA CountsKept ==
    ASSUME PoolTypes, PagesCounted, NEW p \in Pages, NEW to, PageGoes(p, to),
           io[p] \in InIo <=> to \in InIo, io[p] \in InMerge <=> to \in InMerge,
           \A s \in Spaces : SameCounts(s)
    PROVE  PagesCounted'
<1>1. \A q \in Pages : io'[q] = IF q = p THEN to ELSE io[q] BY DEF PoolTypes, PageGoes
<1>2. \A s \in Spaces : PagesIn(s, InIo)' = PagesIn(s, InIo) /\ PagesIn(s, InMerge)' = PagesIn(s, InMerge)
  BY <1>1 DEF PagesIn, PagesOf
<1> QED BY <1>2 DEF PagesCounted, SameCounts

LEMMA IoBegins ==
    ASSUME PoolTypes, PagesCounted, NEW p \in Pages,
           NEW to \in InIo, PageGoes(p, to), io[p] \notin InIo \cup InMerge,
           \A s \in Spaces :
               /\ node'[s].n_pending = IF s = SpaceOf[p] THEN node[s].n_pending + 1 ELSE node[s].n_pending
               /\ space'[s].n_pending_ibuf_merges = space[s].n_pending_ibuf_merges
    PROVE  PagesCounted'
<1>1. \A q \in Pages : io'[q] = IF q = p THEN to ELSE io[q] BY DEF PoolTypes, PageGoes
<1>2. ASSUME NEW s \in Spaces
      PROVE  /\ node'[s].n_pending = Cardinality(PagesIn(s, InIo)')
             /\ space'[s].n_pending_ibuf_merges = Cardinality(PagesIn(s, InMerge)')
 <2>1. to \notin InMerge BY DEF InIo, InMerge
 <2>2. PagesIn(s, InMerge)' = PagesIn(s, InMerge) BY <1>1, <2>1 DEF PagesIn, PagesOf
 <2>3. /\ node[s].n_pending = Cardinality(PagesIn(s, InIo))
       /\ space[s].n_pending_ibuf_merges = Cardinality(PagesIn(s, InMerge))
   BY DEF PagesCounted
 <2>4. CASE s = SpaceOf[p]
  <3>1. PagesIn(s, InIo)' = PagesIn(s, InIo) \cup {p} /\ p \notin PagesIn(s, InIo)
    BY <1>1, <2>4 DEF PagesIn, PagesOf
  <3>2. Cardinality(PagesIn(s, InIo)') = Cardinality(PagesIn(s, InIo)) + 1
    BY <3>1, PagesAreIn, PagesCount
  <3> QED BY <2>2, <2>3, <2>4, <3>2
 <2>5. CASE s # SpaceOf[p]
  <3>1. PagesIn(s, InIo)' = PagesIn(s, InIo) BY <1>1, <2>5 DEF PagesIn, PagesOf
  <3> QED BY <2>2, <2>3, <2>5, <3>1
 <2> QED BY <2>4, <2>5
<1> QED BY <1>2 DEF PagesCounted

LEMMA IoEnds ==
    ASSUME PoolTypes, PagesCounted, NEW p \in Pages,
           NEW to, to \notin InIo \cup InMerge, PageGoes(p, to), io[p] \in InIo,
           \A s \in Spaces :
               /\ node'[s].n_pending = IF s = SpaceOf[p] THEN node[s].n_pending - 1 ELSE node[s].n_pending
               /\ space'[s].n_pending_ibuf_merges = space[s].n_pending_ibuf_merges
    PROVE  PagesCounted'
<1>1. \A q \in Pages : io'[q] = IF q = p THEN to ELSE io[q] BY DEF PoolTypes, PageGoes
<1>2. ASSUME NEW s \in Spaces
      PROVE  /\ node'[s].n_pending = Cardinality(PagesIn(s, InIo)')
             /\ space'[s].n_pending_ibuf_merges = Cardinality(PagesIn(s, InMerge)')
 <2>1. io[p] \notin InMerge BY DEF InIo, InMerge
 <2>2. PagesIn(s, InMerge)' = PagesIn(s, InMerge) BY <1>1, <2>1 DEF PagesIn, PagesOf
 <2>3. /\ node[s].n_pending = Cardinality(PagesIn(s, InIo))
       /\ space[s].n_pending_ibuf_merges = Cardinality(PagesIn(s, InMerge))
   BY DEF PagesCounted
 <2>4. CASE s = SpaceOf[p]
  <3>1. PagesIn(s, InIo)' = PagesIn(s, InIo) \ {p} /\ p \in PagesIn(s, InIo)
    BY <1>1, <2>4 DEF PagesIn, PagesOf
  <3>2. Cardinality(PagesIn(s, InIo)') = Cardinality(PagesIn(s, InIo)) - 1
    BY <3>1, PagesAreIn, PagesCount
  <3> QED BY <2>2, <2>3, <2>4, <3>2
 <2>5. CASE s # SpaceOf[p]
  <3>1. PagesIn(s, InIo)' = PagesIn(s, InIo) BY <1>1, <2>5 DEF PagesIn, PagesOf
  <3> QED BY <2>2, <2>3, <2>5, <3>1
 <2> QED BY <2>4, <2>5
<1> QED BY <1>2 DEF PagesCounted

LEMMA MergeBegins ==
    ASSUME PoolTypes, PagesCounted, NEW p \in Pages,
           NEW to \in InMerge, PageGoes(p, to), io[p] \notin InIo \cup InMerge,
           \A s \in Spaces :
               /\ node'[s].n_pending = node[s].n_pending
               /\ space'[s].n_pending_ibuf_merges = IF s = SpaceOf[p] THEN space[s].n_pending_ibuf_merges + 1
                                                    ELSE space[s].n_pending_ibuf_merges
    PROVE  PagesCounted'
<1>1. \A q \in Pages : io'[q] = IF q = p THEN to ELSE io[q] BY DEF PoolTypes, PageGoes
<1>2. ASSUME NEW s \in Spaces
      PROVE  /\ node'[s].n_pending = Cardinality(PagesIn(s, InIo)')
             /\ space'[s].n_pending_ibuf_merges = Cardinality(PagesIn(s, InMerge)')
 <2>1. to \notin InIo BY DEF InIo, InMerge
 <2>2. PagesIn(s, InIo)' = PagesIn(s, InIo) BY <1>1, <2>1 DEF PagesIn, PagesOf
 <2>3. /\ node[s].n_pending = Cardinality(PagesIn(s, InIo))
       /\ space[s].n_pending_ibuf_merges = Cardinality(PagesIn(s, InMerge))
   BY DEF PagesCounted
 <2>4. CASE s = SpaceOf[p]
  <3>1. PagesIn(s, InMerge)' = PagesIn(s, InMerge) \cup {p} /\ p \notin PagesIn(s, InMerge)
    BY <1>1, <2>4 DEF PagesIn, PagesOf
  <3>2. Cardinality(PagesIn(s, InMerge)') = Cardinality(PagesIn(s, InMerge)) + 1
    BY <3>1, PagesAreIn, PagesCount
  <3> QED BY <2>2, <2>3, <2>4, <3>2
 <2>5. CASE s # SpaceOf[p]
  <3>1. PagesIn(s, InMerge)' = PagesIn(s, InMerge) BY <1>1, <2>5 DEF PagesIn, PagesOf
  <3> QED BY <2>2, <2>3, <2>5, <3>1
 <2> QED BY <2>4, <2>5
<1> QED BY <1>2 DEF PagesCounted

LEMMA MergeEnds ==
    ASSUME PoolTypes, PagesCounted, NEW p \in Pages,
           NEW to, to \notin InIo \cup InMerge, PageGoes(p, to), io[p] \in InMerge,
           \A s \in Spaces :
               /\ node'[s].n_pending = node[s].n_pending
               /\ space'[s].n_pending_ibuf_merges = IF s = SpaceOf[p] THEN space[s].n_pending_ibuf_merges - 1
                                                    ELSE space[s].n_pending_ibuf_merges
    PROVE  PagesCounted'
<1>1. \A q \in Pages : io'[q] = IF q = p THEN to ELSE io[q] BY DEF PoolTypes, PageGoes
<1>2. ASSUME NEW s \in Spaces
      PROVE  /\ node'[s].n_pending = Cardinality(PagesIn(s, InIo)')
             /\ space'[s].n_pending_ibuf_merges = Cardinality(PagesIn(s, InMerge)')
 <2>1. io[p] \notin InIo BY DEF InIo, InMerge
 <2>2. PagesIn(s, InIo)' = PagesIn(s, InIo) BY <1>1, <2>1 DEF PagesIn, PagesOf
 <2>3. /\ node[s].n_pending = Cardinality(PagesIn(s, InIo))
       /\ space[s].n_pending_ibuf_merges = Cardinality(PagesIn(s, InMerge))
   BY DEF PagesCounted
 <2>4. CASE s = SpaceOf[p]
  <3>1. PagesIn(s, InMerge)' = PagesIn(s, InMerge) \ {p} /\ p \in PagesIn(s, InMerge)
    BY <1>1, <2>4 DEF PagesIn, PagesOf
  <3>2. Cardinality(PagesIn(s, InMerge)') = Cardinality(PagesIn(s, InMerge)) - 1
    BY <3>1, PagesAreIn, PagesCount
  <3> QED BY <2>2, <2>3, <2>4, <3>2
 <2>5. CASE s # SpaceOf[p]
  <3>1. PagesIn(s, InMerge)' = PagesIn(s, InMerge) BY <1>1, <2>5 DEF PagesIn, PagesOf
  <3> QED BY <2>2, <2>3, <2>5, <3>1
 <2> QED BY <2>4, <2>5
<1> QED BY <1>2 DEF PagesCounted

-----------------------------------------------------------------------------
(* Steps that move no entry *)

\* Nothing that a reader could get changes, and a leaf that has entries to merge
\* stays out of reach.
KeepsContents ==
    \A q \in Pages :
        /\ Content(q)' = Content(q)
        /\ frame'[q] \in {frame[q], disk[q]} /\ disk'[q] \in {frame[q], disk[q]}
        /\ q \in Leaves /\ Expected(q) /\ Expected(q)' => Unmerged(q)'
        /\ q \in PagesOf(plan.target) /\ ddl = "free" /\ ~ Resident(q) => ~ Resident(q)'
SameEntries == UNCHANGED <<plan, buffered, todo, inserted>>

LEMMA SpacesKept ==
    ASSUME IInv, KeepsSpaces, KeepsContents, UNCHANGED <<plan, ddl, tablespace_version>>,
           inserted' \subseteq inserted, buffered' \subseteq buffered
    PROVE  OthersUntouched' /\ TargetIsRight(plan.target)' /\ GoneIsRight(plan.target)'
<1>1. PICK t \in Spaces : t = plan.target /\ plan' = plan BY PlanFacts DEF IInv
<1>2. OthersUntouched' BY <1>1 DEF IInv, OthersUntouched, KeepsSpaces, Untouched, Exists
<1>3. /\ Exists(t)' = Exists(t) /\ space'[t].version = space[t].version
      /\ Untouched(t)' = Untouched(t) /\ (Quiet(t) => Quiet(t)')
      /\ space'[t].is_being_deleted = space[t].is_being_deleted
      /\ space'[t].stop_ibuf_merges = space[t].stop_ibuf_merges
      /\ space[t].stop_ibuf_merges /\ NoMerges(t) => NoMerges(t)'
  BY DEF KeepsSpaces, Untouched, Quiet, Exists
<1>4. TargetIsRight(t) BY <1>1 DEF IInv
<1>5. TargetIsRight(plan.target)'
 <2> SUFFICES TargetIsRight(t)' BY <1>1
 <2> QED BY <1>1, <1>3, <1>4 DEF TargetIsRight
<1>6. GoneIsRight(plan.target)'
 <2>1. GoneIsRight(plan.target) BY DEF IInv
 <2> QED BY <1>1, <2>1 DEF GoneIsRight, KeepsContents, PagesOf
<1> QED BY <1>2, <1>5, <1>6

LEMMA LeavesKept ==
    ASSUME IInv, KeepsSpaces, KeepsContents, \A q \in Leaves : Expected(q)' => Expected(q)
    PROVE  \A q \in Leaves : LeafIsRight(q)'
<1> SUFFICES ASSUME NEW q \in Leaves, Expected(q)'
             PROVE  /\ Unmerged(q)'
                    /\ ~ space'[SpaceOf[q]].is_being_deleted => q \in Content(BitmapOf[q])'
  BY DEF LeafIsRight
<1>1. Expected(q) /\ LeafIsRight(q) /\ q \in Pages BY Places DEF IInv
<1>2. PICK b \in Pages : b = BitmapOf[q] BY Places
<1>3. Content(b)' = Content(b) BY DEF KeepsContents
<1>4. space'[SpaceOf[q]].is_being_deleted = space[SpaceOf[q]].is_being_deleted
  BY <1>1, Places DEF KeepsSpaces
<1>5. Unmerged(q)' BY <1>1 DEF KeepsContents
<1>6. ~ space[SpaceOf[q]].is_being_deleted => q \in Content(b) BY <1>1, <1>2 DEF LeafIsRight
<1> QED BY <1>2, <1>3, <1>4, <1>5, <1>6

\* What is deleted from the insert buffer is of a tablespace that is being
\* deleted, or of another one than it was inserted to.
Deleted(e) ==
    LET s == SpaceOf[Home[e]] IN space[s].stop_ibuf_merges \/ space[s].version # 1

LEMMA EntriesDeleted ==
    ASSUME IInv, KeepsSpaces, KeepsContents, UNCHANGED <<plan, todo, inserted>>,
           buffered' \subseteq buffered, \A e \in buffered \ buffered' : Deleted(e)
    PROVE  TodoIsRight' /\ \A e \in Entries : EntryIsRight(e)'
<1>1. TodoIsRight' BY DEF IInv, TodoIsRight
<1> SUFFICES ASSUME NEW e \in Entries PROVE EntryIsRight(e)' BY <1>1
<1>2. PICK h \in Pages : h = Home[e] BY Places
<1>3. PICK s \in Spaces : s = SpaceOf[h] BY Places
<1>4. EntryIsRight(e) BY DEF IInv
<1>5. /\ Content(h)' = Content(h)
      /\ e \notin frame[h] /\ e \notin disk[h] => e \notin frame'[h] /\ e \notin disk'[h]
  BY DEF KeepsContents
<1>6. /\ space'[s].version = space[s].version
      /\ space'[s].stop_ibuf_merges = space[s].stop_ibuf_merges
  BY DEF KeepsSpaces
<1>7. Pending(e)' => EntryIsNew(e)' BY <1>2, <1>4, <1>5 DEF EntryIsRight, EntryIsNew, Pending
<1>8. EntryIsPlaced(e)'
 <2> SUFFICES ASSUME e \in inserted', ~ space'[s].stop_ibuf_merges, space'[s].version = 1
              PROVE  (e \in buffered') # (e \in Content(h)')
   BY <1>2, <1>3 DEF EntryIsPlaced
 <2>1. (e \in buffered) # (e \in Content(h))
   BY <1>2, <1>3, <1>4, <1>6 DEF EntryIsRight, EntryIsPlaced
 <2>2. e \in buffered' <=> e \in buffered BY <1>2, <1>3, <1>6 DEF Deleted
 <2> QED BY <1>5, <2>1, <2>2
<1> QED BY <1>2, <1>3, <1>4, <1>6, <1>7, <1>8 DEF EntryIsRight

LEMMA EntriesKept ==
    ASSUME IInv, KeepsSpaces, KeepsContents, SameEntries
    PROVE  TodoIsRight' /\ \A e \in Entries : EntryIsRight(e)'
  BY EntriesDeleted DEF SameEntries

LEMMA SessionsKept ==
    ASSUME IInv, KeepsSpaces, UNCHANGED <<plan, pc, todo>>,
           ddl \in {"idle", "done"} => ddl' \in {"idle", "done"}
    PROVE  \A u \in Sessions : SessionIsRight(u)'
<1> SUFFICES ASSUME NEW u \in Sessions, pc[u] # "idle"
             PROVE  SessionIsRight(u)'
  BY DEF SessionIsRight
<1>1. SessionIsRight(u) /\ todo[u] # <<>> BY DEF IInv, SessionIsRight
<1>2. PICK p \in Pages : p = Target(u) BY <1>1, TargetFacts DEF IInv
<1>3. PICK s \in Spaces : s = SpaceOf[p] BY Places
<1>4. /\ Exists(s)' = Exists(s) /\ space'[s].version = space[s].version
      /\ Target(u)' = p
  BY <1>2 DEF KeepsSpaces, Target
<1>5. Usable(s)' BY <1>1, <1>2, <1>3, <1>4 DEF SessionIsRight, Usable
<1> QED BY <1>1, <1>2, <1>3, <1>4, <1>5 DEF SessionIsRight

LEMMA MasterKept ==
    ASSUME IInv, KeepsSpaces, master' \in {master, NoMerge}
    PROVE  MasterIsRight'
<1>1. MasterIsRight BY DEF IInv
<1>2. CASE master' = NoMerge BY <1>2 DEF MasterIsRight, NoMerge
<1>3. CASE master' = master /\ master.at # "idle"
 <2>1. PICK s \in Spaces : s = SpaceOf[master.page] BY <1>1, <1>3, Places DEF MasterIsRight
 <2>2. /\ space'[s].version = space[s].version
       /\ space'[s].stop_ibuf_merges = space[s].stop_ibuf_merges
   BY DEF KeepsSpaces
 <2> QED BY <1>1, <1>3, <2>1, <2>2 DEF MasterIsRight
<1>4. CASE master' = master /\ master.at = "idle" BY <1>4 DEF MasterIsRight
<1> QED BY <1>2, <1>3, <1>4

LEMMA CachedKept ==
    ASSUME Files, CachedAreRight, KeepsSpaces, KeepsCounters, cached' \subseteq cached,
           flushing' = flushing
    PROVE  CachedAreRight'
<1> SUFFICES ASSUME NEW s \in Spaces, cached' \cap PagesOf(s) # {}
             PROVE  /\ Exists(s)' => Unflushed(s)'
                    /\ \A f \in CallsAt(s, {"done"})' :
                           flushing'[f].old_mod_counter < node'[s].modification_counter
  BY DEF CachedAreRight, PagesOf
<1>1. cached \cap PagesOf(s) # {} OBVIOUS
<1>2. /\ Exists(s) => Unflushed(s)
      /\ \A f \in CallsAt(s, {"done"}) : flushing[f].old_mod_counter < node[s].modification_counter
  BY <1>1 DEF CachedAreRight
<1>3. /\ Exists(s)' = Exists(s) /\ node'[s].modification_counter = node[s].modification_counter
      /\ node'[s].flush_counter = node[s].flush_counter
  BY DEF KeepsSpaces, KeepsCounters
<1>4. CallsAt(s, {"done"})' = CallsAt(s, {"done"}) BY DEF CallsAt
<1> QED BY <1>2, <1>3, <1>4 DEF Unflushed

\* What the others pages keep when the step is about the page p.
OnlyPage(p) ==
    \A q \in Pages \ {p} :
        /\ where'[q] = where[q] /\ io'[q] = io[q] /\ born'[q] = born[q]
        /\ frame'[q] = frame[q] /\ disk'[q] = disk[q] /\ (q \in dirty' <=> q \in dirty)
KeepsContent(p) ==
    /\ Content(p)' = Content(p)
    /\ frame'[p] \in {frame[p], disk[p]} /\ disk'[p] \in {frame[p], disk[p]}
    /\ p \in Leaves /\ Expected(p) /\ Expected(p)' => Unmerged(p)'
    /\ Resident(p) \/ ~ space[SpaceOf[p]].is_being_deleted \/ ~ Resident(p)'

LEMMA FreeIsDeleted ==
    ASSUME IInv, ddl \in {"invalidate", "free"}
    PROVE  space[plan.target].is_being_deleted /\ space[plan.target].stop_ibuf_merges
  BY DEF IInv, TargetIsRight, Quiet

LEMMA PagesKept ==
    ASSUME IInv, KeepsSpaces, NEW p \in Pages, OnlyPage(p)
    PROVE  \A q \in Pages \ {p} : PageIsRight(q)'
<1> SUFFICES ASSUME NEW q \in Pages \ {p}
             PROVE  PageIsRight(q)'
  OBVIOUS
<1>1. PICK s \in Spaces : s = SpaceOf[q] BY Places
<1>2. /\ Exists(s)' = Exists(s) /\ space'[s].version = space[s].version
      /\ space'[s].stop_ibuf_merges = space[s].stop_ibuf_merges
  BY DEF KeepsSpaces
<1>3. /\ where'[q] = where[q] /\ io'[q] = io[q] /\ born'[q] = born[q]
      /\ frame'[q] = frame[q] /\ disk'[q] = disk[q] /\ (q \in dirty' <=> q \in dirty)
  BY DEF OnlyPage
<1>4. PageIsRight(q) BY DEF IInv
<1> QED BY <1>1, <1>2, <1>3, <1>4 DEF PageIsRight, Resident, Current

LEMMA ContentsKept ==
    ASSUME IInv, NEW p \in Pages, OnlyPage(p), KeepsContent(p)
    PROVE  KeepsContents
<1> SUFFICES ASSUME NEW q \in Pages
             PROVE  /\ Content(q)' = Content(q)
                    /\ frame'[q] \in {frame[q], disk[q]} /\ disk'[q] \in {frame[q], disk[q]}
                    /\ q \in Leaves /\ Expected(q) /\ Expected(q)' => Unmerged(q)'
                    /\ q \in PagesOf(plan.target) /\ ddl = "free" /\ ~ Resident(q) => ~ Resident(q)'
  BY DEF KeepsContents
<1>1. CASE q = p BY <1>1, FreeIsDeleted DEF KeepsContent, PagesOf
<1>2. CASE q # p
 <2>1. /\ where'[q] = where[q] /\ io'[q] = io[q]
       /\ frame'[q] = frame[q] /\ disk'[q] = disk[q]
   BY <1>2 DEF OnlyPage
 <2>2. q \in Leaves /\ Expected(q) => Unmerged(q) BY DEF IInv, LeafIsRight
 <2> QED BY <2>1, <2>2 DEF Content, Resident, Unmerged
<1> QED BY <1>1, <1>2

\* Of what is there to show, when one page takes a step in which no entry moves.
LEMMA QuietStep ==
    ASSUME IInv, NEW p \in Pages, KeepsSpaces, tablespace_version' = tablespace_version,
           UNCHANGED <<plan, ddl, pc, todo, buffered, inserted>>, master' \in {master, NoMerge},
           OnlyPage(p), PageIsRight(p)', KeepsContent(p),
           Files', PoolTypes', ThreadTypes', PagesCounted', LatchIsRight', CachedAreRight'
    PROVE  IInv'
<1>1. KeepsContents BY ContentsKept
<1>2. SameEntries BY DEF SameEntries
<1>3. \A q \in Leaves : Expected(q)' => Expected(q) BY DEF Expected, Coming, Target
<1>4. OthersUntouched' /\ TargetIsRight(plan.target)' /\ GoneIsRight(plan.target)'
  BY <1>1, <1>2, SpacesKept DEF SameEntries
<1>5. \A q \in Leaves : LeafIsRight(q)' BY <1>1, <1>3, LeavesKept
<1>6. TodoIsRight' /\ \A e \in Entries : EntryIsRight(e)' BY <1>1, <1>2, EntriesKept
<1>7. \A u \in Sessions : SessionIsRight(u)' BY SessionsKept
<1>8. MasterIsRight' BY MasterKept
<1>9. \A q \in Pages : PageIsRight(q)' BY PagesKept
<1> QED BY <1>4, <1>5, <1>6, <1>7, <1>8, <1>9 DEF IInv

LEMMA SameFiles ==
    ASSUME Files, UNCHANGED fil_vars
    PROVE  /\ Files' /\ KeepsSpaces /\ KeepsCounters
           /\ UNCHANGED <<space, node, flushing, tablespace_version>>
           /\ \A s \in Spaces : SameCounts(s)
<1>1. UNCHANGED <<max_n_open, space, node, tablespace_version, flushing>> BY DEF fil_vars
<1>2. FilTypes' /\ ClosedAreIdle' /\ FlushesAreRight'
  BY <1>1 DEF Files, FilTypes, ClosedAreIdle, FlushesAreRight
<1>3. CallsCounted'
 <2>1. \A x \in Spaces : CallsAt(x, AllCalls)' = CallsAt(x, AllCalls)
                        /\ CallsAt(x, Flushes)' = CallsAt(x, Flushes)
   BY <1>1 DEF CallsAt
 <2> QED BY <1>1, <2>1 DEF Files, CallsCounted
<1> QED BY <1>1, <1>2, <1>3 DEF Files, KeepsSpaces, KeepsCounters, SameCounts, Exists, NoMerges

\* A page comes to the pool.
LEMMA InitForReadKeeps ==
    ASSUME IInv, NEW p \in Pages, NEW v, NEW unzip, InitForRead(p, v, unzip),
           UNCHANGED <<ibuf_vars, pc, todo, ddl, evictions, plan, inserted>>,
           master' \in {master, NoMerge}
    PROVE  IInv'
<1>1. PICK w \in {"zip", "full"} :
          /\ where' = [where EXCEPT ![p] = w] /\ io[p] = "none" /\ io' = [io EXCEPT ![p] = "read"]
          /\ born' = [born EXCEPT ![p] = space[SpaceOf[p]].version]
          /\ UNCHANGED <<fil_vars, dirty, frame, disk, cached>>
          /\ where[p] = "out" /\ Exists(SpaceOf[p]) /\ ~ space[SpaceOf[p]].is_being_deleted
  BY DEF InitForRead, Advance, Resident, DeletedOrBeingDeleted
<1>2. /\ PoolTypes /\ ThreadTypes /\ Files /\ PagesCounted /\ LatchIsRight /\ CachedAreRight
      /\ PageIsRight(p)
  BY DEF IInv
<1>3. /\ Files' /\ KeepsSpaces /\ KeepsCounters /\ UNCHANGED <<space, node, flushing, tablespace_version>>
      /\ \A s \in Spaces : SameCounts(s)
  BY <1>1, <1>2, SameFiles
<1>4. space[SpaceOf[p]].version \in Nat /\ SpaceOf[p] \in Spaces
  BY <1>2, Places, FileFields DEF Files
<1>5. PoolTypes' BY <1>1, <1>2, <1>4 DEF PoolTypes, ReadPhases
<1>6. ThreadTypes' BY <1>2 DEF ThreadTypes, NoMerge, ibuf_vars
<1>7. where'[p] = w /\ io'[p] = "read" /\ born'[p] = space[SpaceOf[p]].version
  BY <1>1, <1>2 DEF PoolTypes
<1>8. OnlyPage(p) BY <1>1, <1>2 DEF PoolTypes, OnlyPage
<1>9. PageIsRight(p)'
  BY <1>1, <1>2, <1>3, <1>7 DEF PageIsRight, Resident, Current, Unread, InMerge, Exists
<1>10. KeepsContent(p) BY <1>1, <1>2, <1>7 DEF KeepsContent, Content, Resident, Unmerged
<1>11. PagesCounted' BY <1>1, <1>2, <1>3, CountsKept DEF PageGoes, InIo, InMerge
<1>12. LatchIsRight' BY <1>1, <1>2, <1>7, <1>8 DEF LatchIsRight, OnlyPage, ibuf_vars
<1>13. CachedAreRight' BY <1>1, <1>2, <1>3, CachedKept
<1> QED BY <1>3, <1>5, <1>6, <1>8, <1>9, <1>10, <1>11, <1>12, <1>13, QuietStep DEF ibuf_vars

\* A page that is there compressed is decompressed.
LEMMA UnzipKeeps ==
    ASSUME IInv, NEW p \in Pages, Unzip(p),
           UNCHANGED <<ibuf_vars, pc, todo, master, ddl, evictions, plan, inserted>>
    PROVE  IInv'
<1>1. /\ where' = [where EXCEPT ![p] = "full"] /\ io[p] = "none" /\ io' = [io EXCEPT ![p] = "loaded"]
      /\ UNCHANGED <<fil_vars, born, dirty, frame, disk, cached>>
      /\ where[p] = "zip"
  BY DEF Unzip, Advance
<1>2. /\ PoolTypes /\ ThreadTypes /\ Files /\ PagesCounted /\ LatchIsRight /\ CachedAreRight
      /\ PageIsRight(p)
  BY DEF IInv
<1>3. /\ Files' /\ KeepsSpaces /\ KeepsCounters /\ UNCHANGED <<space, node, flushing, tablespace_version>>
      /\ \A s \in Spaces : SameCounts(s)
  BY <1>1, <1>2, SameFiles
<1>5. PoolTypes' BY <1>1, <1>2 DEF PoolTypes, ReadPhases
<1>6. ThreadTypes' BY <1>2 DEF ThreadTypes, ibuf_vars
<1>7. where'[p] = "full" /\ io'[p] = "loaded" /\ born'[p] = born[p] BY <1>1, <1>2 DEF PoolTypes
<1>8. OnlyPage(p) BY <1>1, <1>2 DEF PoolTypes, OnlyPage
<1>9. PageIsRight(p)'
  BY <1>1, <1>2, <1>3, <1>7 DEF PageIsRight, Resident, Current, Unread, InMerge, Exists
<1>10. KeepsContent(p) BY <1>1, <1>2, <1>7 DEF KeepsContent, Content, Resident, Unmerged
<1>11. PagesCounted' BY <1>1, <1>2, <1>3, CountsKept DEF PageGoes, InIo, InMerge
<1>12. LatchIsRight' BY <1>1, <1>2, <1>7, <1>8 DEF LatchIsRight, OnlyPage, ibuf_vars
<1>13. CachedAreRight' BY <1>1, <1>2, <1>3, CachedKept
<1> QED BY <1>3, <1>5, <1>6, <1>8, <1>9, <1>10, <1>11, <1>12, <1>13, QuietStep DEF ibuf_vars

-----------------------------------------------------------------------------
(* The steps of reads, writes and evictions *)

\* An operation on the file begins, for a read or a write.
LEMMA PostKeeps ==
    ASSUME IInv, NEW p \in Pages, PostRead(p) \/ PostWrite(p), UNCHANGED <<ibuf_vars, thread_vars, plan, inserted>>
    PROVE  IInv'
<1>1. PICK from \in {"read", "write"}, to \in InIo :
          /\ io[p] = from /\ io' = [io EXCEPT ![p] = to]
          /\ from = "read" <=> to = "reading"
          /\ UNCHANGED <<where, born, dirty, frame, disk, cached>>
          /\ PrepareForIo(SpaceOf[p])
  BY DEF PostRead, PostWrite, Advance, InIo
<1>2. /\ PoolTypes /\ ThreadTypes /\ Files /\ PagesCounted /\ LatchIsRight /\ CachedAreRight
      /\ PageIsRight(p) /\ SpaceOf[p] \in Spaces
  BY Places DEF IInv
<1>3. /\ Files' /\ KeepsSpaces /\ KeepsCounters /\ UNCHANGED <<space, flushing, tablespace_version>>
      /\ \A x \in Spaces : node'[x].n_pending = IF x = SpaceOf[p] THEN node[x].n_pending + 1
                                                ELSE node[x].n_pending
  BY <1>1, <1>2, PrepareKeeps
<1>5. PoolTypes' BY <1>1, <1>2 DEF PoolTypes, ReadPhases, WritePhases, InIo
<1>6. ThreadTypes' BY <1>2 DEF ThreadTypes, ibuf_vars, thread_vars
<1>7. io'[p] = to BY <1>1, <1>2 DEF PoolTypes
<1>8. OnlyPage(p) BY <1>1, <1>2 DEF PoolTypes, OnlyPage
<1>9. PageIsRight(p)'
  BY <1>1, <1>2, <1>3, <1>7 DEF PageIsRight, Resident, Current, Unread, InMerge, Exists, InIo
<1>10. KeepsContent(p)
 <2>1. p \in Leaves => LeafIsRight(p) BY DEF IInv
 <2> QED BY <1>1, <1>2, <1>7, <2>1 DEF KeepsContent, Content, Resident, Unmerged, InIo, LeafIsRight
<1>11. PagesCounted'
 <2>1. io[p] \notin InIo \cup InMerge BY <1>1 DEF InIo, InMerge
 <2> QED BY <1>1, <1>2, <1>3, <2>1, IoBegins DEF PageGoes
<1>12. LatchIsRight'
  BY <1>1, <1>2, <1>7, <1>8 DEF LatchIsRight, OnlyPage, ibuf_vars, thread_vars, InIo
<1>13. CachedAreRight' BY <1>1, <1>2, <1>3, CachedKept
<1> QED
  BY <1>3, <1>5, <1>6, <1>8, <1>9, <1>10, <1>11, <1>12, <1>13, QuietStep DEF ibuf_vars, thread_vars

LEMMA ReadFileKeeps ==
    ASSUME IInv, NEW p \in Pages, ReadFile(p), UNCHANGED <<ibuf_vars, thread_vars, plan, inserted>>
    PROVE  IInv'
<1>1. /\ io[p] = "reading" /\ io' = [io EXCEPT ![p] = "loaded"]
      /\ frame' = [frame EXCEPT ![p] = disk[p]]
      /\ UNCHANGED <<where, born, dirty, disk, cached>>
      /\ CompleteIo(SpaceOf[p], "read")
  BY DEF ReadFile, Advance
<1>2. /\ PoolTypes /\ ThreadTypes /\ Files /\ PagesCounted /\ LatchIsRight /\ CachedAreRight
      /\ PageIsRight(p) /\ SpaceOf[p] \in Spaces
  BY Places DEF IInv
<1>3. /\ Files' /\ KeepsSpaces /\ KeepsCounters /\ UNCHANGED <<space, flushing, tablespace_version>>
      /\ \A x \in Spaces : node'[x].n_pending = IF x = SpaceOf[p] THEN node[x].n_pending - 1
                                                ELSE node[x].n_pending
 <2>1. node[SpaceOf[p]].n_pending > 0 BY <1>1, MergingIsCounted DEF InIo
 <2> QED BY <1>1, <1>2, <2>1, CompleteKeeps
<1>5. PoolTypes' BY <1>1, <1>2 DEF PoolTypes, ReadPhases
<1>6. ThreadTypes' BY <1>2 DEF ThreadTypes, ibuf_vars, thread_vars
<1>7. io'[p] = "loaded" /\ frame'[p] = disk[p] BY <1>1, <1>2 DEF PoolTypes
<1>8. OnlyPage(p) BY <1>1, <1>2 DEF PoolTypes, OnlyPage
<1>9. PageIsRight(p)'
  BY <1>1, <1>2, <1>3, <1>7 DEF PageIsRight, Resident, Current, Unread, InMerge, Exists
<1>10. KeepsContent(p)
  BY <1>1, <1>2, <1>7 DEF KeepsContent, Content, Resident, Unmerged, PageIsRight
<1>11. PagesCounted'
 <2>1. io[p] \in InIo /\ "loaded" \notin InIo \cup InMerge BY <1>1 DEF InIo, InMerge
 <2> QED BY <1>1, <1>2, <1>3, <2>1, IoEnds DEF PageGoes
<1>12. LatchIsRight' BY <1>1, <1>2, <1>7, <1>8 DEF LatchIsRight, OnlyPage, ibuf_vars, thread_vars
<1>13. CachedAreRight' BY <1>1, <1>2, <1>3, CachedKept
<1> QED
  BY <1>3, <1>5, <1>6, <1>8, <1>9, <1>10, <1>11, <1>12, <1>13, QuietStep DEF ibuf_vars, thread_vars

LEMMA WriteFileKeeps ==
    ASSUME IInv, NEW p \in Pages, WriteFile(p), UNCHANGED <<ibuf_vars, thread_vars, plan, inserted>>
    PROVE  IInv'
<1>1. /\ io[p] = "writing" /\ io' = [io EXCEPT ![p] = "written"]
      /\ disk' = [disk EXCEPT ![p] = frame[p]] /\ cached' = cached \cup {p}
      /\ UNCHANGED <<where, born, dirty, frame>>
      /\ CompleteIo(SpaceOf[p], "write")
  BY DEF WriteFile, Advance
<1>2. /\ PoolTypes /\ ThreadTypes /\ Files /\ PagesCounted /\ LatchIsRight /\ CachedAreRight
      /\ PageIsRight(p) /\ SpaceOf[p] \in Spaces
  BY Places DEF IInv
<1>3. /\ Files' /\ KeepsSpaces /\ UNCHANGED <<space, flushing, tablespace_version>>
      /\ \A x \in Spaces :
             /\ node'[x].n_pending = IF x = SpaceOf[p] THEN node[x].n_pending - 1 ELSE node[x].n_pending
             /\ node'[x].flush_counter = node[x].flush_counter
             /\ node'[x].modification_counter = IF x = SpaceOf[p] THEN node[x].modification_counter + 1
                                                ELSE node[x].modification_counter
 <2>1. node[SpaceOf[p]].n_pending > 0 BY <1>1, MergingIsCounted DEF InIo
 <2> QED BY <1>1, <1>2, <2>1, CompleteKeeps
<1>5. PoolTypes' BY <1>1, <1>2 DEF PoolTypes, WritePhases
<1>6. ThreadTypes' BY <1>2 DEF ThreadTypes, ibuf_vars, thread_vars
<1>7. io'[p] = "written" /\ disk'[p] = frame[p] BY <1>1, <1>2 DEF PoolTypes
<1>8. OnlyPage(p) BY <1>1, <1>2 DEF PoolTypes, OnlyPage
<1>9. PageIsRight(p)'
  BY <1>1, <1>2, <1>3, <1>7 DEF PageIsRight, Resident, Current, Unread, InMerge, Exists
<1>10. KeepsContent(p)
 <2>1. p \in Leaves => LeafIsRight(p) BY DEF IInv
 <2> QED
   BY <1>1, <1>2, <1>7, <2>1 DEF KeepsContent, Content, Resident, Unmerged, PageIsRight,
      LeafIsRight
<1>11. PagesCounted'
 <2>1. io[p] \in InIo /\ "written" \notin InIo \cup InMerge BY <1>1 DEF InIo, InMerge
 <2> QED BY <1>1, <1>2, <1>3, <2>1, IoEnds DEF PageGoes
<1>12. LatchIsRight' BY <1>1, <1>2, <1>7, <1>8 DEF LatchIsRight, OnlyPage, ibuf_vars, thread_vars
<1>13. CachedAreRight'
 <2> SUFFICES ASSUME NEW s \in Spaces, cached' \cap PagesOf(s) # {}
              PROVE  /\ Exists(s)' => Unflushed(s)'
                     /\ \A f \in CallsAt(s, {"done"})' :
                            flushing'[f].old_mod_counter < node'[s].modification_counter
   BY DEF CachedAreRight, PagesOf
 <2>1. CallsAt(s, {"done"})' = CallsAt(s, {"done"}) /\ Exists(s)' = Exists(s)
   BY <1>3 DEF CallsAt, Exists
 <2>2. node[s].modification_counter \in Nat /\ node[s].flush_counter \in Nat
   BY <1>2, FileFields DEF Files
 <2>3. CASE s = SpaceOf[p]
  <3>1. /\ node[s].flush_counter <= node[s].modification_counter
        /\ \A f \in CallsAt(s, {"done"}) : flushing[f].old_mod_counter <= node[s].modification_counter
                                           /\ flushing[f].old_mod_counter \in Nat
    BY <1>2, FlushFields DEF Files, FlushesAreRight, CallsAt
  <3>2. node'[s].flush_counter < node'[s].modification_counter BY <1>3, <2>2, <2>3, <3>1
  <3>3. \A f \in CallsAt(s, {"done"}) : flushing'[f].old_mod_counter < node'[s].modification_counter
    BY <1>3, <2>2, <2>3, <3>1
  <3> QED BY <2>1, <2>2, <3>2, <3>3, <1>3, <2>3 DEF Unflushed
 <2>4. CASE s # SpaceOf[p]
  <3>1. cached \cap PagesOf(s) # {} BY <1>1, <2>4 DEF PagesOf
  <3>2. /\ Exists(s) => Unflushed(s)
        /\ \A f \in CallsAt(s, {"done"}) : flushing[f].old_mod_counter < node[s].modification_counter
    BY <1>2, <3>1 DEF CachedAreRight
  <3>3. /\ node'[s].modification_counter = node[s].modification_counter
        /\ node'[s].flush_counter = node[s].flush_counter
    BY <1>3, <2>4
  <3> QED BY <1>3, <2>1, <3>2, <3>3 DEF Unflushed
 <2> QED BY <2>3, <2>4
<1> QED
  BY <1>3, <1>5, <1>6, <1>8, <1>9, <1>10, <1>11, <1>12, <1>13, QuietStep DEF ibuf_vars, thread_vars

\* Nothing but the phase of a page changes.
LEMMA PhaseStep ==
    ASSUME IInv, NEW p \in Pages, NEW to, to \in ReadPhases \cup WritePhases \cup {"none"},
           io' = [io EXCEPT ![p] = to],
           UNCHANGED <<where, born, frame, disk, cached, buffered, thread_vars, plan, inserted>>,
           dirty' = (IF io[p] = "written" THEN dirty \ {p} ELSE dirty),
           Files', KeepsSpaces, KeepsCounters, UNCHANGED <<flushing, tablespace_version>>,
           PagesCounted', LatchIsRight', ibuf_latch' \in {ibuf_latch, p},
           io[p] \notin {"read", "reading"}, to \notin {"read", "reading", "written"},
           to # "none" => Resident(p),
           to \in InMerge \cup {"delete"} => p \in Leaves /\ where[p] = "full",
           to = "delete" => space[SpaceOf[p]].stop_ibuf_merges,
           p \in Leaves /\ Expected(p) => where[p] # "full" \/ to \in {"bitmap", "merge", "delete"}
    PROVE  IInv'
<1>2. /\ PoolTypes /\ ThreadTypes /\ PageIsRight(p) /\ SpaceOf[p] \in Spaces /\ CachedAreRight /\ Files
  BY Places DEF IInv
<1>5. PoolTypes' BY <1>2 DEF PoolTypes
<1>6. ThreadTypes' BY <1>2 DEF ThreadTypes, thread_vars
<1>7. io'[p] = to BY <1>2 DEF PoolTypes
<1>8. OnlyPage(p) BY <1>2 DEF PoolTypes, OnlyPage
<1>9. PageIsRight(p)'
 <2>1. /\ Exists(SpaceOf[p])' = Exists(SpaceOf[p])
       /\ space'[SpaceOf[p]].version = space[SpaceOf[p]].version
       /\ space'[SpaceOf[p]].stop_ibuf_merges = space[SpaceOf[p]].stop_ibuf_merges
   BY <1>2 DEF KeepsSpaces
 <2>2. /\ Resident(p)' = Resident(p) /\ Current(p)' = Current(p)
       /\ p \in dirty' => p \in dirty
   BY <2>1 DEF Resident, Current
 <2>3. Resident(p) /\ (p \notin dirty' \/ to = "written") => frame[p] = disk[p]
   BY <1>2 DEF PageIsRight, Unread
 <2> QED BY <1>2, <1>7, <2>1, <2>2, <2>3 DEF PageIsRight
<1>10. KeepsContent(p) BY <1>2, <1>7 DEF KeepsContent, Content, Resident, Unmerged
<1>13. CachedAreRight' BY <1>2, CachedKept
<1> QED BY <1>5, <1>6, <1>8, <1>9, <1>10, <1>13, QuietStep DEF thread_vars

\* No leaf in a later phase of the merge has entries to come.
LEMMA MergedIsRight ==
    ASSUME IInv, NEW p \in Leaves, where[p] = "full",
           io[p] \notin {"read", "reading", "loaded", "bitmap", "merge", "delete"}
    PROVE  ~ Expected(p)
  BY DEF IInv, LeafIsRight, Unmerged

LEMMA LatchKept ==
    ASSUME IInv, NEW p \in Pages, NEW to, io' = [io EXCEPT ![p] = to], UNCHANGED <<pc, ibuf_latch>>,
           ibuf_latch # p, to # "reset"
    PROVE  LatchIsRight'
<1>1. \A q \in Pages : io'[q] = IF q = p THEN to ELSE io[q] BY DEF IInv, PoolTypes
<1> QED BY <1>1 DEF IInv, LatchIsRight

LEMMA CompleteReadKeeps ==
    ASSUME IInv, NEW p \in Pages, CompleteRead(p), UNCHANGED <<ibuf_vars, thread_vars, plan, inserted>>
    PROVE  IInv'
<1>1. /\ io[p] = "complete" /\ io' = [io EXCEPT ![p] = "none"]
      /\ UNCHANGED <<fil_vars, where, born, dirty, frame, disk, cached>>
  BY DEF CompleteRead, Advance
<1>2. PoolTypes /\ Files /\ PagesCounted /\ LatchIsRight BY DEF IInv
<1>3. /\ Files' /\ KeepsSpaces /\ KeepsCounters /\ UNCHANGED <<flushing, tablespace_version>>
      /\ \A s \in Spaces : SameCounts(s)
  BY <1>1, <1>2, SameFiles
<1>4. PagesCounted' BY <1>1, <1>2, <1>3, CountsKept DEF PageGoes, InIo, InMerge
<1>5. ibuf_latch # p BY <1>1, <1>2 DEF LatchIsRight
<1>6. LatchIsRight' BY <1>1, <1>5, LatchKept DEF ibuf_vars, thread_vars
<1>7. p \in Leaves /\ Expected(p) => where[p] # "full" BY <1>1, MergedIsRight
<1>8. "none" \notin InMerge \cup {"delete"} BY DEF InMerge
<1> QED BY <1>1, <1>3, <1>4, <1>6, <1>7, <1>8, PhaseStep DEF ibuf_vars

LEMMA CompleteWriteKeeps ==
    ASSUME IInv, NEW p \in Pages, CompleteWrite(p), UNCHANGED <<ibuf_vars, thread_vars, plan, inserted>>
    PROVE  IInv'
<1>1. /\ io[p] = "written" /\ io' = [io EXCEPT ![p] = "none"] /\ dirty' = dirty \ {p}
      /\ UNCHANGED <<fil_vars, where, born, frame, disk, cached>>
  BY DEF CompleteWrite, Advance
<1>2. PoolTypes /\ Files /\ PagesCounted /\ LatchIsRight BY DEF IInv
<1>3. /\ Files' /\ KeepsSpaces /\ KeepsCounters /\ UNCHANGED <<flushing, tablespace_version>>
      /\ \A s \in Spaces : SameCounts(s)
  BY <1>1, <1>2, SameFiles
<1>4. PagesCounted' BY <1>1, <1>2, <1>3, CountsKept DEF PageGoes, InIo, InMerge
<1>5. ibuf_latch # p BY <1>1, <1>2 DEF LatchIsRight
<1>6. LatchIsRight' BY <1>1, <1>5, LatchKept DEF ibuf_vars, thread_vars
<1>7. p \in Leaves /\ Expected(p) => where[p] # "full" BY <1>1, MergedIsRight
<1>8. "none" \notin InMerge \cup {"delete"} BY DEF InMerge
<1> QED BY <1>1, <1>3, <1>4, <1>6, <1>7, <1>8, PhaseStep DEF ibuf_vars

LEMMA WritePageKeeps ==
    ASSUME IInv, NEW p \in Pages, WritePage(p)
    PROVE  IInv'
<1>1. /\ io[p] = "none" /\ io' = [io EXCEPT ![p] = "write"] /\ p \in dirty
      /\ UNCHANGED <<fil_vars, where, born, dirty, frame, disk, cached, ibuf_vars, thread_vars, plan, inserted>>
  BY DEF WritePage, StartWrite, Advance, OtherThreads
<1>2. PoolTypes /\ Files /\ PagesCounted /\ LatchIsRight /\ PageIsRight(p) BY DEF IInv
<1>3. /\ Files' /\ KeepsSpaces /\ KeepsCounters /\ UNCHANGED <<flushing, tablespace_version>>
      /\ \A s \in Spaces : SameCounts(s)
  BY <1>1, <1>2, SameFiles
<1>4. PagesCounted' BY <1>1, <1>2, <1>3, CountsKept DEF PageGoes, InIo, InMerge
<1>5. ibuf_latch # p BY <1>1, <1>2 DEF LatchIsRight
<1>6. LatchIsRight' BY <1>1, <1>5, LatchKept DEF ibuf_vars, thread_vars
<1>7. p \in Leaves /\ Expected(p) => where[p] # "full" BY <1>1, MergedIsRight
<1>8. Resident(p) BY <1>1, <1>2 DEF PageIsRight
<1>9. "write" \in WritePhases /\ "write" \notin InMerge \cup {"delete"} BY DEF WritePhases, InMerge
<1> QED BY <1>1, <1>3, <1>4, <1>6, <1>7, <1>8, <1>9, PhaseStep DEF ibuf_vars

LEMMA NoMergeNeededKeeps ==
    ASSUME IInv, NEW p \in Pages, NoMergeNeeded(p)
    PROVE  IInv'
<1>1. /\ io[p] = "loaded" /\ io' = [io EXCEPT ![p] = "complete"] /\ (p \notin Leaves \/ where[p] = "zip")
      /\ UNCHANGED <<fil_vars, where, born, dirty, frame, disk, cached, ibuf_vars, thread_vars, plan, inserted>>
  BY DEF NoMergeNeeded, Advance, OtherThreads
<1>2. PoolTypes /\ Files /\ PagesCounted /\ LatchIsRight /\ PageIsRight(p) BY DEF IInv
<1>3. /\ Files' /\ KeepsSpaces /\ KeepsCounters /\ UNCHANGED <<flushing, tablespace_version>>
      /\ \A s \in Spaces : SameCounts(s)
  BY <1>1, <1>2, SameFiles
<1>4. PagesCounted' BY <1>1, <1>2, <1>3, CountsKept DEF PageGoes, InIo, InMerge
<1>5. ibuf_latch # p BY <1>1, <1>2 DEF LatchIsRight
<1>6. LatchIsRight' BY <1>1, <1>5, LatchKept DEF ibuf_vars, thread_vars
<1>8. Resident(p) BY <1>1, <1>2 DEF PageIsRight
<1>9. "complete" \in ReadPhases /\ "complete" \notin InMerge \cup {"delete"}
  BY DEF ReadPhases, InMerge
<1> QED BY <1>1, <1>3, <1>4, <1>6, <1>8, <1>9, PhaseStep DEF ibuf_vars

LEMMA StartMergeKeeps ==
    ASSUME IInv, NEW p \in Pages, StartMerge(p)
    PROVE  IInv'
<1>1. /\ p \in Leaves /\ where[p] = "full" /\ io[p] = "loaded"
      /\ UNCHANGED <<where, born, dirty, frame, disk, cached, ibuf_vars, thread_vars, plan, inserted>>
  BY DEF StartMerge, Advance, OtherThreads
<1>2. PoolTypes /\ Files /\ PagesCounted /\ LatchIsRight /\ PageIsRight(p) /\ SpaceOf[p] \in Spaces
  BY Places DEF IInv
<1>5. ibuf_latch # p BY <1>1, <1>2 DEF LatchIsRight
<1>8. Resident(p) BY <1>1 DEF Resident
<1>9. CASE io' = [io EXCEPT ![p] = "bitmap"] /\ CountMerge(SpaceOf[p])
 <2>1. ~ space[SpaceOf[p]].is_being_deleted BY <1>2, <1>9, DeletedStops DEF CountMerge
 <2>2. /\ Files' /\ KeepsSpaces /\ KeepsCounters /\ UNCHANGED <<node, flushing, tablespace_version>>
       /\ \A s \in Spaces : space'[s].n_pending_ibuf_merges =
              IF s = SpaceOf[p] THEN space[s].n_pending_ibuf_merges + 1 ELSE space[s].n_pending_ibuf_merges
   BY <1>2, <1>9, <2>1, MergeCountKeeps
 <2>3. PagesCounted'
  <3>1. "bitmap" \in InMerge /\ io[p] \notin InIo \cup InMerge BY <1>1 DEF InIo, InMerge
  <3> QED BY <1>2, <1>9, <2>2, <3>1, MergeBegins DEF PageGoes
 <2>4. LatchIsRight' BY <1>1, <1>5, <1>9, LatchKept DEF ibuf_vars, thread_vars
 <2>5. "bitmap" \in ReadPhases BY DEF ReadPhases
 <2> QED BY <1>1, <1>8, <1>9, <2>2, <2>3, <2>4, <2>5, PhaseStep DEF ibuf_vars
<1>10. CASE io' = [io EXCEPT ![p] = "delete"] /\ space[SpaceOf[p]].stop_ibuf_merges /\ UNCHANGED fil_vars
 <2>1. /\ Files' /\ KeepsSpaces /\ KeepsCounters /\ UNCHANGED <<flushing, tablespace_version>>
       /\ \A s \in Spaces : SameCounts(s)
   BY <1>2, <1>10, SameFiles
 <2>2. PagesCounted' BY <1>1, <1>2, <1>10, <2>1, CountsKept DEF PageGoes, InIo, InMerge
 <2>3. LatchIsRight' BY <1>1, <1>5, <1>10, LatchKept DEF ibuf_vars, thread_vars
 <2>4. "delete" \in ReadPhases BY DEF ReadPhases
 <2> QED BY <1>1, <1>8, <1>10, <2>1, <2>2, <2>3, <2>4, PhaseStep DEF ibuf_vars
<1> QED BY <1>9, <1>10 DEF StartMerge, Advance

LEMMA EndMergeKeeps ==
    ASSUME IInv, NEW p \in Pages, EndMerge(p)
    PROVE  IInv'
<1>1. /\ io[p] = "merged" /\ io' = [io EXCEPT ![p] = "complete"] /\ UncountMerge(SpaceOf[p])
      /\ UNCHANGED <<where, born, dirty, frame, disk, cached, ibuf_vars, thread_vars, plan, inserted>>
  BY DEF EndMerge, Advance, OtherThreads
<1>2. PoolTypes /\ Files /\ PagesCounted /\ LatchIsRight /\ PageIsRight(p) /\ SpaceOf[p] \in Spaces
  BY Places DEF IInv
<1>3. io[p] \in InMerge /\ "complete" \notin InIo \cup InMerge BY <1>1 DEF InIo, InMerge
<1>4. space[SpaceOf[p]].n_pending_ibuf_merges > 0 /\ space[SpaceOf[p]].n_pending_ibuf_merges \in Nat
  BY <1>2, <1>3, MergingIsCounted, FileFields DEF Files
<1>5. /\ Files' /\ KeepsSpaces /\ KeepsCounters /\ UNCHANGED <<node, flushing, tablespace_version>>
      /\ \A s \in Spaces : space'[s].n_pending_ibuf_merges =
             IF s = SpaceOf[p] THEN space[s].n_pending_ibuf_merges - 1 ELSE space[s].n_pending_ibuf_merges
 <2>1. ~ CountMerge(SpaceOf[p])
  <3>1. space' = [space EXCEPT ![SpaceOf[p]].n_pending_ibuf_merges = space[SpaceOf[p]].n_pending_ibuf_merges - 1]
    BY <1>1 DEF UncountMerge
  <3>2. space[SpaceOf[p]] \in SpaceType BY <1>2, FileFields DEF Files
  <3>3. space'[SpaceOf[p]].n_pending_ibuf_merges = space[SpaceOf[p]].n_pending_ibuf_merges - 1
    BY <1>2, <3>1, <3>2 DEF Files, FilTypes, SpaceType
  <3>4. CountMerge(SpaceOf[p]) =>
            space'[SpaceOf[p]].n_pending_ibuf_merges = space[SpaceOf[p]].n_pending_ibuf_merges + 1
    BY <1>2, <3>2 DEF Files, FilTypes, SpaceType, CountMerge
  <3> QED BY <1>4, <3>3, <3>4
 <2> QED BY <1>1, <1>2, <1>4, <2>1, MergeCountKeeps
<1>6. PagesCounted' BY <1>1, <1>2, <1>3, <1>5, MergeEnds DEF PageGoes
<1>7. ibuf_latch # p BY <1>1, <1>2 DEF LatchIsRight
<1>8. LatchIsRight' BY <1>1, <1>7, LatchKept DEF ibuf_vars, thread_vars
<1>9. Resident(p) /\ (p \in Leaves /\ Expected(p) => where[p] # "full")
  BY <1>1, <1>2, MergedIsRight DEF PageIsRight
<1>10. "complete" \in ReadPhases BY DEF ReadPhases
<1> QED BY <1>1, <1>3, <1>5, <1>6, <1>8, <1>9, <1>10, PhaseStep DEF ibuf_vars

\* Without the bit nothing is buffered.
LEMMA TestBitKeeps ==
    ASSUME IInv, NEW p \in Pages, TestBit(p)
    PROVE  IInv'
<1>1. PICK to \in {"merge", "merged"} :
          /\ io[p] = "bitmap" /\ io' = [io EXCEPT ![p] = to] /\ Readable(BitmapOf[p])
          /\ to = (IF p \in frame[BitmapOf[p]] THEN "merge" ELSE "merged")
          /\ UNCHANGED <<fil_vars, where, born, dirty, frame, disk, cached, ibuf_vars, thread_vars, plan, inserted>>
  BY DEF TestBit, Advance, OtherThreads
<1>2. PoolTypes /\ Files /\ PagesCounted /\ LatchIsRight /\ PageIsRight(p) BY DEF IInv
<1>3. /\ Files' /\ KeepsSpaces /\ KeepsCounters /\ UNCHANGED <<flushing, tablespace_version>>
      /\ \A s \in Spaces : SameCounts(s)
  BY <1>1, <1>2, SameFiles
<1>4. PagesCounted' BY <1>1, <1>2, <1>3, CountsKept DEF PageGoes, InIo, InMerge
<1>5. ibuf_latch # p BY <1>1, <1>2 DEF LatchIsRight
<1>6. LatchIsRight' BY <1>1, <1>5, LatchKept DEF ibuf_vars, thread_vars
<1>7. Resident(p) /\ p \in Leaves /\ where[p] = "full" BY <1>1, <1>2 DEF PageIsRight, InMerge
<1>8. Expected(p) => to = "merge"
 <2>1. ~ space[SpaceOf[p]].is_being_deleted BY <1>1, MergingIsCounted DEF InMerge
 <2>2. Expected(p) => p \in Content(BitmapOf[p]) BY <1>7, <2>1 DEF IInv, LeafIsRight
 <2>3. Content(BitmapOf[p]) = frame[BitmapOf[p]]
   BY <1>1 DEF Readable, BeingRead, ReadPhases, Content, Resident
 <2> QED BY <1>1, <2>2, <2>3
<1>9. "merge" \in ReadPhases /\ "merged" \in ReadPhases BY DEF ReadPhases
<1> QED BY <1>1, <1>3, <1>4, <1>6, <1>7, <1>8, <1>9, PhaseStep DEF ibuf_vars

LEMMA AllMergedKeeps ==
    ASSUME IInv, NEW p \in Pages, AllMerged(p)
    PROVE  IInv'
<1>1. /\ ibuf_latch \in {Nobody, p} /\ buffered \cap EntriesOf(p) = {}
      /\ io[p] = "merge" /\ io' = [io EXCEPT ![p] = "reset"] /\ ibuf_latch' = p
      /\ UNCHANGED <<fil_vars, where, born, dirty, frame, disk, cached, buffered, thread_vars, plan, inserted>>
  BY DEF AllMerged, MayLatchIbuf, Advance, OtherThreads
<1>2. PoolTypes /\ Files /\ PagesCounted /\ LatchIsRight /\ PageIsRight(p) BY DEF IInv
<1>3. /\ Files' /\ KeepsSpaces /\ KeepsCounters /\ UNCHANGED <<flushing, tablespace_version>>
      /\ \A s \in Spaces : SameCounts(s)
  BY <1>1, <1>2, SameFiles
<1>4. PagesCounted' BY <1>1, <1>2, <1>3, CountsKept DEF PageGoes, InIo, InMerge
<1>5. \A u \in Sessions : ibuf_latch # u /\ u # p /\ pc[u] \notin {"bitmap", "buffer"}
  BY <1>1, <1>2, Places DEF LatchIsRight
<1>6. LatchIsRight'
 <2>1. \A q \in Pages : io'[q] = IF q = p THEN "reset" ELSE io[q] BY <1>1, <1>2 DEF PoolTypes
 <2> QED BY <1>1, <1>2, <1>5, <2>1, Places DEF LatchIsRight, thread_vars
<1>7. Resident(p) /\ p \in Leaves /\ where[p] = "full" BY <1>1, <1>2 DEF PageIsRight, InMerge
<1>8. ~ Expected(p) BY <1>1, <1>5 DEF Expected, Coming
<1>9. "reset" \in ReadPhases BY DEF ReadPhases
<1> QED BY <1>1, <1>3, <1>4, <1>6, <1>7, <1>8, <1>9, PhaseStep

LEMMA EvictPageKeeps ==
    ASSUME IInv, NEW p \in Pages, EvictPage(p)
    PROVE  IInv'
<1>1. PICK w \in {"out", "zip"} :
          /\ where' = [where EXCEPT ![p] = w] /\ Resident(p) /\ io[p] = "none"
          /\ w = "out" => p \notin dirty
          /\ UNCHANGED <<fil_vars, io, born, dirty, frame, disk, cached, ibuf_vars, pc, todo, master, ddl, plan,
                         inserted>>
          /\ evictions < plan.evictions /\ evictions' = evictions + 1
  BY DEF EvictPage, Evict
<1>2. /\ PoolTypes /\ ThreadTypes /\ Files /\ PagesCounted /\ LatchIsRight /\ CachedAreRight
      /\ PageIsRight(p)
  BY DEF IInv
<1>3. /\ Files' /\ KeepsSpaces /\ KeepsCounters /\ UNCHANGED <<space, node, flushing, tablespace_version>>
      /\ \A s \in Spaces : SameCounts(s)
  BY <1>1, <1>2, SameFiles
<1>5. PoolTypes' BY <1>1, <1>2 DEF PoolTypes
<1>6. ThreadTypes'
 <2>1. evictions' \in 0 .. plan'.evictions BY <1>1, <1>2, PlanFacts DEF ThreadTypes
 <2> QED BY <1>1, <1>2, <2>1 DEF ThreadTypes, ibuf_vars
<1>7. where'[p] = w BY <1>1, <1>2 DEF PoolTypes
<1>8. OnlyPage(p) BY <1>1, <1>2 DEF PoolTypes, OnlyPage
<1>9. PageIsRight(p)'
  BY <1>1, <1>2, <1>3, <1>7 DEF PageIsRight, Resident, Current, Unread, InMerge, Exists
<1>10. KeepsContent(p)
  BY <1>1, <1>2, <1>7 DEF KeepsContent, Content, Resident, Unmerged, PageIsRight, Unread
<1>11. PagesCounted' BY <1>1, <1>2, <1>3 DEF PagesCounted, PagesIn, PagesOf
<1>12. LatchIsRight' BY <1>1, <1>2 DEF LatchIsRight, ibuf_vars
<1>13. CachedAreRight' BY <1>1, <1>2, <1>3, CachedKept
<1> QED BY <1>1, <1>3, <1>5, <1>6, <1>8, <1>9, <1>10, <1>11, <1>12, <1>13, QuietStep DEF ibuf_vars

-----------------------------------------------------------------------------
(* Sessions *)

LEMMA SamePool ==
    ASSUME IInv, UNCHANGED <<fil_vars, pool_vars>>
    PROVE  /\ Files' /\ PoolTypes' /\ PagesCounted' /\ CachedAreRight' /\ \A q \in Pages : PageIsRight(q)'
           /\ KeepsSpaces /\ KeepsContents /\ tablespace_version' = tablespace_version
           /\ UNCHANGED <<where, io, born, dirty, frame, disk, cached, space>>
<1>1. PoolTypes /\ Files /\ PagesCounted /\ CachedAreRight BY DEF IInv
<1>2. UNCHANGED <<where, io, born, dirty, frame, disk, cached>> BY DEF pool_vars
<1>3. /\ Files' /\ KeepsSpaces /\ KeepsCounters /\ UNCHANGED <<space, node, flushing, tablespace_version>>
      /\ \A s \in Spaces : SameCounts(s)
  BY <1>1, SameFiles
<1>4. PoolTypes' BY <1>1, <1>2 DEF PoolTypes
<1>5. PagesCounted' BY <1>1, <1>2, <1>3 DEF PagesCounted, PagesIn, PagesOf
<1>6. CachedAreRight' BY <1>1, <1>2, <1>3, CachedKept
<1>7. \A q \in Pages : PageIsRight(q)'
  BY <1>2, <1>3 DEF IInv, PageIsRight, Resident, Current, Exists
<1>8. KeepsContents
 <2>1. \A q \in Leaves : Expected(q) => Unmerged(q) BY DEF IInv, LeafIsRight
 <2> QED BY <1>2, <2>1 DEF KeepsContents, Content, Resident, Unmerged
<1> QED BY <1>2, <1>3, <1>4, <1>5, <1>6, <1>7, <1>8

Labels == {"idle", "search", "get", "latch", "ibuf", "bitmap", "buffer"}

\* One session goes on, and no page or entry changes.
LEMMA SessionMoves ==
    ASSUME IInv, NEW u \in Sessions, NEW b \in Labels, b # "buffer", pc' = [pc EXCEPT ![u] = b],
           UNCHANGED <<fil_vars, pool_vars, buffered, todo, master, ddl, evictions, plan, inserted>>,
           SessionIsRight(u)', LatchIsRight', ibuf_latch' \in Sessions \cup Pages \cup {Nobody}
    PROVE  IInv'
<1>1. ThreadTypes BY DEF IInv
<1>2. /\ Files' /\ PoolTypes' /\ PagesCounted' /\ CachedAreRight' /\ \A q \in Pages : PageIsRight(q)'
      /\ KeepsSpaces /\ KeepsContents /\ tablespace_version' = tablespace_version
      /\ UNCHANGED <<where, io, born, dirty, frame, disk, cached, space>>
  BY SamePool
<1>3. ThreadTypes' BY <1>1 DEF ThreadTypes, Labels
<1>4. \A v \in Sessions \ {u} : pc'[v] = pc[v] BY <1>1 DEF ThreadTypes
<1>5. pc'[u] # "buffer" BY <1>1 DEF ThreadTypes
<1>6. \A q \in Leaves : Expected(q)' => Expected(q) BY <1>4, <1>5 DEF Expected, Coming, Target
<1>7. OthersUntouched' /\ TargetIsRight(plan.target)' /\ GoneIsRight(plan.target)'
  BY <1>2, SpacesKept DEF SameEntries
<1>8. \A q \in Leaves : LeafIsRight(q)' BY <1>2, <1>6, LeavesKept
<1>9. TodoIsRight' /\ \A e \in Entries : EntryIsRight(e)' BY <1>2, EntriesKept DEF SameEntries
<1>10. \A v \in Sessions : SessionIsRight(v)'
 <2> SUFFICES ASSUME NEW v \in Sessions \ {u}
              PROVE  SessionIsRight(v)'
   OBVIOUS
 <2>1. SessionIsRight(v) BY DEF IInv
 <2> QED BY Zenon, <1>2, <1>4, <2>1 DEF SessionIsRight, Usable, Target, Exists
<1>11. MasterIsRight' BY <1>2, MasterKept
<1> QED BY <1>2, <1>3, <1>7, <1>8, <1>9, <1>10, <1>11 DEF IInv

\* The session was not, and is not, in the part of ibuf_insert that has the latch.
LEMMA LatchUnmoved ==
    ASSUME IInv, NEW u \in Sessions, NEW b \in Labels \ {"bitmap", "buffer"}, pc' = [pc EXCEPT ![u] = b],
           pc[u] \notin {"bitmap", "buffer"}, UNCHANGED <<ibuf_latch, io>>
    PROVE  LatchIsRight' /\ ibuf_latch' \in Sessions \cup Pages \cup {Nobody}
<1>1. \A v \in Sessions : pc'[v] = IF v = u THEN b ELSE pc[v] BY DEF IInv, ThreadTypes
<1> QED BY <1>1 DEF IInv, LatchIsRight, ThreadTypes

LEMMA BeginKeeps ==
    ASSUME IInv, NEW u \in Sessions, Begin(u)
    PROVE  IInv'
<1>1. /\ todo[u] # <<>> /\ Usable(SpaceOf[Target(u)])
      /\ Head(todo[u]) \in Entries => plan.later \/ space[SpaceOf[Target(u)]].version = 1
      /\ pc[u] = "idle" /\ pc' = [pc EXCEPT ![u] = "search"]
      /\ UNCHANGED <<fil_vars, pool_vars, ibuf_vars, todo, master, ddl, evictions, plan, inserted>>
  BY DEF Begin, Go
<1>2. /\ UNCHANGED <<space, io>> /\ pc'[u] = "search" BY <1>1, SamePool DEF IInv, ThreadTypes
<1>3. SessionIsRight(u)' BY <1>1, <1>2 DEF SessionIsRight, Usable, Target, Exists
<1>4. LatchIsRight' /\ ibuf_latch' \in Sessions \cup Pages \cup {Nobody}
  BY <1>1, <1>2, LatchUnmoved DEF Labels, ibuf_vars
<1> QED BY <1>1, <1>3, <1>4, SessionMoves DEF Labels, ibuf_vars

LEMMA SearchKeeps ==
    ASSUME IInv, NEW u \in Sessions, Search(u)
    PROVE  IInv'
<1>1. PICK b \in {"ibuf", "get"} :
          /\ pc[u] = "search" /\ pc' = [pc EXCEPT ![u] = b]
          /\ b = "ibuf" => Head(todo[u]) \in Entries /\ Target(u) \in Leaves
          /\ UNCHANGED <<fil_vars, pool_vars, ibuf_vars, todo, master, ddl, evictions, plan, inserted>>
  BY DEF Search, Go
<1>2. UNCHANGED <<space, io>> /\ pc'[u] = b BY <1>1, SamePool DEF IInv, ThreadTypes
<1>3. SessionIsRight(u)'
 <2>1. SessionIsRight(u) BY DEF IInv
 <2> QED BY <1>1, <1>2, <2>1 DEF SessionIsRight, Usable, Target, Exists
<1>4. LatchIsRight' /\ ibuf_latch' \in Sessions \cup Pages \cup {Nobody}
  BY <1>1, <1>2, LatchUnmoved DEF Labels, ibuf_vars
<1> QED BY <1>1, <1>3, <1>4, SessionMoves DEF Labels, ibuf_vars

LEMMA GetKeeps ==
    ASSUME IInv, NEW u \in Sessions, Get(u)
    PROVE  IInv'
<1>1. SessionIsRight(u) /\ pc[u] = "get" BY DEF IInv, Get
<1>2. PICK p \in Pages : p = Target(u) BY <1>1, TargetFacts DEF IInv, SessionIsRight
<1>3. UNCHANGED <<ibuf_vars, todo, master, ddl, evictions, plan, inserted>> BY DEF Get
<1>4. CASE InitForRead(p, 0, FALSE) /\ UNCHANGED pc BY <1>3, <1>4, InitForReadKeeps
<1>5. CASE Unzip(p) /\ UNCHANGED pc BY <1>3, <1>5, UnzipKeeps
<1>6. CASE pc' = [pc EXCEPT ![u] = "latch"] /\ UNCHANGED <<fil_vars, pool_vars>>
 <2>1. UNCHANGED <<space, io>> /\ pc'[u] = "latch" BY <1>6, SamePool DEF IInv, ThreadTypes
 <2>2. SessionIsRight(u)' BY <1>1, <1>3, <2>1 DEF SessionIsRight, Usable, Target, Exists
 <2>3. LatchIsRight' /\ ibuf_latch' \in Sessions \cup Pages \cup {Nobody}
   BY <1>1, <1>3, <1>6, <2>1, LatchUnmoved DEF Labels, ibuf_vars
 <2> QED BY <1>3, <1>6, <2>2, <2>3, SessionMoves DEF Labels, ibuf_vars
<1> QED BY <1>2, <1>4, <1>5, <1>6 DEF Get, Go

LEMMA LatchIbufKeeps ==
    ASSUME IInv, NEW u \in Sessions, LatchIbuf(u)
    PROVE  IInv'
<1>1. /\ ibuf_latch = Nobody /\ ibuf_latch' = u
      /\ pc[u] = "ibuf" /\ pc' = [pc EXCEPT ![u] = "bitmap"]
      /\ UNCHANGED <<fil_vars, pool_vars, buffered, todo, master, ddl, evictions, plan, inserted>>
  BY DEF LatchIbuf, Go
<1>2. /\ UNCHANGED <<space, io>> /\ pc'[u] = "bitmap"
      /\ \A v \in Sessions \ {u} : pc'[v] = pc[v]
  BY <1>1, SamePool DEF IInv, ThreadTypes
<1>3. SessionIsRight(u)'
 <2>1. SessionIsRight(u) BY DEF IInv
 <2> QED BY <1>1, <1>2, <2>1 DEF SessionIsRight, Usable, Target, Exists
<1>4. LatchIsRight' BY <1>1, <1>2, Places DEF IInv, LatchIsRight
<1> QED BY <1>1, <1>3, <1>4, SessionMoves DEF Labels

LEMMA DoNotBufferKeeps ==
    ASSUME IInv, NEW u \in Sessions, DoNotBuffer(u)
    PROVE  IInv'
<1>1. /\ ibuf_latch' = Nobody
      /\ pc[u] = "bitmap" /\ pc' = [pc EXCEPT ![u] = "get"]
      /\ UNCHANGED <<fil_vars, pool_vars, buffered, todo, master, ddl, evictions, plan, inserted>>
  BY DEF DoNotBuffer, Go
<1>2. /\ UNCHANGED <<space, io>> /\ pc'[u] = "get"
      /\ \A v \in Sessions \ {u} : pc'[v] = pc[v]
  BY <1>1, SamePool DEF IInv, ThreadTypes
<1>3. SessionIsRight(u)'
 <2>1. SessionIsRight(u) BY DEF IInv
 <2> QED BY <1>1, <1>2, <2>1 DEF SessionIsRight, Usable, Target, Exists
<1>4. LatchIsRight' BY <1>1, <1>2, Places DEF IInv, LatchIsRight
<1> QED BY <1>1, <1>3, <1>4, SessionMoves DEF Labels

LEMMA GetBitmapKeeps ==
    ASSUME IInv, NEW p \in Leaves, GetBitmap(p),
           UNCHANGED <<ibuf_vars, pc, todo, master, ddl, evictions, plan, inserted>>
    PROVE  IInv'
<1>1. PICK bm \in Pages : bm = BitmapOf[p] BY Places
<1>2. InitForRead(bm, 0, FALSE) \/ Unzip(bm) BY <1>1 DEF GetBitmap
<1> QED BY <1>2, InitForReadKeeps, UnzipKeeps

LEMMA ReadBitmapKeeps ==
    ASSUME IInv, NEW u \in Sessions, ReadBitmap(u)
    PROVE  IInv'
<1>1. Target(u) \in Leaves BY DEF IInv, SessionIsRight, ReadBitmap
<1> QED BY <1>1, GetBitmapKeeps DEF ReadBitmap

LEMMA ReadBitmapForMergeKeeps ==
    ASSUME IInv, NEW p \in Pages, ReadBitmapForMerge(p)
    PROVE  IInv'
<1>1. p \in Leaves BY DEF IInv, PageIsRight, ReadBitmapForMerge, InMerge
<1> QED BY <1>1, GetBitmapKeeps DEF ReadBitmapForMerge, OtherThreads, thread_vars

-----------------------------------------------------------------------------
(* Steps that move entries; no tablespace changes in them *)

LEMMA SpacesStay ==
    ASSUME IInv, UNCHANGED <<space, tablespace_version, plan, ddl, where>>,
           \A e \in inserted' : e \in inserted \/ Usable(SpaceOf[Home[e]]),
           \A e \in buffered' : e \in buffered \/ Usable(SpaceOf[Home[e]])
    PROVE  OthersUntouched' /\ TargetIsRight(plan.target)' /\ GoneIsRight(plan.target)'
<1>1. PICK t \in Spaces : t = plan.target /\ plan' = plan BY PlanFacts DEF IInv
<1>2. OthersUntouched' /\ TargetIsRight(plan.target)'
  BY DEF IInv, OthersUntouched, TargetIsRight, Untouched, Quiet, Exists, NoMerges
<1>3. GoneIsRight(plan.target)'
 <2>1. GoneIsRight(t) BY <1>1 DEF IInv
 <2>2. ddl \notin {"idle", "done"} => ~ Usable(t) BY <1>1 DEF Usable
 <2>3. ddl = "free" => \A p \in PagesOf(t) : ~ Resident(p)' BY <2>1 DEF GoneIsRight, Resident
 <2>4. ddl \in Discarded => \A e \in inserted' : SpaceOf[Home[e]] # t
   BY <2>1, <2>2 DEF GoneIsRight, Discarded
 <2>5. ddl \in {"import_clean", "import"} => \A e \in buffered' : SpaceOf[Home[e]] # t
   BY <2>1, <2>2 DEF GoneIsRight
 <2> QED BY <1>1, <2>3, <2>4, <2>5 DEF GoneIsRight, PagesOf, Resident
<1> QED BY <1>2, <1>3

LEMMA LeavesStay ==
    ASSUME IInv, UNCHANGED <<space, where, io>>,
           \A q \in Pages : Content(q) \cap Leaves \subseteq Content(q)',
           \A q \in Leaves : Expected(q)' => Expected(q) \/ (~ Resident(q) /\ q \in Content(BitmapOf[q])')
    PROVE  \A q \in Leaves : LeafIsRight(q)'
<1> SUFFICES ASSUME NEW q \in Leaves, Expected(q)'
             PROVE  /\ Unmerged(q)'
                    /\ ~ space'[SpaceOf[q]].is_being_deleted => q \in Content(BitmapOf[q])'
  BY DEF LeafIsRight
<1>1. PICK b \in Pages : b = BitmapOf[q] BY Places
<1>2. CASE Expected(q)
 <2>1. LeafIsRight(q) BY DEF IInv
 <2>2. Unmerged(q) /\ (~ space[SpaceOf[q]].is_being_deleted => q \in Content(b))
   BY <1>1, <1>2, <2>1 DEF LeafIsRight
 <2> QED BY <1>1, <2>2 DEF Unmerged
<1>3. CASE ~ Resident(q) /\ q \in Content(BitmapOf[q])' BY <1>3 DEF Unmerged, Resident
<1> QED BY <1>2, <1>3

LEMMA OtherSessions ==
    ASSUME IInv, NEW u \in Sessions, UNCHANGED <<space, plan, ddl>>,
           \A v \in Sessions \ {u} : pc'[v] = pc[v] /\ todo'[v] = todo[v]
    PROVE  \A v \in Sessions \ {u} : SessionIsRight(v)'
<1> SUFFICES ASSUME NEW v \in Sessions \ {u}
             PROVE  SessionIsRight(v)'
  OBVIOUS
<1>1. SessionIsRight(v) BY DEF IInv
<1> QED BY <1>1 DEF SessionIsRight, Usable, Target, Exists

LEMMA OthersComing ==
    ASSUME NEW u \in Sessions, \A v \in Sessions \ {u} : pc'[v] = pc[v] /\ todo'[v] = todo[v],
           pc'[u] # "buffer", NEW q, Coming(q)'
    PROVE  Coming(q)
<1>1. PICK v \in Sessions : pc'[v] = "buffer" /\ Target(v)' = q BY DEF Coming
<1> QED BY <1>1 DEF Coming, Target

\* The contents of one page change.
LEMMA ChangeKeeps ==
    ASSUME IInv, NEW p \in Pages, NEW c \in SUBSET Contents, Change(p, c),
           UNCHANGED <<fil_vars, where, io, born, disk, cached>>,
           Resident(p), io[p] \notin {"read", "reading", "written"} \/ c = frame[p]
    PROVE  /\ Files' /\ PoolTypes' /\ PagesCounted' /\ CachedAreRight' /\ \A q \in Pages : PageIsRight(q)'
           /\ KeepsSpaces /\ UNCHANGED <<space, tablespace_version>>
           /\ frame'[p] = c
           /\ \A q \in Pages : q # p => Content(q)' = Content(q) /\ frame'[q] = frame[q]
           /\ io[p] \notin {"read", "reading"} => Content(p) = frame[p] /\ Content(p)' = c
           /\ c = frame[p] => \A q \in Pages : Content(q)' = Content(q) /\ frame'[q] = frame[q]
<1>1. PoolTypes /\ Files /\ PagesCounted /\ CachedAreRight BY DEF IInv
<1>2. /\ Files' /\ KeepsSpaces /\ KeepsCounters /\ UNCHANGED <<space, node, flushing, tablespace_version>>
      /\ \A s \in Spaces : SameCounts(s)
  BY <1>1, SameFiles
<1>3. /\ frame' = [frame EXCEPT ![p] = c]
      /\ dirty' = IF c = frame[p] THEN dirty ELSE dirty \cup {p}
  BY DEF Change
<1>4. PoolTypes' BY <1>1, <1>3 DEF PoolTypes
<1>5. PagesCounted' BY <1>1, <1>2 DEF PagesCounted, PagesIn, PagesOf
<1>6. CachedAreRight' BY <1>1, <1>2, CachedKept
<1>7. frame'[p] = c /\ \A q \in Pages \ {p} : frame'[q] = frame[q] BY <1>1, <1>3 DEF PoolTypes
<1>8. \A q \in Pages : PageIsRight(q)'
 <2> SUFFICES ASSUME NEW q \in Pages PROVE PageIsRight(q)' OBVIOUS
 <2>1. PageIsRight(q) /\ Current(q)' = Current(q) /\ Resident(q)' = Resident(q)
   BY <1>2 DEF IInv, Current, Exists, Resident
 <2>2. q # p \/ c = frame[p] => frame'[q] = frame[q] /\ (q \in dirty' <=> q \in dirty)
   BY <1>3, <1>7
 <2>3. CASE q # p \/ c = frame[p] BY <1>2, <2>1, <2>2, <2>3 DEF PageIsRight
 <2>4. CASE q = p /\ c # frame[p]
  <3>1. p \in dirty' /\ io[p] # "written" BY <1>3, <2>4
  <3> QED BY <1>2, <2>1, <2>4, <3>1 DEF PageIsRight
 <2> QED BY <2>3, <2>4
<1> QED BY <1>2, <1>4, <1>5, <1>6, <1>7, <1>8 DEF Content, Resident

\* The session takes the first of what it has to do off its list.
LEMMA TailKeeps ==
    ASSUME ThreadTypes, TodoIsRight, NEW u \in Sessions, todo[u] # <<>>, todo' = [todo EXCEPT ![u] = Tail(@)]
    PROVE  /\ TodoIsRight' /\ todo' \in [Sessions -> Seq(Entries \cup Pages)]
           /\ \A v \in Sessions \ {u} : todo'[v] = todo[v]
           /\ \A e \in Entries : Pending(e)' => Pending(e) /\ e # Head(todo[u])
           /\ Pending(Head(todo[u]))
<1>1. todo[u] \in Seq(Entries \cup Pages) /\ todo \in [Sessions -> Seq(Entries \cup Pages)]
  BY DEF ThreadTypes
<1>2. PICK t \in Seq(Entries \cup Pages) : t = Tail(todo[u]) BY <1>1, HeadTailProperties
<1>3. \A i \in DOMAIN t : i + 1 \in DOMAIN todo[u] /\ t[i] = todo[u][i + 1] /\ i \in Nat /\ i # 0
  BY <1>1, <1>2
<1>4. todo'[u] = t /\ \A v \in Sessions \ {u} : todo'[v] = todo[v] BY <1>1, <1>2
<1>5. todo' \in [Sessions -> Seq(Entries \cup Pages)] BY <1>1, <1>2
<1>6. 1 \in DOMAIN todo[u] /\ Head(todo[u]) = todo[u][1] BY <1>1
\* Where an item was before.
<1> DEFINE was(v, i) == IF v = u THEN i + 1 ELSE i
<1>7. \A v \in Sessions : \A i \in DOMAIN todo'[v] :
          was(v, i) \in DOMAIN todo[v] /\ todo'[v][i] = todo[v][was(v, i)]
  BY <1>3, <1>4
<1>8. TodoIsRight'
 <2> SUFFICES ASSUME NEW v \in Sessions, NEW w \in Sessions, NEW i \in DOMAIN todo'[v], NEW j \in DOMAIN todo'[w],
                     todo'[v][i] = todo'[w][j], todo'[v][i] \in Entries
              PROVE  v = w /\ i = j
   BY DEF TodoIsRight
 <2>1. PICK m \in DOMAIN todo[v] : m = was(v, i) /\ todo[v][m] = todo'[v][i] BY <1>7
 <2>2. PICK n \in DOMAIN todo[w] : n = was(w, j) /\ todo[w][n] = todo'[w][j] BY <1>7
 <2>3. v = w /\ m = n BY <2>1, <2>2 DEF TodoIsRight
 <2>4. v = u => i \in Nat /\ j \in Nat BY <1>3, <1>4, <2>3
 <2> QED BY <2>1, <2>2, <2>3, <2>4
<1>9. ASSUME NEW e \in Entries, Pending(e)'
      PROVE  Pending(e) /\ e # Head(todo[u])
 <2>0. PICK v \in Sessions : \E i \in DOMAIN todo'[v] : todo'[v][i] = e BY <1>9 DEF Pending
 <2>1. PICK i \in DOMAIN todo'[v] : todo'[v][i] = e BY <2>0
 <2>2. was(v, i) \in DOMAIN todo[v] /\ todo[v][was(v, i)] = e BY <1>7, <2>1
 <2>3. Pending(e) BY <2>2 DEF Pending
 <2>4. e = Head(todo[u]) => v = u /\ was(v, i) = 1 BY <1>6, <2>2 DEF TodoIsRight
 <2>5. v = u => i + 1 # 1 BY <1>3, <1>4
 <2> QED BY <2>3, <2>4, <2>5
<1> QED BY <1>4, <1>5, <1>6, <1>8, <1>9 DEF Pending

LEMMA SetBitKeeps ==
    ASSUME IInv, NEW u \in Sessions, SetBit(u)
    PROVE  IInv'
<1>1. PICK p \in Leaves : p = Target(u) BY DEF IInv, SessionIsRight, SetBit, Go
<1>2. PICK bm \in Pages : bm = BitmapOf[p] /\ bm # p BY <1>1, Places
<1>3. /\ pc[u] = "bitmap" /\ pc' = [pc EXCEPT ![u] = "buffer"]
      /\ where[bm] = "full" /\ io[bm] = "none" /\ where[p] = "out"
      /\ Change(bm, frame[bm] \cup {p})
      /\ UNCHANGED <<fil_vars, where, io, born, disk, cached, ibuf_vars, todo, master, ddl, evictions, plan, inserted>>
  BY <1>1, <1>2 DEF SetBit, Go, Writable, Resident
<1>4. PICK c \in SUBSET Contents : c = frame[bm] \cup {p} BY ZenonT(60), <1>1, Places DEF IInv, PoolTypes
<1>5. Resident(bm) /\ io[bm] \notin {"read", "reading", "written"} BY <1>3 DEF Resident
<1>6. /\ Files' /\ PoolTypes' /\ PagesCounted' /\ CachedAreRight' /\ \A q \in Pages : PageIsRight(q)'
      /\ KeepsSpaces /\ UNCHANGED <<space, tablespace_version>>
      /\ frame'[bm] = c /\ \A q \in Pages : q # bm => Content(q)' = Content(q) /\ frame'[q] = frame[q]
      /\ Content(bm) = frame[bm] /\ Content(bm)' = c
  BY <1>3, <1>4, <1>5, ChangeKeeps
<1>7. ThreadTypes' BY <1>3 DEF IInv, ThreadTypes, ibuf_vars
<1>8. /\ pc'[u] = "buffer" /\ \A v \in Sessions \ {u} : pc'[v] = pc[v] /\ todo'[v] = todo[v]
      /\ todo'[u] = todo[u] /\ Target(u)' = Target(u)
  BY <1>3 DEF IInv, ThreadTypes, Target
<1>9. LatchIsRight' BY <1>3, <1>8 DEF IInv, LatchIsRight, ibuf_vars
<1>10. OthersUntouched' /\ TargetIsRight(plan.target)' /\ GoneIsRight(plan.target)'
  BY <1>3, <1>6, SpacesStay DEF ibuf_vars
<1>11. \A q \in Leaves : LeafIsRight(q)'
 <2>1. \A q \in Pages : Content(q) \cap Leaves \subseteq Content(q)' BY <1>4, <1>6
 <2>2. ASSUME NEW q \in Leaves, Expected(q)'
       PROVE  Expected(q) \/ (~ Resident(q) /\ q \in Content(BitmapOf[q])')
  <3>1. CASE buffered \cap EntriesOf(q) # {} BY <3>1 DEF Expected
  <3>2. CASE Coming(q)'
   <4>1. PICK v \in Sessions : pc'[v] = "buffer" /\ Target(v)' = q BY <3>2 DEF Coming
   <4>2. CASE v = u BY <1>1, <1>2, <1>3, <1>4, <1>6, <1>8, <4>1, <4>2 DEF Resident
   <4>3. CASE v # u BY <1>8, <4>1, <4>3 DEF Expected, Coming, Target
   <4> QED BY <4>2, <4>3
  <3> QED BY <1>3, <2>2, <3>1, <3>2 DEF Expected, ibuf_vars, EntriesOf
 <2> QED BY <1>3, <1>6, <2>1, <2>2, LeavesStay
<1>12. TodoIsRight' /\ \A e \in Entries : EntryIsRight(e)'
 <2>1. TodoIsRight' BY <1>3 DEF IInv, TodoIsRight
 <2> SUFFICES ASSUME NEW e \in Entries PROVE EntryIsRight(e)' BY <2>1
 <2>2. PICK h \in Pages : h = Home[e] BY Places
 <2>3. e # p BY <1>1, Places
 <2>4. (e \in Content(h)' <=> e \in Content(h)) /\ (e \in frame'[h] <=> e \in frame[h])
   BY <1>4, <1>6, <2>3
 <2>5. EntryIsRight(e) BY DEF IInv
 <2> QED
   BY <1>3, <1>6, <2>2, <2>4, <2>5 DEF EntryIsRight, EntryIsNew, EntryIsPlaced, Pending, ibuf_vars
<1>13. \A v \in Sessions : SessionIsRight(v)'
 <2>1. SessionIsRight(u)'
  <3>1. SessionIsRight(u) BY DEF IInv
  <3> QED BY <1>3, <1>6, <1>8, <3>1 DEF SessionIsRight, Usable, Exists
 <2> QED BY <1>3, <1>6, <1>8, <2>1, OtherSessions
<1>14. MasterIsRight' BY <1>3, <1>6, MasterKept
<1> QED BY <1>6, <1>7, <1>9, <1>10, <1>11, <1>12, <1>13, <1>14 DEF IInv

\* A read, or an insert on the page.
LEMMA AccessKeeps ==
    ASSUME IInv, NEW u \in Sessions, Access(u)
    PROVE  IInv'
<1>0. PoolTypes /\ ThreadTypes /\ TodoIsRight /\ SessionIsRight(u) /\ LatchIsRight BY DEF IInv
<1>1. /\ pc[u] = "latch" /\ pc' = [pc EXCEPT ![u] = "idle"] /\ todo[u] # <<>>
      /\ Usable(SpaceOf[Target(u)])
      /\ UNCHANGED <<fil_vars, where, io, born, disk, cached, ibuf_vars, master, ddl, evictions, plan>>
  BY <1>0 DEF Access, Go, SessionIsRight
<1>2. PICK p \in Pages : p = Target(u) BY <1>0, <1>1, TargetFacts
<1>3. PICK x \in Entries \cup Pages :
          x = Head(todo[u]) /\ (x \in Entries => p = Home[x] /\ x \in Contents) /\ Pending(x)
  BY <1>0, <1>1, <1>2, TargetFacts, TailKeeps, Places DEF Pending
<1>4. PICK done \in SUBSET Entries : done = {x} \cap Entries OBVIOUS
<1>5. /\ IF done = {} THEN Readable(p) ELSE Writable(p)
      /\ Change(p, frame[p] \cup done)
      /\ todo' = [todo EXCEPT ![u] = Tail(@)] /\ inserted' = inserted \cup done
  BY <1>2, <1>3, <1>4 DEF Access, Return
<1>6. PICK c \in SUBSET Contents : c = frame[p] \cup done BY <1>0, <1>4, Places DEF PoolTypes
<1>7. /\ Resident(p) /\ io[p] \notin {"read", "reading"}
      /\ io[p] # "written" \/ c = frame[p]
  BY <1>5, <1>6 DEF Readable, Writable, Resident, BeingRead, ReadPhases
<1>8. /\ Files' /\ PoolTypes' /\ PagesCounted' /\ CachedAreRight' /\ \A q \in Pages : PageIsRight(q)'
      /\ KeepsSpaces /\ UNCHANGED <<space, tablespace_version>>
      /\ frame'[p] = c /\ \A q \in Pages : q # p => Content(q)' = Content(q) /\ frame'[q] = frame[q]
      /\ Content(p) = frame[p] /\ Content(p)' = c
  BY <1>1, <1>5, <1>6, <1>7, ChangeKeeps
<1>9. /\ TodoIsRight' /\ todo' \in [Sessions -> Seq(Entries \cup Pages)]
      /\ \A v \in Sessions \ {u} : todo'[v] = todo[v]
      /\ \A e \in Entries : Pending(e)' => Pending(e) /\ e # x
  BY <1>0, <1>1, <1>3, <1>5, TailKeeps
<1>10. ThreadTypes' BY <1>0, <1>1, <1>4, <1>5, <1>9 DEF ThreadTypes, ibuf_vars
<1>11. pc'[u] = "idle" /\ \A v \in Sessions \ {u} : pc'[v] = pc[v] BY <1>0, <1>1 DEF ThreadTypes
<1>12. LatchIsRight' BY <1>0, <1>1, <1>11 DEF LatchIsRight, ibuf_vars
<1>13. OthersUntouched' /\ TargetIsRight(plan.target)' /\ GoneIsRight(plan.target)'
 <2>1. \A e \in inserted' : e \in inserted \/ Usable(SpaceOf[Home[e]])
   BY <1>1, <1>2, <1>3, <1>4, <1>5
 <2> QED BY <1>1, <1>8, <2>1, SpacesStay DEF ibuf_vars
<1>14. \A q \in Leaves : LeafIsRight(q)'
 <2>1. \A q \in Pages : Content(q) \cap Leaves \subseteq Content(q)' BY <1>6, <1>8
 <2>2. ASSUME NEW q \in Leaves, Expected(q)'
       PROVE  Expected(q)
  <3>1. Coming(q)' => Coming(q) BY <1>9, <1>11, OthersComing
  <3> QED BY <1>1, <2>2, <3>1 DEF Expected, ibuf_vars, EntriesOf
 <2> QED BY <1>1, <1>8, <2>1, <2>2, LeavesStay
<1>15. ASSUME NEW e \in Entries
       PROVE  EntryIsRight(e)'
 <2>1. PICK h \in Pages : h = Home[e] BY Places
 <2>2. EntryIsRight(e) BY DEF IInv
 <2>3. CASE e = x
  <3>1. ~ Pending(e)' /\ EntryIsNew(e) BY <1>3, <1>9, <2>2, <2>3 DEF EntryIsRight
  <3>2. e \in inserted' /\ e \notin buffered' /\ e \in Content(h)'
    BY <1>1, <1>3, <1>4, <1>5, <1>6, <1>8, <2>1, <2>3, <3>1 DEF EntryIsNew, ibuf_vars
  <3>3. space'[SpaceOf[h]].version # 1 => plan'.later
    BY <1>0, <1>1, <1>2, <1>3, <1>8, <2>1, <2>3 DEF SessionIsRight
  <3> QED BY <2>1, <3>1, <3>2, <3>3 DEF EntryIsRight, EntryIsPlaced
 <2>4. CASE e # x
  <3>1. /\ (e \in Content(h)' <=> e \in Content(h)) /\ (e \in frame'[h] <=> e \in frame[h])
        /\ (e \in inserted' <=> e \in inserted)
    BY <1>4, <1>5, <1>6, <1>8, <2>4
  <3> QED
    BY <1>1, <1>8, <1>9, <2>1, <2>2, <3>1 DEF EntryIsRight, EntryIsNew, EntryIsPlaced, ibuf_vars
 <2> QED BY <2>3, <2>4
<1>16. \A v \in Sessions : SessionIsRight(v)'
 <2>1. SessionIsRight(u)' BY <1>11 DEF SessionIsRight
 <2> QED BY <1>1, <1>8, <1>9, <1>11, <2>1, OtherSessions
<1>17. MasterIsRight' BY <1>1, <1>8, MasterKept
<1> QED BY <1>8, <1>9, <1>10, <1>12, <1>13, <1>14, <1>15, <1>16, <1>17 DEF IInv

\* An entry comes to the insert buffer.
LEMMA BufferKeeps ==
    ASSUME IInv, NEW u \in Sessions, Buffer(u)
    PROVE  IInv'
<1>0. PoolTypes /\ ThreadTypes /\ TodoIsRight /\ SessionIsRight(u) /\ LatchIsRight BY DEF IInv
<1>1. /\ pc[u] = "buffer" /\ pc' = [pc EXCEPT ![u] = "idle"] /\ todo[u] # <<>>
      /\ Usable(SpaceOf[Target(u)]) /\ Head(todo[u]) \in Entries /\ Target(u) \in Leaves
      /\ ibuf_latch' = Nobody
      /\ UNCHANGED <<fil_vars, pool_vars, master, ddl, evictions, plan>>
  BY <1>0 DEF Buffer, Go, SessionIsRight
<1>2. PICK p \in Pages : p = Target(u) /\ p \in Leaves BY <1>1, Places
<1>3. PICK x \in Entries : x = Head(todo[u]) /\ p = Home[x] /\ Pending(x)
  BY <1>0, <1>1, <1>2, TargetFacts DEF Pending
<1>4. /\ buffered' = buffered \cup {x} /\ inserted' = inserted \cup {x}
      /\ todo' = [todo EXCEPT ![u] = Tail(@)]
  BY <1>3 DEF Buffer, Return
<1>5. /\ Files' /\ PoolTypes' /\ PagesCounted' /\ CachedAreRight' /\ \A q \in Pages : PageIsRight(q)'
      /\ KeepsSpaces /\ KeepsContents /\ tablespace_version' = tablespace_version
      /\ UNCHANGED <<where, io, born, dirty, frame, disk, cached, space>>
  BY <1>1, SamePool
<1>6. /\ TodoIsRight' /\ todo' \in [Sessions -> Seq(Entries \cup Pages)]
      /\ \A v \in Sessions \ {u} : todo'[v] = todo[v]
      /\ \A e \in Entries : Pending(e)' => Pending(e) /\ e # x
  BY <1>0, <1>1, <1>3, <1>4, TailKeeps
<1>7. ThreadTypes' BY <1>0, <1>1, <1>4, <1>6 DEF ThreadTypes
<1>8. pc'[u] = "idle" /\ \A v \in Sessions \ {u} : pc'[v] = pc[v] BY <1>0, <1>1 DEF ThreadTypes
<1>9. LatchIsRight'
 <2>1. ibuf_latch = u BY <1>0, <1>1 DEF LatchIsRight
 <2> QED BY <1>0, <1>1, <1>5, <1>8, <2>1, Places DEF LatchIsRight
<1>10. OthersUntouched' /\ TargetIsRight(plan.target)' /\ GoneIsRight(plan.target)'
 <2>1. /\ \A e \in inserted' : e \in inserted \/ Usable(SpaceOf[Home[e]])
       /\ \A e \in buffered' : e \in buffered \/ Usable(SpaceOf[Home[e]])
   BY <1>1, <1>2, <1>3, <1>4
 <2> QED BY <1>1, <1>5, <2>1, SpacesStay
<1>11. \A q \in Leaves : LeafIsRight(q)'
 <2>1. \A q \in Pages : Content(q) \cap Leaves \subseteq Content(q)' BY <1>5 DEF Content, Resident
 <2>2. ASSUME NEW q \in Leaves, Expected(q)'
       PROVE  Expected(q)
  <3>1. Coming(q)' => Coming(q) BY <1>6, <1>8, OthersComing
  <3>2. Coming(p) BY <1>1, <1>2 DEF Coming
  <3>3. buffered' \cap EntriesOf(q) # {} => buffered \cap EntriesOf(q) # {} \/ q = p
    BY <1>3, <1>4 DEF EntriesOf
  <3> QED BY <2>2, <3>1, <3>2, <3>3 DEF Expected, EntriesOf
 <2> QED BY <1>5, <2>1, <2>2, LeavesStay
<1>12. ASSUME NEW e \in Entries
       PROVE  EntryIsRight(e)'
 <2>1. PICK h \in Pages : h = Home[e] BY Places
 <2>2. EntryIsRight(e) BY DEF IInv
 <2>3. Content(h)' = Content(h) BY <1>5 DEF Content, Resident
 <2>4. CASE e = x
  <3>1. ~ Pending(e)' /\ EntryIsNew(e) BY <1>3, <1>6, <2>2, <2>4 DEF EntryIsRight
  <3>2. e \in inserted' /\ e \in buffered' /\ e \notin Content(h)'
    BY <1>4, <2>1, <2>3, <2>4, <3>1 DEF EntryIsNew, Content
  <3>3. space'[SpaceOf[h]].version # 1 => plan'.later
    BY <1>0, <1>1, <1>2, <1>3, <1>5, <2>1, <2>4 DEF SessionIsRight
  <3> QED BY <1>2, <1>3, <2>1, <2>4, <3>1, <3>2, <3>3 DEF EntryIsRight, EntryIsPlaced
 <2>5. CASE e # x
  <3>1. (e \in inserted' <=> e \in inserted) /\ (e \in buffered' <=> e \in buffered) BY <1>4, <2>5
  <3> QED BY <1>1, <1>5, <1>6, <2>1, <2>2, <2>3, <3>1 DEF EntryIsRight, EntryIsNew, EntryIsPlaced
 <2> QED BY <2>4, <2>5
<1>13. \A v \in Sessions : SessionIsRight(v)'
 <2>1. SessionIsRight(u)' BY <1>8 DEF SessionIsRight
 <2> QED BY <1>1, <1>5, <1>6, <1>8, <2>1, OtherSessions
<1>14. MasterIsRight' BY <1>1, <1>5, MasterKept
<1> QED BY <1>5, <1>6, <1>7, <1>9, <1>10, <1>11, <1>12, <1>13, <1>14 DEF IInv

-----------------------------------------------------------------------------
(* Merges and deletions *)

LEMMA MergeEntryKeeps ==
    ASSUME IInv, NEW p \in Pages, MergeEntry(p)
    PROVE  IInv'
<1>0. PoolTypes /\ ThreadTypes /\ LatchIsRight /\ PageIsRight(p) BY DEF IInv
<1>1. PICK x \in buffered \cap EntriesOf(p) :
          Change(p, frame[p] \cup {x}) /\ buffered' = buffered \ {x}
  BY DEF MergeEntry
<1>2. /\ io[p] = "merge" /\ ibuf_latch \in {Nobody, p} /\ ibuf_latch' \in {Nobody, p}
      /\ UNCHANGED <<fil_vars, where, io, born, disk, cached, thread_vars, plan, inserted>>
  BY DEF MergeEntry, MayLatchIbuf, OtherThreads
<1>3. x \in Entries /\ Home[x] = p /\ x \in Contents BY <1>1, Places DEF EntriesOf
<1>4. PICK c \in SUBSET Contents : c = frame[p] \cup {x} BY <1>0, <1>3 DEF PoolTypes
<1>5. Resident(p) BY <1>0, <1>2 DEF PageIsRight
<1>6. /\ Files' /\ PoolTypes' /\ PagesCounted' /\ CachedAreRight' /\ \A q \in Pages : PageIsRight(q)'
      /\ KeepsSpaces /\ UNCHANGED <<space, tablespace_version>>
      /\ frame'[p] = c /\ \A q \in Pages : q # p => Content(q)' = Content(q) /\ frame'[q] = frame[q]
      /\ Content(p) = frame[p] /\ Content(p)' = c
  BY <1>1, <1>2, <1>4, <1>5, ChangeKeeps
<1>7. ThreadTypes' BY <1>0, <1>1, <1>2 DEF ThreadTypes, thread_vars
<1>8. LatchIsRight'
 <2>1. Nobody \notin Pages /\ \A u \in Sessions : u # p /\ u # Nobody BY Places
 <2>2. UNCHANGED <<pc, io>> BY <1>2 DEF thread_vars
 <2>3. \A u \in Sessions : pc[u] \notin {"bitmap", "buffer"} /\ ibuf_latch' # u
   BY <1>0, <1>2, <2>1 DEF LatchIsRight
 <2>4. \A q \in Pages : io[q] # "reset" /\ (ibuf_latch' = q => q = p)
   BY <1>0, <1>2, <2>1 DEF LatchIsRight
 <2> QED BY <1>2, <2>2, <2>3, <2>4 DEF LatchIsRight
<1>9. OthersUntouched' /\ TargetIsRight(plan.target)' /\ GoneIsRight(plan.target)'
  BY <1>1, <1>2, <1>6, SpacesStay DEF thread_vars
<1>10. \A q \in Leaves : LeafIsRight(q)'
 <2>1. \A q \in Pages : Content(q) \cap Leaves \subseteq Content(q)' BY <1>4, <1>6
 <2>2. \A q \in Leaves : Expected(q)' => Expected(q)
   BY <1>1, <1>2 DEF Expected, Coming, Target, EntriesOf, thread_vars
 <2> QED BY <1>2, <1>6, <2>1, <2>2, LeavesStay
<1>11. TodoIsRight' BY <1>2 DEF IInv, TodoIsRight, thread_vars
<1>12. ASSUME NEW e \in Entries
       PROVE  EntryIsRight(e)'
 <2>1. PICK h \in Pages : h = Home[e] BY Places
 <2>2. EntryIsRight(e) BY DEF IInv
 <2>3. Pending(e)' <=> Pending(e) BY <1>2 DEF Pending, thread_vars
 <2>4. CASE e = x
  <3>1. ~ Pending(e)' /\ e \in Content(h)' /\ e \notin buffered' /\ Home[e] \in Leaves
    BY <1>1, <1>3, <1>4, <1>6, <2>1, <2>2, <2>3, <2>4 DEF EntryIsRight, EntryIsNew
  <3> QED BY <1>2, <1>6, <2>1, <2>2, <3>1 DEF EntryIsRight, EntryIsPlaced
 <2>5. CASE e # x
  <3>1. /\ (e \in Content(h)' <=> e \in Content(h)) /\ (e \in frame'[h] <=> e \in frame[h])
        /\ (e \in buffered' <=> e \in buffered)
    BY <1>1, <1>4, <1>6, <2>5
  <3> QED BY <1>2, <1>6, <2>1, <2>2, <2>3, <3>1 DEF EntryIsRight, EntryIsNew, EntryIsPlaced
 <2> QED BY <2>4, <2>5
<1>13. \A u \in Sessions : SessionIsRight(u)' BY <1>2, <1>6, SessionsKept DEF thread_vars
<1>14. MasterIsRight' BY <1>2, <1>6, MasterKept DEF thread_vars
<1> QED BY <1>6, <1>7, <1>8, <1>9, <1>10, <1>11, <1>12, <1>13, <1>14 DEF IInv

\* The bit of the page is reset, on another page.
LEMMA ResetBitKeeps ==
    ASSUME IInv, NEW p \in Pages, ResetBit(p)
    PROVE  IInv'
<1>0. /\ PoolTypes /\ ThreadTypes /\ LatchIsRight /\ PageIsRight(p) /\ Files /\ PagesCounted
      /\ CachedAreRight
  BY DEF IInv
<1>1. /\ io[p] = "reset" /\ io' = [io EXCEPT ![p] = "merged"] /\ ibuf_latch' = Nobody
      /\ Writable(BitmapOf[p]) /\ Change(BitmapOf[p], frame[BitmapOf[p]] \ {p})
      /\ UNCHANGED <<fil_vars, where, born, disk, cached, buffered, thread_vars, plan, inserted>>
  BY DEF ResetBit, Advance, OtherThreads
<1>2. p \in Leaves /\ where[p] = "full" BY <1>0, <1>1 DEF PageIsRight, InMerge
<1>3. PICK bm \in Pages : bm = BitmapOf[p] /\ bm # p BY <1>2, Places
<1>4. PICK c \in SUBSET Contents : c = frame[bm] \ {p} BY <1>0 DEF PoolTypes
<1>5. where[bm] = "full" /\ io[bm] = "none" BY <1>1, <1>3 DEF Writable
<1>6. /\ frame' = [frame EXCEPT ![bm] = c]
      /\ dirty' = IF c = frame[bm] THEN dirty ELSE dirty \cup {bm}
  BY <1>1, <1>3, <1>4 DEF Change
<1>7. /\ Files' /\ KeepsSpaces /\ KeepsCounters /\ UNCHANGED <<space, node, flushing, tablespace_version>>
      /\ \A s \in Spaces : SameCounts(s)
  BY <1>0, <1>1, SameFiles
<1>8. PoolTypes' BY <1>0, <1>1, <1>4, <1>6 DEF PoolTypes, ReadPhases
<1>9. ThreadTypes' BY <1>0, <1>1 DEF ThreadTypes, thread_vars
<1>10. PagesCounted' BY <1>0, <1>1, <1>7, CountsKept DEF PageGoes, InIo, InMerge
<1>11. CachedAreRight' BY <1>0, <1>1, <1>7, CachedKept
<1>12. /\ io'[p] = "merged" /\ frame'[bm] = c
       /\ \A q \in Pages : (q # p => io'[q] = io[q]) /\ (q # bm => frame'[q] = frame[q])
  BY <1>0, <1>1, <1>6 DEF PoolTypes
<1>13. LatchIsRight'
 <2>1. ibuf_latch = p /\ \A u \in Sessions : u # p /\ u # Nobody
   BY <1>0, <1>1, Places DEF LatchIsRight
 <2> QED BY <1>0, <1>1, <1>12, <2>1, Places DEF LatchIsRight, thread_vars
<1>14. ASSUME NEW q \in Pages
       PROVE  PageIsRight(q)'
 <2>1. PageIsRight(q) /\ Current(q)' = Current(q) /\ Resident(q)' = Resident(q)
   BY <1>1, <1>7 DEF IInv, Current, Exists, Resident
 <2>2. CASE q = bm
  <3>1. c = frame[bm] \/ bm \in dirty' BY <1>6
  <3>2. io'[bm] = "none" /\ Resident(bm) BY <1>3, <1>5, <1>12 DEF Resident
  <3>3. c = frame[bm] => dirty' = dirty BY <1>6
  <3> QED BY <1>1, <1>5, <1>12, <2>1, <2>2, <3>1, <3>2, <3>3 DEF PageIsRight, Unread, InMerge
 <2>3. CASE q = p
  <3>1. p \in dirty' <=> p \in dirty BY <1>3, <1>6
  <3> QED BY <1>1, <1>2, <1>3, <1>12, <2>1, <2>3, <3>1 DEF PageIsRight, Unread, InMerge
 <2>4. CASE q # bm /\ q # p
  <3>1. q \in dirty' <=> q \in dirty BY <1>6, <2>4
  <3> QED BY <1>1, <1>7, <1>12, <2>1, <2>4, <3>1 DEF PageIsRight
 <2> QED BY <2>2, <2>3, <2>4
<1>15. OthersUntouched' /\ TargetIsRight(plan.target)' /\ GoneIsRight(plan.target)'
  BY <1>1, <1>7, SpacesStay DEF thread_vars
<1>16. \A q \in Pages : IF q = bm THEN Content(q)' = Content(q) \ {p} ELSE Content(q)' = Content(q)
 <2> SUFFICES ASSUME NEW q \in Pages
              PROVE  IF q = bm THEN Content(q)' = Content(q) \ {p} ELSE Content(q)' = Content(q)
   OBVIOUS
 <2>1. CASE q = bm BY <1>1, <1>3, <1>4, <1>5, <1>12, <2>1 DEF Content, Resident
 <2>2. CASE q = p BY <1>1, <1>2, <1>3, <1>12, <2>2 DEF Content, Resident
 <2>3. CASE q # bm /\ q # p BY <1>1, <1>12, <2>3 DEF Content, Resident
 <2> QED BY <2>1, <2>2, <2>3
<1>17. ASSUME NEW q \in Leaves
       PROVE  LeafIsRight(q)'
 <2>1. Expected(q)' = Expected(q) /\ ~ Expected(p)
   BY <1>1, <1>2, MergedIsRight DEF Expected, Coming, Target, EntriesOf, thread_vars
 <2>2. CASE q = p BY <2>1, <2>2 DEF LeafIsRight
 <2>3. CASE q # p
  <3>1. PICK b \in Pages : b = BitmapOf[q] /\ q \in Pages BY Places
  <3>2. LeafIsRight(q) BY DEF IInv
  <3>3. q \in Content(b) => q \in Content(b)' BY <1>16, <2>3
  <3>4. Unmerged(q)' = Unmerged(q) BY <1>1, <1>12, <2>3, <3>1 DEF Unmerged
  <3> QED BY <1>7, <2>1, <3>1, <3>2, <3>3, <3>4 DEF LeafIsRight
 <2> QED BY <2>2, <2>3
<1>18. TodoIsRight' BY <1>1 DEF IInv, TodoIsRight, thread_vars
<1>19. ASSUME NEW e \in Entries
       PROVE  EntryIsRight(e)'
 <2>1. PICK h \in Pages : h = Home[e] /\ e # p BY Places
 <2>2. EntryIsRight(e) BY DEF IInv
 <2>3. (e \in Content(h)' <=> e \in Content(h)) /\ (e \in frame'[h] <=> e \in frame[h])
   BY <1>4, <1>12, <1>16, <2>1
 <2> QED
   BY <1>1, <1>7, <2>1, <2>2, <2>3 DEF EntryIsRight, EntryIsNew, EntryIsPlaced, Pending,
      thread_vars
<1>20. \A u \in Sessions : SessionIsRight(u)' BY <1>1, <1>7, SessionsKept DEF thread_vars
<1>21. MasterIsRight' BY <1>1, <1>7, MasterKept DEF thread_vars
<1> QED
  BY <1>7, <1>8, <1>9, <1>10, <1>11, <1>13, <1>14, <1>15, <1>17, <1>18, <1>19, <1>20, <1>21 DEF IInv

\* Without the latch nobody is about to buffer an entry.
LEMMA NobodyComes ==
    ASSUME IInv, ibuf_latch = Nobody, NEW p
    PROVE  ~ Coming(p)
  BY Places DEF IInv, LatchIsRight, Coming

LEMMA DeleteInsteadKeeps ==
    ASSUME IInv, NEW p \in Pages, DeleteInstead(p)
    PROVE  IInv'
<1>1. /\ ibuf_latch = Nobody /\ io[p] = "delete" /\ io' = [io EXCEPT ![p] = "complete"]
      /\ buffered' = buffered \ EntriesOf(p)
      /\ UNCHANGED <<fil_vars, where, born, dirty, frame, disk, cached, ibuf_latch, thread_vars, plan, inserted>>
  BY DEF DeleteInstead, Advance, OtherThreads
<1>2. /\ PoolTypes /\ ThreadTypes /\ Files /\ PagesCounted /\ LatchIsRight /\ CachedAreRight
      /\ PageIsRight(p)
  BY DEF IInv
<1>3. /\ Files' /\ KeepsSpaces /\ KeepsCounters /\ UNCHANGED <<space, node, flushing, tablespace_version>>
      /\ \A s \in Spaces : SameCounts(s)
  BY <1>1, <1>2, SameFiles
<1>4. PoolTypes' BY <1>1, <1>2 DEF PoolTypes, ReadPhases
<1>5. ThreadTypes' BY <1>1, <1>2 DEF ThreadTypes, thread_vars
<1>6. PagesCounted' BY <1>1, <1>2, <1>3, CountsKept DEF PageGoes, InIo, InMerge
<1>7. CachedAreRight' BY <1>1, <1>2, <1>3, CachedKept
<1>8. LatchIsRight' BY <1>1, LatchKept, Places DEF thread_vars
<1>9. io'[p] = "complete" /\ OnlyPage(p) BY <1>1, <1>2 DEF PoolTypes, OnlyPage
<1>10. \A q \in Pages : PageIsRight(q)'
 <2>1. PageIsRight(p)'
   BY <1>1, <1>2, <1>3, <1>9 DEF PageIsRight, Resident, Current, Unread, InMerge, Exists
 <2> QED BY <1>3, <1>9, <2>1, PagesKept
<1>11. KeepsContents
 <2>1. ~ Expected(p)'
  <3>1. ~ Coming(p) BY <1>1, NobodyComes
  <3>2. ~ Coming(p)' BY <1>1, <3>1 DEF Coming, Target, thread_vars
  <3> QED BY <1>1, <3>2 DEF Expected, EntriesOf
 <2>2. KeepsContent(p) BY <1>1, <1>2, <1>9, <2>1 DEF KeepsContent, Content, Resident, PageIsRight
 <2> QED BY <1>9, <2>2, ContentsKept
<1>12. OthersUntouched' /\ TargetIsRight(plan.target)' /\ GoneIsRight(plan.target)'
  BY <1>1, <1>3, <1>11, SpacesKept DEF thread_vars
<1>13. \A q \in Leaves : LeafIsRight(q)'
 <2>1. \A q \in Leaves : Expected(q)' => Expected(q)
   BY <1>1 DEF Expected, Coming, Target, EntriesOf, thread_vars
 <2> QED BY <1>3, <1>11, <2>1, LeavesKept
<1>14. TodoIsRight' /\ \A e \in Entries : EntryIsRight(e)'
 <2>1. \A e \in buffered \ buffered' : Deleted(e) BY <1>1, <1>2 DEF PageIsRight, Deleted, EntriesOf
 <2> QED BY <1>1, <1>3, <1>11, <2>1, EntriesDeleted DEF thread_vars
<1>15. \A u \in Sessions : SessionIsRight(u)' BY <1>1, <1>3, SessionsKept DEF thread_vars
<1>16. MasterIsRight' BY <1>1, <1>3, MasterKept DEF thread_vars
<1> QED BY <1>3, <1>4, <1>5, <1>6, <1>7, <1>8, <1>10, <1>12, <1>13, <1>14, <1>15, <1>16 DEF IInv

-----------------------------------------------------------------------------
(* The master thread *)

LEMMA MasterMoves ==
    ASSUME IInv, UNCHANGED <<fil_vars, pool_vars, ibuf_latch, pc, todo, ddl, evictions, plan, inserted>>,
           buffered' \subseteq buffered, \A e \in buffered \ buffered' : Deleted(e),
           MasterIsRight', master' \in [at : {"idle", "read", "delete"}, page : Pages \cup {Nobody}, version : Nat]
    PROVE  IInv'
<1>1. /\ Files' /\ PoolTypes' /\ PagesCounted' /\ CachedAreRight' /\ \A q \in Pages : PageIsRight(q)'
      /\ KeepsSpaces /\ KeepsContents /\ tablespace_version' = tablespace_version
      /\ UNCHANGED <<where, io, born, dirty, frame, disk, cached, space>>
  BY SamePool
<1>2. ThreadTypes' /\ LatchIsRight' BY <1>1 DEF IInv, ThreadTypes, LatchIsRight
<1>3. OthersUntouched' /\ TargetIsRight(plan.target)' /\ GoneIsRight(plan.target)'
  BY <1>1, SpacesKept
<1>4. \A q \in Leaves : LeafIsRight(q)'
 <2>1. \A q \in Leaves : Expected(q)' => Expected(q) BY DEF Expected, Coming, Target, EntriesOf
 <2> QED BY <1>1, <2>1, LeavesKept
<1>5. TodoIsRight' /\ \A e \in Entries : EntryIsRight(e)' BY <1>1, EntriesDeleted
<1>6. \A u \in Sessions : SessionIsRight(u)' BY <1>1, SessionsKept
<1> QED BY <1>1, <1>2, <1>3, <1>4, <1>5, <1>6 DEF IInv

LEMMA PickPageKeeps ==
    ASSUME IInv, PickPage
    PROVE  IInv'
<1>1. PICK e \in buffered :
          master' = [at |-> "read", page |-> Home[e],
                     version |-> IF Exists(SpaceOf[Home[e]]) THEN space[SpaceOf[Home[e]]].version ELSE 0]
  BY DEF PickPage
<1>2. UNCHANGED <<fil_vars, pool_vars, ibuf_vars, pc, todo, ddl, evictions, plan, inserted>>
  BY DEF PickPage
<1>3. PICK h \in Pages : h = Home[e] BY <1>1, Places DEF IInv, ThreadTypes
<1>4. PICK s \in Spaces : s = SpaceOf[h] BY Places
<1>5. space[s].version \in Nat /\ space' = space BY <1>2, FileFields, SamePool DEF IInv, Files
<1>6. master'.at = "read" /\ master'.page = h /\ master'.version \in {0, space[s].version}
  BY <1>1, <1>3, <1>4
<1>7. MasterIsRight' BY <1>3, <1>4, <1>5, <1>6 DEF MasterIsRight
<1>8. master' \in [at : {"idle", "read", "delete"}, page : Pages \cup {Nobody}, version : Nat]
  BY <1>1, <1>3, <1>4, <1>5
<1> QED BY <1>2, <1>7, <1>8, MasterMoves DEF ibuf_vars

LEMMA ReadForMergeKeeps ==
    ASSUME IInv, ReadForMerge
    PROVE  IInv'
<1>1. /\ master.at = "read" /\ ThreadTypes /\ MasterIsRight
      /\ UNCHANGED <<ibuf_vars, pc, todo, ddl, evictions, plan, inserted>>
  BY DEF ReadForMerge, IInv
<1>2. PICK p \in Pages : p = master.page BY <1>1 DEF MasterIsRight
<1>3. CASE InitForRead(p, master.version, TRUE) /\ master' = NoMerge BY <1>1, <1>3, InitForReadKeeps
<1>4. CASE master' = NoMerge /\ UNCHANGED <<fil_vars, pool_vars>>
 <2>1. MasterIsRight' /\ master' \in [at : {"idle", "read", "delete"}, page : Pages \cup {Nobody}, version : Nat]
   BY <1>4 DEF MasterIsRight, NoMerge
 <2> QED BY <1>1, <1>4, <2>1, MasterMoves DEF ibuf_vars
<1>5. CASE /\ DeletedOrBeingDeleted(SpaceOf[p], master.version)
           /\ master' = [master EXCEPT !.at = "delete"]
           /\ UNCHANGED <<fil_vars, pool_vars>>
 <2>1. PICK s \in Spaces : s = SpaceOf[p] BY Places
 <2>2. master \in [at : {"idle", "read", "delete"}, page : Pages \cup {Nobody}, version : Nat]
   BY <1>1 DEF ThreadTypes
 <2>3. /\ master' \in [at : {"idle", "read", "delete"}, page : Pages \cup {Nobody}, version : Nat]
       /\ master'.at = "delete" /\ master'.page = p
   BY <1>2, <1>5, <2>2
 <2>4. space[s].stop_ibuf_merges \/ space[s].version # 1
   BY <1>1, <1>2, <1>5, <2>1, DeletedStops DEF DeletedOrBeingDeleted, MasterIsRight
 <2>5. MasterIsRight' BY <1>5, <2>1, <2>3, <2>4, SamePool DEF MasterIsRight
 <2> QED BY <1>1, <1>5, <2>3, <2>5, MasterMoves DEF ibuf_vars
<1> QED BY <1>2, <1>3, <1>4, <1>5 DEF ReadForMerge

LEMMA DeleteEntriesKeeps ==
    ASSUME IInv, DeleteEntries
    PROVE  IInv'
<1>1. /\ master.at = "delete" /\ MasterIsRight /\ buffered' = buffered \ EntriesOf(master.page)
      /\ master' = NoMerge
      /\ UNCHANGED <<fil_vars, pool_vars, ibuf_latch, pc, todo, ddl, evictions, plan, inserted>>
  BY DEF DeleteEntries, IInv
<1>2. \A e \in buffered \ buffered' : Deleted(e) BY <1>1 DEF MasterIsRight, Deleted, EntriesOf
<1>3. MasterIsRight' /\ master' \in [at : {"idle", "read", "delete"}, page : Pages \cup {Nobody}, version : Nat]
  BY <1>1 DEF MasterIsRight, NoMerge
<1> QED BY <1>1, <1>2, <1>3, MasterMoves

-----------------------------------------------------------------------------
(* Flushes *)

\* Of what is there to show, when only a call of fil_flush takes a step.
LEMMA CallSteps ==
    ASSUME IInv, UNCHANGED <<where, io, born, dirty, frame, disk, ibuf_vars, thread_vars, plan, inserted>>,
           Files', KeepsSpaces, tablespace_version' = tablespace_version,
           \A s \in Spaces : SameCounts(s), cached' \subseteq cached, CachedAreRight'
    PROVE  IInv'
<1>1. PoolTypes /\ ThreadTypes /\ PagesCounted /\ LatchIsRight BY DEF IInv
<1>2. PoolTypes' /\ ThreadTypes' BY <1>1 DEF PoolTypes, ThreadTypes, ibuf_vars, thread_vars
<1>3. PagesCounted' BY <1>1 DEF PagesCounted, PagesIn, PagesOf, SameCounts
<1>4. LatchIsRight' BY <1>1 DEF LatchIsRight, ibuf_vars, thread_vars
<1>5. \A q \in Pages : PageIsRight(q)'
 <2> SUFFICES ASSUME NEW q \in Pages
              PROVE  PageIsRight(q)'
   OBVIOUS
 <2>1. PageIsRight(q) /\ SpaceOf[q] \in Spaces BY Places DEF IInv
 <2> QED BY <2>1 DEF PageIsRight, Resident, Current, KeepsSpaces
<1>6. KeepsContents
 <2>1. \A q \in Leaves : Expected(q) => Unmerged(q) BY DEF IInv, LeafIsRight
 <2> QED BY <2>1 DEF KeepsContents, Content, Resident, Unmerged
<1>7. SameEntries /\ UNCHANGED <<plan, ddl, pc, todo, master, buffered, inserted>>
  BY DEF SameEntries, ibuf_vars, thread_vars
<1>8. OthersUntouched' /\ TargetIsRight(plan.target)' /\ GoneIsRight(plan.target)'
  BY <1>6, <1>7, SpacesKept
<1>9. \A q \in Leaves : LeafIsRight(q)'
 <2>1. \A q \in Leaves : Expected(q)' => Expected(q) BY <1>7 DEF Expected, Coming, Target
 <2> QED BY <1>6, <2>1, LeavesKept
<1>10. TodoIsRight' /\ \A e \in Entries : EntryIsRight(e)' BY <1>6, <1>7, EntriesKept
<1>11. \A u \in Sessions : SessionIsRight(u)' BY <1>7, SessionsKept
<1>12. MasterIsRight' BY <1>7, MasterKept
<1> QED BY <1>2, <1>3, <1>4, <1>5, <1>8, <1>9, <1>10, <1>11, <1>12 DEF IInv

\* What is cached stays right when no more calls are done, and the counters are
\* what they were.
LEMMA NoMoreDone ==
    ASSUME Files, CachedAreRight, KeepsSpaces, KeepsCounters, cached' = cached, NEW f \in Flushers,
           \A g \in Flushers \ {f} : flushing'[g] = flushing[g], flushing'[f].at # "done"
    PROVE  CachedAreRight'
<1> SUFFICES ASSUME NEW s \in Spaces, cached \cap PagesOf(s) # {}
             PROVE  /\ Exists(s)' => Unflushed(s)'
                    /\ \A g \in CallsAt(s, {"done"})' :
                           flushing'[g].old_mod_counter < node'[s].modification_counter
  BY DEF CachedAreRight, PagesOf
<1>1. /\ Exists(s) => Unflushed(s)
      /\ \A g \in CallsAt(s, {"done"}) : flushing[g].old_mod_counter < node[s].modification_counter
  BY DEF CachedAreRight
<1>2. Exists(s)' => Unflushed(s)' BY <1>1 DEF Unflushed, Exists, KeepsSpaces, KeepsCounters
<1>3. ASSUME NEW g \in CallsAt(s, {"done"})'
      PROVE  flushing'[g].old_mod_counter < node'[s].modification_counter
 <2>1. g \in Flushers /\ flushing'[g].at = "done" /\ flushing'[g].space = s BY <1>3 DEF CallsAt
 <2>2. g \in Flushers \ {f} BY <2>1
 <2>3. g \in CallsAt(s, {"done"}) /\ flushing'[g] = flushing[g] BY <2>1, <2>2 DEF CallsAt
 <2> QED BY <1>1, <2>3 DEF KeepsCounters
<1> QED BY <1>2, <1>3

LEMMA FlushSpaceKeeps ==
    ASSUME IInv, NEW f \in Flushers, FlushSpace(f)
    PROVE  IInv'
<1>1. PICK s \in Spaces : StartFlush(f, s) BY DEF FlushSpace
<1>2. UNCHANGED <<where, io, born, dirty, frame, disk, cached, ibuf_vars, thread_vars, plan, inserted>>
  BY DEF FlushSpace, OtherThreads, pool_vars
<1>3. Files /\ CachedAreRight BY DEF IInv
<1>4. /\ Files' /\ KeepsSpaces /\ KeepsCounters /\ tablespace_version' = tablespace_version
      /\ flushing'[f].at # "done" /\ \A g \in Flushers \ {f} : flushing'[g] = flushing[g]
      /\ \A x \in Spaces : SameCounts(x)
  BY <1>1, <1>3, StartFlushKeeps DEF SameCounts
<1>5. CachedAreRight' BY <1>2, <1>3, <1>4, NoMoreDone
<1> QED BY <1>2, <1>4, <1>5, CallSteps

\* The operating system has written what it had cached of the file.
LEMMA FlushCachedKeeps ==
    ASSUME IInv, NEW f \in Flushers, FlushCached(f), UNCHANGED <<ibuf_vars, thread_vars, plan, inserted>>
    PROVE  IInv'
<1>1. /\ OsFlush(f) /\ UNCHANGED <<where, io, born, dirty, frame, disk>>
      /\ cached' = cached \ PagesOf(flushing[f].space)
  BY DEF FlushCached
<1>2. Files /\ CachedAreRight BY DEF IInv
<1>3. /\ Files' /\ UNCHANGED <<space, node, tablespace_version>>
      /\ \A g \in Flushers \ {f} : flushing'[g] = flushing[g]
      /\ flushing'[f].space = flushing[f].space
  BY <1>1, <1>2, OsFlushKeeps
<1>4. KeepsSpaces /\ \A s \in Spaces : SameCounts(s)
  BY <1>3 DEF KeepsSpaces, SameCounts, Exists, NoMerges
<1>5. CachedAreRight'
 <2> SUFFICES ASSUME NEW s \in Spaces, cached' \cap PagesOf(s) # {}
              PROVE  /\ Exists(s)' => Unflushed(s)'
                     /\ \A g \in CallsAt(s, {"done"})' :
                            flushing'[g].old_mod_counter < node'[s].modification_counter
   BY DEF CachedAreRight, PagesOf
 <2>1. cached \cap PagesOf(s) # {} /\ s # flushing[f].space BY <1>1
 <2>2. /\ Exists(s) => Unflushed(s)
       /\ \A g \in CallsAt(s, {"done"}) : flushing[g].old_mod_counter < node[s].modification_counter
   BY <1>2, <2>1 DEF CachedAreRight
 <2>3. \A g \in CallsAt(s, {"done"})' : g \in CallsAt(s, {"done"}) /\ flushing'[g] = flushing[g]
   BY <1>3, <2>1 DEF CallsAt
 <2> QED BY <1>3, <2>2, <2>3 DEF Exists, Unflushed
<1> QED BY <1>1, <1>3, <1>4, <1>5, CallSteps

\* A call that has flushed the file takes for flushed what was written before it;
\* what is cached still was written later.
LEMMA EndFlushKeeps ==
    ASSUME IInv, NEW f \in Flushers, EndFlush(f),
           UNCHANGED <<pool_vars, ibuf_vars, thread_vars, plan, inserted>>
    PROVE  IInv'
<1>0. Files /\ CachedAreRight /\ FilTypes BY DEF IInv, Files
<1>1. UNCHANGED <<where, io, born, dirty, frame, disk, cached, ibuf_vars, thread_vars, plan, inserted>>
  BY DEF pool_vars
<1>2. flushing[f].at = "done" /\ FlushedTo(f, flushing[f].old_mod_counter, 1) BY DEF EndFlush
<1>3. PICK s \in Spaces : s = flushing[f].space BY <1>0, FlushFields
<1>4. PICK old \in Nat : old = flushing[f].old_mod_counter BY <1>0, FlushFields
<1>5. /\ Files' /\ KeepsSpaces /\ tablespace_version' = tablespace_version
      /\ flushing'[f].at = "none" /\ \A g \in Flushers \ {f} : flushing'[g] = flushing[g]
      /\ \A x \in Spaces :
             /\ SameCounts(x)
             /\ node'[x].modification_counter = node[x].modification_counter
             /\ node'[x].flush_counter = IF x = s /\ node[x].flush_counter < old THEN old
                                         ELSE node[x].flush_counter
 <2>1. 1 \in {0, 1} /\ FlushedTo(f, old, 1) /\ flushing[f].at = (IF 1 = 1 THEN "done" ELSE "wait")
   BY <1>2, <1>4
 <2> QED BY <1>0, <1>3, <1>4, <2>1, FlushedKeeps DEF SameCounts
<1>6. CachedAreRight'
 <2> SUFFICES ASSUME NEW x \in Spaces, cached \cap PagesOf(x) # {}
              PROVE  /\ Exists(x)' => Unflushed(x)'
                     /\ \A g \in CallsAt(x, {"done"})' :
                            flushing'[g].old_mod_counter < node'[x].modification_counter
   BY <1>1 DEF CachedAreRight, PagesOf
 <2>1. /\ Exists(x) => Unflushed(x)
       /\ \A g \in CallsAt(x, {"done"}) : flushing[g].old_mod_counter < node[x].modification_counter
   BY <1>0 DEF CachedAreRight
 <2>2. \A g \in CallsAt(x, {"done"})' : g \in CallsAt(x, {"done"}) /\ flushing'[g] = flushing[g]
   BY <1>5 DEF CallsAt
 <2>3. x = s => old < node[x].modification_counter
  <3>1. x = s => f \in CallsAt(x, {"done"}) BY <1>2, <1>3 DEF CallsAt
  <3> QED BY <1>4, <2>1, <3>1
 <2>4. Exists(x)' = Exists(x) BY <1>5 DEF KeepsSpaces
 <2>5. Exists(x)' => Unflushed(x)' BY <1>5, <2>1, <2>3, <2>4 DEF Unflushed
 <2> QED BY <1>5, <2>1, <2>2, <2>5
<1> QED BY <1>1, <1>5, <1>6, CallSteps

\* A call that has waited flushes the file, or finds it flushed.
LEMMA RetryFlushKeeps ==
    ASSUME IInv, NEW f \in Flushers, RetryFlush(f),
           UNCHANGED <<pool_vars, ibuf_vars, thread_vars, plan, inserted>>
    PROVE  IInv'
<1>0. Files /\ CachedAreRight /\ FilTypes BY DEF IInv, Files
<1>1. UNCHANGED <<where, io, born, dirty, frame, disk, cached, ibuf_vars, thread_vars, plan, inserted>>
  BY DEF pool_vars
<1>2. PICK s \in Spaces : s = flushing[f].space BY <1>0, FlushFields
<1>3. PICK old \in Nat : old = flushing[f].old_mod_counter BY <1>0, FlushFields
<1>4. /\ Files' /\ KeepsSpaces /\ KeepsCounters /\ tablespace_version' = tablespace_version
      /\ flushing'[f].at # "done" /\ \A g \in Flushers \ {f} : flushing'[g] = flushing[g]
      /\ \A x \in Spaces : SameCounts(x)
 <2>1. CASE FlushesNow(f) BY <1>0, <2>1, FlushesNowKeeps DEF SameCounts
 <2>2. CASE /\ flushing[f].at = "wait" /\ node[s].flush_counter >= old
            /\ FlushedTo(f, flushing[f].old_mod_counter, 0)
  <3>1. /\ 0 \in {0, 1} /\ FlushedTo(f, old, 0)
        /\ flushing[f].at = (IF 0 = 1 THEN "done" ELSE "wait")
    BY <1>3, <2>2
  <3>2. /\ Files' /\ KeepsSpaces /\ tablespace_version' = tablespace_version
        /\ flushing'[f].at = "none" /\ \A g \in Flushers \ {f} : flushing'[g] = flushing[g]
        /\ \A x \in Spaces :
               /\ node'[x].n_pending = node[x].n_pending
               /\ node'[x].modification_counter = node[x].modification_counter
               /\ node'[x].flush_counter = IF x = s /\ node[x].flush_counter < old THEN old
                                           ELSE node[x].flush_counter
               /\ space'[x].n_pending_ibuf_merges = space[x].n_pending_ibuf_merges
    BY <1>0, <1>2, <1>3, <3>1, FlushedKeeps
  <3>3. node[s].flush_counter \in Nat BY <1>0, FileFields
  <3>4. KeepsCounters BY <2>2, <3>2, <3>3 DEF KeepsCounters
  <3> QED BY <3>2, <3>4 DEF SameCounts
 <2> QED BY <1>2, <1>3, <2>1, <2>2 DEF RetryFlush, FlushesNow
<1>5. CachedAreRight' BY <1>0, <1>1, <1>4, NoMoreDone
<1> QED BY <1>1, <1>4, <1>5, CallSteps

LEMMA FlushStepKeeps ==
    ASSUME IInv, NEW f \in Flushers, FlushStep(f)
    PROVE  IInv'
<1>1. UNCHANGED <<ibuf_vars, thread_vars, plan, inserted>> BY DEF FlushStep, OtherThreads
<1>2. CASE FlushCached(f) BY <1>1, <1>2, FlushCachedKeeps
<1>3. CASE RetryFlush(f) /\ UNCHANGED pool_vars BY <1>1, <1>3, RetryFlushKeeps
<1>4. CASE EndFlush(f) /\ UNCHANGED pool_vars BY <1>1, <1>4, EndFlushKeeps
<1> QED BY <1>2, <1>3, <1>4 DEF FlushStep

-----------------------------------------------------------------------------
(* The session that drops, discards and imports, or renames *)

LEMMA SessionsAway ==
    ASSUME IInv, ddl \notin {"idle", "done"}, NEW u \in Sessions, pc[u] # "idle"
    PROVE  SpaceOf[Target(u)] # plan.target
  BY DEF IInv, SessionIsRight, Usable

\* No session has business with the tablespace, which stays what it is but for
\* its flags, none of which is reset if another thread looks at it.
LEMMA FlagsStep ==
    ASSUME IInv, UNCHANGED <<pool_vars, ibuf_vars, pc, todo, master, evictions, plan, inserted>>,
           UNCHANGED <<flushing, tablespace_version>>, Files', KeepsCounters,
           \A u \in Sessions : pc[u] # "idle" => SpaceOf[Target(u)] # plan.target,
           ddl' \in {"stop_merges", "stop_io", "invalidate", "rename", "done"},
           \A s \in Spaces :
               /\ SameCounts(s) /\ Exists(s)' = Exists(s) /\ space'[s].version = space[s].version
               /\ space[s].is_being_deleted => space'[s].is_being_deleted
               /\ space[s].stop_ibuf_merges => space'[s].stop_ibuf_merges,
           \A s \in Spaces \ {plan.target} : Untouched(s)',
           TargetIsRight(plan.target)'
    PROVE  IInv'
<1>0. /\ UNCHANGED <<where, io, born, dirty, frame, disk, cached>>
      /\ UNCHANGED <<buffered, ibuf_latch, pc, todo, master, evictions, plan, inserted>>
  BY DEF pool_vars, ibuf_vars
<1>1. PoolTypes /\ ThreadTypes /\ PagesCounted /\ LatchIsRight /\ CachedAreRight BY DEF IInv
<1>2. PoolTypes' /\ ThreadTypes' BY <1>0, <1>1 DEF PoolTypes, ThreadTypes, DdlLabels
<1>3. PagesCounted' /\ LatchIsRight'
 <2>1. PagesCounted' BY <1>0, <1>1 DEF PagesCounted, PagesIn, SameCounts
 <2>2. LatchIsRight' BY <1>0, <1>1 DEF LatchIsRight
 <2> QED BY <2>1, <2>2
<1>4. CachedAreRight'
 <2> SUFFICES ASSUME NEW s \in Spaces, cached \cap PagesOf(s) # {}
              PROVE  /\ Exists(s)' => Unflushed(s)'
                     /\ \A g \in CallsAt(s, {"done"})' :
                            flushing'[g].old_mod_counter < node'[s].modification_counter
   BY <1>0 DEF CachedAreRight, PagesOf
 <2>1. /\ Exists(s) => Unflushed(s)
       /\ \A g \in CallsAt(s, {"done"}) : flushing[g].old_mod_counter < node[s].modification_counter
   BY <1>1 DEF CachedAreRight
 <2>2. Exists(s)' => Unflushed(s)' BY Zenon, <2>1 DEF Unflushed, Exists, KeepsCounters
 <2> QED BY <2>1, <2>2 DEF CallsAt, KeepsCounters
<1>5. OthersUntouched' /\ GoneIsRight(plan.target)'
 <2>1. plan.target' = plan.target BY <1>0
 <2>2. OthersUntouched' BY <1>0, <2>1 DEF IInv, OthersUntouched
 <2>3. GoneIsRight(plan.target)' BY DEF GoneIsRight, Discarded
 <2> QED BY <2>2, <2>3
<1>6. ASSUME NEW q \in Pages
      PROVE  PageIsRight(q)'
 <2>1. PageIsRight(q) /\ SpaceOf[q] \in Spaces BY Places DEF IInv
 <2> QED BY <1>0, <2>1 DEF PageIsRight, Resident, Current
<1>7. ASSUME NEW q \in Leaves
      PROVE  LeafIsRight(q)'
 <2>1. LeafIsRight(q) /\ SpaceOf[q] \in Spaces BY Places DEF IInv
 <2>2. Expected(q)' <=> Expected(q) BY <1>0 DEF Expected, Coming, Target
 <2>3. (Unmerged(q)' <=> Unmerged(q)) /\ Content(BitmapOf[q])' = Content(BitmapOf[q])
   BY <1>0 DEF Unmerged, Content, Resident
 <2> QED BY <2>1, <2>2, <2>3 DEF LeafIsRight
<1>8. TodoIsRight' BY <1>0 DEF IInv, TodoIsRight
<1>9. ASSUME NEW e \in Entries
      PROVE  EntryIsRight(e)'
 <2>1. PICK h \in Pages : h = Home[e] /\ SpaceOf[h] \in Spaces BY Places
 <2>2. EntryIsRight(e) BY DEF IInv
 <2>3. Pending(e)' <=> Pending(e) BY <1>0 DEF Pending
 <2>4. Content(h)' = Content(h) BY <1>0 DEF Content, Resident
 <2> QED BY <1>0, <2>1, <2>2, <2>3, <2>4 DEF EntryIsRight, EntryIsNew, EntryIsPlaced
<1>10. ASSUME NEW u \in Sessions
       PROVE  SessionIsRight(u)'
 <2> SUFFICES ASSUME pc[u] # "idle"
              PROVE  SessionIsRight(u)'
   BY <1>0 DEF SessionIsRight
 <2>1. SessionIsRight(u) /\ todo[u] # <<>> BY DEF IInv, SessionIsRight
 <2>2. SpaceOf[Target(u)] \in Spaces /\ SpaceOf[Target(u)] # plan.target
   BY <1>1, <2>1, TargetFacts, Places
 <2> QED BY <1>0, <2>1, <2>2 DEF SessionIsRight, Usable, Target
<1>11. MasterIsRight'
 <2>1. MasterIsRight BY DEF IInv
 <2>2. master.page \in Pages => SpaceOf[master.page] \in Spaces BY Places
 <2> QED BY <1>0, <2>1, <2>2 DEF MasterIsRight
<1> QED BY <1>2, <1>3, <1>4, <1>5, <1>6, <1>7, <1>8, <1>9, <1>10, <1>11 DEF IInv

LEMMA StartDdlKeeps ==
    ASSUME IInv, StartDdl
    PROVE  IInv'
<1>0. Files /\ ThreadTypes /\ OthersUntouched /\ TargetIsRight(plan.target) BY DEF IInv
<1>1. /\ ddl = "idle" /\ ddl' \in {"rename", "stop_merges"}
      /\ \A u \in Sessions : pc[u] # "idle" => SpaceOf[Target(u)] # plan.target
      /\ UNCHANGED <<fil_vars, pool_vars, ibuf_vars, pc, todo, master, evictions, plan, inserted>>
  BY DEF StartDdl, DdlStep, DdlOnly
<1>2. /\ Files' /\ KeepsCounters /\ UNCHANGED <<space, node, flushing, tablespace_version>>
      /\ \A s \in Spaces : SameCounts(s)
  BY <1>0, <1>1, SameFiles
<1>3. \A s \in Spaces \ {plan.target} : Untouched(s)'
  BY <1>0, <1>2 DEF OthersUntouched, Untouched, Exists
<1>4. TargetIsRight(plan.target)'
 <2>1. Untouched(plan.target) /\ space[plan.target].version = 1 BY <1>0, <1>1 DEF TargetIsRight
 <2> QED BY <1>1, <1>2, <2>1 DEF TargetIsRight, Untouched, Exists, Discarded
<1> QED BY <1>1, <1>2, <1>3, <1>4, FlagsStep DEF Exists

LEMMA StopMergesKeeps ==
    ASSUME IInv, StopMerges
    PROVE  IInv'
<1>0. Files /\ ThreadTypes /\ OthersUntouched /\ TargetIsRight(plan.target) BY DEF IInv
<1>1. PICK t \in Spaces : t = plan.target BY <1>0, PlanFacts
<1>2. /\ ddl = "stop_merges" /\ ddl' = (IF NoMerges(t) THEN "stop_io" ELSE "stop_merges")
      /\ StopIbufMerges(t)
      /\ UNCHANGED <<pool_vars, ibuf_vars, pc, todo, master, evictions, plan, inserted>>
  BY <1>1 DEF StopMerges, DdlStep, DdlOnly
<1>3. /\ Files' /\ KeepsOthers(t) /\ UNCHANGED <<node, flushing, tablespace_version>>
      /\ Exists(t)' = Exists(t) /\ space'[t].version = space[t].version
      /\ space'[t].is_being_deleted = space[t].is_being_deleted /\ space'[t].stop_ibuf_merges
      /\ space'[t].n_pending_ibuf_merges = space[t].n_pending_ibuf_merges
  BY <1>0, <1>2, StopIbufMergesKeeps
<1>4. \A u \in Sessions : pc[u] # "idle" => SpaceOf[Target(u)] # plan.target BY <1>2, SessionsAway
<1>5. \A s \in Spaces : /\ SameCounts(s) /\ Exists(s)' = Exists(s) /\ space'[s].version = space[s].version
                        /\ space[s].is_being_deleted => space'[s].is_being_deleted
                        /\ space[s].stop_ibuf_merges => space'[s].stop_ibuf_merges
  BY <1>3 DEF KeepsOthers, SameCounts, Exists
<1>6. \A s \in Spaces \ {plan.target} : Untouched(s)'
  BY <1>0, <1>1, <1>3 DEF OthersUntouched, Untouched, Exists, KeepsOthers
<1>7. TargetIsRight(t)'
 <2>1. Exists(t) /\ ~ space[t].is_being_deleted /\ space[t].version = 1
   BY <1>0, <1>1, <1>2 DEF TargetIsRight
 <2>2. NoMerges(t)' <=> NoMerges(t) BY <1>3 DEF NoMerges
 <2> QED BY <1>2, <1>3, <2>1, <2>2 DEF TargetIsRight, Discarded
<1>8. TargetIsRight(plan.target)' BY <1>1, <1>2, <1>7
<1>9. KeepsCounters BY <1>3 DEF KeepsCounters
<1> QED BY <1>2, <1>3, <1>4, <1>5, <1>6, <1>8, <1>9, FlagsStep

LEMMA StopIoKeeps ==
    ASSUME IInv, StopIo
    PROVE  IInv'
<1>0. Files /\ ThreadTypes /\ OthersUntouched /\ TargetIsRight(plan.target) BY DEF IInv
<1>1. PICK t \in Spaces : t = plan.target BY <1>0, PlanFacts
<1>2. /\ ddl = "stop_io" /\ ddl' = (IF NoIo(t) THEN "invalidate" ELSE "stop_io")
      /\ StartDelete(t)
      /\ UNCHANGED <<pool_vars, ibuf_vars, pc, todo, master, evictions, plan, inserted>>
  BY <1>1 DEF StopIo, DdlStep, DdlOnly
<1>3. Exists(t) /\ space[t].stop_ibuf_merges /\ NoMerges(t) /\ space[t].version = 1
  BY <1>0, <1>1, <1>2 DEF TargetIsRight
<1>4. /\ Files' /\ KeepsOthers(t) /\ UNCHANGED <<node, flushing, tablespace_version>>
      /\ Exists(t)' = Exists(t) /\ space'[t].version = space[t].version
      /\ space'[t].is_being_deleted /\ space'[t].stop_ibuf_merges = space[t].stop_ibuf_merges
      /\ space'[t].n_pending_ibuf_merges = space[t].n_pending_ibuf_merges
      /\ space'[t].n_pending_flushes = space[t].n_pending_flushes
  BY <1>0, <1>2, <1>3, StartDeleteKeeps
<1>5. \A u \in Sessions : pc[u] # "idle" => SpaceOf[Target(u)] # plan.target BY <1>2, SessionsAway
<1>6. \A s \in Spaces : /\ SameCounts(s) /\ Exists(s)' = Exists(s) /\ space'[s].version = space[s].version
                        /\ space[s].is_being_deleted => space'[s].is_being_deleted
                        /\ space[s].stop_ibuf_merges => space'[s].stop_ibuf_merges
  BY <1>4 DEF KeepsOthers, SameCounts, Exists
<1>7. \A s \in Spaces \ {plan.target} : Untouched(s)'
  BY <1>0, <1>1, <1>4 DEF OthersUntouched, Untouched, Exists, KeepsOthers
<1>8. TargetIsRight(t)'
 <2>1. NoMerges(t)' BY <1>3, <1>4 DEF NoMerges
 <2>2. NoIo(t) => Quiet(t)' BY <1>3, <1>4 DEF NoIo, Quiet
 <2> QED BY <1>2, <1>3, <1>4, <2>1, <2>2 DEF TargetIsRight, Discarded
<1>9. TargetIsRight(plan.target)' BY <1>1, <1>2, <1>8
<1>10. KeepsCounters BY <1>4 DEF KeepsCounters
<1> QED BY <1>2, <1>4, <1>5, <1>6, <1>7, <1>9, <1>10, FlagsStep

LEMMA RenameTablespaceKeeps ==
    ASSUME IInv, RenameTablespace
    PROVE  IInv'
<1>0. Files /\ ThreadTypes /\ OthersUntouched /\ TargetIsRight(plan.target) BY DEF IInv
<1>1. PICK t \in Spaces : t = plan.target BY <1>0, PlanFacts
<1>2. /\ ddl = "rename" /\ ddl' \in {"rename", "done"}
      /\ StopIos(t) \/ GiveUpRename(t) \/ Rename(t)
      /\ UNCHANGED <<pool_vars, ibuf_vars, pc, todo, master, evictions, plan, inserted>>
  BY <1>1 DEF RenameTablespace, DdlStep, DdlOnly
<1>3. /\ Files' /\ KeepsSpaces /\ KeepsCounters /\ UNCHANGED <<flushing, tablespace_version>>
      /\ \A s \in Spaces : SameCounts(s)
  BY <1>0, <1>2, RenameKeeps DEF SameCounts
<1>4. \A u \in Sessions : pc[u] # "idle" => SpaceOf[Target(u)] # plan.target BY <1>2, SessionsAway
<1>5. \A s \in Spaces : /\ Exists(s)' = Exists(s) /\ space'[s].version = space[s].version
                        /\ space[s].is_being_deleted => space'[s].is_being_deleted
                        /\ space[s].stop_ibuf_merges => space'[s].stop_ibuf_merges
                        /\ Untouched(s) => Untouched(s)'
  BY <1>3 DEF KeepsSpaces, Untouched
<1>6. \A s \in Spaces \ {plan.target} : Untouched(s)' BY <1>0, <1>5 DEF OthersUntouched
<1>7. TargetIsRight(t)'
 <2>1. Untouched(t) /\ space[t].version = 1 BY <1>0, <1>1, <1>2 DEF TargetIsRight
 <2> QED BY <1>2, <1>5, <2>1 DEF TargetIsRight, Discarded
<1>8. TargetIsRight(plan.target)' BY <1>1, <1>2, <1>7
<1> QED BY <1>2, <1>3, <1>4, <1>5, <1>6, <1>8, FlagsStep

\* Pages of the tablespace that nobody uses leave the pool; no other thread
\* depends on them any more.
LEMMA InvalidateSpaceKeeps ==
    ASSUME IInv, InvalidateSpace
    PROVE  IInv'
<1>0. /\ Files /\ ThreadTypes /\ PoolTypes /\ PagesCounted /\ LatchIsRight /\ CachedAreRight
      /\ OthersUntouched /\ TargetIsRight(plan.target)
  BY DEF IInv
<1>1. PICK t \in Spaces : t = plan.target BY <1>0, PlanFacts
<1>2. PICK gone \in SUBSET Pages : gone = { p \in PagesOf(t) : io[p] = "none" } \ Fixed
  BY DEF PagesOf
<1>3. /\ where' = [p \in Pages |-> IF p \in gone THEN "out" ELSE where[p]]
      /\ dirty' = dirty \ gone
      /\ UNCHANGED <<fil_vars, io, born, frame, disk, cached>>
  BY <1>1, <1>2 DEF InvalidateSpace, Invalidate
<1>4. /\ ddl = "invalidate" /\ ddl' \in {"free", "invalidate"}
      /\ ddl' = "free" => \A p \in PagesOf(t) : where'[p] = "out"
      /\ UNCHANGED <<buffered, ibuf_latch, pc, todo, master, evictions, plan, inserted>>
  BY <1>1 DEF InvalidateSpace, DdlStep, DdlOnly, ibuf_vars
<1>5. /\ Files' /\ KeepsSpaces /\ KeepsCounters /\ UNCHANGED <<space, node, flushing, tablespace_version>>
      /\ \A s \in Spaces : SameCounts(s)
  BY <1>0, <1>3, SameFiles
<1>6. \A q \in Pages : /\ q \in gone => SpaceOf[q] = t /\ io[q] = "none" /\ where'[q] = "out" /\ q \notin dirty'
                       /\ q \notin gone => where'[q] = where[q] /\ (q \in dirty' <=> q \in dirty)
  BY <1>2, <1>3 DEF PagesOf
<1>7. Exists(t) /\ Quiet(t) /\ space[t].version = 1 BY <1>0, <1>1, <1>4 DEF TargetIsRight
<1>8. PoolTypes' /\ ThreadTypes' BY <1>0, <1>3, <1>4 DEF PoolTypes, ThreadTypes, DdlLabels
<1>9. PagesCounted' BY <1>0, <1>3, <1>5 DEF PagesCounted, PagesIn, PagesOf
<1>10. LatchIsRight' BY <1>0, <1>3, <1>4 DEF LatchIsRight
<1>11. CachedAreRight' BY <1>0, <1>3, <1>5, CachedKept
<1>12. OthersUntouched' /\ TargetIsRight(plan.target)' /\ GoneIsRight(plan.target)'
 <2>1. OthersUntouched' BY <1>0, <1>4, <1>5 DEF OthersUntouched, Untouched, Exists
 <2>2. TargetIsRight(t)' /\ GoneIsRight(t)'
   BY <1>4, <1>5, <1>7 DEF TargetIsRight, GoneIsRight, Discarded, Exists, Quiet, Resident, PagesOf
 <2> QED BY <1>1, <1>4, <2>1, <2>2
<1>13. ASSUME NEW q \in Pages
       PROVE  PageIsRight(q)'
 <2>1. PageIsRight(q) BY DEF IInv
 <2>2. CASE q \in gone
  <3>1. io'[q] = "none" /\ where'[q] = "out" /\ q \notin dirty' BY <1>3, <1>6, <2>2
  <3> QED BY <3>1 DEF PageIsRight, Resident, InMerge
 <2>3. CASE q \notin gone
   BY <1>3, <1>5, <1>6, <2>1, <2>3 DEF PageIsRight, Resident, Current, Exists
 <2> QED BY <2>2, <2>3
<1>14. \A q \in Pages : SpaceOf[q] # t => Content(q)' = Content(q)
  BY <1>3, <1>6 DEF Content, Resident
<1>15. ASSUME NEW q \in Leaves
       PROVE  LeafIsRight(q)'
 <2>1. /\ LeafIsRight(q) /\ q \in Pages /\ BitmapOf[q] \in Pages
       /\ SpaceOf[BitmapOf[q]] = SpaceOf[q]
   BY Places DEF IInv
 <2>2. Expected(q)' <=> Expected(q) BY <1>4 DEF Expected, Coming, Target
 <2>3. Unmerged(q) => Unmerged(q)' BY <1>3, <1>6, <2>1 DEF Unmerged
 <2>4. ~ space'[SpaceOf[q]].is_being_deleted => SpaceOf[q] # t BY <1>5, <1>7 DEF Quiet
 <2> QED BY <1>5, <1>14, <2>1, <2>2, <2>3, <2>4 DEF LeafIsRight
<1>16. TodoIsRight' BY <1>4 DEF IInv, TodoIsRight
<1>17. ASSUME NEW e \in Entries
       PROVE  EntryIsRight(e)'
 <2>1. PICK h \in Pages : h = Home[e] BY Places
 <2>2. EntryIsRight(e) BY DEF IInv
 <2>3. Pending(e)' <=> Pending(e) BY <1>4 DEF Pending
 <2>4. ~ space'[SpaceOf[h]].stop_ibuf_merges => SpaceOf[h] # t BY <1>5, <1>7 DEF Quiet
 <2> QED
   BY <1>3, <1>4, <1>5, <1>14, <2>1, <2>2, <2>3, <2>4 DEF EntryIsRight, EntryIsNew, EntryIsPlaced
<1>18. \A u \in Sessions : SessionIsRight(u)' BY <1>4, <1>5, SessionsKept
<1>19. MasterIsRight' BY <1>4, <1>5, MasterKept
<1> QED BY <1>5, <1>8, <1>9, <1>10, <1>11, <1>12, <1>13, <1>15, <1>16, <1>17, <1>18, <1>19 DEF IInv

\* Of a tablespace of which no page is in the pool no i/o is pending.
LEMMA NoPages ==
    ASSUME IInv, NEW s \in Spaces, \A p \in PagesOf(s) : ~ Resident(p)
    PROVE  /\ \A p \in PagesOf(s) : io[p] = "none" /\ p \notin dirty
           /\ node[s].n_pending = 0 /\ space[s].n_pending_ibuf_merges = 0
<1>1. \A p \in PagesOf(s) : io[p] = "none" /\ p \notin dirty BY DEF IInv, PageIsRight, PagesOf
<1>2. PagesIn(s, InIo) = {} /\ PagesIn(s, InMerge) = {} BY <1>1 DEF PagesIn, InIo, InMerge
<1>3. /\ node[s].n_pending = Cardinality(PagesIn(s, InIo))
      /\ space[s].n_pending_ibuf_merges = Cardinality(PagesIn(s, InMerge))
  BY DEF IInv, PagesCounted
<1>4. Cardinality({}) = 0 BY FS_EmptySet
<1> QED BY <1>1, <1>2, <1>3, <1>4

LEMMA FreeTablespaceKeeps ==
    ASSUME IInv, FreeTablespace
    PROVE  IInv'
<1>0. /\ Files /\ ThreadTypes /\ PoolTypes /\ PagesCounted /\ LatchIsRight /\ CachedAreRight
      /\ OthersUntouched /\ TargetIsRight(plan.target) /\ GoneIsRight(plan.target)
  BY DEF IInv
<1>1. PICK t \in Spaces : t = plan.target BY <1>0, PlanFacts
<1>2. /\ ddl = "free" /\ ddl' = (IF plan.ddl = "import" THEN "discard" ELSE "done") /\ FreeSpace(t)
      /\ inserted' = { e \in inserted : SpaceOf[Home[e]] # t }
      /\ UNCHANGED <<pool_vars, buffered, ibuf_latch, pc, todo, master, evictions, plan>>
  BY <1>1 DEF FreeTablespace, DdlStep, DdlOnly, ibuf_vars
<1>3. UNCHANGED <<where, io, born, dirty, frame, disk, cached>> BY <1>2 DEF pool_vars
<1>4. Exists(t) /\ Quiet(t) /\ space[t].version = 1 /\ \A p \in PagesOf(t) : ~ Resident(p)
  BY <1>0, <1>1, <1>2 DEF TargetIsRight, GoneIsRight
<1>5. node[t].n_pending = 0 /\ space[t].n_pending_flushes = 0 BY <1>4, NoPages DEF Quiet
<1>6. /\ Files' /\ KeepsOthers(t) /\ UNCHANGED <<flushing, tablespace_version>>
      /\ ~ Exists(t)' /\ space'[t].version = space[t].version
      /\ space'[t].is_being_deleted = space[t].is_being_deleted
      /\ space'[t].stop_ibuf_merges = space[t].stop_ibuf_merges
      /\ space'[t].n_pending_ibuf_merges = space[t].n_pending_ibuf_merges
      /\ space'[t].n_pending_flushes = 0 /\ node'[t].n_pending = 0
  BY <1>0, <1>2, <1>5, FreeSpaceKeeps
<1>7. \A s \in Spaces : /\ SameCounts(s) /\ space'[s].version = space[s].version
                        /\ space'[s].is_being_deleted = space[s].is_being_deleted
                        /\ space'[s].stop_ibuf_merges = space[s].stop_ibuf_merges
                        /\ s # t => space'[s] = space[s]
  BY <1>5, <1>6 DEF KeepsOthers, SameCounts
<1>8. PoolTypes' /\ ThreadTypes' BY <1>0, <1>2, <1>3 DEF PoolTypes, ThreadTypes, DdlLabels
<1>9. PagesCounted'
 <2>1. \A s \in Spaces : node'[s].n_pending = node[s].n_pending
                         /\ space'[s].n_pending_ibuf_merges = space[s].n_pending_ibuf_merges
   BY <1>7 DEF SameCounts
 <2>2. \A x : \A s \in Spaces : PagesIn(s, x)' = PagesIn(s, x) BY <1>3 DEF PagesIn, PagesOf
 <2> QED BY <1>0, <2>1, <2>2 DEF PagesCounted
<1>10. LatchIsRight' BY <1>0, <1>2, <1>3 DEF LatchIsRight
<1>11. CachedAreRight'
 <2> SUFFICES ASSUME NEW s \in Spaces, cached \cap PagesOf(s) # {}
              PROVE  /\ Exists(s)' => Unflushed(s)'
                     /\ \A g \in CallsAt(s, {"done"})' :
                            flushing'[g].old_mod_counter < node'[s].modification_counter
   BY <1>3 DEF CachedAreRight, PagesOf
 <2>1. /\ Exists(s) => Unflushed(s)
       /\ \A g \in CallsAt(s, {"done"}) : flushing[g].old_mod_counter < node[s].modification_counter
   BY Zenon, <1>0 DEF CachedAreRight
 <2>2. CASE s = t
  <3>1. CallsAt(t, AllCalls) = {} BY <1>0, <1>5, NoCalls
  <3>2. CallsAt(s, {"done"})' = {} BY <1>6, <2>2, <3>1 DEF CallsAt, AllCalls
  <3> QED BY <1>6, <2>2, <3>2
 <2>3. CASE s # t
  <3>1. /\ space'[s] = space[s] /\ node'[s].modification_counter = node[s].modification_counter
        /\ node'[s].flush_counter = node[s].flush_counter
    BY <1>6, <2>3 DEF KeepsOthers
  <3> QED BY <1>6, <2>1, <3>1 DEF Unflushed, Exists, CallsAt
 <2> QED BY <2>2, <2>3
<1>12. OthersUntouched' /\ TargetIsRight(plan.target)' /\ GoneIsRight(plan.target)'
 <2>1. OthersUntouched' BY <1>0, <1>1, <1>2, <1>6, <1>7 DEF OthersUntouched, Untouched, Exists
 <2>2. Quiet(t)' BY <1>4, <1>6 DEF Quiet
 <2>3. TargetIsRight(t)' /\ GoneIsRight(t)'
   BY <1>2, <1>4, <1>6, <2>2 DEF TargetIsRight, GoneIsRight, Discarded
 <2> QED BY <1>1, <1>2, <2>1, <2>3
<1>13. ASSUME NEW q \in Pages
       PROVE  PageIsRight(q)'
 <2>1. PageIsRight(q) /\ SpaceOf[q] \in Spaces /\ (SpaceOf[q] = t => ~ Resident(q) /\ io[q] = "none")
   BY <1>4, NoPages, Places DEF IInv, PagesOf
 <2> QED BY <1>3, <1>7, <2>1 DEF PageIsRight, Resident, Current, Exists, InMerge
<1>14. ASSUME NEW q \in Leaves
       PROVE  LeafIsRight(q)'
 <2>1. LeafIsRight(q) /\ SpaceOf[q] \in Spaces BY Places DEF IInv
 <2>2. Expected(q)' <=> Expected(q) BY <1>2 DEF Expected, Coming, Target
 <2>3. (Unmerged(q)' <=> Unmerged(q)) /\ Content(BitmapOf[q])' = Content(BitmapOf[q])
   BY <1>3 DEF Unmerged, Content, Resident
 <2> QED BY <1>7, <2>1, <2>2, <2>3 DEF LeafIsRight
<1>15. TodoIsRight' BY <1>2 DEF IInv, TodoIsRight
<1>16. ASSUME NEW e \in Entries
       PROVE  EntryIsRight(e)'
 <2>1. PICK h \in Pages : h = Home[e] /\ SpaceOf[h] \in Spaces BY Places
 <2>2. EntryIsRight(e) BY DEF IInv
 <2>3. Pending(e)' <=> Pending(e) BY <1>2 DEF Pending
 <2>4. Content(h)' = Content(h) BY <1>3 DEF Content, Resident
 <2>5. e \in inserted' => e \in inserted BY <1>2
 <2> QED
   BY <1>2, <1>3, <1>7, <2>1, <2>2, <2>3, <2>4, <2>5 DEF EntryIsRight, EntryIsNew, EntryIsPlaced
<1>17. ASSUME NEW u \in Sessions
       PROVE  SessionIsRight(u)'
 <2> SUFFICES ASSUME pc[u] # "idle"
              PROVE  SessionIsRight(u)'
   BY <1>2 DEF SessionIsRight
 <2>1. SessionIsRight(u) /\ todo[u] # <<>> BY DEF IInv, SessionIsRight
 <2>2. SpaceOf[Target(u)] \in Spaces /\ SpaceOf[Target(u)] # t
   BY <1>0, <1>1, <1>2, <2>1, TargetFacts, Places, SessionsAway
 <2> QED BY <1>1, <1>2, <1>7, <2>1, <2>2 DEF SessionIsRight, Usable, Target, Exists
<1>18. MasterIsRight'
 <2>1. MasterIsRight /\ (master.page \in Pages => SpaceOf[master.page] \in Spaces)
   BY Places DEF IInv
 <2> QED BY <1>2, <1>7, <2>1 DEF MasterIsRight
<1> QED BY <1>6, <1>8, <1>9, <1>10, <1>11, <1>12, <1>13, <1>14, <1>15, <1>16, <1>17, <1>18 DEF IInv

\* No session buffers an entry meanwhile, since MySQL keeps them away.
LEMMA DeleteForDiscardedKeeps ==
    ASSUME IInv, DeleteForDiscarded
    PROVE  IInv'
<1>0. ThreadTypes /\ TargetIsRight(plan.target) /\ GoneIsRight(plan.target) /\ OthersUntouched
  BY DEF IInv
<1>1. PICK t \in Spaces : t = plan.target BY <1>0, PlanFacts
<1>2. /\ \/ ddl = "discard" /\ ddl' = "import_clean"
         \/ ddl = "import_clean" /\ ddl' = "import"
      /\ buffered' = { e \in buffered : SpaceOf[Home[e]] # t }
      /\ UNCHANGED <<fil_vars, pool_vars, ibuf_latch, pc, todo, master, evictions, plan, inserted>>
  BY <1>1 DEF DeleteForDiscarded, DdlStep, DdlOnly
<1>3. /\ Files' /\ PoolTypes' /\ PagesCounted' /\ CachedAreRight' /\ \A q \in Pages : PageIsRight(q)'
      /\ KeepsSpaces /\ KeepsContents /\ tablespace_version' = tablespace_version
      /\ UNCHANGED <<where, io, space>>
  BY <1>2, SamePool
<1>4. ~ Exists(t) /\ Quiet(t) /\ plan.ddl = "import" /\ space[t].version = 1
  BY <1>0, <1>1, <1>2 DEF TargetIsRight, Discarded
<1>5. buffered' \subseteq buffered /\ \A e \in buffered \ buffered' : Deleted(e)
  BY <1>2, <1>4 DEF Deleted, Quiet
<1>6. ThreadTypes' BY <1>0, <1>2 DEF ThreadTypes, DdlLabels
<1>7. LatchIsRight' BY <1>2, <1>3 DEF IInv, LatchIsRight
<1>8. OthersUntouched' /\ TargetIsRight(plan.target)' /\ GoneIsRight(plan.target)'
 <2>1. OthersUntouched' BY <1>0, <1>2, <1>3 DEF OthersUntouched, Untouched, Exists
 <2>2. \A e \in inserted : SpaceOf[Home[e]] # t BY <1>0, <1>1, <1>2 DEF GoneIsRight, Discarded
 <2>3. TargetIsRight(t)' /\ GoneIsRight(t)'
   BY <1>2, <1>3, <1>4, <2>2 DEF TargetIsRight, GoneIsRight, Discarded, Exists, Quiet
 <2> QED BY <1>1, <1>2, <2>1, <2>3
<1>9. \A q \in Leaves : LeafIsRight(q)'
 <2>1. \A q \in Leaves : Expected(q)' => Expected(q) BY <1>2 DEF Expected, Coming, Target
 <2> QED BY <1>3, <2>1, LeavesKept
<1>10. TodoIsRight' /\ \A e \in Entries : EntryIsRight(e)' BY <1>2, <1>3, <1>5, EntriesDeleted
<1>11. \A u \in Sessions : SessionIsRight(u)' BY <1>2, <1>3, SessionsKept
<1>12. MasterIsRight' BY <1>2, <1>3, MasterKept
<1> QED BY <1>3, <1>6, <1>7, <1>8, <1>9, <1>10, <1>11, <1>12 DEF IInv

\* The new file has a new version, and nothing of the old one is left anywhere.
LEMMA ImportKeeps ==
    ASSUME IInv, Import
    PROVE  IInv'
<1>0. /\ Files /\ ThreadTypes /\ PoolTypes /\ PagesCounted /\ LatchIsRight /\ CachedAreRight
      /\ OthersUntouched /\ TargetIsRight(plan.target) /\ GoneIsRight(plan.target)
  BY DEF IInv
<1>1. PICK t \in Spaces : t = plan.target BY <1>0, PlanFacts
<1>2. /\ ddl = "import" /\ ddl' = "done" /\ CreateSpace(t)
      /\ disk' = [p \in Pages |-> IF SpaceOf[p] = t THEN {} ELSE disk[p]]
      /\ cached' = cached \ PagesOf(t)
      /\ UNCHANGED <<where, io, born, dirty, frame>>
      /\ UNCHANGED <<buffered, ibuf_latch, pc, todo, master, evictions, plan, inserted>>
  BY <1>1 DEF Import, NewFile, DdlStep, DdlOnly, ibuf_vars
<1>3. /\ ~ Exists(t) /\ Quiet(t) /\ plan.ddl = "import" /\ space[t].version = 1
      /\ \A e \in inserted \cup buffered : SpaceOf[Home[e]] # t
  BY <1>0, <1>1, <1>2 DEF TargetIsRight, GoneIsRight, Discarded
<1>4. \A p \in PagesOf(t) : ~ Resident(p) BY <1>3 DEF IInv, PageIsRight, Current, PagesOf
<1>5. /\ \A p \in PagesOf(t) : io[p] = "none" /\ p \notin dirty
      /\ node[t].n_pending = 0 /\ space[t].n_pending_ibuf_merges = 0
  BY <1>4, NoPages
<1>6. /\ Files' /\ KeepsOthers(t) /\ flushing' = flushing
      /\ tablespace_version' = tablespace_version + 1 /\ tablespace_version \in Nat
      /\ Exists(t)' /\ space'[t].version = tablespace_version + 1
      /\ ~ space'[t].is_being_deleted /\ ~ space'[t].stop_ibuf_merges
      /\ space'[t].n_pending_ibuf_merges = 0 /\ node'[t].n_pending = 0
  BY <1>0, <1>2, <1>3, CreateSpaceKeeps DEF Quiet
<1>7. tablespace_version >= 1 /\ space'[t].version # 1 BY <1>0, <1>6 DEF OthersUntouched
<1>8. \A s \in Spaces : /\ node'[s].n_pending = node[s].n_pending
                        /\ space'[s].n_pending_ibuf_merges = space[s].n_pending_ibuf_merges
                        /\ s # t => space'[s] = space[s]
  BY <1>5, <1>6 DEF KeepsOthers
<1>9. PoolTypes' /\ ThreadTypes' BY <1>0, <1>2 DEF PoolTypes, ThreadTypes, DdlLabels
<1>10. PagesCounted' BY ZenonT(60), <1>0, <1>2, <1>8 DEF PagesCounted, PagesIn, PagesOf
<1>11. LatchIsRight' BY <1>0, <1>2 DEF LatchIsRight
<1>12. CachedAreRight'
 <2> SUFFICES ASSUME NEW s \in Spaces, cached' \cap PagesOf(s) # {}
              PROVE  /\ Exists(s)' => Unflushed(s)'
                     /\ \A g \in CallsAt(s, {"done"})' :
                            flushing'[g].old_mod_counter < node'[s].modification_counter
   BY DEF CachedAreRight, PagesOf
 <2>1. s # t /\ cached \cap PagesOf(s) # {} BY <1>2
 <2>2. /\ Exists(s) => Unflushed(s)
       /\ \A g \in CallsAt(s, {"done"}) : flushing[g].old_mod_counter < node[s].modification_counter
   BY <1>0, <2>1 DEF CachedAreRight
 <2>3. /\ space'[s] = space[s] /\ node'[s].modification_counter = node[s].modification_counter
       /\ node'[s].flush_counter = node[s].flush_counter
   BY <1>6, <2>1 DEF KeepsOthers
 <2> QED BY <1>6, <2>2, <2>3 DEF Unflushed, Exists, CallsAt
<1>13. OthersUntouched' /\ TargetIsRight(plan.target)' /\ GoneIsRight(plan.target)'
 <2>1. \A s \in Spaces \ {t} : Untouched(s)' /\ space'[s].version = 1
   BY <1>0, <1>1, <1>8 DEF OthersUntouched, Untouched, Exists
 <2>2. tablespace_version' >= 1 BY <1>6, <1>7
 <2>3. OthersUntouched' BY <1>1, <1>2, <2>1, <2>2 DEF OthersUntouched
 <2>4. TargetIsRight(t)' /\ GoneIsRight(t)'
   BY <1>2, <1>3, <1>6 DEF TargetIsRight, GoneIsRight, Discarded, Untouched
 <2> QED BY <1>1, <1>2, <2>3, <2>4
<1>14. ASSUME NEW q \in Pages
       PROVE  PageIsRight(q)'
 <2>1. PageIsRight(q) /\ SpaceOf[q] \in Spaces BY Places DEF IInv
 <2>2. CASE SpaceOf[q] = t
  <3>1. where'[q] = "out" /\ io'[q] = "none" /\ q \notin dirty'
    BY <1>2, <1>4, <1>5, <2>2 DEF PagesOf, Resident
  <3> QED BY <3>1 DEF PageIsRight, Resident, InMerge
 <2>3. CASE SpaceOf[q] # t
  <3>1. disk'[q] = disk[q] /\ space'[SpaceOf[q]] = space[SpaceOf[q]] BY <1>2, <1>8, <2>1, <2>3
  <3> QED BY <1>2, <2>1, <3>1 DEF PageIsRight, Resident, Current, Exists
 <2> QED BY <2>2, <2>3
<1>15. \A q \in Pages : SpaceOf[q] # t => Content(q)' = Content(q) /\ disk'[q] = disk[q]
  BY <1>2 DEF Content, Resident
<1>16. ASSUME NEW q \in Leaves
       PROVE  LeafIsRight(q)'
 <2>1. /\ LeafIsRight(q) /\ q \in Pages /\ SpaceOf[q] \in Spaces /\ BitmapOf[q] \in Pages
       /\ SpaceOf[BitmapOf[q]] = SpaceOf[q]
   BY Places DEF IInv
 <2>2. Expected(q)' <=> Expected(q) BY <1>2 DEF Expected, Coming, Target
 <2>3. Unmerged(q)' <=> Unmerged(q) BY <1>2 DEF Unmerged
 <2>4. Expected(q) => SpaceOf[q] # t
  <3>1. Coming(q) => SpaceOf[q] # t BY <1>1, <1>2, SessionsAway DEF Coming
  <3> QED BY <1>3, <3>1 DEF Expected, EntriesOf
 <2> QED BY <1>8, <1>15, <2>1, <2>2, <2>3, <2>4 DEF LeafIsRight
<1>17. TodoIsRight' BY <1>2 DEF IInv, TodoIsRight
<1>18. ASSUME NEW e \in Entries
       PROVE  EntryIsRight(e)'
 <2>1. PICK h \in Pages : h = Home[e] /\ SpaceOf[h] \in Spaces BY Places
 <2>2. EntryIsRight(e) BY DEF IInv
 <2>3. Pending(e)' <=> Pending(e) BY <1>2 DEF Pending
 <2>4. disk'[h] = {} \/ disk'[h] = disk[h] BY <1>2
 <2>5. e \in inserted => SpaceOf[h] # t /\ space'[SpaceOf[h]] = space[SpaceOf[h]]
   BY <1>3, <1>8, <2>1
 <2> QED BY <1>2, <1>15, <2>1, <2>2, <2>3, <2>4, <2>5 DEF EntryIsRight, EntryIsNew, EntryIsPlaced
<1>19. ASSUME NEW u \in Sessions
       PROVE  SessionIsRight(u)'
 <2> SUFFICES ASSUME pc[u] # "idle"
              PROVE  SessionIsRight(u)'
   BY <1>2 DEF SessionIsRight
 <2>1. SessionIsRight(u) /\ todo[u] # <<>> BY DEF IInv, SessionIsRight
 <2>2. SpaceOf[Target(u)] \in Spaces /\ SpaceOf[Target(u)] # t
   BY <1>0, <1>1, <1>2, <2>1, TargetFacts, Places, SessionsAway
 <2> QED BY <1>1, <1>2, <1>8, <2>1, <2>2 DEF SessionIsRight, Usable, Target, Exists
<1>20. MasterIsRight'
 <2>1. MasterIsRight /\ (master.page \in Pages => SpaceOf[master.page] \in Spaces)
   BY Places DEF IInv
 <2>2. CASE master.at = "idle" \/ SpaceOf[master.page] # t
   BY <1>2, <1>8, <2>1, <2>2 DEF MasterIsRight
 <2>3. CASE SpaceOf[master.page] = t BY <1>2, <1>3, <1>7, <2>1, <2>3 DEF MasterIsRight
 <2> QED BY <2>2, <2>3
<1> QED BY <1>6, <1>9, <1>10, <1>11, <1>12, <1>13, <1>14, <1>16, <1>17, <1>18, <1>19, <1>20 DEF IInv

LEMMA DdlKeeps ==
    ASSUME IInv, Ddl
    PROVE  IInv'
  BY StopMergesKeeps, StopIoKeeps, InvalidateSpaceKeeps, FreeTablespaceKeeps,
     DeleteForDiscardedKeeps, ImportKeeps, RenameTablespaceKeeps DEF Ddl

-----------------------------------------------------------------------------
(* The invariant holds *)

LEMMA InitFiles ==
    ASSUME Init
    PROVE  Files /\ \A s \in Spaces : /\ space[s] = NewSpace(1) /\ node[s] = NewNode
                                      /\ Untouched(s)
<1>1. plan \in Plans /\ FilInit(plan.limit) BY DEF Init
<1>2. plan.limit \in Nat /\ plan.target \in Spaces BY <1>1, PageIoAssumption DEF PlanAssumption
<1>3. /\ max_n_open = plan.limit /\ space = [s \in Spaces |-> NewSpace(1)]
      /\ node = [s \in Spaces |-> NewNode] /\ tablespace_version = 1
      /\ flushing = [f \in Flushers |-> [at |-> "none", space |-> CHOOSE s \in Spaces : TRUE,
                                         old_mod_counter |-> 0]]
  BY <1>1 DEF FilInit
<1>4. \A s \in Spaces : space[s] = NewSpace(1) /\ node[s] = NewNode BY <1>3
<1>5. FilTypes
 <2>1. (CHOOSE s \in Spaces : TRUE) \in Spaces BY <1>2
 <2>2. NewSpace(1) \in SpaceType /\ NewNode \in NodeType
   BY DEF NewSpace, NewNode, SpaceType, NodeType
 <2> QED BY <1>2, <1>3, <2>1, <2>2 DEF FilTypes, FlushType
<1>6. \A f \in Flushers : flushing[f].at = "none" BY <1>3
<1>7. CallsCounted
 <2> SUFFICES ASSUME NEW s \in Spaces
              PROVE  /\ space[s].n_pending_flushes = Cardinality(CallsAt(s, AllCalls))
                     /\ node[s].n_pending_flushes = Cardinality(CallsAt(s, Flushes))
                     /\ node[s].n_pending_flushes <= 1
   BY DEF CallsCounted
 <2>1. CallsAt(s, AllCalls) = {} /\ CallsAt(s, Flushes) = {} BY <1>6 DEF CallsAt, AllCalls, Flushes
 <2>2. space[s].n_pending_flushes = 0 /\ node[s].n_pending_flushes = 0
   BY <1>4 DEF NewSpace, NewNode
 <2>3. Cardinality({}) = 0 BY FS_EmptySet
 <2> QED BY <2>1, <2>2, <2>3
<1>8. ClosedAreIdle /\ FlushesAreRight
  BY <1>4, <1>6 DEF ClosedAreIdle, FlushesAreRight, NewNode, NewSpace
<1>9. \A s \in Spaces : Untouched(s) BY <1>4 DEF Untouched, Exists, NewSpace
<1> QED BY <1>4, <1>5, <1>7, <1>8, <1>9 DEF Files

LEMMA InitHolds ==
    ASSUME Init
    PROVE  IInv
<1>1. plan \in Plans /\ PlanAssumption(plan) BY PageIoAssumption DEF Init
<1>2. /\ where = [p \in Pages |-> "out"] /\ io = [p \in Pages |-> "none"] /\ born = [p \in Pages |-> 0]
      /\ dirty = {} /\ frame = [p \in Pages |-> {}] /\ disk = [p \in Pages |-> {}] /\ cached = {}
  BY DEF Init, PoolInit
<1>3. /\ buffered = {} /\ ibuf_latch = Nobody /\ pc = [u \in Sessions |-> "idle"]
      /\ todo = plan.inserts /\ master = NoMerge /\ inserted = {} /\ evictions = 0
      /\ ddl \in {"idle", "done"} /\ tablespace_version = 1
  BY DEF Init, FilInit
<1>4. Files /\ \A s \in Spaces : /\ space[s] = NewSpace(1) /\ node[s] = NewNode /\ Untouched(s)
  BY InitFiles
<1>5. \A s \in Spaces : space[s].version = 1 BY <1>4 DEF NewSpace
<1>6. PoolTypes BY <1>2 DEF PoolTypes
<1>7. ThreadTypes BY <1>1, <1>3 DEF ThreadTypes, PlanAssumption, NoMerge, DdlLabels
<1>8. PagesCounted
 <2>1. \A s \in Spaces : PagesIn(s, InIo) = {} /\ PagesIn(s, InMerge) = {}
   BY <1>2 DEF PagesIn, PagesOf, InIo, InMerge
 <2>2. \A s \in Spaces : node[s].n_pending = 0 /\ space[s].n_pending_ibuf_merges = 0
   BY <1>4 DEF NewSpace, NewNode
 <2>3. Cardinality({}) = 0 BY FS_EmptySet
 <2> QED BY <2>1, <2>2, <2>3 DEF PagesCounted
<1>9. LatchIsRight
 <2>1. Nobody \notin Pages /\ \A u \in Sessions : u # Nobody BY Places
 <2> QED BY <1>2, <1>3, <2>1 DEF LatchIsRight
<1>10. CachedAreRight BY <1>2 DEF CachedAreRight
<1>11. OthersUntouched /\ TargetIsRight(plan.target) /\ GoneIsRight(plan.target)
 <2>1. plan.target \in Spaces BY <1>1 DEF PlanAssumption
 <2> QED BY <1>3, <1>4, <1>5, <2>1 DEF OthersUntouched, TargetIsRight, GoneIsRight, Discarded
<1>12. \A p \in Pages : PageIsRight(p) BY <1>2 DEF PageIsRight, Resident, InMerge
<1>13. \A p \in Leaves : LeafIsRight(p) BY <1>3 DEF LeafIsRight, Expected, Coming
<1>14. TodoIsRight BY <1>1, <1>3 DEF TodoIsRight, PlanAssumption
<1>15. \A e \in Entries : EntryIsRight(e)
 <2>1. \A e \in Entries : Home[e] \in Pages BY Places
 <2> QED BY <1>2, <1>3, <2>1 DEF EntryIsRight, EntryIsNew, EntryIsPlaced
<1>16. \A u \in Sessions : SessionIsRight(u) BY <1>3 DEF SessionIsRight
<1>17. MasterIsRight BY <1>3 DEF MasterIsRight, NoMerge
<1> QED
  BY <1>4, <1>6, <1>7, <1>8, <1>9, <1>10, <1>11, <1>12, <1>13, <1>14, <1>15, <1>16, <1>17 DEF IInv

LEMMA SessionKeeps ==
    ASSUME IInv, NEW u \in Sessions, Begin(u) \/ Continue(u)
    PROVE  IInv'
  BY BeginKeeps, SearchKeeps, GetKeeps, AccessKeeps, LatchIbufKeeps, ReadBitmapKeeps, SetBitKeeps,
     DoNotBufferKeeps, BufferKeeps DEF Continue

LEMMA ProceedKeeps ==
    ASSUME IInv, NEW p \in Pages, Proceed(p)
    PROVE  IInv'
<1>1. CASE /\ PostRead(p) \/ ReadFile(p) \/ CompleteRead(p) \/ PostWrite(p) \/ WriteFile(p) \/ CompleteWrite(p)
           /\ UNCHANGED ibuf_vars /\ OtherThreads
 <2>1. UNCHANGED <<ibuf_vars, thread_vars, plan, inserted>> BY <1>1 DEF OtherThreads
 <2> QED
   BY <1>1, <2>1, PostKeeps, ReadFileKeeps, CompleteReadKeeps, WriteFileKeeps, CompleteWriteKeeps
<1>2. CASE \/ StartMerge(p) \/ NoMergeNeeded(p) \/ ReadBitmapForMerge(p) \/ TestBit(p) \/ MergeEntry(p)
           \/ AllMerged(p) \/ ResetBit(p) \/ EndMerge(p) \/ DeleteInstead(p)
  BY <1>2, StartMergeKeeps, NoMergeNeededKeeps, ReadBitmapForMergeKeeps, TestBitKeeps,
     MergeEntryKeeps, AllMergedKeeps, ResetBitKeeps, EndMergeKeeps, DeleteInsteadKeeps
<1> QED BY <1>1, <1>2 DEF Proceed

LEMMA StutterKeeps ==
    ASSUME IInv, UNCHANGED vars
    PROVE  IInv'
<1>1. UNCHANGED <<where, io, born, dirty, frame, disk, cached, ibuf_vars, thread_vars, plan, inserted>>
  BY DEF vars, pool_vars
<1>2. Files /\ CachedAreRight BY DEF IInv
<1>3. /\ Files' /\ KeepsSpaces /\ KeepsCounters /\ UNCHANGED <<flushing, tablespace_version>>
      /\ \A s \in Spaces : SameCounts(s)
  BY <1>2, SameFiles DEF vars
<1>4. CachedAreRight' BY <1>1, <1>2, <1>3, CachedKept
<1> QED BY <1>1, <1>3, <1>4, CallSteps

LEMMA StepKeeps ==
    ASSUME IInv, [Next]_vars
    PROVE  IInv'
<1>1. CASE \E u \in Sessions : Begin(u) \/ Continue(u) BY <1>1, SessionKeeps
<1>2. CASE \E p \in Pages : Proceed(p) \/ WritePage(p) \/ EvictPage(p)
  BY <1>2, ProceedKeeps, WritePageKeeps, EvictPageKeeps
<1>3. CASE \E f \in Flushers : FlushSpace(f) \/ FlushStep(f)
  BY <1>3, FlushSpaceKeeps, FlushStepKeeps
<1>4. CASE Contract BY <1>4, PickPageKeeps, ReadForMergeKeeps, DeleteEntriesKeeps DEF Contract
<1>5. CASE StartDdl \/ Ddl BY <1>5, StartDdlKeeps, DdlKeeps
<1>6. CASE UNCHANGED vars BY <1>6, StutterKeeps
<1> QED BY <1>1, <1>2, <1>3, <1>4, <1>5, <1>6 DEF Next

\* Counts, flags, pages and entries are right in every reachable state, whatever
\* pages, tablespaces, sessions and plans there are.
THEOREM InductiveInvariant == Spec => []IInv
<1>1. Init => IInv BY InitHolds
<1>2. IInv /\ [Next]_vars => IInv' BY StepKeeps
<1> QED BY <1>1, <1>2, PTL DEF Spec

-----------------------------------------------------------------------------
(* What it implies *)

\* The fields of spaces, files, pages and threads have their types; the pending
\* flushes, operations and merges that fil_delete_tablespace waits for are as
\* many as there are; and the insert buffer is latched by one that unlatches it.
THEOREM TypeCorrect == Spec => []TypeOK
<1>1. ASSUME IInv
      PROVE  TypeOK
 <2>0. Files /\ PoolTypes /\ ThreadTypes /\ PagesCounted /\ LatchIsRight BY <1>1 DEF IInv
 <2>1. FilTypeOK
   BY <2>0 DEF FilTypeOK, Files, FilTypes, CallsCounted, ClosedAreIdle, AllCalls, Flushes
 <2>2. \A p \in dirty : Resident(p) BY <1>1, <2>0 DEF IInv, PageIsRight, PoolTypes
 <2>3. PoolTypeOK BY <2>0, <2>1, <2>2 DEF PoolTypeOK, PoolTypes, PagesCounted, InIo
 <2> QED BY <2>0, <2>3 DEF TypeOK, ThreadTypes, PagesCounted, InMerge, LatchIsRight
<1> QED BY <1>1, InductiveInvariant, PTL

\* A page is in the pool only while its tablespace is there and of the version it
\* was read of, and a file that is read or written is open.
THEOREM FramesCurrent == Spec => []FramesAreCurrent
<1>1. ASSUME IInv
      PROVE  FramesAreCurrent
 <2> SUFFICES ASSUME NEW p \in Pages
              PROVE  /\ Resident(p) \/ io[p] # "none" => Current(p)
                     /\ io[p] \in InIo => node[SpaceOf[p]].open
   BY DEF FramesAreCurrent, Current, InIo
 <2>1. PageIsRight(p) /\ SpaceOf[p] \in Spaces BY <1>1, Places DEF IInv
 <2>2. io[p] \in InIo => node[SpaceOf[p]].n_pending > 0 BY <1>1, MergingIsCounted
 <2>3. ~ node[SpaceOf[p]].open => node[SpaceOf[p]].n_pending = 0
   BY <1>1, <2>1 DEF IInv, Files, ClosedAreIdle
 <2> QED BY <2>1, <2>2, <2>3 DEF PageIsRight
<1> QED BY <1>1, InductiveInvariant, PTL

\* A file with nothing to flush, which may be closed, has no write left in the
\* cache of the operating system.
THEOREM FlushedOnDisk == Spec => []FlushedIsOnDisk
<1>1. IInv => FlushedIsOnDisk BY DEF IInv, CachedAreRight, FlushedIsOnDisk
<1> QED BY <1>1, InductiveInvariant, PTL

\* An entry whose insert has returned is in the insert buffer or on its page, in
\* one of them, unless its tablespace is being deleted, and no page that can be
\* latched has entries still buffered; if nothing is inserted after an import.
THEOREM InsertsReach ==
    ASSUME \A p \in Plans : p.ddl = "import" => ~ p.later
    PROVE  Spec => []InsertsReachTheirPage
<1>1. ASSUME IInv
      PROVE  InsertsReachTheirPage
 <2>0. ThreadTypes BY <1>1 DEF IInv
 <2>1. ASSUME NEW e \in inserted, ~ space[SpaceOf[Home[e]]].stop_ibuf_merges
       PROVE  (e \in buffered) # (e \in Content(Home[e]))
  <3>1. e \in Entries /\ EntryIsRight(e) /\ SpaceOf[Home[e]] \in Spaces
    BY <1>1, <2>0, Places DEF IInv, ThreadTypes
  <3>2. space[SpaceOf[Home[e]]].version = 1
   <4> SUFFICES ASSUME space[SpaceOf[Home[e]]].version # 1
                PROVE  FALSE
     OBVIOUS
   <4>1. plan.later BY <2>1, <3>1 DEF EntryIsRight
   <4>2. plan.ddl = "import" BY <1>1, <3>1, DeletedStops
   <4> QED BY <2>0, <4>1, <4>2 DEF ThreadTypes
  <3> QED BY <2>1, <3>1, <3>2 DEF EntryIsRight, EntryIsPlaced
 <2>2. ASSUME NEW p \in Leaves, Readable(p)
       PROVE  buffered \cap EntriesOf(p) = {}
  <3>1. LeafIsRight(p) BY <1>1 DEF IInv
  <3>2. ~ Unmerged(p) BY <2>2 DEF Readable, Unmerged, BeingRead, ReadPhases
  <3> QED BY <3>1, <3>2 DEF LeafIsRight, Expected
 <2> QED BY <2>1, <2>2 DEF InsertsReachTheirPage
<1> QED BY <1>1, InductiveInvariant, PTL
=============================================================================

------------------------------ MODULE RedoLogProofs ------------------------------
(***************************************************************************)
(* Proofs about the redo log and recovery.                                 *)
(*                                                                         *)
(* IInv says where every thread is and what it has latched; that the lsns  *)
(* of log_sys are in order; and, which is what recovery rests on, that     *)
(* every image of a page, on the files, in the doublewrite buffer or in    *)
(* between, is Good: it holds exactly the changes below its lsn, and their *)
(* log is flushed.  What is before the last checkpoint, and before the one *)
(* that is being written or has been sampled, is on the files, and the     *)
(* ring holds the log from the last checkpoint on: there is room for the   *)
(* log of every mini-transaction that has passed log_checkpoint_margin.    *)
(*                                                                         *)
(* After the lemmas about its operators come those of the actions, which   *)
(* are laid out alike: <1>1 is what is known of the thread before the      *)
(* step, <1>2 what the step changes, <1>l to <1>o what that means for the  *)
(* derived notions (lsns, records, safe numbers, unwritten pages,          *)
(* mini-transactions, the other threads), and then there is one step for   *)
(* each conjunct of IInv.  Recovery establishes IInv again from whatever a *)
(* crash leaves behind, and the properties follow from it.                 *)
(***************************************************************************)
EXTENDS RedoLog, FiniteSetTheorems, SequenceTheorems, WellFoundedInduction, TLAPS

\* Where a thread is in log_write_up_to, and in buf_flush_buffered_writes.
WriteLabels == {"write_up_to", "wait_return", "wait_retry", "flush_file", "complete_write"}
DblwrLabels == {"write_dblwr", "write_pages", "wait_no_pending"}

\* Thread t writes the log files; has mini-transaction pages; has a page of its batch
\* latched whose log it writes; has one that it is going to wait for.
Writing(t) == pc[t] \in {"flush_file", "complete_write"}
HasMtr(t) == pc[t] \in {"latching", "mtr", "note"} \/ (pc[t] \in WriteLabels /\ after[t] = "mtr")
Posting(t) == pc[t] = "post" \/ (pc[t] \in WriteLabels /\ after[t] = "post")
Awaiting(t) == pc[t] = "latch" \/ (pc[t] \in DblwrLabels /\ after[t] = "latch")
Batching(t) == pc[t] = "batch" \/ Posting(t) \/ Awaiting(t)
Sampled(t) == pc[t] = "checkpoint" \/ (pc[t] \in WriteLabels /\ after[t] = "checkpoint")

\* Where the log on the files ends, or is going to.
LogEnd == IF n_pending_writes > 0 THEN write_lsn ELSE written_to_all_lsn

Labels == {"idle", "latching", "mtr", "note", "ack", "batch", "latch", "post", "sample",
           "checkpoint"} \cup WriteLabels \cup DblwrLabels
LogTypes ==
    /\ log \in Seq(MtrPages) /\ log_mutex \in Threads \cup {NoThread}
    /\ write_lsn \in Nat /\ written_to_all_lsn \in Nat \ {0}
    /\ flushed_to_disk_lsn \in Nat /\ current_flush_lsn \in Nat
    /\ n_pending_writes \in {0, 1} /\ check_flush_or_checkpoint \in BOOLEAN
    /\ synced \in Nat \ {0} /\ file \in [0 .. Capacity - 1 -> Nat]
CkptTypes ==
    /\ last_checkpoint_lsn \in Nat \ {0} /\ next_checkpoint_lsn \in Nat
    /\ next_checkpoint_no \in Nat \ {0} /\ n_pending_checkpoint_writes \in {0, 1}
    /\ slots \in [{0, 1} -> [no : Int, lsn : Nat]]
PoolTypes ==
    /\ frame \in [Pages -> SUBSET Nat]
    /\ newest \in [Pages -> Nat] /\ oldest \in [Pages -> Nat]
    /\ flush_list \in Seq(Pages) /\ io_fix \in [Pages -> BOOLEAN]
    /\ latch \in [Pages -> Threads \cup {NoThread, Io}]
    /\ init_flush \in Threads \cup {NoThread}
DiskTypes ==
    /\ posted \in SUBSET Pages /\ io_posted \in SUBSET posted
    /\ dblwr_synced \in BOOLEAN
    /\ write_buf \in [Pages -> Images] /\ cache \in [Pages -> Images]
    /\ disk \in [Pages -> Images] /\ dblwr \in [Pages -> Images]
ThreadTypes ==
    /\ pc \in [Threads -> Labels]
    /\ upto \in [Threads -> Nat] /\ flush \in [Threads -> BOOLEAN]
    /\ after \in [Threads -> {"idle", "mtr", "ack", "post", "latch", "checkpoint"}]
    /\ memo \in [Threads -> SUBSET Pages]
    /\ acked \in [flushed : Nat, written : Nat] /\ crashes \in Nat
Types == LogTypes /\ CkptTypes /\ PoolTypes /\ DiskTypes /\ ThreadTypes

\* Where a thread goes on after log_write_up_to and buf_flush_buffered_writes.
AfterIsRight(t) ==
    /\ pc[t] \in {"idle", "latching", "sample"} => after[t] = "idle"
    /\ pc[t] \in {"mtr", "note"} => after[t] \in {"idle", "mtr"}
    /\ pc[t] \in WriteLabels => after[t] \in {"mtr", "ack", "post", "checkpoint"}
    /\ pc[t] \in {"ack", "checkpoint", "post", "latch"} => after[t] = pc[t]
    /\ pc[t] = "batch" => after[t] \in {"idle", "post"}
    /\ pc[t] \in DblwrLabels => after[t] \in {"idle", "latch"}

\* The log records of each page, the pages of batches that are not written yet, the
\* numbers n such that changes below lsn n are on the files, and the threads that have
\* not written the log of their mini-transaction.
Recs == [p \in Pages |-> RecordsOf(p)]
Unwritten == {p \in Pages : p \in io_posted \/ (p \in posted /\ \A t \in Threads : pc[t] # "wait_no_pending")}
Safe == {n \in Nat : \A p \in Pages : \A i \in Recs[p] : i < n => i \in cache[p].recs}
MtrThreads == {u \in Threads : InMtr(u)}

\* The lsns of the log are in order, and one thread writes.
LsnsAreRight ==
    /\ flushed_to_disk_lsn <= synced /\ synced <= LogEnd
    /\ written_to_all_lsn <= LogEnd /\ LogEnd <= Lsn
    /\ n_pending_writes = 1 => \E t \in Threads : Writing(t)
    /\ \A t \in Threads : Writing(t) => n_pending_writes = 1
    /\ \A t, u \in Threads : Writing(t) /\ Writing(u) => t = u
    /\ \/ current_flush_lsn <= flushed_to_disk_lsn
       \/ \E t \in Threads : pc[t] = "flush_file" /\ flush[t] /\ current_flush_lsn = write_lsn

\* What a call of log_write_up_to is going to return, or has returned.
CallIsRight(t) ==
    /\ upto[t] <= Lsn
    /\ Writing(t) => upto[t] <= write_lsn
    /\ pc[t] = "complete_write" /\ flush[t] => flushed_to_disk_lsn = write_lsn
    /\ pc[t] = "wait_return" =>
           /\ n_pending_writes = 1
           /\ upto[t] <= IF flush[t] THEN current_flush_lsn ELSE write_lsn
    /\ pc[t] \in {"ack", "checkpoint", "post"} => LogReaches(t)
    /\ Posting(t) \/ Sampled(t) => flush[t]

\* What was acknowledged survives.
AckedIsKept ==
    /\ acked.flushed <= synced
    /\ acked.written <= synced \/ acked.written <= written_to_all_lsn

\* mtr_commit holds the mutex of the log from the log to the pages.
MutexIsRight(t) ==
    /\ pc[t] = "note" => log_mutex = t /\ log # <<>> /\ log[Len(log)] = memo[t]
    /\ log_mutex = t => pc[t] = "note"

\* What threads have latched, and batches have taken.
MtrIsRight(t) ==
    /\ \A p \in Pages : latch[p] = t => HasMtr(t) /\ p \in memo[t]
    /\ HasMtr(t) => memo[t] \in MtrPages
    /\ pc[t] = "latching" => \E p \in memo[t] : latch[p] # t
    /\ HasMtr(t) /\ pc[t] # "latching" => \A p \in memo[t] : latch[p] = t
    /\ HasMtr(t) \/ Posting(t) \/ Awaiting(t) \/ memo[t] = {}
BatchIsRight(t) ==
    /\ Posting(t) \/ Awaiting(t) =>
           /\ memo[t] # {} /\ \A p, q \in memo[t] : p = q
           /\ \A p \in memo[t] : io_fix[p] /\ oldest[p] # 0 /\ p \notin Unwritten
    /\ Posting(t) => \A p \in memo[t] : latch[p] = Io /\ upto[t] = newest[p]
    /\ Awaiting(t) => \A p \in memo[t] : latch[p] # Io
    /\ Batching(t) => init_flush = t
    /\ init_flush = t => Batching(t)
    /\ pc[t] = "latch" => posted = {}

\* One thread writes the doublewrite buffer.
DblwrIsRight ==
    /\ \A t, u \in Threads :
           pc[t] \in {"write_pages", "wait_no_pending"} /\ pc[u] \in {"write_pages", "wait_no_pending"}
           => t = u
    /\ \A t \in Threads : pc[t] \in {"write_pages", "wait_no_pending"} => dblwr = write_buf
    /\ \A t \in Threads : pc[t] = "wait_no_pending" => dblwr_synced
    /\ io_posted # {} => \E t \in Threads : pc[t] = "wait_no_pending"

\* The image of page p holds the changes up to its lsn, and their log is on the disk.
Good(p, image) ==
    /\ image.lsn >= 0 /\ image.lsn <= synced /\ image.recs \subseteq Recs[p]
    /\ \A i \in Recs[p] : i \in image.recs <=> i < image.lsn

\* A page in the pool, and on the files.
FrameIsRight(p) ==
    /\ frame[p] \subseteq Recs[p]
    /\ \A i \in Recs[p] : i \in frame[p] <=> (log_mutex = NoThread \/ i + 1 < Lsn)
    /\ newest[p] <= Lsn /\ oldest[p] < Lsn
    /\ oldest[p] # 0 => \A i \in frame[p] : i < newest[p]
FileIsRight(p) ==
    /\ \A i \in frame[p] : oldest[p] = 0 \/ i < oldest[p] => i \in cache[p].recs
    /\ Good(p, cache[p])

\* A page that a batch writes.
WriteIsRight(p) ==
    /\ p \in Unwritten =>
           /\ io_fix[p] /\ latch[p] = Io /\ oldest[p] # 0
           /\ write_buf[p] = Image(p) /\ newest[p] <= synced
    /\ p \in posted => Good(p, write_buf[p])
LatchIsRight(p) ==
    latch[p] = Io => p \in Unwritten \/ \E t \in Threads : Posting(t) /\ p \in memo[t]

\* f lists the pages that old has a modification of, the one with the oldest last.
Listed(f, old) ==
    /\ \A i, j \in DOMAIN f : f[i] = f[j] => i = j
    /\ \A i \in DOMAIN f : old[f[i]] # 0
    /\ \A p \in Pages : old[p] # 0 => \E i \in DOMAIN f : f[i] = p
    /\ \A i, j \in DOMAIN f : i < j => old[f[i]] >= old[f[j]]
FlushListIsRight == Listed(flush_list, oldest)

\* Checkpoints: what is before them is on the files, and the log up to them as well; the
\* last one is in the slot of its number, and the other slot may be overwritten.
SlotsAreRight ==
    LET n == next_checkpoint_no
    IN  /\ slots[(n - 1) % 2] = [no |-> n - 1, lsn |-> last_checkpoint_lsn]
        /\ \/ slots[n % 2] = [no |-> n, lsn |-> last_checkpoint_lsn]
           \/ slots[n % 2].no < n - 1
CheckpointsAreRight ==
    /\ last_checkpoint_lsn <= synced /\ last_checkpoint_lsn \in Safe
    /\ n_pending_checkpoint_writes = 1 =>
           /\ last_checkpoint_lsn <= next_checkpoint_lsn /\ next_checkpoint_lsn <= synced
           /\ next_checkpoint_lsn \in Safe
    /\ SlotsAreRight
    /\ \A t \in Threads : Sampled(t) => upto[t] \in Safe

\* The ring of files has room for the log from the last checkpoint on.
RoomIsLeft ==
    /\ \A i \in last_checkpoint_lsn .. LogEnd - 1 : file[i % Capacity] = i
    /\ Lsn + Cardinality(MtrThreads) <= last_checkpoint_lsn + MaxCheckpointAge + Cardinality(Threads)
    /\ ~check_flush_or_checkpoint => Lsn <= last_checkpoint_lsn + MaxCheckpointAge
    /\ Len(log) + Cardinality(MtrThreads) <= MaxRecords

DirectIsDirect == DirectIo => disk = cache

ThreadsAreRight ==
    \A t \in Threads : AfterIsRight(t) /\ CallIsRight(t) /\ MutexIsRight(t) /\ MtrIsRight(t) /\ BatchIsRight(t)
PagesAreRight ==
    \A p \in Pages : FrameIsRight(p) /\ FileIsRight(p) /\ WriteIsRight(p) /\ LatchIsRight(p)

IInv ==
    /\ Types /\ LsnsAreRight /\ AckedIsKept /\ DblwrIsRight /\ FlushListIsRight
    /\ CheckpointsAreRight /\ RoomIsLeft /\ DirectIsDirect /\ ThreadsAreRight /\ PagesAreRight

-----------------------------------------------------------------------------
(* Moves *)

\* Thread t goes to a label.
Goes(t, label) ==
    /\ pc' \in [Threads -> Labels] /\ pc'[t] = label
    /\ \A u \in Threads : u # t => pc'[u] = pc[u]

\* The arguments of thread t in its call of log_write_up_to.
Calls(t, lsn, to_disk, next) ==
    /\ upto' \in [Threads -> Nat] /\ upto'[t] = lsn
    /\ flush' \in [Threads -> BOOLEAN] /\ flush'[t] = to_disk
    /\ after' \in [Threads -> {"idle", "mtr", "ack", "post", "latch", "checkpoint"}]
    /\ after'[t] = next
    /\ \A u \in Threads : u # t => upto'[u] = upto[u] /\ flush'[u] = flush[u]
                                   /\ after'[u] = after[u]

\* A step of thread t leaves the others where they are, and every thread the writer of
\* the log or not.
OthersStay(t) ==
    \A u \in Threads : u # t =>
        /\ pc'[u] = pc[u] /\ after'[u] = after[u]
        /\ (HasMtr(u)' <=> HasMtr(u)) /\ (Posting(u)' <=> Posting(u))
        /\ (Awaiting(u)' <=> Awaiting(u)) /\ (Batching(u)' <=> Batching(u))
WritersStay ==
    \A u \in Threads : /\ Writing(u)' <=> Writing(u)
                       /\ pc'[u] = "flush_file" <=> pc[u] = "flush_file"
                       /\ Writing(u) => flush'[u] = flush[u]

\* The pages that thread t is at.
Holds(t, P) ==
    /\ memo' \in [Threads -> SUBSET Pages] /\ memo'[t] = P
    /\ \A u \in Threads : u # t => memo'[u] = memo[u]
-----------------------------------------------------------------------------
(* Numbers, sets and sequences *)

USE DEF IInv, Types

\* A set of numbers that is not empty has a least element.
LEMMA LeastExists ==
    ASSUME NEW T \in SUBSET Nat, T # {}
    PROVE  \E x \in T : \A y \in T : x <= y
<1> DEFINE R == OpToRel(<, Nat)
<1>1. IsWellFoundedOn(R, Nat) BY NatLessThanWellFounded
<1>2. \A x, y \in Nat : ~ (<<y, x>> \in R) => x <= y BY DEF OpToRel
<1> HIDE DEF R
<1>3. PICK x \in T : \A y \in T : ~ (<<y, x>> \in R) BY <1>1, WFMin
<1> QED BY <1>2, <1>3

\* What Min and Max of the community modules return.
LEMMA MinIsLeast ==
    ASSUME NEW T \in SUBSET Nat, T # {}
    PROVE  Min(T) \in T /\ \A y \in T : Min(T) <= y
  BY LeastExists DEF Min

\* A bounded set of numbers that is not empty has a greatest element.
LEMMA MaxIsGreatest ==
    ASSUME NEW n \in Nat, NEW T \in SUBSET (0 .. n), T # {}
    PROVE  Max(T) \in T /\ \A y \in T : Max(T) >= y
<1> DEFINE D == {n - y : y \in T}
<1>1. D \in SUBSET Nat /\ D # {}
 <2>1. \A y \in T : y \in 0 .. n /\ n - y \in Nat OBVIOUS
 <2> QED BY <2>1
<1> HIDE DEF D
<1>2. PICK d \in D : \A e \in D : d <= e BY <1>1, LeastExists
<1>3. PICK x \in T : d = n - x BY DEF D
<1>4. \A y \in T : n - y \in D BY DEF D
<1>5. \A y \in T : x >= y BY <1>2, <1>3, <1>4
<1> QED BY <1>5 DEF Max

\* The larger of two numbers.
LEMMA PairMax ==
    ASSUME NEW a \in Nat, NEW b \in Nat
    PROVE  Max({a, b}) = IF a >= b THEN a ELSE b
<1>1. {a, b} \in SUBSET (0 .. a + b) /\ {a, b} # {} OBVIOUS
<1>2. Max({a, b}) \in {a, b} /\ \A y \in {a, b} : Max({a, b}) >= y BY <1>1, MaxIsGreatest
<1> QED BY <1>2

\* The smaller of two numbers.
LEMMA PairMin ==
    ASSUME NEW a \in Nat, NEW b \in Nat
    PROVE  Min({a, b}) = IF a <= b THEN a ELSE b
<1>1. Min({a, b}) \in {a, b} /\ \A y \in {a, b} : Min({a, b}) <= y BY MinIsLeast
<1> QED BY <1>1

\* Division and remainder.
LEMMA DivMod ==
    ASSUME NEW C \in Nat \ {0}, NEW i \in Nat
    PROVE  /\ i % C \in 0 .. C - 1 /\ i \div C \in Nat
           /\ i = C * (i \div C) + (i % C)
  OBVIOUS

\* Numbers closer to each other than the length of the ring have places of their own.
LEMMA PlacesDiffer ==
    ASSUME NEW C \in Nat \ {0}, NEW i \in Nat, NEW j \in Nat,
           i % C = j % C, i < j, j - i < C
    PROVE  FALSE
<1>1. PICK a \in Nat, r \in 0 .. C - 1 : i = (C * a) + r /\ r = i % C BY DivMod
<1>2. PICK b \in Nat : j = (C * b) + r BY DivMod, <1>1
<1>3. j - i = C * (b - a) BY <1>1, <1>2
<1>4. b - a >= 1 BY <1>1, <1>2
<1>5. C * (b - a) >= C BY <1>4
<1> QED BY <1>3, <1>5

\* Checkpoints alternate between two slots.
LEMMA Parity ==
    ASSUME NEW n \in Nat, n > 0
    PROVE  /\ n % 2 \in {0, 1} /\ (n - 1) % 2 = 1 - (n % 2)
           /\ (n + 1) % 2 = 1 - (n % 2)
  OBVIOUS

\* The sequences of SetToSeqs have every element of the set, and each of them once.
LEMMA SequencesOfSet ==
    ASSUME NEW S, IsFiniteSet(S), NEW q \in SetToSeqs(S)
    PROVE  /\ q \in Seq(S)
           /\ \A i, j \in DOMAIN q : q[i] = q[j] => i = j
           /\ \A x \in S : \E i \in DOMAIN q : q[i] = x
<1> DEFINE n == Cardinality(S)
<1>1. n \in Nat BY FS_CardinalityType
<1> HIDE DEF n
<1>2. q \in [1 .. n -> S] /\ \A i, j \in 1 .. n : i # j => q[i] # q[j] BY DEF SetToSeqs, n
<1>3. q \in Injection(1 .. n, S) BY <1>2 DEF Injection, IsInjective
<1>4. IsFiniteSet(1 .. n) /\ Cardinality(1 .. n) = n BY <1>1, FS_Interval
<1>5. q \in Surjection(1 .. n, S) BY <1>3, <1>4, FS_Injection DEF n
<1>6. \A x \in S : \E i \in 1 .. n : q[i] = x BY <1>5 DEF Surjection
<1>7. q \in Seq(S) /\ DOMAIN q = 1 .. n BY <1>1, <1>2
<1> QED BY <1>2, <1>6, <1>7

\* What RemoveAt leaves of a sequence: the entries after the removed one move up.
LEMMA RemoveAtProperties ==
    ASSUME NEW S, NEW q \in Seq(S), NEW i \in DOMAIN q
    PROVE  /\ RemoveAt(q, i) \in Seq(S)
           /\ Len(RemoveAt(q, i)) = Len(q) - 1
           /\ \A j \in 1 .. Len(q) - 1 : RemoveAt(q, i)[j] = IF j < i THEN q[j] ELSE q[j + 1]
<1> DEFINE a == SubSeq(q, 1, i - 1)
           b == SubSeq(q, i + 1, Len(q))
<1>1. i \in 1 .. Len(q) /\ Len(q) \in Nat OBVIOUS
<1>2. a \in Seq(S) /\ Len(a) = i - 1 /\ \A j \in 1 .. i - 1 : a[j] = q[j] BY <1>1
<1>3. b \in Seq(S) /\ Len(b) = Len(q) - i /\ \A j \in 1 .. Len(q) - i : b[j] = q[i + j] BY <1>1
<1>4. RemoveAt(q, i) = a \o b BY DEF RemoveAt
<1> HIDE DEF a, b
<1>5. /\ a \o b \in Seq(S)
      /\ Len(a \o b) = Len(q) - 1
      /\ \A j \in 1 .. Len(q) - 1 : (a \o b)[j] = IF j <= Len(a) THEN a[j] ELSE b[j - Len(a)]
  BY SMTT(30), <1>1, <1>2, <1>3, ConcatProperties
<1>6. ASSUME NEW j \in 1 .. Len(q) - 1, j < i
      PROVE  (a \o b)[j] = q[j]
 <2>1. j <= Len(a) /\ j \in 1 .. i - 1 BY <1>1, <1>2, <1>6
 <2> QED BY <2>1, <1>2, <1>5
<1>7. ASSUME NEW j \in 1 .. Len(q) - 1, ~ (j < i)
      PROVE  (a \o b)[j] = q[j + 1]
 <2>1. (a \o b)[j] = b[j - (i - 1)] /\ j - (i - 1) \in 1 .. Len(q) - i BY <1>1, <1>2, <1>5, <1>7
 <2>2. b[j - (i - 1)] = q[i + (j - (i - 1))] BY <1>3, <2>1
 <2> QED BY <2>1, <2>2
<1> QED BY <1>4, <1>5, <1>6, <1>7

\* A sequence without repetition has as many elements as entries.
LEMMA CountOfEntries ==
    ASSUME NEW S, NEW q \in Seq(S), \A i, j \in DOMAIN q : q[i] = q[j] => i = j
    PROVE  Cardinality({q[i] : i \in DOMAIN q}) = Len(q)
<1> DEFINE T == {q[i] : i \in DOMAIN q}
<1>1. Len(q) \in Nat /\ DOMAIN q = 1 .. Len(q) OBVIOUS
<1>2. q \in Bijection(1 .. Len(q), T)
 <2>1. q \in [1 .. Len(q) -> T] BY <1>1
 <2>2. q \in Injection(1 .. Len(q), T) BY <1>1, <2>1 DEF Injection, IsInjective
 <2>3. q \in Surjection(1 .. Len(q), T) BY <1>1, <2>1 DEF Surjection
 <2> QED BY <2>2, <2>3 DEF Bijection
<1> HIDE DEF T
<1>3. ExistsBijection(1 .. Len(q), T) BY <1>2 DEF ExistsBijection
<1>4. Cardinality(T) = Len(q) BY <1>1, <1>3, FS_CountingElements
<1> QED BY <1>4 DEF T

-----------------------------------------------------------------------------
(* The flush list *)

\* mtr_commit puts pages in front of it, whose modification is the newest one.
LEMMA PagesInFront ==
    ASSUME NEW f \in Seq(Pages), NEW old \in [Pages -> Nat], Listed(f, old),
           NEW P \in SUBSET Pages, NEW q \in SetToSeqs(P), NEW n \in Nat \ {0},
           NEW new \in [Pages -> Nat],
           \A p \in P : old[p] = 0 /\ new[p] = n,
           \A p \in Pages \ P : new[p] = old[p],
           \A p \in Pages : old[p] <= n
    PROVE  q \o f \in Seq(Pages) /\ Listed(q \o f, new)
<1>1. IsFiniteSet(P) BY RedoLogAssumption, FS_Subset
<1>2. /\ q \in Seq(P) /\ \A i, j \in DOMAIN q : q[i] = q[j] => i = j
      /\ \A x \in P : \E i \in DOMAIN q : q[i] = x
  BY <1>1, SequencesOfSet
<1> DEFINE a == Len(q)
           b == Len(f)
           g == q \o f
<1>3. q \in Seq(Pages) /\ a \in Nat /\ b \in Nat BY <1>2
<1>4. g \in Seq(Pages) /\ Len(g) = a + b
      /\ \A i \in 1 .. a + b : g[i] = IF i <= a THEN q[i] ELSE f[i - a]
  BY <1>3, ConcatProperties
<1>5. DOMAIN q = 1 .. a /\ DOMAIN f = 1 .. b /\ DOMAIN g = 1 .. a + b BY <1>3, <1>4
<1>6. \A i \in 1 .. a : q[i] \in P BY <1>2
<1>7. \A i \in 1 .. b : f[i] \in Pages OBVIOUS
<1> HIDE DEF a, b, g
<1>8. \A i \in 1 .. b : old[f[i]] # 0 /\ f[i] \in Pages \ P BY <1>5, <1>7 DEF Listed
<1>9. ASSUME NEW i \in 1 .. a + b
      PROVE  \/ i \in 1 .. a /\ g[i] = q[i] /\ g[i] \in P
             \/ i > a /\ i - a \in 1 .. b /\ g[i] = f[i - a] /\ g[i] \in Pages \ P
 <2>1. CASE i <= a BY <1>3, <1>4, <1>6, <2>1
 <2>2. CASE ~ (i <= a)
  <3>1. i - a \in 1 .. b BY <1>3, <2>2
  <3>2. g[i] = f[i - a] BY <1>4, <2>2
  <3> QED BY <1>3, <1>8, <2>2, <3>1, <3>2
 <2> QED BY <2>1, <2>2
<1>10. ASSUME NEW i \in 1 .. a + b, NEW j \in 1 .. a + b, g[i] = g[j]
       PROVE  i = j
 <2>1. CASE i \in 1 .. a /\ g[i] = q[i] /\ g[i] \in P
  <3>1. j \in 1 .. a /\ g[j] = q[j] BY <1>9, <1>10, <2>1
  <3> QED BY <1>2, <1>5, <1>10, <2>1, <3>1
 <2>2. CASE i - a \in 1 .. b /\ g[i] = f[i - a] /\ g[i] \notin P
  <3>1. j - a \in 1 .. b /\ g[j] = f[j - a] BY <1>9, <1>10, <2>2
  <3>2. \A k, l \in 1 .. b : f[k] = f[l] => k = l BY <1>5 DEF Listed
  <3>3. i - a = j - a BY <1>10, <2>2, <3>1, <3>2
  <3> QED BY <1>3, <3>3
 <2> QED BY <1>9, <2>1, <2>2
<1>11. \A i \in 1 .. a + b : new[g[i]] # 0 BY <1>8, <1>9
<1>12. ASSUME NEW p \in Pages, new[p] # 0
       PROVE  \E i \in 1 .. a + b : g[i] = p
 <2>1. CASE p \in P
  <3>1. PICK i \in 1 .. a : q[i] = p BY <1>2, <1>5, <2>1
  <3>2. i \in 1 .. a + b /\ i <= a BY <1>3
  <3> QED BY <1>4, <3>1, <3>2
 <2>2. CASE p \notin P
  <3>1. PICK i \in 1 .. b : f[i] = p BY <1>5, <1>12, <2>2 DEF Listed
  <3>2. i + a \in 1 .. a + b /\ ~ (i + a <= a) /\ (i + a) - a = i BY <1>3
  <3>3. g[i + a] = f[(i + a) - a] BY <1>4, <3>2
  <3> QED BY <3>1, <3>2, <3>3
 <2> QED BY Zenon, <2>1, <2>2
<1>13. ASSUME NEW i \in 1 .. a + b, NEW j \in 1 .. a + b, i < j
       PROVE  new[g[i]] >= new[g[j]]
 <2>1. CASE g[i] \in P
  <3>1. new[g[i]] = n /\ g[j] \in Pages BY <1>9, <2>1
  <3>2. new[g[j]] <= n BY SMTT(30), <3>1
  <3> QED BY <3>1, <3>2
 <2>2. CASE g[i] \notin P
  <3>1. i - a \in 1 .. b /\ g[i] = f[i - a] /\ g[i] \in Pages \ P /\ i > a BY <1>9, <2>2
  <3>2. j > a BY <1>3, <1>13, <3>1
  <3>3. j - a \in 1 .. b /\ g[j] = f[j - a] /\ g[j] \in Pages \ P BY <1>3, <1>9, <3>2
  <3>4. i - a < j - a BY <1>3, <1>13
  <3>5. old[f[i - a]] >= old[f[j - a]] BY <1>5, <3>1, <3>3, <3>4 DEF Listed
  <3> QED BY <3>1, <3>3, <3>5
 <2> QED BY <2>1, <2>2
<1>14. Listed(g, new) BY <1>5, <1>10, <1>11, <1>12, <1>13 DEF Listed
<1> QED BY <1>4, <1>14 DEF g

\* A page that is written is removed from it.
LEMMA PageRemoved ==
    ASSUME NEW f \in Seq(Pages), NEW old \in [Pages -> Nat], Listed(f, old),
           NEW k \in DOMAIN f, NEW new \in [Pages -> Nat],
           \A p \in Pages : new[p] = IF p = f[k] THEN 0 ELSE old[p]
    PROVE  RemoveAt(f, k) \in Seq(Pages) /\ Listed(RemoveAt(f, k), new)
<1> DEFINE g == RemoveAt(f, k)
           n == Len(f)
           At(j) == IF j < k THEN j ELSE j + 1
<1>1. n \in Nat /\ DOMAIN f = 1 .. n /\ k \in 1 .. n /\ n - 1 \in Nat OBVIOUS
<1>2. /\ g \in Seq(Pages) /\ Len(g) = n - 1
      /\ \A j \in 1 .. n - 1 : g[j] = IF j < k THEN f[j] ELSE f[j + 1]
  BY RemoveAtProperties
<1>3. DOMAIN g = 1 .. n - 1 BY <1>2
<1>4. \A i \in 1 .. n : f[i] \in Pages OBVIOUS
<1> HIDE DEF g, n
<1>5. \A j \in 1 .. n - 1 : At(j) \in 1 .. n /\ At(j) # k BY <1>1
<1>6. \A j \in 1 .. n - 1 : g[j] = f[At(j)] BY <1>2
<1>7. \A i, j \in 1 .. n - 1 : (At(i) = At(j) => i = j) /\ (i < j => At(i) < At(j)) OBVIOUS
<1>8. ASSUME NEW i \in 1 .. n, i # k
      PROVE  \E j \in 1 .. n - 1 : At(j) = i
 <2>1. CASE i < k
  <3>1. i \in 1 .. n - 1 /\ At(i) = i BY <1>1, <2>1
  <3> QED BY <3>1
 <2>2. CASE i > k
  <3>1. i - 1 \in 1 .. n - 1 /\ At(i - 1) = i BY <1>1, <2>2
  <3> QED BY <3>1
 <2> QED BY <1>1, <1>8, <2>1, <2>2
<1> HIDE DEF At
<1>a. \A i, j \in 1 .. n : f[i] = f[j] => i = j BY <1>1 DEF Listed
<1>b. \A i \in 1 .. n : old[f[i]] # 0 BY <1>1 DEF Listed
<1>9. /\ \A p \in Pages : old[p] # 0 => \E i \in 1 .. n : f[i] = p
      /\ \A i, j \in 1 .. n : i < j => old[f[i]] >= old[f[j]]
  BY <1>1 DEF Listed
<1>10. ASSUME NEW i \in 1 .. n - 1, NEW j \in 1 .. n - 1
       PROVE  /\ g[i] = g[j] => i = j
              /\ i < j => old[f[At(i)]] >= old[f[At(j)]]
 <2>1. At(i) \in 1 .. n /\ At(j) \in 1 .. n /\ g[i] = f[At(i)] /\ g[j] = f[At(j)] BY <1>5, <1>6
 <2>2. g[i] = g[j] => At(i) = At(j) BY <1>a, <2>1
 <2>3. i < j => old[f[At(i)]] >= old[f[At(j)]] BY <1>7, <1>9, <2>1
 <2> QED BY <1>7, <2>2, <2>3
<1>11. ASSUME NEW j \in 1 .. n - 1
       PROVE  g[j] \in Pages /\ g[j] # f[k] /\ new[g[j]] = old[f[At(j)]]
 <2>1. At(j) \in 1 .. n /\ At(j) # k /\ g[j] = f[At(j)] BY <1>5, <1>6
 <2>2. f[At(j)] # f[k] /\ f[At(j)] \in Pages BY <1>1, <1>4, <1>a, <2>1
 <2> QED BY <2>1, <2>2
<1>12. \A j \in 1 .. n - 1 : new[g[j]] # 0 BY <1>5, <1>b, <1>11
<1>13. ASSUME NEW p \in Pages, new[p] # 0
       PROVE  \E j \in 1 .. n - 1 : g[j] = p
 <2>1. p # f[k] /\ old[p] # 0 BY <1>13
 <2>2. PICK i \in 1 .. n : f[i] = p BY <1>9, <2>1
 <2>3. PICK j \in 1 .. n - 1 : At(j) = i BY <1>8, <2>1, <2>2
 <2> QED BY <1>6, <2>2, <2>3
<1>14. \A i, j \in 1 .. n - 1 : i < j => new[g[i]] >= new[g[j]] BY <1>10, <1>11
<1>15. Listed(g, new) BY <1>3, <1>10, <1>12, <1>13, <1>14 DEF Listed
<1> QED BY <1>2, <1>15 DEF g

-----------------------------------------------------------------------------
(* Lemmas about the invariant *)

\* The lsns are numbers.
LEMMA NumbersAre ==
    ASSUME Types
    PROVE  Lsn \in Nat \ {0} /\ LogEnd \in Nat /\ Lsn = Len(log) + 1 /\ Len(log) \in Nat
  BY DEF LogTypes, Lsn, LogEnd

\* The files have room for the log from the last checkpoint on.
LEMMA RoomOfRing ==
    ASSUME IInv, NEW t \in Threads
    PROVE  Lsn <= last_checkpoint_lsn + Capacity /\ Capacity \in Nat \ {0}
<1>1. Lsn \in Nat /\ last_checkpoint_lsn \in Nat BY NumbersAre DEF CkptTypes
<1>2. IsFiniteSet(MtrThreads) /\ Cardinality(MtrThreads) \in Nat
 <2>1. MtrThreads \in SUBSET Threads /\ IsFiniteSet(Threads) BY RedoLogAssumption DEF MtrThreads
 <2>2. IsFiniteSet(MtrThreads) BY <2>1, FS_Subset
 <2> QED BY <2>2, FS_CardinalityType
<1>3. Cardinality(Threads) \in Nat /\ Cardinality(Threads) # 0
 <2>1. IsFiniteSet(Threads) /\ Threads # {} BY RedoLogAssumption
 <2> QED BY <2>1, FS_CardinalityType, FS_EmptySet
<1>4. Capacity \in Nat /\ MaxCheckpointAge \in Nat /\ Capacity >= MaxCheckpointAge + Cardinality(Threads)
  BY RedoLogAssumption
<1>5. Lsn + Cardinality(MtrThreads) <= last_checkpoint_lsn + MaxCheckpointAge + Cardinality(Threads)
  BY DEF RoomIsLeft
<1> QED BY <1>1, <1>2, <1>3, <1>4, <1>5

\* The log is written behind what is in the files from lsn last on.
LEMMA RingIsWritten ==
    ASSUME NEW last \in Nat, NEW from \in Nat, NEW to \in Nat, to <= last + Capacity,
           Capacity \in Nat \ {0}, file \in [0 .. Capacity - 1 -> Nat],
           \A i \in last .. from - 1 : file[i % Capacity] = i
    PROVE  /\ WriteRecords(from, to) \in [0 .. Capacity - 1 -> Nat]
           /\ \A i \in last .. to - 1 : WriteRecords(from, to)[i % Capacity] = i
<1> DEFINE At(i) == {j \in from .. to - 1 : j % Capacity = i}
<1>1. WriteRecords(from, to) = [i \in 0 .. Capacity - 1 |-> IF At(i) = {} THEN file[i] ELSE Max(At(i))]
  BY DEF WriteRecords
<1>2. \A i \in 0 .. Capacity - 1 : At(i) \in SUBSET (0 .. to) /\ At(i) \in SUBSET (from .. to - 1)
  OBVIOUS
<1>3. \A i \in 0 .. Capacity - 1 : \A j \in At(i) : j % Capacity = i OBVIOUS
<1>4. \A j \in from .. to - 1 : j % Capacity \in 0 .. Capacity - 1 /\ j \in At(j % Capacity)
  BY DivMod
<1> HIDE DEF At
<1>5. ASSUME NEW i \in 0 .. Capacity - 1, At(i) # {}
      PROVE  Max(At(i)) \in At(i) /\ Max(At(i)) \in Nat
 <2>1. At(i) \in SUBSET (0 .. to) BY <1>2
 <2>2. Max(At(i)) \in At(i) BY <1>5, <2>1, MaxIsGreatest
 <2> QED BY <2>1, <2>2
<1>6. WriteRecords(from, to) \in [0 .. Capacity - 1 -> Nat] BY <1>1, <1>5
<1>7. ASSUME NEW i \in last .. to - 1
      PROVE  WriteRecords(from, to)[i % Capacity] = i
 <2>1. i \in Nat /\ i % Capacity \in 0 .. Capacity - 1 BY DivMod
 <2>2. ASSUME NEW j \in At(i % Capacity), j >= last
       PROVE  j = i
  <3>1. j \in Nat /\ j < to /\ j % Capacity = i % Capacity BY <1>2, <1>3, <2>1
  <3>d. j - i < Capacity /\ i - j < Capacity BY <2>2, <3>1
  <3>2. ~ (i < j) BY <2>1, <3>1, <3>d, PlacesDiffer
  <3>3. ~ (j < i) BY <2>1, <3>1, <3>d, PlacesDiffer
  <3> QED BY <2>1, <3>1, <3>2, <3>3
 <2>3. CASE i >= from
  <3>1. i \in At(i % Capacity) BY <1>4, <2>3
  <3>2. Max(At(i % Capacity)) \in At(i % Capacity) /\ Max(At(i % Capacity)) >= i
   <4>1. At(i % Capacity) \in SUBSET (0 .. to) /\ At(i % Capacity) # {} BY <1>2, <2>1, <3>1
   <4> QED BY <3>1, <4>1, MaxIsGreatest
  <3>3. Max(At(i % Capacity)) = i
   <4>1. Max(At(i % Capacity)) >= last BY <1>2, <2>1, <3>2
   <4> QED BY <2>2, <3>2, <4>1
  <3> QED BY <1>1, <2>1, <3>1, <3>3
 <2>4. CASE i < from
  <3>1. At(i % Capacity) = {}
   <4>1. ASSUME NEW j \in At(i % Capacity) PROVE FALSE
    <5>1. j >= from /\ j \in Int BY <1>2, <2>1
    <5>2. j >= last /\ j # i BY <2>1, <2>4, <5>1
    <5> QED BY <2>2, <5>2
   <4> QED BY <4>1
  <3>2. file[i % Capacity] = i
   <4>1. i \in last .. from - 1 BY <2>1, <2>4
   <4> QED BY <4>1
  <3> QED BY <1>1, <2>1, <3>1, <3>2
 <2> QED BY <2>1, <2>3, <2>4
<1> QED BY <1>6, <1>7

\* The threads with a mini-transaction are counted.
LEMMA MtrThreadsCounted ==
    /\ IsFiniteSet(MtrThreads) /\ Cardinality(MtrThreads) \in Nat
    /\ Cardinality(MtrThreads) <= Cardinality(Threads) /\ Cardinality(Threads) \in Nat
<1>1. MtrThreads \in SUBSET Threads /\ IsFiniteSet(Threads) BY RedoLogAssumption DEF MtrThreads
<1>2. IsFiniteSet(MtrThreads) /\ Cardinality(MtrThreads) <= Cardinality(Threads) BY <1>1, FS_Subset
<1> QED BY <1>1, <1>2, FS_CardinalityType

\* The changes before the oldest modification in the pool are on the files.
LEMMA OldestIsSafe ==
    ASSUME IInv, log_mutex = NoThread
    PROVE  LET n == IF OldestModification = 0 THEN Lsn ELSE OldestModification
           IN  n \in Nat /\ n <= Lsn /\ n \in Safe
<1> DEFINE n == IF OldestModification = 0 THEN Lsn ELSE OldestModification
<1>1. /\ Lsn \in Nat /\ flush_list \in Seq(Pages) /\ oldest \in [Pages -> Nat]
      /\ Listed(flush_list, oldest)
  BY NumbersAre DEF PoolTypes, FlushListIsRight
<1>2. n \in Nat /\ n <= Lsn /\ \A p \in Pages : oldest[p] = 0 \/ n <= oldest[p]
 <2>1. CASE flush_list = <<>>
  <3>1. \A p \in Pages : oldest[p] = 0 BY <1>1, <2>1 DEF Listed
  <3>2. n = Lsn BY <2>1 DEF OldestModification
  <3> QED BY <1>1, <3>1, <3>2
 <2>2. CASE flush_list # <<>>
  <3> DEFINE k == Len(flush_list)
  <3>1. k \in Nat /\ k \in DOMAIN flush_list /\ DOMAIN flush_list = 1 .. k /\ flush_list[k] \in Pages
    BY <1>1, <2>2
  <3>2. OldestModification = oldest[flush_list[k]] /\ oldest[flush_list[k]] # 0
    BY <1>1, <2>2, <3>1 DEF OldestModification, Listed
  <3>3. n = oldest[flush_list[k]] /\ n \in Nat BY <1>1, <3>1, <3>2
  <3>4. n < Lsn BY <3>1, <3>3 DEF PagesAreRight, FrameIsRight
  <3> HIDE DEF k, n
  <3>5. ASSUME NEW p \in Pages, oldest[p] # 0 PROVE n <= oldest[p]
   <4>1. PICK i \in 1 .. k : flush_list[i] = p BY <1>1, <3>1, <3>5 DEF Listed
   <4>2. CASE i = k BY <1>1, <3>3, <4>1, <4>2
   <4>3. CASE i # k
    <5>1. i \in DOMAIN flush_list /\ i < k BY <3>1, <4>3
    <5>2. oldest[flush_list[i]] >= oldest[flush_list[k]] BY <1>1, <3>1, <5>1 DEF Listed
    <5> QED BY <1>1, <3>3, <4>1, <5>2
   <4> QED BY <4>2, <4>3
  <3> QED BY <1>1, <3>3, <3>4, <3>5
 <2> QED BY <2>1, <2>2
<1> HIDE DEF n
<1>3. ASSUME NEW p \in Pages, NEW i \in Recs[p], i < n
      PROVE  i \in cache[p].recs
 <2>1. i \in frame[p] /\ (oldest[p] = 0 \/ n <= oldest[p]) /\ oldest[p] \in Nat
   BY <1>1, <1>2 DEF PagesAreRight, FrameIsRight
 <2>2. i \in Nat BY <2>1 DEF PoolTypes
 <2>3. oldest[p] = 0 \/ i < oldest[p] BY <1>2, <1>3, <2>1, <2>2
 <2> QED BY <2>1, <2>3 DEF PagesAreRight, FileIsRight
<1>4. n \in Safe BY <1>2, <1>3 DEF Safe
<1> QED BY <1>2, <1>4 DEF n

\* The log records of a page.
LEMMA RecordsAre ==
    ASSUME Types, NEW p \in Pages, NEW i \in Recs[p]
    PROVE  i \in Nat \ {0} /\ i < Lsn
<1>1. i \in DOMAIN log BY DEF Recs, RecordsOf
<1>2. log \in Seq(MtrPages) /\ Lsn = Len(log) + 1 /\ Len(log) \in Nat BY NumbersAre DEF LogTypes
<1> QED BY <1>1, <1>2

\* A page that is latched for a write has everything in its frame that the log has.
LEMMA LatchedByIo ==
    ASSUME IInv, NEW p \in Pages, latch[p] = Io
    PROVE  frame[p] = Recs[p]
<1>n. Lsn = Len(log) + 1 /\ Len(log) \in Nat BY NumbersAre
<1>1. frame[p] \subseteq Recs[p] /\ \A i \in Recs[p] : i \in frame[p] <=> (log_mutex = NoThread \/ i + 1 < Lsn)
  BY DEF PagesAreRight, FrameIsRight
<1>2. ASSUME NEW i \in Recs[p], i \notin frame[p] PROVE FALSE
 <2>1. i \in Nat /\ i < Lsn /\ log_mutex # NoThread /\ ~(i + 1 < Lsn) BY <1>1, <1>2, RecordsAre
 <2>2. i = Len(log) /\ log_mutex \in Threads BY <1>n, <2>1 DEF LogTypes
 <2>3. PICK u \in Threads : log_mutex = u BY <2>2
 <2>4. pc[u] = "note" /\ log[Len(log)] = memo[u] BY <2>3 DEF ThreadsAreRight, MutexIsRight
 <2>5. p \in memo[u] BY <2>2, <2>4 DEF Recs, RecordsOf
 <2>6. latch[p] = u BY <2>4, <2>5 DEF ThreadsAreRight, MtrIsRight, HasMtr
 <2> QED BY <2>6, RedoLogAssumption
<1> QED BY <1>1, <1>2

-----------------------------------------------------------------------------
(* The actions *)

\* log_write_up_to finds the log written and the caller goes on, or it waits for the
\* write that runs, which covers the caller's lsn when it is to return from the wait.
LEMMA CallGoesOn ==
    ASSUME IInv, NEW t \in Threads,
           pc[t] = "write_up_to" /\ after[t] \in {"mtr", "ack", "post", "checkpoint"},
           \/ Goes(t, after[t]) /\ log_mutex = NoThread /\ LogReaches(t)
           \/ Goes(t, "wait_retry") /\ n_pending_writes = 1
           \/ /\ Goes(t, "wait_return") /\ n_pending_writes = 1
              /\ upto[t] <= IF flush[t] THEN current_flush_lsn ELSE write_lsn,
           UNCHANGED callVars,
           UNCHANGED <<logVars, ckptVars, poolVars, writeVars, fileVars, memo, endVars>>
    PROVE  IInv'
<1> USE DEF WritersStay, OthersStay
<1>n. Lsn \in Nat \ {0} /\ LogEnd \in Nat /\ Lsn = Len(log) + 1 /\ Len(log) \in Nat BY NumbersAre
<1>1. pc[t] = "write_up_to" /\ after[t] \in {"mtr", "ack", "post", "checkpoint"} OBVIOUS
<1>2. /\ \/ Goes(t, after[t]) /\ log_mutex = NoThread /\ LogReaches(t)
         \/ Goes(t, "wait_retry") /\ n_pending_writes = 1
         \/ /\ Goes(t, "wait_return") /\ n_pending_writes = 1
            /\ upto[t] <= IF flush[t] THEN current_flush_lsn ELSE write_lsn
      /\ UNCHANGED callVars
      /\ UNCHANGED <<logVars, ckptVars, poolVars, writeVars, fileVars, memo, endVars>>
  OBVIOUS
<1>l. Lsn' = Lsn BY <1>2 DEF Lsn, logVars
<1>e. LogEnd' = LogEnd BY <1>2 DEF LogEnd, logVars
<1>r. Recs' = Recs BY <1>2 DEF Recs, RecordsOf, logVars
<1>s. Safe' = Safe BY <1>2, <1>r DEF Safe, fileVars
<1>w. Unwritten' = Unwritten
 <2>1. (\A u \in Threads : pc[u] # "wait_no_pending")' <=> (\A u \in Threads : pc[u] # "wait_no_pending")
   BY <1>1, <1>2 DEF Goes, ThreadsAreRight, AfterIsRight
 <2> QED BY <1>2, <2>1 DEF Unwritten, writeVars
<1>m. MtrThreads' = MtrThreads
 <2>1. ASSUME NEW u \in Threads PROVE InMtr(u)' <=> InMtr(u)
   BY <1>1, <1>2 DEF InMtr, callVars, Goes, Calls, ThreadTypes, ThreadsAreRight, AfterIsRight,
      WriteLabels
 <2> QED BY <2>1 DEF MtrThreads
<1>v. WritersStay
  BY <1>1, <1>2 DEF Writing, Goes, Calls, callVars, ThreadsAreRight, AfterIsRight, WriteLabels
<1>o. OthersStay(t) BY <1>2 DEF HasMtr, Posting, Awaiting, Batching, Goes, Calls, callVars
<1>3. LogTypes' BY <1>1, <1>2, <1>n DEF LogTypes, logVars, fileVars
<1>4. CkptTypes' BY <1>1, <1>2 DEF CkptTypes, ckptVars, fileVars
<1>5. PoolTypes' BY <1>1, <1>2 DEF PoolTypes, poolVars
<1>6. DiskTypes' BY <1>1, <1>2 DEF DiskTypes, writeVars, fileVars
<1>7. ThreadTypes' BY <1>1, <1>2 DEF ThreadTypes, Goes, callVars, endVars
<1>8. LsnsAreRight'
  BY <1>1, <1>2, <1>n, <1>l, <1>e, <1>v DEF LogTypes, LsnsAreRight, Writing, logVars, fileVars,
     callVars
<1>9. AckedIsKept'
  BY <1>1, <1>2, <1>n, <1>l DEF LogTypes, ThreadTypes, AckedIsKept, logVars, fileVars, endVars
<1>10. DblwrIsRight'
  BY <1>1, <1>2 DEF DblwrIsRight, ThreadTypes, Goes, ThreadsAreRight, AfterIsRight, writeVars,
     fileVars
<1>11. FlushListIsRight' BY <1>1, <1>2 DEF FlushListIsRight, poolVars
<1>12. CheckpointsAreRight'
  BY <1>1, <1>2, <1>n, <1>s DEF LogTypes, CkptTypes, CheckpointsAreRight, SlotsAreRight, Sampled,
     WriteLabels, ThreadsAreRight, AfterIsRight, Goes, logVars, ckptVars, fileVars, callVars
<1>13. RoomIsLeft'
  BY <1>1, <1>2, <1>n, <1>l, <1>e, <1>m DEF LogTypes, CkptTypes, RoomIsLeft, logVars, ckptVars,
     fileVars
<1>14. DirectIsDirect' BY <1>1, <1>2 DEF DirectIsDirect, fileVars
<1>15. ASSUME NEW u \in Threads PROVE AfterIsRight(u)'
  BY <1>1, <1>2, <1>n DEF ThreadTypes, WriteLabels, DblwrLabels, ThreadsAreRight, AfterIsRight,
     Goes, callVars
<1>16. ASSUME NEW u \in Threads PROVE CallIsRight(u)'
  BY <1>1, <1>2, <1>n, <1>l, <1>e DEF LogTypes, ThreadTypes, CallIsRight, LsnsAreRight, LogReaches,
     Writing, Posting, Sampled, WriteLabels, ThreadsAreRight, AfterIsRight, Goes, logVars, callVars
<1>17. ASSUME NEW u \in Threads PROVE MutexIsRight(u)'
  BY <1>1, <1>2, <1>n DEF LogTypes, ThreadTypes, MutexIsRight, ThreadsAreRight, Goes, logVars
<1>18. ASSUME NEW u \in Threads PROVE MtrIsRight(u)'
 <2>1. CASE u = t
  <3>1. pc[t] # "latching" /\ pc'[t] \in {after[t], "wait_retry", "wait_return"} /\ after' = after
    BY <1>1, <1>2 DEF Goes, callVars
  <3>2. /\ HasMtr(t)' <=> HasMtr(t)
        /\ Posting(t)' <=> Posting(t)
        /\ Awaiting(t)' <=> Awaiting(t)
        /\ pc'[t] # "latching"
    BY <1>1, <3>1 DEF HasMtr, Posting, Awaiting, WriteLabels, DblwrLabels
  <3>3. memo' = memo /\ latch' = latch BY <1>2 DEF poolVars
  <3> QED BY Zenon, <2>1, <3>1, <3>2, <3>3 DEF ThreadsAreRight, MtrIsRight
 <2>2. CASE u # t
   BY <2>2, <1>1, <1>2, <1>o DEF PoolTypes, ThreadTypes, ThreadsAreRight, MtrIsRight, poolVars,
      callVars
 <2> QED BY <2>1, <2>2
<1>19. ASSUME NEW u \in Threads PROVE BatchIsRight(u)'
 <2>1. CASE u = t
   BY <2>1, <1>1, <1>2, <1>w DEF PoolTypes, ThreadTypes, BatchIsRight, Posting, Awaiting, Batching,
      WriteLabels, DblwrLabels, ThreadsAreRight, AfterIsRight, Goes, poolVars, writeVars, callVars
 <2>2. CASE u # t
   BY <2>2, <1>1, <1>2, <1>o, <1>w DEF PoolTypes, ThreadTypes, ThreadsAreRight, BatchIsRight,
      poolVars, writeVars, callVars
 <2> QED BY <2>1, <2>2
<1>20. ASSUME NEW p \in Pages PROVE FrameIsRight(p)'
  BY <1>1, <1>2, <1>n, <1>l, <1>r DEF LogTypes, PoolTypes, PagesAreRight, FrameIsRight, logVars,
     poolVars
<1>21. ASSUME NEW p \in Pages PROVE FileIsRight(p)'
  BY <1>1, <1>2, <1>n, <1>r DEF LogTypes, PoolTypes, DiskTypes, PagesAreRight, FileIsRight, Good,
     poolVars, fileVars
<1>22. ASSUME NEW p \in Pages PROVE WriteIsRight(p)'
  BY <1>1, <1>2, <1>n, <1>w, <1>r DEF LogTypes, PoolTypes, DiskTypes, PagesAreRight, WriteIsRight,
     Good, Image, poolVars, writeVars, fileVars
<1>23. ASSUME NEW p \in Pages PROVE LatchIsRight(p)'
  BY ZenonT(60), <1>1, <1>2, <1>n, <1>w DEF PoolTypes, DiskTypes, ThreadTypes, PagesAreRight,
     LatchIsRight, Posting, WriteLabels, ThreadsAreRight, AfterIsRight, Goes, poolVars, writeVars,
     callVars
<1> QED
  BY <1>3, <1>4, <1>5, <1>6, <1>7, <1>8, <1>9, <1>10, <1>11, <1>12, <1>13, <1>14, <1>15, <1>16,
       <1>17, <1>18, <1>19, <1>20, <1>21, <1>22, <1>23 DEF ThreadsAreRight, PagesAreRight

\* log_write_up_to finds the log written: the caller goes on.
LEMMA AlreadyWrittenKeeps ==
    ASSUME IInv, NEW t \in Threads, AlreadyWritten(t)
    PROVE  IInv'
<1>n. Lsn \in Nat \ {0} /\ LogEnd \in Nat /\ Lsn = Len(log) + 1 /\ Len(log) \in Nat BY NumbersAre
<1>1. pc[t] = "write_up_to" /\ log_mutex = NoThread /\ LogReaches(t)
      /\ after[t] \in {"mtr", "ack", "post", "checkpoint"}
  BY DEF AlreadyWritten, EntersLog, LogReaches, LogTypes, PoolTypes, ThreadTypes, ThreadsAreRight,
     AfterIsRight, WriteLabels, DblwrLabels
<1>2. Goes(t, after[t]) /\ UNCHANGED callVars
      /\ UNCHANGED <<logVars, ckptVars, poolVars, writeVars, fileVars, memo, endVars>>
  BY ZenonT(60), <1>1, <1>n DEF AlreadyWritten, GoTo, Finish, CallWriteUpTo, LogTypes, PoolTypes,
     DiskTypes, ThreadTypes, Labels, WriteLabels, DblwrLabels, Goes, Calls, Holds
<1> QED BY <1>1, <1>2, CallGoesOn

\* log_write_up_to waits for the write that runs, which covers the caller's lsn when
\* it is to return from the wait.
LEMMA WaitForWriteKeeps ==
    ASSUME IInv, NEW t \in Threads, WaitForWrite(t)
    PROVE  IInv'
<1>n. Lsn \in Nat \ {0} /\ LogEnd \in Nat /\ Lsn = Len(log) + 1 /\ Len(log) \in Nat BY NumbersAre
<1>1. pc[t] = "write_up_to" /\ n_pending_writes = 1
      /\ after[t] \in {"mtr", "ack", "post", "checkpoint"}
  BY DEF WaitForWrite, EntersLog, LogReaches, LogTypes, PoolTypes, ThreadTypes, ThreadsAreRight,
     AfterIsRight, WriteLabels, DblwrLabels
<1>2. /\ \/ Goes(t, "wait_retry")
         \/ Goes(t, "wait_return")
            /\ upto[t] <= IF flush[t] THEN current_flush_lsn ELSE write_lsn
      /\ UNCHANGED callVars
      /\ UNCHANGED <<logVars, ckptVars, poolVars, writeVars, fileVars, memo, endVars>>
  BY <1>1, <1>n DEF WaitForWrite, GoTo, Finish, CallWriteUpTo, LogTypes, PoolTypes, DiskTypes,
     ThreadTypes, Labels, WriteLabels, DblwrLabels, Goes, Calls, Holds
<1> QED BY <1>1, <1>2, CallGoesOn

\* log_write_up_to starts a write: what it puts into the ring leaves the log from the
\* last checkpoint on whole, as there is room for it (RoomOfRing, RingIsWritten).
LEMMA StartWriteKeeps ==
    ASSUME IInv, NEW t \in Threads, StartWrite(t)
    PROVE  IInv'
<1> USE DEF OthersStay
<1>n. Lsn \in Nat \ {0} /\ LogEnd \in Nat /\ Lsn = Len(log) + 1 /\ Len(log) \in Nat BY NumbersAre
<1>1. pc[t] = "write_up_to" /\ log_mutex = NoThread /\ n_pending_writes = 0
      /\ after[t] \in {"mtr", "ack", "post", "checkpoint"}
  BY DEF StartWrite, EntersLog, LogReaches, LogTypes, PoolTypes, ThreadTypes, ThreadsAreRight,
     AfterIsRight, WriteLabels, DblwrLabels
<1>2. /\ Goes(t, "flush_file") /\ UNCHANGED callVars
      /\ n_pending_writes' = 1 /\ write_lsn' = Lsn
      /\ current_flush_lsn' = IF flush[t] THEN Lsn ELSE current_flush_lsn
      /\ file' \in [0 .. Capacity - 1 -> Nat]
      /\ \A i \in last_checkpoint_lsn .. Lsn - 1 : file'[i % Capacity] = i
      /\ UNCHANGED <<log, log_mutex, written_to_all_lsn, flushed_to_disk_lsn,
                     check_flush_or_checkpoint, ckptVars, poolVars, writeVars,
                     synced, slots, cache, disk, dblwr, dblwr_synced, memo, endVars>>
 <2>1. /\ Goes(t, "flush_file") /\ UNCHANGED callVars
       /\ n_pending_writes' = 1 /\ write_lsn' = Lsn
       /\ current_flush_lsn' = IF flush[t] THEN Lsn ELSE current_flush_lsn
       /\ file' = WriteRecords(written_to_all_lsn, Lsn)
       /\ UNCHANGED <<log, log_mutex, written_to_all_lsn, flushed_to_disk_lsn,
                      check_flush_or_checkpoint, ckptVars, poolVars, writeVars,
                      synced, slots, cache, disk, dblwr, dblwr_synced, memo, endVars>>
   BY <1>1 DEF StartWrite, GoTo, LogTypes, ThreadTypes, Labels, WriteLabels, Goes
 <2>2. file' \in [0 .. Capacity - 1 -> Nat]
       /\ \A i \in last_checkpoint_lsn .. Lsn - 1 : file'[i % Capacity] = i
  <3>0. LogEnd = written_to_all_lsn BY <1>1 DEF LogEnd
  <3>1. /\ written_to_all_lsn \in Nat /\ last_checkpoint_lsn \in Nat /\ Lsn \in Nat
        /\ file \in [0 .. Capacity - 1 -> Nat]
        /\ \A i \in last_checkpoint_lsn .. written_to_all_lsn - 1 : file[i % Capacity] = i
    BY <3>0, <1>n DEF LogTypes, CkptTypes, RoomIsLeft
  <3>2. Lsn <= last_checkpoint_lsn + Capacity /\ Capacity \in Nat \ {0} BY Zenon, RoomOfRing
  <3> QED BY <2>1, <3>1, <3>2, RingIsWritten
 <2> QED BY <2>1, <2>2
<1>l. Lsn' = Lsn BY <1>2 DEF Lsn, logVars
<1>e. LogEnd' = Lsn BY <1>1, <1>2 DEF LogEnd
<1>r. Recs' = Recs BY <1>2 DEF Recs, RecordsOf
<1>s. Safe' = Safe BY <1>2, <1>r DEF Safe
<1>w. Unwritten' = Unwritten
 <2>1. (\A u \in Threads : pc[u] # "wait_no_pending")' <=> (\A u \in Threads : pc[u] # "wait_no_pending")
   BY <1>1, <1>2 DEF Goes, ThreadsAreRight, AfterIsRight
 <2> QED BY <1>2, <2>1 DEF Unwritten, writeVars
<1>m. MtrThreads' = MtrThreads
 <2>1. ASSUME NEW u \in Threads PROVE InMtr(u)' <=> InMtr(u)
   BY <1>1, <1>2 DEF InMtr, callVars, Goes, ThreadTypes, ThreadsAreRight, AfterIsRight, WriteLabels
 <2> QED BY <2>1 DEF MtrThreads
<1>o. OthersStay(t) BY <1>2 DEF HasMtr, Posting, Awaiting, Batching, Goes, Calls, callVars
<1>3. LogTypes' BY <1>1, <1>2, <1>n DEF LogTypes
<1>4. CkptTypes' BY <1>1, <1>2 DEF CkptTypes, ckptVars
<1>5. PoolTypes' BY <1>1, <1>2 DEF PoolTypes, poolVars
<1>6. DiskTypes' BY <1>1, <1>2 DEF DiskTypes, writeVars
<1>7. ThreadTypes' BY <1>1, <1>2 DEF ThreadTypes, Goes, callVars, endVars
<1>8. LsnsAreRight'
  BY <1>1, <1>2, <1>n, <1>l, <1>e DEF Goes, LogTypes, LsnsAreRight, Writing, callVars
<1>9. AckedIsKept' BY <1>1, <1>2, <1>n, <1>l DEF LogTypes, ThreadTypes, AckedIsKept, endVars
<1>10. DblwrIsRight'
  BY <1>1, <1>2 DEF DblwrIsRight, ThreadTypes, Goes, ThreadsAreRight, AfterIsRight, writeVars
<1>11. FlushListIsRight' BY <1>1, <1>2 DEF FlushListIsRight, poolVars
<1>12. CheckpointsAreRight'
  BY <1>1, <1>2, <1>n, <1>s DEF LogTypes, CkptTypes, CheckpointsAreRight, SlotsAreRight, Sampled,
     WriteLabels, ThreadsAreRight, AfterIsRight, Goes, ckptVars, callVars
<1>13. RoomIsLeft'
  BY <1>1, <1>2, <1>n, <1>l, <1>e, <1>m DEF LogTypes, CkptTypes, RoomIsLeft, ckptVars
<1>14. DirectIsDirect' BY <1>1, <1>2 DEF DirectIsDirect
<1>15. ASSUME NEW u \in Threads PROVE AfterIsRight(u)'
  BY <1>1, <1>2, <1>n DEF ThreadTypes, WriteLabels, DblwrLabels, ThreadsAreRight, AfterIsRight,
     Goes, callVars
<1>16. ASSUME NEW u \in Threads PROVE CallIsRight(u)'
  BY <1>1, <1>2, <1>n, <1>l, <1>e DEF LogTypes, ThreadTypes, CallIsRight, LsnsAreRight, LogReaches,
     Writing, Posting, Sampled, WriteLabels, ThreadsAreRight, AfterIsRight, Goes, callVars
<1>17. ASSUME NEW u \in Threads PROVE MutexIsRight(u)'
  BY <1>1, <1>2, <1>n DEF LogTypes, ThreadTypes, MutexIsRight, ThreadsAreRight, Goes
<1>18. ASSUME NEW u \in Threads PROVE MtrIsRight(u)'
 <2>1. CASE u = t
   BY ZenonT(60), <2>1, <1>1, <1>2 DEF PoolTypes, ThreadTypes, MtrIsRight, HasMtr, Posting, Awaiting,
      WriteLabels, DblwrLabels, ThreadsAreRight, AfterIsRight, Goes, poolVars, callVars
 <2>2. CASE u # t
   BY <2>2, <1>1, <1>2, <1>o DEF PoolTypes, ThreadTypes, ThreadsAreRight, MtrIsRight, poolVars,
      callVars
 <2> QED BY <2>1, <2>2
<1>19. ASSUME NEW u \in Threads PROVE BatchIsRight(u)'
 <2>1. CASE u = t
   BY <2>1, <1>1, <1>2, <1>w DEF PoolTypes, ThreadTypes, BatchIsRight, Posting, Awaiting, Batching,
      WriteLabels, DblwrLabels, ThreadsAreRight, AfterIsRight, Goes, poolVars, writeVars, callVars
 <2>2. CASE u # t
   BY <2>2, <1>1, <1>2, <1>o, <1>w DEF PoolTypes, ThreadTypes, ThreadsAreRight, BatchIsRight,
      poolVars, writeVars, callVars
 <2> QED BY <2>1, <2>2
<1>20. ASSUME NEW p \in Pages PROVE FrameIsRight(p)'
  BY <1>1, <1>2, <1>n, <1>l, <1>r DEF LogTypes, PoolTypes, PagesAreRight, FrameIsRight, poolVars
<1>21. ASSUME NEW p \in Pages PROVE FileIsRight(p)'
  BY <1>1, <1>2, <1>n, <1>r DEF LogTypes, PoolTypes, DiskTypes, PagesAreRight, FileIsRight, Good,
     poolVars
<1>22. ASSUME NEW p \in Pages PROVE WriteIsRight(p)'
  BY <1>1, <1>2, <1>n, <1>w, <1>r DEF LogTypes, PoolTypes, DiskTypes, PagesAreRight, WriteIsRight,
     Good, Image, poolVars, writeVars
<1>23. ASSUME NEW p \in Pages PROVE LatchIsRight(p)'
  BY ZenonT(60), <1>1, <1>2, <1>n, <1>w DEF PoolTypes, DiskTypes, ThreadTypes, PagesAreRight,
     LatchIsRight, Posting, WriteLabels, ThreadsAreRight, AfterIsRight, Goes, poolVars, writeVars,
     callVars
<1> QED
  BY <1>3, <1>4, <1>5, <1>6, <1>7, <1>8, <1>9, <1>10, <1>11, <1>12, <1>13, <1>14, <1>15, <1>16,
       <1>17, <1>18, <1>19, <1>20, <1>21, <1>22, <1>23 DEF ThreadsAreRight, PagesAreRight

\* The log up to write_lsn is flushed, and so is what any image may hold.
LEMMA FlushFileKeeps ==
    ASSUME IInv, NEW t \in Threads, FlushFile(t)
    PROVE  IInv'
<1> USE DEF OthersStay
<1>n. Lsn \in Nat \ {0} /\ LogEnd \in Nat /\ Lsn = Len(log) + 1 /\ Len(log) \in Nat BY NumbersAre
<1>1. pc[t] = "flush_file" /\ after[t] \in {"mtr", "ack", "post", "checkpoint"}
  BY Zenon DEF FlushFile, EntersLog, LogReaches, LogTypes, PoolTypes, ThreadTypes, ThreadsAreRight,
     AfterIsRight, WriteLabels, DblwrLabels
<1>2. /\ Goes(t, "complete_write") /\ UNCHANGED callVars
      /\ IF flush[t] THEN synced' = write_lsn /\ flushed_to_disk_lsn' = write_lsn
                     ELSE UNCHANGED <<synced, flushed_to_disk_lsn>>
      /\ UNCHANGED <<log, log_mutex, write_lsn, written_to_all_lsn, current_flush_lsn,
                     n_pending_writes, check_flush_or_checkpoint, ckptVars, poolVars,
                     writeVars, file, slots, cache, disk, dblwr, dblwr_synced, memo, endVars>>
  BY <1>1, <1>n DEF FlushFile, GoTo, Finish, CallWriteUpTo, LogTypes, PoolTypes, DiskTypes,
     ThreadTypes, Labels, WriteLabels, DblwrLabels, Goes, Calls, Holds
<1>a. write_lsn >= synced /\ write_lsn >= flushed_to_disk_lsn /\ LogEnd = write_lsn
      /\ n_pending_writes = 1 /\ synced' >= synced /\ synced' \in Nat
  BY <1>1, <1>2 DEF LogTypes, LsnsAreRight, Writing, LogEnd
<1>l. Lsn' = Lsn BY <1>2 DEF Lsn, logVars
<1>e. LogEnd' = LogEnd BY <1>2 DEF LogEnd, logVars
<1>r. Recs' = Recs BY <1>2 DEF Recs, RecordsOf, logVars
<1>s. Safe' = Safe BY <1>2, <1>r DEF Safe
<1>w. Unwritten' = Unwritten
 <2>1. (\A u \in Threads : pc[u] # "wait_no_pending")' <=> (\A u \in Threads : pc[u] # "wait_no_pending")
   BY <1>1, <1>2 DEF Goes, ThreadsAreRight, AfterIsRight
 <2> QED BY <1>2, <2>1 DEF Unwritten, writeVars
<1>m. MtrThreads' = MtrThreads
 <2>1. ASSUME NEW u \in Threads PROVE InMtr(u)' <=> InMtr(u)
   BY <1>1, <1>2 DEF InMtr, callVars, Goes, Calls, ThreadTypes, ThreadsAreRight, AfterIsRight,
      WriteLabels
 <2> QED BY <2>1 DEF MtrThreads
<1>o. OthersStay(t) BY <1>2 DEF HasMtr, Posting, Awaiting, Batching, Goes, Calls, callVars
<1>3. LogTypes' BY <1>1, <1>2, <1>n, <1>a DEF LogTypes
<1>4. CkptTypes' BY <1>1, <1>2, <1>a DEF CkptTypes, ckptVars
<1>5. PoolTypes' BY <1>1, <1>2, <1>a DEF PoolTypes, poolVars
<1>6. DiskTypes' BY <1>1, <1>2, <1>a DEF DiskTypes, writeVars
<1>7. ThreadTypes' BY <1>1, <1>2, <1>a DEF ThreadTypes, Goes, callVars, endVars
<1>8. LsnsAreRight'
 <2>1. \A u \in Threads : Writing(u)' <=> Writing(u) BY <1>1, <1>2 DEF Writing, Goes
 <2>2. \/ current_flush_lsn <= flushed_to_disk_lsn
       \/ flush[t] /\ current_flush_lsn = write_lsn
   BY <1>1 DEF LsnsAreRight, Writing
 <2>3. /\ n_pending_writes = 1 => \E u \in Threads : Writing(u)
       /\ \A u \in Threads : Writing(u) => n_pending_writes = 1
       /\ \A u, v \in Threads : Writing(u) /\ Writing(v) => u = v
       /\ flushed_to_disk_lsn <= synced /\ synced <= LogEnd
       /\ written_to_all_lsn <= LogEnd /\ LogEnd <= Lsn
   BY DEF LsnsAreRight
 <2>4. current_flush_lsn' <= flushed_to_disk_lsn' BY <1>2, <1>a, <2>2 DEF LogTypes
 <2>5. flushed_to_disk_lsn' <= synced' /\ synced' <= LogEnd' /\ written_to_all_lsn' <= LogEnd'
       /\ LogEnd' <= Lsn'
   BY <1>2, <1>a, <1>l, <1>e, <2>3 DEF LogTypes
 <2> QED BY <1>2, <2>1, <2>3, <2>4, <2>5 DEF LsnsAreRight
<1>9. AckedIsKept' BY <1>1, <1>2, <1>n, <1>l, <1>a DEF LogTypes, ThreadTypes, AckedIsKept, endVars
<1>10. DblwrIsRight'
  BY <1>1, <1>2, <1>a DEF DblwrIsRight, ThreadTypes, Goes, ThreadsAreRight, AfterIsRight, writeVars
<1>11. FlushListIsRight' BY <1>1, <1>2, <1>a DEF FlushListIsRight, poolVars
<1>12. CheckpointsAreRight'
 <2>1. \A u \in Threads : Sampled(u)' => Sampled(u) /\ upto'[u] = upto[u]
   BY <1>1, <1>2 DEF Sampled, Goes, callVars, WriteLabels
 <2>2. SlotsAreRight' BY <1>2 DEF CheckpointsAreRight, SlotsAreRight, ckptVars
 <2>3. last_checkpoint_lsn \in Nat /\ next_checkpoint_lsn \in Nat /\ synced \in Nat
   BY DEF CkptTypes, LogTypes
 <2> QED BY <1>2, <1>a, <1>s, <2>1, <2>2, <2>3 DEF CheckpointsAreRight, ckptVars
<1>13. RoomIsLeft'
  BY <1>1, <1>2, <1>n, <1>l, <1>e, <1>m, <1>a DEF LogTypes, CkptTypes, RoomIsLeft, ckptVars
<1>14. DirectIsDirect' BY <1>1, <1>2, <1>a DEF DirectIsDirect
<1>15. ASSUME NEW u \in Threads PROVE AfterIsRight(u)'
  BY <1>1, <1>2, <1>n, <1>a DEF ThreadTypes, WriteLabels, DblwrLabels, ThreadsAreRight,
     AfterIsRight, Goes, callVars
<1>16. ASSUME NEW u \in Threads PROVE CallIsRight(u)'
  BY <1>1, <1>2, <1>n, <1>l, <1>e, <1>a DEF LogTypes, ThreadTypes, CallIsRight, LsnsAreRight,
     LogReaches, Writing, Posting, Sampled, WriteLabels, ThreadsAreRight, AfterIsRight, Goes,
     callVars
<1>17. ASSUME NEW u \in Threads PROVE MutexIsRight(u)'
  BY <1>1, <1>2, <1>n, <1>a DEF LogTypes, ThreadTypes, MutexIsRight, ThreadsAreRight, Goes
<1>18. ASSUME NEW u \in Threads PROVE MtrIsRight(u)'
 <2>1. CASE u = t
   BY ZenonT(60), <2>1, <1>1, <1>2, <1>a DEF PoolTypes, ThreadTypes, MtrIsRight, HasMtr, Posting, Awaiting,
      WriteLabels, DblwrLabels, ThreadsAreRight, AfterIsRight, Goes, poolVars, callVars
 <2>2. CASE u # t
   BY <2>2, <1>1, <1>2, <1>o, <1>a DEF PoolTypes, ThreadTypes, ThreadsAreRight, MtrIsRight,
      poolVars, callVars
 <2> QED BY <2>1, <2>2
<1>19. ASSUME NEW u \in Threads PROVE BatchIsRight(u)'
 <2>1. CASE u = t
   BY <2>1, <1>1, <1>2, <1>w, <1>a DEF PoolTypes, ThreadTypes, BatchIsRight, Posting, Awaiting,
      Batching, WriteLabels, DblwrLabels, ThreadsAreRight, AfterIsRight, Goes, poolVars, writeVars,
      callVars
 <2>2. CASE u # t
   BY <2>2, <1>1, <1>2, <1>o, <1>w, <1>a DEF PoolTypes, ThreadTypes, ThreadsAreRight, BatchIsRight,
      poolVars, writeVars, callVars
 <2> QED BY <2>1, <2>2
<1>20. ASSUME NEW p \in Pages PROVE FrameIsRight(p)'
  BY <1>1, <1>2, <1>n, <1>l, <1>r, <1>a DEF LogTypes, PoolTypes, PagesAreRight, FrameIsRight,
     poolVars
<1>21. ASSUME NEW p \in Pages PROVE FileIsRight(p)'
  BY <1>1, <1>2, <1>n, <1>r, <1>a DEF Images, LogTypes, PoolTypes, DiskTypes, PagesAreRight,
     FileIsRight, Good, poolVars
<1>22. ASSUME NEW p \in Pages PROVE WriteIsRight(p)'
  BY <1>2, <1>w, <1>r, <1>a DEF Images, LogTypes, DiskTypes, PagesAreRight, WriteIsRight, Good,
     Image, poolVars, writeVars
<1>23. ASSUME NEW p \in Pages PROVE LatchIsRight(p)'
  BY Zenon, <1>1, <1>2, <1>n, <1>w, <1>a DEF PoolTypes, DiskTypes, ThreadTypes, PagesAreRight,
     LatchIsRight, Posting, WriteLabels, ThreadsAreRight, AfterIsRight, Goes, poolVars, writeVars,
     callVars
<1> QED
  BY <1>3, <1>4, <1>5, <1>6, <1>7, <1>8, <1>9, <1>10, <1>11, <1>12, <1>13, <1>14, <1>15, <1>16,
       <1>17, <1>18, <1>19, <1>20, <1>21, <1>22, <1>23 DEF ThreadsAreRight, PagesAreRight

\* The end of a write: whoever waits to return has its lsn written or flushed.
LEMMA CompleteWriteKeeps ==
    ASSUME IInv, NEW t \in Threads, CompleteWrite(t)
    PROVE  IInv'
<1>n. Lsn \in Nat \ {0} /\ LogEnd \in Nat /\ Lsn = Len(log) + 1 /\ Len(log) \in Nat BY NumbersAre
<1>1. pc[t] = "complete_write" /\ after[t] \in {"mtr", "ack", "post", "checkpoint"}
      /\ log_mutex = NoThread
  BY Zenon DEF CompleteWrite, EntersLog, LogReaches, LogTypes, PoolTypes, ThreadTypes,
     ThreadsAreRight, AfterIsRight, WriteLabels, DblwrLabels
<1>2. /\ n_pending_writes' = n_pending_writes - 1 /\ written_to_all_lsn' = write_lsn
      /\ pc' \in [Threads -> Labels] /\ pc'[t] = after[t]
      /\ \A u \in Threads : u # t => pc'[u] = IF pc[u] = "wait_return" THEN after[u]
                                              ELSE IF pc[u] = "wait_retry" THEN "write_up_to"
                                              ELSE pc[u]
      /\ UNCHANGED <<log, log_mutex, write_lsn, flushed_to_disk_lsn, current_flush_lsn,
                     check_flush_or_checkpoint, ckptVars, poolVars, writeVars,
                     fileVars, callVars, memo, endVars>>
  BY <1>1, <1>n DEF CompleteWrite, GoTo, Finish, CallWriteUpTo, LogTypes, PoolTypes, DiskTypes,
     ThreadTypes, Labels, WriteLabels, DblwrLabels, Goes, Calls, Holds
<1>a. LogEnd = write_lsn /\ n_pending_writes = 1 /\ write_lsn >= written_to_all_lsn
      /\ write_lsn \in Nat /\ written_to_all_lsn \in Nat \ {0}
      /\ \A u \in Threads : u # t => ~ Writing(u)
  BY <1>1, <1>2 DEF LogTypes, LsnsAreRight, Writing, LogEnd
<1>l. Lsn' = Lsn BY <1>2 DEF Lsn, logVars
<1>e. LogEnd' = LogEnd BY <1>2, <1>a DEF LogEnd
<1>r. Recs' = Recs BY <1>2 DEF Recs, RecordsOf
<1>s. Safe' = Safe BY <1>2, <1>r DEF Safe, fileVars
<1>w. Unwritten' = Unwritten
 <2>1. ASSUME NEW u \in Threads PROVE pc'[u] = "wait_no_pending" <=> pc[u] = "wait_no_pending"
   BY <1>1, <1>2 DEF ThreadsAreRight, AfterIsRight, WriteLabels
 <2> QED BY <1>2, <2>1 DEF Unwritten, writeVars
<1>m. MtrThreads' = MtrThreads
 <2>1. ASSUME NEW u \in Threads PROVE InMtr(u)' <=> InMtr(u)
   BY <1>1, <1>2 DEF InMtr, callVars, Goes, Calls, ThreadTypes, ThreadsAreRight, AfterIsRight,
      WriteLabels
 <2> QED BY <2>1 DEF MtrThreads
<1>3. LogTypes' BY <1>1, <1>2, <1>n, <1>a DEF LogTypes, fileVars
<1>4. CkptTypes' BY <1>1, <1>2, <1>a DEF CkptTypes, ckptVars, fileVars
<1>5. PoolTypes' BY <1>1, <1>2, <1>a DEF PoolTypes, poolVars
<1>6. DiskTypes' BY <1>1, <1>2, <1>a DEF DiskTypes, writeVars, fileVars
<1>7. ThreadTypes' BY <1>1, <1>2, <1>a DEF ThreadTypes, callVars, endVars
<1>8. LsnsAreRight'
 <2>1. \A u \in Threads : ~ Writing(u)'
   BY <1>1, <1>2, <1>a DEF Writing, ThreadsAreRight, AfterIsRight, WriteLabels
 <2>2. current_flush_lsn <= flushed_to_disk_lsn BY <1>1, <1>a DEF LsnsAreRight, Writing
 <2>3. flushed_to_disk_lsn <= synced /\ synced <= LogEnd /\ LogEnd <= Lsn BY DEF LsnsAreRight
 <2> QED BY <1>2, <1>a, <1>l, <1>e, <2>1, <2>2, <2>3 DEF LsnsAreRight, fileVars
<1>9. AckedIsKept'
  BY <1>1, <1>2, <1>n, <1>l, <1>a DEF LogTypes, ThreadTypes, AckedIsKept, fileVars, endVars
<1>10. DblwrIsRight'
  BY <1>1, <1>2, <1>a DEF DblwrIsRight, ThreadTypes, ThreadsAreRight, AfterIsRight, writeVars,
     fileVars
<1>11. FlushListIsRight' BY <1>1, <1>2, <1>a DEF FlushListIsRight, poolVars
<1>12. CheckpointsAreRight'
  BY <1>1, <1>2, <1>n, <1>s, <1>a DEF LogTypes, CkptTypes, CheckpointsAreRight, SlotsAreRight,
     Sampled, WriteLabels, ThreadsAreRight, AfterIsRight, ckptVars, fileVars, callVars
<1>13. RoomIsLeft'
  BY <1>1, <1>2, <1>n, <1>l, <1>e, <1>m, <1>a DEF LogTypes, CkptTypes, RoomIsLeft, ckptVars,
     fileVars
<1>14. DirectIsDirect' BY <1>1, <1>2, <1>a DEF DirectIsDirect, fileVars
<1>15. ASSUME NEW u \in Threads PROVE AfterIsRight(u)'
  BY <1>1, <1>2, <1>n, <1>a DEF ThreadTypes, WriteLabels, DblwrLabels, ThreadsAreRight,
     AfterIsRight, callVars
<1>16. ASSUME NEW u \in Threads PROVE CallIsRight(u)'
  BY <1>1, <1>2, <1>n, <1>l, <1>e, <1>a DEF LogTypes, ThreadTypes, CallIsRight, LsnsAreRight,
     LogReaches, Writing, Posting, Sampled, WriteLabels, ThreadsAreRight, AfterIsRight, callVars
<1>17. ASSUME NEW u \in Threads PROVE MutexIsRight(u)'
  BY <1>1, <1>2, <1>n, <1>a DEF LogTypes, ThreadTypes, MutexIsRight, ThreadsAreRight
<1>18. ASSUME NEW u \in Threads PROVE MtrIsRight(u)'
  BY <1>1, <1>2 DEF MtrIsRight, HasMtr, Posting, Awaiting, WriteLabels, ThreadsAreRight,
     AfterIsRight, poolVars, callVars
<1>19. ASSUME NEW u \in Threads PROVE BatchIsRight(u)'
 <2>1. pc'[u] = pc[u] \/ (pc[u] \in WriteLabels /\ pc'[u] = after[u]) \/ (pc[u] \in WriteLabels /\ pc'[u] = "write_up_to")
   BY <1>1, <1>2 DEF WriteLabels
 <2>2. after[u] \in {"mtr", "ack", "post", "checkpoint"} \/ pc[u] \notin WriteLabels
   BY DEF ThreadsAreRight, AfterIsRight
 <2>3. (Posting(u)' <=> Posting(u)) /\ (Awaiting(u)' <=> Awaiting(u)) /\ (pc'[u] = "latch" => pc[u] = "latch")
       /\ (pc'[u] = "batch" <=> pc[u] = "batch")
   BY <1>2, <2>1, <2>2 DEF Posting, Awaiting, WriteLabels, DblwrLabels, callVars
 <2>4. Batching(u)' <=> Batching(u) BY <2>3 DEF Batching
 <2>5. BatchIsRight(u) BY DEF ThreadsAreRight
 <2> QED BY <1>2, <1>w, <2>3, <2>4, <2>5 DEF BatchIsRight, poolVars, writeVars, callVars
<1>20. ASSUME NEW p \in Pages PROVE FrameIsRight(p)'
  BY <1>1, <1>2, <1>n, <1>l, <1>r, <1>a DEF LogTypes, PoolTypes, PagesAreRight, FrameIsRight,
     poolVars
<1>21. ASSUME NEW p \in Pages PROVE FileIsRight(p)'
  BY <1>1, <1>2, <1>n, <1>r, <1>a DEF LogTypes, PoolTypes, DiskTypes, PagesAreRight, FileIsRight,
     Good, poolVars, fileVars
<1>22. ASSUME NEW p \in Pages PROVE WriteIsRight(p)'
  BY <1>1, <1>2, <1>n, <1>w, <1>r, <1>a DEF LogTypes, PoolTypes, DiskTypes, PagesAreRight,
     WriteIsRight, Good, Image, poolVars, writeVars, fileVars
<1>23. ASSUME NEW p \in Pages PROVE LatchIsRight(p)'
  BY Zenon, <1>1, <1>2, <1>n, <1>w, <1>a DEF PoolTypes, DiskTypes, ThreadTypes, PagesAreRight,
     LatchIsRight, Posting, WriteLabels, ThreadsAreRight, AfterIsRight, poolVars, writeVars,
     callVars
<1> QED
  BY <1>3, <1>4, <1>5, <1>6, <1>7, <1>8, <1>9, <1>10, <1>11, <1>12, <1>13, <1>14, <1>15, <1>16,
       <1>17, <1>18, <1>19, <1>20, <1>21, <1>22, <1>23 DEF ThreadsAreRight, PagesAreRight

\* A mini-transaction starts: its log is counted in RoomIsLeft from now on.
LEMMA MtrStartKeeps ==
    ASSUME IInv, NEW t \in Threads, MtrStart(t)
    PROVE  IInv'
<1> USE DEF OthersStay, WritersStay
<1>n. Lsn \in Nat \ {0} /\ LogEnd \in Nat /\ Lsn = Len(log) + 1 /\ Len(log) \in Nat BY NumbersAre
<1>1. pc[t] = "idle" /\ after[t] = "idle" /\ ~check_flush_or_checkpoint
  BY Zenon DEF MtrStart, EntersLog, LogReaches, LogTypes, PoolTypes, ThreadTypes, ThreadsAreRight,
     AfterIsRight, WriteLabels, DblwrLabels
<1>2. /\ Goes(t, "latching") /\ UNCHANGED callVars
      /\ Holds(t, memo'[t]) /\ memo'[t] \in MtrPages
      /\ Len(log) + Cardinality(MtrThreads) < MaxRecords
      /\ UNCHANGED <<logVars, ckptVars, poolVars, writeVars, fileVars, endVars>>
 <2>1. PICK P \in MtrPages : memo' = [memo EXCEPT ![t] = P] BY DEF MtrStart
 <2>2. P \in SUBSET Pages BY RedoLogAssumption
 <2>3. Holds(t, memo'[t]) /\ memo'[t] \in MtrPages BY <2>1, <2>2 DEF ThreadTypes, Holds
 <2>4. Goes(t, "latching") /\ UNCHANGED callVars BY DEF MtrStart, GoTo, ThreadTypes, Labels, Goes
 <2>5. Len(log) + Cardinality(MtrThreads) < MaxRecords
  <3>1. Len(log) + Cardinality(MtrThreads) < MaxRecords - crashes /\ crashes \in Nat
    BY DEF MtrStart, MtrThreads, ThreadTypes
  <3> QED BY <3>1, <1>n, MtrThreadsCounted, RedoLogAssumption
 <2> QED BY <2>3, <2>4, <2>5 DEF MtrStart
<1>l. Lsn' = Lsn BY <1>2 DEF Lsn, logVars
<1>e. LogEnd' = LogEnd BY <1>2 DEF LogEnd, logVars
<1>r. Recs' = Recs BY <1>2 DEF Recs, RecordsOf, logVars
<1>s. Safe' = Safe BY <1>2, <1>r DEF Safe, fileVars
<1>w. Unwritten' = Unwritten
 <2>1. (\A u \in Threads : pc[u] # "wait_no_pending")' <=> (\A u \in Threads : pc[u] # "wait_no_pending")
   BY <1>1, <1>2 DEF Goes, ThreadsAreRight, AfterIsRight
 <2> QED BY <1>2, <2>1 DEF Unwritten, writeVars
<1>m. Cardinality(MtrThreads') = Cardinality(MtrThreads) + 1 /\ Cardinality(MtrThreads') <= Cardinality(Threads)
 <2>1. ASSUME NEW u \in Threads, u # t PROVE InMtr(u)' <=> InMtr(u)
   BY <1>1, <1>2, <2>1 DEF InMtr, callVars, Goes, Calls, ThreadTypes, ThreadsAreRight, AfterIsRight,
      WriteLabels
 <2>2. InMtr(t)' /\ ~ InMtr(t) BY <1>1, <1>2 DEF InMtr, Goes, callVars
 <2>3. MtrThreads' = MtrThreads \cup {t} /\ t \notin MtrThreads BY <2>1, <2>2 DEF MtrThreads
 <2>4. Cardinality(MtrThreads') = Cardinality(MtrThreads) + 1
   BY <2>3, MtrThreadsCounted, FS_AddElement
 <2>5. MtrThreads' \in SUBSET Threads /\ IsFiniteSet(Threads) BY RedoLogAssumption DEF MtrThreads
 <2>6. Cardinality(MtrThreads') <= Cardinality(Threads) BY <2>5, FS_Subset
 <2> QED BY <2>4, <2>6
<1>v. WritersStay
  BY <1>1, <1>2 DEF Writing, Goes, Calls, callVars, ThreadsAreRight, AfterIsRight, WriteLabels
<1>o. OthersStay(t) BY <1>2 DEF HasMtr, Posting, Awaiting, Batching, Goes, Calls, callVars
<1>3. LogTypes' BY <1>1, <1>2, <1>n DEF LogTypes, logVars, fileVars
<1>4. CkptTypes' BY <1>1, <1>2 DEF CkptTypes, ckptVars, fileVars
<1>5. PoolTypes' BY <1>1, <1>2 DEF PoolTypes, poolVars
<1>6. DiskTypes' BY <1>1, <1>2 DEF DiskTypes, writeVars, fileVars
<1>7. ThreadTypes' BY <1>1, <1>2 DEF ThreadTypes, Goes, Holds, callVars, endVars
<1>8. LsnsAreRight'
  BY <1>1, <1>2, <1>n, <1>l, <1>e, <1>v DEF LogTypes, LsnsAreRight, Writing, logVars, fileVars,
     callVars
<1>9. AckedIsKept'
  BY <1>1, <1>2, <1>n, <1>l DEF LogTypes, ThreadTypes, AckedIsKept, logVars, fileVars, endVars
<1>10. DblwrIsRight'
  BY <1>1, <1>2 DEF DblwrIsRight, ThreadTypes, Goes, ThreadsAreRight, AfterIsRight, writeVars,
     fileVars
<1>11. FlushListIsRight' BY <1>1, <1>2 DEF FlushListIsRight, poolVars
<1>12. CheckpointsAreRight'
  BY <1>1, <1>2, <1>n, <1>s DEF LogTypes, CkptTypes, CheckpointsAreRight, SlotsAreRight, Sampled,
     WriteLabels, ThreadsAreRight, AfterIsRight, Goes, logVars, ckptVars, fileVars, callVars
<1>13. RoomIsLeft'
 <2> DEFINE old == Cardinality(MtrThreads)
            new == Cardinality(MtrThreads')
            n == Cardinality(Threads)
 <2>1. old \in Nat /\ new = old + 1 /\ new <= n /\ n \in Nat BY <1>m, MtrThreadsCounted
 <2>2. Lsn <= last_checkpoint_lsn + MaxCheckpointAge /\ last_checkpoint_lsn \in Nat
       /\ MaxCheckpointAge \in Nat /\ MaxRecords \in Nat /\ Len(log) + old < MaxRecords
   BY <1>1, <1>2, RedoLogAssumption DEF RoomIsLeft, CkptTypes
 <2>3. \A i \in last_checkpoint_lsn .. LogEnd - 1 : file[i % Capacity] = i BY DEF RoomIsLeft
 <2> HIDE DEF old, new, n
 <2>4. Lsn + new <= last_checkpoint_lsn + MaxCheckpointAge + n /\ Len(log) + new <= MaxRecords
   BY <1>n, <2>1, <2>2
 <2> QED
   BY <1>1, <1>2, <1>l, <1>e, <2>2, <2>3, <2>4 DEF RoomIsLeft, logVars, ckptVars, fileVars, old,
      new, n
<1>14. DirectIsDirect' BY <1>1, <1>2 DEF DirectIsDirect, fileVars
<1>15. ASSUME NEW u \in Threads PROVE AfterIsRight(u)'
  BY <1>1, <1>2, <1>n DEF ThreadTypes, WriteLabels, DblwrLabels, ThreadsAreRight, AfterIsRight,
     Goes, callVars
<1>16. ASSUME NEW u \in Threads PROVE CallIsRight(u)'
  BY <1>1, <1>2, <1>n, <1>l, <1>e DEF LogTypes, ThreadTypes, CallIsRight, LsnsAreRight, LogReaches,
     Writing, Posting, Sampled, WriteLabels, ThreadsAreRight, AfterIsRight, Goes, logVars, callVars
<1>17. ASSUME NEW u \in Threads PROVE MutexIsRight(u)'
  BY <1>1, <1>2, <1>n DEF LogTypes, ThreadTypes, MutexIsRight, ThreadsAreRight, Goes, Holds, logVars
<1>18. ASSUME NEW u \in Threads PROVE MtrIsRight(u)'
 <2>1. CASE u = t
  <3>1. HasMtr(t)' /\ pc'[t] = "latching" /\ ~HasMtr(t) BY <1>1, <1>2 DEF HasMtr, Goes, WriteLabels
  <3>2. \A p \in Pages : latch[p] # t BY <3>1 DEF ThreadsAreRight, MtrIsRight
  <3>3. memo'[t] \in MtrPages /\ latch' = latch /\ \E p \in memo'[t] : p \in Pages
    BY <1>2, RedoLogAssumption DEF poolVars
  <3> QED BY <2>1, <3>1, <3>2, <3>3 DEF MtrIsRight
 <2>2. CASE u # t
   BY ZenonT(60), <2>2, <1>1, <1>2, <1>o, RedoLogAssumption DEF PoolTypes, ThreadTypes,
      ThreadsAreRight, MtrIsRight, Holds, poolVars, callVars
 <2> QED BY <2>1, <2>2
<1>19. ASSUME NEW u \in Threads PROVE BatchIsRight(u)'
 <2>1. CASE u = t
   BY <2>1, <1>1, <1>2, <1>w DEF PoolTypes, ThreadTypes, BatchIsRight, Posting, Awaiting, Batching,
      WriteLabels, DblwrLabels, ThreadsAreRight, AfterIsRight, Goes, Holds, poolVars, writeVars,
      callVars
 <2>2. CASE u # t
   BY <2>2, <1>1, <1>2, <1>o, <1>w DEF PoolTypes, ThreadTypes, ThreadsAreRight, BatchIsRight, Holds,
      poolVars, writeVars, callVars
 <2> QED BY <2>1, <2>2
<1>20. ASSUME NEW p \in Pages PROVE FrameIsRight(p)'
  BY <1>1, <1>2, <1>n, <1>l, <1>r DEF LogTypes, PoolTypes, PagesAreRight, FrameIsRight, logVars,
     poolVars
<1>21. ASSUME NEW p \in Pages PROVE FileIsRight(p)'
  BY <1>1, <1>2, <1>n, <1>r DEF LogTypes, PoolTypes, DiskTypes, PagesAreRight, FileIsRight, Good,
     poolVars, fileVars
<1>22. ASSUME NEW p \in Pages PROVE WriteIsRight(p)'
  BY <1>1, <1>2, <1>n, <1>w, <1>r DEF LogTypes, PoolTypes, DiskTypes, PagesAreRight, WriteIsRight,
     Good, Image, poolVars, writeVars, fileVars
<1>23. ASSUME NEW p \in Pages PROVE LatchIsRight(p)'
  BY <1>1, <1>2, <1>n, <1>w DEF PoolTypes, DiskTypes, ThreadTypes, PagesAreRight, LatchIsRight,
     Posting, WriteLabels, ThreadsAreRight, AfterIsRight, Goes, Holds, poolVars, writeVars, callVars
<1> QED
  BY <1>3, <1>4, <1>5, <1>6, <1>7, <1>8, <1>9, <1>10, <1>11, <1>12, <1>13, <1>14, <1>15, <1>16,
       <1>17, <1>18, <1>19, <1>20, <1>21, <1>22, <1>23 DEF ThreadsAreRight, PagesAreRight

\* A mini-transaction latches its next page.
LEMMA MtrLatchKeeps ==
    ASSUME IInv, NEW t \in Threads, MtrLatch(t)
    PROVE  IInv'
<1> USE DEF OthersStay, WritersStay
<1>n. Lsn \in Nat \ {0} /\ LogEnd \in Nat /\ Lsn = Len(log) + 1 /\ Len(log) \in Nat BY NumbersAre
<1>1. pc[t] = "latching" /\ after[t] = "idle"
  BY DEF MtrLatch, EntersLog, LogReaches, LogTypes, PoolTypes, ThreadTypes, ThreadsAreRight,
     AfterIsRight, WriteLabels, DblwrLabels
<1>2. PICK d \in Pages :
      /\ d \in memo[t] /\ latch[d] = NoThread
      /\ latch' \in [Pages -> Threads \cup {NoThread, Io}] /\ latch'[d] = t
      /\ \A p \in Pages : p # d => latch'[p] = latch[p]
      /\ \/ Goes(t, "latching") /\ \E p \in memo[t] : p # d /\ latch[p] # t
         \/ Goes(t, "mtr") /\ \A p \in memo[t] : p # d => latch[p] = t
      /\ UNCHANGED <<callVars, logVars, ckptVars, frame, newest, oldest, flush_list, io_fix,
                     init_flush, writeVars, fileVars, memo, endVars>>
 <2> DEFINE d == NextToLatch(t)
            R == memo[t] \ Latched(t)
 <2>1. R \in SUBSET Nat /\ memo[t] \in SUBSET Pages /\ \E p \in memo[t] : latch[p] # t
   BY <1>1, RedoLogAssumption DEF ThreadsAreRight, MtrIsRight, ThreadTypes
 <2>2. \A p \in memo[t] : p \in R <=> latch[p] # t BY <2>1 DEF Latched
 <2>3. R # {} /\ d = Min(R) BY <2>1, <2>2 DEF NextToLatch
 <2> HIDE DEF d
 <2>4. d \in R BY <2>1, <2>3, MinIsLeast
 <2>5. /\ latch[d] = NoThread /\ latch' = [latch EXCEPT ![d] = t]
       /\ GoTo(t, IF R = {d} THEN "mtr" ELSE "latching")
       /\ UNCHANGED <<logVars, ckptVars, frame, newest, oldest, flush_list, io_fix,
                      init_flush, writeVars, fileVars, memo, endVars>>
   BY DEF MtrLatch, d
 <2>6. R = {d} => \A p \in memo[t] : p # d => latch[p] = t BY <2>2
 <2>7. R # {d} => \E p \in memo[t] : p # d /\ latch[p] # t BY <2>2, <2>3, <2>4
 <2> HIDE DEF R
 <2>8. UNCHANGED callVars /\ Goes(t, IF R = {d} THEN "mtr" ELSE "latching")
   BY <2>5 DEF GoTo, ThreadTypes, Labels, Goes
 <2>9. d \in Pages /\ d \in memo[t] BY <2>1, <2>4 DEF R
 <2>10. latch' \in [Pages -> Threads \cup {NoThread, Io}] /\ latch'[d] = t
        /\ \A p \in Pages : p # d => latch'[p] = latch[p]
   BY <2>5, <2>9 DEF PoolTypes
 <2>11. \/ Goes(t, "latching") /\ \E p \in memo[t] : p # d /\ latch[p] # t
        \/ Goes(t, "mtr") /\ \A p \in memo[t] : p # d => latch[p] = t
   BY <2>6, <2>7, <2>8
 <2> QED BY <2>5, <2>8, <2>9, <2>10, <2>11
<1>l. Lsn' = Lsn BY <1>2 DEF Lsn, logVars
<1>e. LogEnd' = LogEnd BY <1>2 DEF LogEnd, logVars
<1>r. Recs' = Recs BY <1>2 DEF Recs, RecordsOf, logVars
<1>s. Safe' = Safe BY <1>2, <1>r DEF Safe, fileVars
<1>w. Unwritten' = Unwritten
 <2>1. (\A u \in Threads : pc[u] # "wait_no_pending")' <=> (\A u \in Threads : pc[u] # "wait_no_pending")
   BY <1>1, <1>2 DEF Goes, ThreadsAreRight, AfterIsRight
 <2> QED BY <1>2, <2>1 DEF Unwritten, writeVars
<1>m. MtrThreads' = MtrThreads
 <2>1. ASSUME NEW u \in Threads PROVE InMtr(u)' <=> InMtr(u)
   BY <1>1, <1>2 DEF InMtr, callVars, Goes, Calls, ThreadTypes, ThreadsAreRight, AfterIsRight,
      WriteLabels
 <2> QED BY <2>1 DEF MtrThreads
<1>v. WritersStay
  BY <1>1, <1>2 DEF Writing, Goes, Calls, callVars, ThreadsAreRight, AfterIsRight, WriteLabels
<1>o. OthersStay(t) BY <1>2 DEF HasMtr, Posting, Awaiting, Batching, Goes, Calls, callVars
<1>3. LogTypes' BY <1>1, <1>2, <1>n DEF LogTypes, logVars, fileVars
<1>4. CkptTypes' BY <1>1, <1>2 DEF CkptTypes, ckptVars, fileVars
<1>5. PoolTypes' BY <1>1, <1>2 DEF PoolTypes
<1>6. DiskTypes' BY <1>1, <1>2 DEF DiskTypes, writeVars, fileVars
<1>7. ThreadTypes' BY <1>1, <1>2 DEF ThreadTypes, Goes, callVars, endVars
<1>8. LsnsAreRight'
  BY <1>1, <1>2, <1>n, <1>l, <1>e, <1>v DEF LogTypes, LsnsAreRight, Writing, logVars, fileVars,
     callVars
<1>9. AckedIsKept'
  BY <1>1, <1>2, <1>n, <1>l DEF LogTypes, ThreadTypes, AckedIsKept, logVars, fileVars, endVars
<1>10. DblwrIsRight'
  BY <1>1, <1>2 DEF DblwrIsRight, ThreadTypes, Goes, ThreadsAreRight, AfterIsRight, writeVars,
     fileVars
<1>11. FlushListIsRight' BY <1>1, <1>2 DEF FlushListIsRight
<1>12. CheckpointsAreRight'
  BY <1>1, <1>2, <1>n, <1>s DEF LogTypes, CkptTypes, CheckpointsAreRight, SlotsAreRight, Sampled,
     WriteLabels, ThreadsAreRight, AfterIsRight, Goes, logVars, ckptVars, fileVars, callVars
<1>13. RoomIsLeft'
  BY <1>1, <1>2, <1>n, <1>l, <1>e, <1>m DEF LogTypes, CkptTypes, RoomIsLeft, logVars, ckptVars,
     fileVars
<1>14. DirectIsDirect' BY <1>1, <1>2 DEF DirectIsDirect, fileVars
<1>15. ASSUME NEW u \in Threads PROVE AfterIsRight(u)'
  BY <1>1, <1>2, <1>n DEF ThreadTypes, WriteLabels, DblwrLabels, ThreadsAreRight, AfterIsRight,
     Goes, callVars
<1>16. ASSUME NEW u \in Threads PROVE CallIsRight(u)'
  BY <1>1, <1>2, <1>n, <1>l, <1>e DEF LogTypes, ThreadTypes, CallIsRight, LsnsAreRight, LogReaches,
     Writing, Posting, Sampled, WriteLabels, ThreadsAreRight, AfterIsRight, Goes, logVars, callVars
<1>17. ASSUME NEW u \in Threads PROVE MutexIsRight(u)'
  BY <1>1, <1>2, <1>n DEF LogTypes, ThreadTypes, MutexIsRight, ThreadsAreRight, Goes, logVars
<1>18. ASSUME NEW u \in Threads PROVE MtrIsRight(u)'
 <2>1. CASE u = t
  <3>1. MtrIsRight(t) /\ HasMtr(t) /\ memo' = memo /\ memo[t] \in SUBSET Pages
    BY <1>1, <1>2 DEF HasMtr, ThreadsAreRight, ThreadTypes
  <3>2. HasMtr(t)' /\ (pc'[t] = "latching" \/ pc'[t] = "mtr") BY <1>2 DEF HasMtr, Goes
  <3>3. \A p \in Pages : latch'[p] = t => p \in memo[t] BY <1>2, <3>1 DEF MtrIsRight
  <3>4. pc'[t] = "latching" => \E p \in memo[t] : latch'[p] # t BY <1>2, <3>1 DEF Goes
  <3>5. pc'[t] = "mtr" => \A p \in memo[t] : latch'[p] = t BY <1>2, <3>1 DEF Goes
  <3> QED BY <2>1, <3>1, <3>2, <3>3, <3>4, <3>5 DEF MtrIsRight
 <2>2. CASE u # t
  <3>1. \A p \in Pages : latch'[p] = u <=> latch[p] = u BY <1>2, <2>2, RedoLogAssumption
  <3>2. MtrIsRight(u) /\ memo' = memo /\ memo[u] \in SUBSET Pages
    BY <1>2 DEF ThreadsAreRight, ThreadTypes
  <3> QED BY <1>o, <2>2, <3>1, <3>2 DEF MtrIsRight
 <2> QED BY <2>1, <2>2
<1>19. ASSUME NEW u \in Threads PROVE BatchIsRight(u)'
 <2>1. CASE u = t
   BY <2>1, <1>1, <1>2, <1>w DEF PoolTypes, ThreadTypes, BatchIsRight, Posting, Awaiting, Batching,
      WriteLabels, DblwrLabels, ThreadsAreRight, AfterIsRight, Goes, writeVars, callVars
 <2>2. CASE u # t
  <3>1. \A p \in Pages : latch'[p] = Io <=> latch[p] = Io BY <1>2, RedoLogAssumption
  <3>2. BatchIsRight(u) /\ memo[u] \in SUBSET Pages BY DEF ThreadsAreRight, ThreadTypes
  <3> QED BY <1>2, <1>o, <1>w, <2>2, <3>1, <3>2 DEF BatchIsRight, callVars, writeVars
 <2> QED BY <2>1, <2>2
<1>20. ASSUME NEW p \in Pages PROVE FrameIsRight(p)'
  BY <1>1, <1>2, <1>n, <1>l, <1>r DEF LogTypes, PoolTypes, PagesAreRight, FrameIsRight, logVars
<1>21. ASSUME NEW p \in Pages PROVE FileIsRight(p)'
  BY <1>1, <1>2, <1>n, <1>r DEF LogTypes, PoolTypes, DiskTypes, PagesAreRight, FileIsRight, Good,
     fileVars
<1>22. ASSUME NEW p \in Pages PROVE WriteIsRight(p)'
  BY Zenon, <1>1, <1>2, <1>n, <1>w, <1>r, RedoLogAssumption DEF LogTypes, PoolTypes, DiskTypes,
     PagesAreRight, WriteIsRight, Good, Image, writeVars, fileVars
<1>23. ASSUME NEW p \in Pages PROVE LatchIsRight(p)'
  BY ZenonT(60), <1>1, <1>2, <1>n, <1>w, RedoLogAssumption DEF PoolTypes, DiskTypes, ThreadTypes,
     PagesAreRight, LatchIsRight, Posting, WriteLabels, ThreadsAreRight, AfterIsRight, Goes,
     writeVars, callVars
<1> QED
  BY <1>3, <1>4, <1>5, <1>6, <1>7, <1>8, <1>9, <1>10, <1>11, <1>12, <1>13, <1>14, <1>15, <1>16,
       <1>17, <1>18, <1>19, <1>20, <1>21, <1>22, <1>23 DEF ThreadsAreRight, PagesAreRight

\* mtr_commit flushes a full log buffer.
LEMMA MtrFindsBufferFullKeeps ==
    ASSUME IInv, NEW t \in Threads, MtrFindsBufferFull(t)
    PROVE  IInv'
<1> USE DEF OthersStay, WritersStay
<1>n. Lsn \in Nat \ {0} /\ LogEnd \in Nat /\ Lsn = Len(log) + 1 /\ Len(log) \in Nat BY NumbersAre
<1>1. pc[t] = "mtr" /\ after[t] \in {"idle", "mtr"}
  BY DEF MtrFindsBufferFull, EntersLog, LogReaches, LogTypes, PoolTypes, ThreadTypes,
     ThreadsAreRight, AfterIsRight, WriteLabels, DblwrLabels
<1>2. /\ Goes(t, "write_up_to") /\ Calls(t, Lsn, TRUE, "mtr")
      /\ UNCHANGED <<logVars, ckptVars, poolVars, writeVars, fileVars, memo, endVars>>
  BY <1>1, <1>n DEF MtrFindsBufferFull, GoTo, Finish, CallWriteUpTo, LogTypes, PoolTypes, DiskTypes,
     ThreadTypes, Labels, WriteLabels, DblwrLabels, Goes, Calls, Holds
<1>l. Lsn' = Lsn BY <1>2 DEF Lsn, logVars
<1>e. LogEnd' = LogEnd BY <1>2 DEF LogEnd, logVars
<1>r. Recs' = Recs BY <1>2 DEF Recs, RecordsOf, logVars
<1>s. Safe' = Safe BY <1>2, <1>r DEF Safe, fileVars
<1>w. Unwritten' = Unwritten
 <2>1. (\A u \in Threads : pc[u] # "wait_no_pending")' <=> (\A u \in Threads : pc[u] # "wait_no_pending")
   BY <1>1, <1>2 DEF Goes, ThreadsAreRight, AfterIsRight
 <2> QED BY <1>2, <2>1 DEF Unwritten, writeVars
<1>m. MtrThreads' = MtrThreads
 <2>1. ASSUME NEW u \in Threads PROVE InMtr(u)' <=> InMtr(u)
   BY <1>1, <1>2 DEF InMtr, callVars, Goes, Calls, ThreadTypes, ThreadsAreRight, AfterIsRight,
      WriteLabels
 <2> QED BY <2>1 DEF MtrThreads
<1>v. WritersStay
  BY <1>1, <1>2 DEF Writing, Goes, Calls, callVars, ThreadsAreRight, AfterIsRight, WriteLabels
<1>o. OthersStay(t) BY <1>2 DEF HasMtr, Posting, Awaiting, Batching, Goes, Calls, callVars
<1>3. LogTypes' BY <1>1, <1>2, <1>n DEF LogTypes, logVars, fileVars
<1>4. CkptTypes' BY <1>1, <1>2 DEF CkptTypes, ckptVars, fileVars
<1>5. PoolTypes' BY <1>1, <1>2 DEF PoolTypes, poolVars
<1>6. DiskTypes' BY <1>1, <1>2 DEF DiskTypes, writeVars, fileVars
<1>7. ThreadTypes' BY <1>1, <1>2 DEF ThreadTypes, Goes, Calls, endVars
<1>8. LsnsAreRight'
  BY <1>1, <1>2, <1>n, <1>l, <1>e, <1>v DEF LogTypes, LsnsAreRight, Writing, logVars, fileVars
<1>9. AckedIsKept'
  BY <1>1, <1>2, <1>n, <1>l DEF LogTypes, ThreadTypes, AckedIsKept, logVars, fileVars, endVars
<1>10. DblwrIsRight'
  BY <1>1, <1>2 DEF DblwrIsRight, ThreadTypes, Goes, ThreadsAreRight, AfterIsRight, writeVars,
     fileVars
<1>11. FlushListIsRight' BY <1>1, <1>2 DEF FlushListIsRight, poolVars
<1>12. CheckpointsAreRight'
  BY ZenonT(60), <1>1, <1>2, <1>n, <1>s DEF LogTypes, CkptTypes, CheckpointsAreRight,
     SlotsAreRight, Sampled, WriteLabels, ThreadsAreRight, AfterIsRight, Goes, Calls, logVars,
     ckptVars, fileVars
<1>13. RoomIsLeft'
  BY <1>1, <1>2, <1>n, <1>l, <1>e, <1>m DEF LogTypes, CkptTypes, RoomIsLeft, logVars, ckptVars,
     fileVars
<1>14. DirectIsDirect' BY <1>1, <1>2 DEF DirectIsDirect, fileVars
<1>15. ASSUME NEW u \in Threads PROVE AfterIsRight(u)'
  BY ZenonT(60), <1>1, <1>2, <1>n DEF ThreadTypes, WriteLabels, DblwrLabels, ThreadsAreRight,
     AfterIsRight, Goes, Calls
<1>16. ASSUME NEW u \in Threads PROVE CallIsRight(u)'
  BY <1>2, <1>l DEF CallIsRight, LsnsAreRight, LogReaches, Writing, Posting, Sampled, WriteLabels,
     ThreadsAreRight, AfterIsRight, Goes, Calls, logVars
<1>17. ASSUME NEW u \in Threads PROVE MutexIsRight(u)'
  BY <1>1, <1>2, <1>n DEF LogTypes, ThreadTypes, MutexIsRight, ThreadsAreRight, Goes, logVars
<1>18. ASSUME NEW u \in Threads PROVE MtrIsRight(u)'
 <2>1. CASE u = t
  <3>1. HasMtr(t)' /\ HasMtr(t) /\ pc'[t] # "latching"
    BY Zenon, <1>1, <1>2 DEF HasMtr, Goes, Calls, WriteLabels
  <3>2. MtrIsRight(t) BY DEF ThreadsAreRight
  <3> QED BY <1>1, <1>2, <2>1, <3>1, <3>2 DEF MtrIsRight, poolVars
 <2>2. CASE u # t
   BY <2>2, <1>2, <1>o DEF ThreadsAreRight, MtrIsRight, poolVars
 <2> QED BY <2>1, <2>2
<1>19. ASSUME NEW u \in Threads PROVE BatchIsRight(u)'
 <2>1. CASE u = t
   BY <2>1, <1>1, <1>2, <1>w DEF PoolTypes, ThreadTypes, BatchIsRight, Posting, Awaiting, Batching,
      WriteLabels, DblwrLabels, ThreadsAreRight, AfterIsRight, Goes, Calls, poolVars, writeVars
 <2>2. CASE u # t
   BY <2>2, <1>1, <1>2, <1>o, <1>w DEF PoolTypes, ThreadTypes, ThreadsAreRight, BatchIsRight, Calls,
      poolVars, writeVars
 <2> QED BY <2>1, <2>2
<1>20. ASSUME NEW p \in Pages PROVE FrameIsRight(p)'
  BY <1>1, <1>2, <1>n, <1>l, <1>r DEF LogTypes, PoolTypes, PagesAreRight, FrameIsRight, logVars,
     poolVars
<1>21. ASSUME NEW p \in Pages PROVE FileIsRight(p)'
  BY <1>1, <1>2, <1>n, <1>r DEF LogTypes, PoolTypes, DiskTypes, PagesAreRight, FileIsRight, Good,
     poolVars, fileVars
<1>22. ASSUME NEW p \in Pages PROVE WriteIsRight(p)'
  BY <1>1, <1>2, <1>n, <1>w, <1>r DEF LogTypes, PoolTypes, DiskTypes, PagesAreRight, WriteIsRight,
     Good, Image, poolVars, writeVars, fileVars
<1>23. ASSUME NEW p \in Pages PROVE LatchIsRight(p)'
  BY ZenonT(60), <1>1, <1>2, <1>n, <1>w DEF PoolTypes, DiskTypes, ThreadTypes, PagesAreRight, LatchIsRight,
     Posting, WriteLabels, ThreadsAreRight, AfterIsRight, Goes, Calls, poolVars, writeVars
<1> QED
  BY <1>3, <1>4, <1>5, <1>6, <1>7, <1>8, <1>9, <1>10, <1>11, <1>12, <1>13, <1>14, <1>15, <1>16,
       <1>17, <1>18, <1>19, <1>20, <1>21, <1>22, <1>23 DEF ThreadsAreRight, PagesAreRight

\* A thread passes log_checkpoint_margin: the last checkpoint is young enough for all
\* mini-transactions that may have started.
LEMMA CheckpointMarginKeeps ==
    ASSUME IInv, NEW t \in Threads, CheckpointMargin(t)
    PROVE  IInv'
<1> USE DEF WritersStay
<1>n. Lsn \in Nat \ {0} /\ LogEnd \in Nat /\ Lsn = Len(log) + 1 /\ Len(log) \in Nat BY NumbersAre
<1>2. /\ check_flush_or_checkpoint' = FALSE /\ Lsn - last_checkpoint_lsn <= MaxCheckpointAge
      /\ UNCHANGED <<log, log_mutex, write_lsn, written_to_all_lsn, flushed_to_disk_lsn,
                     current_flush_lsn, n_pending_writes, ckptVars, poolVars,
                     writeVars, fileVars, pc, callVars, memo, endVars>>
  BY <1>n DEF CheckpointMargin, threadVars, GoTo, Finish, CallWriteUpTo, LogTypes, PoolTypes,
     DiskTypes, ThreadTypes, Labels, WriteLabels, DblwrLabels, Goes, Calls, Holds
<1>l. Lsn' = Lsn BY <1>2 DEF Lsn
<1>e. LogEnd' = LogEnd BY <1>2 DEF LogEnd
<1>r. Recs' = Recs BY <1>2 DEF Recs, RecordsOf
<1>s. Safe' = Safe BY <1>2, <1>r DEF Safe, fileVars
<1>w. Unwritten' = Unwritten BY <1>2 DEF Unwritten, writeVars
<1>m. MtrThreads' = MtrThreads BY <1>2 DEF MtrThreads, InMtr, callVars
<1>v. WritersStay
  BY <1>2 DEF Writing, Goes, Calls, callVars, ThreadsAreRight, AfterIsRight, WriteLabels
<1>3. LogTypes' BY <1>2, <1>n DEF LogTypes, fileVars
<1>4. CkptTypes' BY <1>2 DEF CkptTypes, ckptVars, fileVars
<1>5. PoolTypes' BY <1>2 DEF PoolTypes, poolVars
<1>6. DiskTypes' BY <1>2 DEF DiskTypes, writeVars, fileVars
<1>7. ThreadTypes' BY <1>2 DEF ThreadTypes, callVars, endVars
<1>8. LsnsAreRight'
  BY <1>2, <1>n, <1>l, <1>e, <1>v DEF LogTypes, LsnsAreRight, Writing, fileVars, callVars
<1>9. AckedIsKept' BY <1>2, <1>n, <1>l DEF LogTypes, ThreadTypes, AckedIsKept, fileVars, endVars
<1>10. DblwrIsRight'
  BY <1>2 DEF DblwrIsRight, ThreadTypes, ThreadsAreRight, AfterIsRight, writeVars, fileVars
<1>11. FlushListIsRight' BY <1>2 DEF FlushListIsRight, poolVars
<1>12. CheckpointsAreRight'
  BY <1>2, <1>n, <1>s DEF LogTypes, CkptTypes, CheckpointsAreRight, SlotsAreRight, Sampled,
     WriteLabels, ThreadsAreRight, AfterIsRight, ckptVars, fileVars, callVars
<1>13. RoomIsLeft'
  BY <1>2, <1>n, <1>l, <1>e, <1>m, RedoLogAssumption DEF LogTypes, CkptTypes, RoomIsLeft, ckptVars,
     fileVars
<1>14. DirectIsDirect' BY <1>2 DEF DirectIsDirect, fileVars
<1>15. ASSUME NEW u \in Threads PROVE AfterIsRight(u)'
  BY <1>2, <1>n DEF ThreadTypes, WriteLabels, DblwrLabels, ThreadsAreRight, AfterIsRight, callVars
<1>16. ASSUME NEW u \in Threads PROVE CallIsRight(u)'
  BY <1>2, <1>n, <1>l, <1>e DEF LogTypes, ThreadTypes, CallIsRight, LsnsAreRight, LogReaches,
     Writing, Posting, Sampled, WriteLabels, ThreadsAreRight, AfterIsRight, callVars
<1>17. ASSUME NEW u \in Threads PROVE MutexIsRight(u)'
  BY <1>2, <1>n DEF LogTypes, ThreadTypes, MutexIsRight, ThreadsAreRight
<1>18. ASSUME NEW u \in Threads PROVE MtrIsRight(u)'
  BY <1>2, <1>n DEF PoolTypes, ThreadTypes, MtrIsRight, HasMtr, Posting, Awaiting, WriteLabels,
     DblwrLabels, ThreadsAreRight, AfterIsRight, poolVars, callVars
<1>19. ASSUME NEW u \in Threads PROVE BatchIsRight(u)'
  BY <1>2, <1>n, <1>w DEF PoolTypes, ThreadTypes, BatchIsRight, Posting, Awaiting, Batching,
     WriteLabels, DblwrLabels, ThreadsAreRight, AfterIsRight, poolVars, writeVars, callVars
<1>20. ASSUME NEW p \in Pages PROVE FrameIsRight(p)'
  BY <1>2, <1>n, <1>l, <1>r DEF LogTypes, PoolTypes, PagesAreRight, FrameIsRight, poolVars
<1>21. ASSUME NEW p \in Pages PROVE FileIsRight(p)'
  BY <1>2, <1>n, <1>r DEF LogTypes, PoolTypes, DiskTypes, PagesAreRight, FileIsRight, Good,
     poolVars, fileVars
<1>22. ASSUME NEW p \in Pages PROVE WriteIsRight(p)'
  BY <1>2, <1>n, <1>w, <1>r DEF LogTypes, PoolTypes, DiskTypes, PagesAreRight, WriteIsRight, Good,
     Image, poolVars, writeVars, fileVars
<1>23. ASSUME NEW p \in Pages PROVE LatchIsRight(p)'
  BY <1>2, <1>n, <1>w DEF PoolTypes, DiskTypes, ThreadTypes, PagesAreRight, LatchIsRight, Posting,
     WriteLabels, ThreadsAreRight, AfterIsRight, poolVars, writeVars, callVars
<1> QED
  BY <1>3, <1>4, <1>5, <1>6, <1>7, <1>8, <1>9, <1>10, <1>11, <1>12, <1>13, <1>14, <1>15, <1>16,
       <1>17, <1>18, <1>19, <1>20, <1>21, <1>22, <1>23 DEF ThreadsAreRight, PagesAreRight

\* A commit is acknowledged after log_write_up_to returned.
LEMMA AckKeeps ==
    ASSUME IInv, NEW t \in Threads, Ack(t)
    PROVE  IInv'
<1> USE DEF OthersStay, WritersStay
<1>n. Lsn \in Nat \ {0} /\ LogEnd \in Nat /\ Lsn = Len(log) + 1 /\ Len(log) \in Nat BY NumbersAre
<1>1. pc[t] = "ack" /\ after[t] = "ack"
  BY DEF Ack, EntersLog, LogReaches, LogTypes, PoolTypes, ThreadTypes, ThreadsAreRight,
     AfterIsRight, WriteLabels, DblwrLabels
<1>2. /\ Goes(t, "idle") /\ Calls(t, 0, FALSE, "idle")
      /\ acked' \in [flushed : Nat, written : Nat]
      /\ acked'.flushed = acked.flushed \/ (flush[t] /\ acked'.flushed = upto[t])
      /\ acked'.written = acked.written \/ acked'.written = upto[t]
      /\ UNCHANGED <<logVars, ckptVars, poolVars, writeVars, fileVars, memo, crashes>>
 <2>1. acked \in [flushed : Nat, written : Nat] /\ upto[t] \in Nat BY DEF ThreadTypes
 <2>2. acked.flushed \in Nat /\ acked.written \in Nat BY <2>1
 <2> DEFINE m == Max({acked.flushed, upto[t]})
            b == Max({acked.written, upto[t]})
            a == IF flush[t] THEN m ELSE acked.flushed
 <2>3. (m = acked.flushed \/ m = upto[t]) /\ (b = acked.written \/ b = upto[t])
   BY <2>1, <2>2, PairMax
 <2>4. acked' = [flushed |-> a, written |-> b] BY DEF Ack
 <2>5. Goes(t, "idle") /\ Calls(t, 0, FALSE, "idle")
   BY DEF Ack, Finish, ThreadTypes, Labels, Goes, Calls
 <2>6. UNCHANGED <<logVars, ckptVars, poolVars, writeVars, fileVars, memo, crashes>> BY DEF Ack
 <2> HIDE DEF m, b
 <2>7. a = acked.flushed \/ (flush[t] /\ a = upto[t]) BY <2>3
 <2>8. a \in Nat /\ b \in Nat BY <2>1, <2>2, <2>3, <2>7
 <2> HIDE DEF a
 <2>10. acked' \in [flushed : Nat, written : Nat] /\ acked'.flushed = a /\ acked'.written = b
   BY <2>4, <2>8
 <2> QED BY <2>3, <2>5, <2>6, <2>7, <2>10
<1>l. Lsn' = Lsn BY <1>2 DEF Lsn, logVars
<1>e. LogEnd' = LogEnd BY <1>2 DEF LogEnd, logVars
<1>r. Recs' = Recs BY <1>2 DEF Recs, RecordsOf, logVars
<1>s. Safe' = Safe BY <1>2, <1>r DEF Safe, fileVars
<1>w. Unwritten' = Unwritten
 <2>1. (\A u \in Threads : pc[u] # "wait_no_pending")' <=> (\A u \in Threads : pc[u] # "wait_no_pending")
   BY <1>1, <1>2 DEF Goes, ThreadsAreRight, AfterIsRight
 <2> QED BY <1>2, <2>1 DEF Unwritten, writeVars
<1>m. MtrThreads' = MtrThreads
 <2>1. ASSUME NEW u \in Threads PROVE InMtr(u)' <=> InMtr(u)
   BY <1>1, <1>2 DEF InMtr, callVars, Goes, Calls, ThreadTypes, ThreadsAreRight, AfterIsRight,
      WriteLabels
 <2> QED BY <2>1 DEF MtrThreads
<1>v. WritersStay
  BY <1>1, <1>2 DEF Writing, Goes, Calls, callVars, ThreadsAreRight, AfterIsRight, WriteLabels
<1>o. OthersStay(t) BY <1>2 DEF HasMtr, Posting, Awaiting, Batching, Goes, Calls, callVars
<1>3. LogTypes' BY <1>1, <1>2, <1>n DEF LogTypes, logVars, fileVars
<1>4. CkptTypes' BY <1>1, <1>2 DEF CkptTypes, ckptVars, fileVars
<1>5. PoolTypes' BY <1>1, <1>2 DEF PoolTypes, poolVars
<1>6. DiskTypes' BY <1>1, <1>2 DEF DiskTypes, writeVars, fileVars
<1>7. ThreadTypes' BY <1>1, <1>2 DEF ThreadTypes, Goes, Calls
<1>8. LsnsAreRight'
  BY <1>1, <1>2, <1>n, <1>l, <1>e, <1>v DEF LogTypes, LsnsAreRight, Writing, logVars, fileVars
<1>9. AckedIsKept'
  BY <1>1, <1>2, <1>n, <1>l DEF CallIsRight, ThreadsAreRight, LogReaches, LsnsAreRight, LogTypes,
     ThreadTypes, AckedIsKept, logVars, fileVars
<1>10. DblwrIsRight'
  BY <1>1, <1>2 DEF DblwrIsRight, ThreadTypes, Goes, ThreadsAreRight, AfterIsRight, writeVars,
     fileVars
<1>11. FlushListIsRight' BY <1>1, <1>2 DEF FlushListIsRight, poolVars
<1>12. CheckpointsAreRight'
  BY ZenonT(60), <1>1, <1>2, <1>n, <1>s DEF LogTypes, CkptTypes, CheckpointsAreRight,
     SlotsAreRight, Sampled, WriteLabels, ThreadsAreRight, AfterIsRight, Goes, Calls, logVars,
     ckptVars, fileVars
<1>13. RoomIsLeft'
  BY <1>1, <1>2, <1>n, <1>l, <1>e, <1>m DEF LogTypes, CkptTypes, RoomIsLeft, logVars, ckptVars,
     fileVars
<1>14. DirectIsDirect' BY Zenon, <1>1, <1>2 DEF DirectIsDirect, fileVars
<1>15. ASSUME NEW u \in Threads PROVE AfterIsRight(u)'
  BY ZenonT(60), <1>1, <1>2, <1>n DEF ThreadTypes, WriteLabels, DblwrLabels, ThreadsAreRight,
     AfterIsRight, Goes, Calls
<1>16. ASSUME NEW u \in Threads PROVE CallIsRight(u)'
  BY <1>2, <1>n, <1>l, <1>e DEF ThreadTypes, CallIsRight, LogReaches, Writing, Posting, Sampled,
     WriteLabels, ThreadsAreRight, Goes, Calls, logVars
<1>17. ASSUME NEW u \in Threads PROVE MutexIsRight(u)'
  BY <1>1, <1>2, <1>n DEF LogTypes, ThreadTypes, MutexIsRight, ThreadsAreRight, Goes, logVars
<1>18. ASSUME NEW u \in Threads PROVE MtrIsRight(u)'
 <2>1. CASE u = t
   BY ZenonT(60), <2>1, <1>1, <1>2 DEF PoolTypes, ThreadTypes, MtrIsRight, HasMtr, Posting, Awaiting,
      WriteLabels, DblwrLabels, ThreadsAreRight, AfterIsRight, Goes, Calls, poolVars
 <2>2. CASE u # t
   BY <2>2, <1>1, <1>2, <1>o DEF PoolTypes, ThreadTypes, ThreadsAreRight, MtrIsRight, Calls,
      poolVars
 <2> QED BY <2>1, <2>2
<1>19. ASSUME NEW u \in Threads PROVE BatchIsRight(u)'
 <2>1. CASE u = t
   BY Zenon, <2>1, <1>1, <1>2, <1>w DEF PoolTypes, ThreadTypes, BatchIsRight, Posting, Awaiting,
      Batching, WriteLabels, DblwrLabels, ThreadsAreRight, AfterIsRight, Goes, Calls, poolVars,
      writeVars
 <2>2. CASE u # t
   BY <2>2, <1>1, <1>2, <1>o, <1>w DEF PoolTypes, ThreadTypes, ThreadsAreRight, BatchIsRight, Calls,
      poolVars, writeVars
 <2> QED BY <2>1, <2>2
<1>20. ASSUME NEW p \in Pages PROVE FrameIsRight(p)'
  BY <1>1, <1>2, <1>n, <1>l, <1>r DEF LogTypes, PoolTypes, PagesAreRight, FrameIsRight, logVars,
     poolVars
<1>21. ASSUME NEW p \in Pages PROVE FileIsRight(p)'
  BY <1>1, <1>2, <1>n, <1>r DEF LogTypes, PoolTypes, DiskTypes, PagesAreRight, FileIsRight, Good,
     poolVars, fileVars
<1>22. ASSUME NEW p \in Pages PROVE WriteIsRight(p)'
  BY <1>1, <1>2, <1>n, <1>w, <1>r DEF LogTypes, PoolTypes, DiskTypes, PagesAreRight, WriteIsRight,
     Good, Image, poolVars, writeVars, fileVars
<1>23. ASSUME NEW p \in Pages PROVE LatchIsRight(p)'
  BY ZenonT(60), <1>1, <1>2, <1>n, <1>w DEF PoolTypes, DiskTypes, ThreadTypes, PagesAreRight,
     LatchIsRight, Posting, WriteLabels, ThreadsAreRight, AfterIsRight, Goes, Calls, poolVars,
     writeVars
<1> QED
  BY <1>3, <1>4, <1>5, <1>6, <1>7, <1>8, <1>9, <1>10, <1>11, <1>12, <1>13, <1>14, <1>15, <1>16,
       <1>17, <1>18, <1>19, <1>20, <1>21, <1>22, <1>23 DEF ThreadsAreRight, PagesAreRight

\* mtr_commit appends the log; until the pages are noted they miss its last record.
LEMMA MtrWriteLogKeeps ==
    ASSUME IInv, NEW t \in Threads, MtrWriteLog(t)
    PROVE  IInv'
<1> USE DEF OthersStay, WritersStay
<1>n. Lsn \in Nat \ {0} /\ LogEnd \in Nat /\ Lsn = Len(log) + 1 /\ Len(log) \in Nat BY NumbersAre
<1>1. pc[t] = "mtr" /\ after[t] \in {"idle", "mtr"} /\ log_mutex = NoThread
  BY Zenon DEF MtrWriteLog, EntersLog, LogReaches, LogTypes, PoolTypes, ThreadTypes,
     ThreadsAreRight, AfterIsRight, WriteLabels, DblwrLabels
<1>2. /\ Goes(t, "note") /\ UNCHANGED callVars
      /\ log' \in Seq(MtrPages) /\ log' = Append(log, memo[t]) /\ memo[t] \in MtrPages
      /\ log_mutex' = t /\ check_flush_or_checkpoint' \in BOOLEAN
      /\ ~check_flush_or_checkpoint' => \/ (Lsn + 1) - last_checkpoint_lsn <= MaxModifiedAgeAsync
                                        \/ (Lsn + 1) - last_checkpoint_lsn <= MaxCheckpointAgeAsync
      /\ UNCHANGED <<write_lsn, written_to_all_lsn, flushed_to_disk_lsn, current_flush_lsn,
                     n_pending_writes, ckptVars, poolVars, writeVars, fileVars, memo, endVars>>
 <2>1. memo[t] \in MtrPages BY <1>1 DEF ThreadsAreRight, MtrIsRight, HasMtr
 <2>2. log' = Append(log, memo[t]) /\ log \in Seq(MtrPages) BY DEF MtrWriteLog, LogTypes
 <2>3. log' \in Seq(MtrPages) /\ Len(log') = Lsn BY <1>n, <2>1, <2>2
 <2>4. Goes(t, "note") /\ UNCHANGED callVars BY DEF MtrWriteLog, GoTo, ThreadTypes, Labels, Goes
 <2>5. check_flush_or_checkpoint' = (check_flush_or_checkpoint \/ MustCheck(Lsn + 1))
   BY <2>3 DEF MtrWriteLog
 <2>6. \/ MustCheck(Lsn + 1)
       \/ (Lsn + 1) - last_checkpoint_lsn <= MaxModifiedAgeAsync
       \/ (Lsn + 1) - last_checkpoint_lsn <= MaxCheckpointAgeAsync
   BY <1>n, RedoLogAssumption DEF MustCheck, CkptTypes
 <2>7. check_flush_or_checkpoint \in BOOLEAN BY DEF LogTypes
 <2>8. check_flush_or_checkpoint' \in BOOLEAN
       /\ (MustCheck(Lsn + 1) => check_flush_or_checkpoint')
   BY <2>5, <2>7
 <2> QED BY <2>1, <2>2, <2>3, <2>4, <2>6, <2>8 DEF MtrWriteLog
<1>l. Lsn' = Lsn + 1 BY <1>2, <1>n DEF Lsn, LogTypes
<1>e. LogEnd' = LogEnd BY <1>2 DEF LogEnd
<1>r. \A p \in Pages : /\ Recs[p] \subseteq Recs'[p]
                       /\ \A i \in Recs[p] : i \in Nat /\ i < Lsn
                       /\ \A i \in Recs'[p] : i \in Recs[p] \/ i = Lsn
 <2>1. /\ Len(log') = Lsn /\ \A i \in 1 .. Len(log) : log'[i] = log[i]
       /\ DOMAIN log' = 1 .. Lsn /\ DOMAIN log = 1 .. Len(log)
   BY <1>2, <1>n DEF LogTypes
 <2>2. ASSUME NEW p \in Pages
       PROVE  /\ Recs[p] = {i \in DOMAIN log : p \in log[i]}
              /\ Recs'[p] = {i \in DOMAIN log' : p \in log'[i]}
   BY DEF Recs, RecordsOf
 <2> QED BY <1>n, <2>1, <2>2
<1>s. \A n \in Safe : n <= Lsn => n \in Safe'
 <2>1. ASSUME NEW n \in Safe, n <= Lsn, NEW p \in Pages, NEW i \in Recs'[p], i < n
       PROVE  i \in cache'[p].recs
  <3>1. i \in Recs[p] \/ i = Lsn BY <1>r
  <3>2. n \in Nat /\ \A j \in Recs[p] : j < n => j \in cache[p].recs BY DEF Safe
  <3>3. i # Lsn BY <1>n, <2>1, <3>2
  <3> QED BY <1>2, <2>1, <3>1, <3>2, <3>3 DEF fileVars
 <2>2. \A n \in Safe : n \in Nat BY DEF Safe
 <2> QED BY <2>1, <2>2 DEF Safe
<1>w. Unwritten' = Unwritten
 <2>1. (\A u \in Threads : pc[u] # "wait_no_pending")' <=> (\A u \in Threads : pc[u] # "wait_no_pending")
   BY <1>1, <1>2 DEF Goes, ThreadsAreRight, AfterIsRight
 <2> QED BY <1>2, <2>1 DEF Unwritten, writeVars
<1>m. Cardinality(MtrThreads') = Cardinality(MtrThreads) - 1
 <2>1. ASSUME NEW u \in Threads, u # t PROVE InMtr(u)' <=> InMtr(u)
   BY <1>1, <1>2, <2>1 DEF InMtr, callVars, Goes, Calls, ThreadTypes, ThreadsAreRight, AfterIsRight,
      WriteLabels
 <2>2. ~InMtr(t)' /\ InMtr(t) BY <1>1, <1>2 DEF InMtr, Goes, callVars
 <2>3. MtrThreads' = MtrThreads \ {t} /\ t \in MtrThreads BY <2>1, <2>2 DEF MtrThreads
 <2> QED BY <2>3, MtrThreadsCounted, FS_RemoveElement
<1>v. WritersStay
  BY <1>1, <1>2 DEF Writing, Goes, Calls, callVars, ThreadsAreRight, AfterIsRight, WriteLabels
<1>o. OthersStay(t) BY <1>2 DEF HasMtr, Posting, Awaiting, Batching, Goes, Calls, callVars
<1>3. LogTypes' BY <1>1, <1>2, <1>n DEF LogTypes, fileVars
<1>4. CkptTypes' BY <1>1, <1>2 DEF CkptTypes, ckptVars, fileVars
<1>5. PoolTypes' BY <1>1, <1>2 DEF PoolTypes, poolVars
<1>6. DiskTypes' BY <1>1, <1>2 DEF DiskTypes, writeVars, fileVars
<1>7. ThreadTypes' BY <1>1, <1>2 DEF ThreadTypes, Goes, callVars, endVars
<1>8. LsnsAreRight'
  BY <1>1, <1>2, <1>n, <1>l, <1>e, <1>v DEF LogTypes, LsnsAreRight, Writing, fileVars, callVars
<1>9. AckedIsKept'
  BY <1>1, <1>2, <1>n, <1>l DEF LogTypes, ThreadTypes, AckedIsKept, fileVars, endVars
<1>10. DblwrIsRight'
  BY ZenonT(60), <1>1, <1>2 DEF DblwrIsRight, ThreadTypes, Goes, ThreadsAreRight, AfterIsRight,
     writeVars, fileVars
<1>11. FlushListIsRight' BY <1>1, <1>2 DEF FlushListIsRight, poolVars
<1>12. CheckpointsAreRight'
 <2>1. synced <= Lsn /\ synced \in Nat /\ \A u \in Threads : upto[u] <= Lsn
   BY <1>n DEF LsnsAreRight, ThreadsAreRight, CallIsRight, LogTypes
 <2>2. /\ last_checkpoint_lsn <= synced /\ last_checkpoint_lsn \in Safe
       /\ n_pending_checkpoint_writes = 1 =>
              /\ last_checkpoint_lsn <= next_checkpoint_lsn /\ next_checkpoint_lsn <= synced
              /\ next_checkpoint_lsn \in Safe
       /\ SlotsAreRight
       /\ \A u \in Threads : Sampled(u) => upto[u] \in Safe
   BY DEF CheckpointsAreRight
 <2>3. \A u \in Threads : Sampled(u)' => Sampled(u) /\ upto'[u] = upto[u]
   BY <1>2 DEF Sampled, Goes, callVars, WriteLabels
 <2>4. last_checkpoint_lsn \in Nat /\ next_checkpoint_lsn \in Nat BY DEF CkptTypes
 <2>5. last_checkpoint_lsn \in Safe' BY <1>n, <1>s, <2>1, <2>2, <2>4
 <2>6. n_pending_checkpoint_writes = 1 => next_checkpoint_lsn \in Safe'
   BY <1>n, <1>s, <2>1, <2>2, <2>4
 <2>7. \A u \in Threads : Sampled(u)' => upto'[u] \in Safe' BY <1>s, <2>1, <2>2, <2>3
 <2>8. SlotsAreRight' BY <1>2, <2>2 DEF SlotsAreRight, ckptVars, fileVars
 <2> QED BY <1>2, <2>2, <2>5, <2>6, <2>7, <2>8 DEF CheckpointsAreRight, ckptVars, fileVars
<1>13. RoomIsLeft'
 <2> DEFINE old == Cardinality(MtrThreads)
            new == Cardinality(MtrThreads')
            n == Cardinality(Threads)
 <2>1. old \in Nat /\ new = old - 1 /\ n \in Nat BY <1>m, MtrThreadsCounted
 <2>2. /\ last_checkpoint_lsn \in Nat /\ MaxCheckpointAge \in Nat /\ MaxRecords \in Nat
       /\ MaxModifiedAgeAsync \in Nat /\ MaxCheckpointAgeAsync \in Nat
       /\ MaxModifiedAgeAsync <= MaxCheckpointAgeAsync /\ MaxCheckpointAgeAsync <= MaxCheckpointAge
   BY RedoLogAssumption DEF CkptTypes
 <2>3. /\ \A i \in last_checkpoint_lsn .. LogEnd - 1 : file[i % Capacity] = i
       /\ Lsn + old <= last_checkpoint_lsn + MaxCheckpointAge + n
       /\ Len(log) + old <= MaxRecords
   BY DEF RoomIsLeft
 <2> HIDE DEF old, new, n
 <2>4. Len(log') = Len(log) + 1 BY <1>2 DEF LogTypes
 <2>5. /\ Lsn' + new <= last_checkpoint_lsn + MaxCheckpointAge + n
       /\ Len(log') + new <= MaxRecords
       /\ ~check_flush_or_checkpoint' => Lsn' <= last_checkpoint_lsn + MaxCheckpointAge
   BY <1>2, <1>n, <1>l, <2>1, <2>2, <2>3, <2>4
 <2> QED BY <1>2, <1>e, <2>3, <2>5 DEF RoomIsLeft, ckptVars, fileVars, old, new, n
<1>14. DirectIsDirect' BY <1>1, <1>2 DEF DirectIsDirect, fileVars
<1>15. ASSUME NEW u \in Threads PROVE AfterIsRight(u)'
  BY <1>1, <1>2, <1>n DEF ThreadTypes, WriteLabels, DblwrLabels, ThreadsAreRight, AfterIsRight,
     Goes, callVars
<1>16. ASSUME NEW u \in Threads PROVE CallIsRight(u)'
  BY <1>1, <1>2, <1>n, <1>l, <1>e DEF LogTypes, ThreadTypes, CallIsRight, LsnsAreRight, LogReaches,
     Writing, Posting, Sampled, WriteLabels, ThreadsAreRight, AfterIsRight, Goes, callVars
<1>17. ASSUME NEW u \in Threads PROVE MutexIsRight(u)'
 <2>1. log' # <<>> /\ log'[Len(log')] = memo[t] BY <1>2, <1>n DEF LogTypes
 <2>2. pc[u] # "note" BY <1>1, RedoLogAssumption DEF ThreadsAreRight, MutexIsRight
 <2> QED BY <1>2, <2>1, <2>2 DEF MutexIsRight, Goes
<1>18. ASSUME NEW u \in Threads PROVE MtrIsRight(u)'
 <2>1. CASE u = t
   BY ZenonT(60), <2>1, <1>1, <1>2 DEF PoolTypes, ThreadTypes, MtrIsRight, HasMtr, Posting,
      Awaiting, WriteLabels, DblwrLabels, ThreadsAreRight, AfterIsRight, Goes, poolVars, callVars
 <2>2. CASE u # t
   BY <2>2, <1>1, <1>2, <1>o DEF PoolTypes, ThreadTypes, ThreadsAreRight, MtrIsRight, poolVars,
      callVars
 <2> QED BY <2>1, <2>2
<1>19. ASSUME NEW u \in Threads PROVE BatchIsRight(u)'
 <2>1. CASE u = t
   BY <2>1, <1>1, <1>2, <1>w DEF PoolTypes, ThreadTypes, BatchIsRight, Posting, Awaiting, Batching,
      WriteLabels, DblwrLabels, ThreadsAreRight, AfterIsRight, Goes, poolVars, writeVars, callVars
 <2>2. CASE u # t
   BY <2>2, <1>1, <1>2, <1>o, <1>w DEF PoolTypes, ThreadTypes, ThreadsAreRight, BatchIsRight,
      poolVars, writeVars, callVars
 <2> QED BY <2>1, <2>2
<1>20. ASSUME NEW p \in Pages PROVE FrameIsRight(p)'
 <2>1. FrameIsRight(p) /\ frame[p] \subseteq Nat /\ newest[p] \in Nat /\ oldest[p] \in Nat
   BY DEF PagesAreRight, PoolTypes
 <2>2. \A i \in Recs[p] : i \in frame[p] BY <1>1, <2>1 DEF FrameIsRight
 <2>3. /\ Recs[p] \subseteq Recs'[p]
       /\ \A i \in Recs[p] : i \in Nat /\ i < Lsn
       /\ \A i \in Recs'[p] : i \in Recs[p] \/ i = Lsn
   BY <1>r
 <2>4. \A i \in Recs'[p] : i \in frame'[p] <=> (log_mutex' = NoThread \/ i + 1 < Lsn')
  <3>1. ASSUME NEW i \in Recs'[p], i \in Recs[p]
        PROVE  i \in frame[p] /\ i + 1 < Lsn'
    BY <1>n, <1>l, <2>2, <2>3, <3>1
  <3>2. Lsn \notin frame[p] /\ ~ (Lsn + 1 < Lsn') /\ t # NoThread
    BY <1>n, <1>l, <2>1, <2>3, RedoLogAssumption DEF FrameIsRight
  <3> QED BY <1>2, <2>3, <3>1, <3>2 DEF poolVars
 <2> QED BY <1>2, <1>n, <1>l, <2>1, <2>3, <2>4 DEF FrameIsRight, poolVars
<1>21. ASSUME NEW p \in Pages PROVE FileIsRight(p)'
 <2>1. FileIsRight(p) /\ Good(p, cache[p]) BY DEF PagesAreRight, FileIsRight
 <2>0. synced <= Lsn /\ synced \in Nat BY <1>n DEF LsnsAreRight, LogTypes
 <2>r. /\ Recs[p] \subseteq Recs'[p]
       /\ \A i \in Recs[p] : i \in Nat /\ i < Lsn
       /\ \A i \in Recs'[p] : i \in Recs[p] \/ i = Lsn
   BY <1>r
 <2>t. cache[p].lsn \in Int /\ cache' = cache /\ synced' = synced
   BY <1>2 DEF DiskTypes, Images, fileVars
 <2>2. Good(p, cache[p])' BY <1>n, <2>0, <2>1, <2>r, <2>t DEF Good
 <2> QED BY <1>2, <2>1, <2>2 DEF FileIsRight, poolVars, fileVars
<1>22. ASSUME NEW p \in Pages PROVE WriteIsRight(p)'
 <2>1. WriteIsRight(p) BY DEF PagesAreRight
 <2>0. synced <= Lsn /\ synced \in Nat BY <1>n DEF LsnsAreRight, LogTypes
 <2>r. /\ Recs[p] \subseteq Recs'[p]
       /\ \A i \in Recs[p] : i \in Nat /\ i < Lsn
       /\ \A i \in Recs'[p] : i \in Recs[p] \/ i = Lsn
   BY <1>r
 <2>t. write_buf[p].lsn \in Int /\ write_buf' = write_buf /\ synced' = synced
   BY <1>2 DEF DiskTypes, Images, fileVars, writeVars
 <2>2. Good(p, write_buf[p]) => Good(p, write_buf[p])' BY <1>n, <2>0, <2>r, <2>t DEF Good
 <2>3. Image(p)' = Image(p) BY <1>2 DEF Image, poolVars
 <2> QED BY <1>2, <1>w, <2>1, <2>2, <2>3, <2>t DEF WriteIsRight, poolVars, writeVars
<1>23. ASSUME NEW p \in Pages PROVE LatchIsRight(p)'
  BY <1>1, <1>2, <1>n, <1>w DEF PoolTypes, DiskTypes, ThreadTypes, PagesAreRight, LatchIsRight,
     Posting, WriteLabels, ThreadsAreRight, AfterIsRight, Goes, poolVars, writeVars, callVars
<1> QED
  BY <1>3, <1>4, <1>5, <1>6, <1>7, <1>8, <1>9, <1>10, <1>11, <1>12, <1>13, <1>14, <1>15, <1>16,
       <1>17, <1>18, <1>19, <1>20, <1>21, <1>22, <1>23 DEF ThreadsAreRight, PagesAreRight

\* log_checkpoint flushes the data files.
LEMMA CheckpointStartKeeps ==
    ASSUME IInv, NEW t \in Threads, CheckpointStart(t)
    PROVE  IInv'
<1> USE DEF OthersStay, WritersStay
<1>n. Lsn \in Nat \ {0} /\ LogEnd \in Nat /\ Lsn = Len(log) + 1 /\ Len(log) \in Nat BY NumbersAre
<1>1. pc[t] = "idle" /\ after[t] = "idle"
  BY DEF CheckpointStart, EntersLog, LogReaches, LogTypes, PoolTypes, ThreadTypes, ThreadsAreRight,
     AfterIsRight, WriteLabels, DblwrLabels
<1>2. /\ Goes(t, "sample") /\ disk' = cache /\ UNCHANGED callVars
      /\ UNCHANGED <<logVars, ckptVars, poolVars, writeVars, file, synced, slots, cache,
                     dblwr, dblwr_synced, memo, endVars>>
  BY <1>1, <1>n DEF CheckpointStart, GoTo, Finish, CallWriteUpTo, LogTypes, PoolTypes, DiskTypes,
     ThreadTypes, Labels, WriteLabels, DblwrLabels, Goes, Calls, Holds
<1>l. Lsn' = Lsn BY <1>2 DEF Lsn, logVars
<1>e. LogEnd' = LogEnd BY <1>2 DEF LogEnd, logVars
<1>r. Recs' = Recs BY <1>2 DEF Recs, RecordsOf, logVars
<1>s. Safe' = Safe BY <1>2, <1>r DEF Safe
<1>w. Unwritten' = Unwritten
 <2>1. (\A u \in Threads : pc[u] # "wait_no_pending")' <=> (\A u \in Threads : pc[u] # "wait_no_pending")
   BY <1>1, <1>2 DEF Goes, ThreadsAreRight, AfterIsRight
 <2> QED BY <1>2, <2>1 DEF Unwritten, writeVars
<1>m. MtrThreads' = MtrThreads
 <2>1. ASSUME NEW u \in Threads PROVE InMtr(u)' <=> InMtr(u)
   BY <1>1, <1>2 DEF InMtr, callVars, Goes, Calls, ThreadTypes, ThreadsAreRight, AfterIsRight,
      WriteLabels
 <2> QED BY <2>1 DEF MtrThreads
<1>v. WritersStay
  BY <1>1, <1>2 DEF Writing, Goes, Calls, callVars, ThreadsAreRight, AfterIsRight, WriteLabels
<1>o. OthersStay(t) BY <1>2 DEF HasMtr, Posting, Awaiting, Batching, Goes, Calls, callVars
<1>3. LogTypes' BY <1>1, <1>2, <1>n DEF LogTypes, logVars
<1>4. CkptTypes' BY <1>1, <1>2 DEF CkptTypes, ckptVars
<1>5. PoolTypes' BY <1>1, <1>2 DEF PoolTypes, poolVars
<1>6. DiskTypes' BY <1>1, <1>2 DEF DiskTypes, writeVars
<1>7. ThreadTypes' BY <1>1, <1>2 DEF ThreadTypes, Goes, callVars, endVars
<1>8. LsnsAreRight'
  BY <1>1, <1>2, <1>n, <1>l, <1>e, <1>v DEF LogTypes, LsnsAreRight, Writing, logVars, callVars
<1>9. AckedIsKept'
  BY <1>1, <1>2, <1>n, <1>l DEF LogTypes, ThreadTypes, AckedIsKept, logVars, endVars
<1>10. DblwrIsRight'
  BY <1>1, <1>2 DEF DblwrIsRight, ThreadTypes, Goes, ThreadsAreRight, AfterIsRight, writeVars
<1>11. FlushListIsRight' BY <1>1, <1>2 DEF FlushListIsRight, poolVars
<1>12. CheckpointsAreRight'
  BY <1>1, <1>2, <1>n, <1>s DEF LogTypes, CkptTypes, CheckpointsAreRight, SlotsAreRight, Sampled,
     WriteLabels, ThreadsAreRight, AfterIsRight, Goes, logVars, ckptVars, callVars
<1>13. RoomIsLeft'
  BY <1>1, <1>2, <1>n, <1>l, <1>e, <1>m DEF LogTypes, CkptTypes, RoomIsLeft, logVars, ckptVars
<1>14. DirectIsDirect' BY <1>1, <1>2 DEF DirectIsDirect
<1>15. ASSUME NEW u \in Threads PROVE AfterIsRight(u)'
  BY <1>1, <1>2, <1>n DEF ThreadTypes, WriteLabels, DblwrLabels, ThreadsAreRight, AfterIsRight,
     Goes, callVars
<1>16. ASSUME NEW u \in Threads PROVE CallIsRight(u)'
  BY <1>1, <1>2, <1>n, <1>l, <1>e DEF LogTypes, ThreadTypes, CallIsRight, LsnsAreRight, LogReaches,
     Writing, Posting, Sampled, WriteLabels, ThreadsAreRight, AfterIsRight, Goes, logVars, callVars
<1>17. ASSUME NEW u \in Threads PROVE MutexIsRight(u)'
  BY <1>1, <1>2, <1>n DEF LogTypes, ThreadTypes, MutexIsRight, ThreadsAreRight, Goes, logVars
<1>18. ASSUME NEW u \in Threads PROVE MtrIsRight(u)'
 <2>1. CASE u = t
   BY ZenonT(60), <2>1, <1>1, <1>2 DEF PoolTypes, ThreadTypes, MtrIsRight, HasMtr, Posting,
      Awaiting, WriteLabels, DblwrLabels, ThreadsAreRight, AfterIsRight, Goes, poolVars, callVars
 <2>2. CASE u # t
   BY <2>2, <1>1, <1>2, <1>o DEF PoolTypes, ThreadTypes, ThreadsAreRight, MtrIsRight, poolVars,
      callVars
 <2> QED BY <2>1, <2>2
<1>19. ASSUME NEW u \in Threads PROVE BatchIsRight(u)'
 <2>1. CASE u = t
   BY <2>1, <1>1, <1>2, <1>w DEF PoolTypes, ThreadTypes, BatchIsRight, Posting, Awaiting, Batching,
      WriteLabels, DblwrLabels, ThreadsAreRight, AfterIsRight, Goes, poolVars, writeVars, callVars
 <2>2. CASE u # t
   BY <2>2, <1>1, <1>2, <1>o, <1>w DEF PoolTypes, ThreadTypes, ThreadsAreRight, BatchIsRight,
      poolVars, writeVars, callVars
 <2> QED BY <2>1, <2>2
<1>20. ASSUME NEW p \in Pages PROVE FrameIsRight(p)'
  BY <1>1, <1>2, <1>n, <1>l, <1>r DEF LogTypes, PoolTypes, PagesAreRight, FrameIsRight, logVars,
     poolVars
<1>21. ASSUME NEW p \in Pages PROVE FileIsRight(p)'
  BY <1>1, <1>2, <1>n, <1>r DEF LogTypes, PoolTypes, DiskTypes, PagesAreRight, FileIsRight, Good,
     poolVars
<1>22. ASSUME NEW p \in Pages PROVE WriteIsRight(p)'
  BY <1>1, <1>2, <1>n, <1>w, <1>r DEF LogTypes, PoolTypes, DiskTypes, PagesAreRight, WriteIsRight,
     Good, Image, poolVars, writeVars
<1>23. ASSUME NEW p \in Pages PROVE LatchIsRight(p)'
  BY <1>1, <1>2, <1>n, <1>w DEF PoolTypes, DiskTypes, ThreadTypes, PagesAreRight, LatchIsRight,
     Posting, WriteLabels, ThreadsAreRight, AfterIsRight, Goes, poolVars, writeVars, callVars
<1> QED
  BY <1>3, <1>4, <1>5, <1>6, <1>7, <1>8, <1>9, <1>10, <1>11, <1>12, <1>13, <1>14, <1>15, <1>16,
       <1>17, <1>18, <1>19, <1>20, <1>21, <1>22, <1>23 DEF ThreadsAreRight, PagesAreRight

\* log_checkpoint reads the oldest modification: what is before it is on the files
\* (OldestIsSafe).
LEMMA CheckpointSampleKeeps ==
    ASSUME IInv, NEW t \in Threads, CheckpointSample(t)
    PROVE  IInv'
<1> USE DEF OthersStay, WritersStay
<1>n. Lsn \in Nat \ {0} /\ LogEnd \in Nat /\ Lsn = Len(log) + 1 /\ Len(log) \in Nat BY NumbersAre
<1>1. pc[t] = "sample" /\ after[t] = "idle" /\ log_mutex = NoThread
  BY DEF CheckpointSample, EntersLog, LogReaches, LogTypes, PoolTypes, ThreadTypes, ThreadsAreRight,
     AfterIsRight, WriteLabels, DblwrLabels
<1>2. /\ Goes(t, "write_up_to") /\ Calls(t, upto'[t], TRUE, "checkpoint")
      /\ upto'[t] \in Safe /\ upto'[t] <= Lsn
      /\ UNCHANGED <<logVars, ckptVars, poolVars, writeVars, fileVars, memo, endVars>>
 <2> DEFINE n == IF OldestModification = 0 THEN Lsn ELSE OldestModification
 <2>1. n \in Nat /\ n <= Lsn /\ n \in Safe BY <1>1, OldestIsSafe
 <2> HIDE DEF n
 <2>2. CallWriteUpTo(t, n, TRUE, "checkpoint") BY DEF CheckpointSample, n
 <2>3. Goes(t, "write_up_to") /\ Calls(t, n, TRUE, "checkpoint") /\ upto'[t] = n
   BY <2>1, <2>2 DEF CallWriteUpTo, ThreadTypes, Labels, WriteLabels, Goes, Calls
 <2> QED BY <2>1, <2>3 DEF CheckpointSample
<1>l. Lsn' = Lsn BY <1>2 DEF Lsn, logVars
<1>e. LogEnd' = LogEnd BY <1>2 DEF LogEnd, logVars
<1>r. Recs' = Recs BY <1>2 DEF Recs, RecordsOf, logVars
<1>s. Safe' = Safe BY <1>2, <1>r DEF Safe, fileVars
<1>w. Unwritten' = Unwritten
 <2>1. (\A u \in Threads : pc[u] # "wait_no_pending")' <=> (\A u \in Threads : pc[u] # "wait_no_pending")
   BY <1>1, <1>2 DEF Goes, ThreadsAreRight, AfterIsRight
 <2> QED BY <1>2, <2>1 DEF Unwritten, writeVars
<1>m. MtrThreads' = MtrThreads
 <2>1. ASSUME NEW u \in Threads PROVE InMtr(u)' <=> InMtr(u)
   BY <1>1, <1>2 DEF InMtr, callVars, Goes, Calls, ThreadTypes, ThreadsAreRight, AfterIsRight,
      WriteLabels
 <2> QED BY <2>1 DEF MtrThreads
<1>v. WritersStay
  BY <1>1, <1>2 DEF Writing, Goes, Calls, callVars, ThreadsAreRight, AfterIsRight, WriteLabels
<1>o. OthersStay(t) BY <1>2 DEF HasMtr, Posting, Awaiting, Batching, Goes, Calls, callVars
<1>3. LogTypes' BY <1>1, <1>2, <1>n DEF LogTypes, logVars, fileVars
<1>4. CkptTypes' BY <1>1, <1>2 DEF CkptTypes, ckptVars, fileVars
<1>5. PoolTypes' BY <1>1, <1>2 DEF PoolTypes, poolVars
<1>6. DiskTypes' BY <1>1, <1>2 DEF DiskTypes, writeVars, fileVars
<1>7. ThreadTypes' BY <1>1, <1>2 DEF ThreadTypes, Goes, Calls, endVars
<1>8. LsnsAreRight'
  BY <1>1, <1>2, <1>n, <1>l, <1>e, <1>v DEF LogTypes, LsnsAreRight, Writing, logVars, fileVars
<1>9. AckedIsKept'
  BY <1>1, <1>2, <1>n, <1>l DEF LogTypes, ThreadTypes, AckedIsKept, logVars, fileVars, endVars
<1>10. DblwrIsRight'
  BY <1>1, <1>2 DEF DblwrIsRight, ThreadTypes, Goes, ThreadsAreRight, AfterIsRight, writeVars,
     fileVars
<1>11. FlushListIsRight' BY <1>1, <1>2 DEF FlushListIsRight, poolVars
<1>12. CheckpointsAreRight'
  BY ZenonT(60), <1>1, <1>2, <1>n, <1>s DEF LogTypes, CkptTypes, CheckpointsAreRight,
     SlotsAreRight, Sampled, WriteLabels, ThreadsAreRight, AfterIsRight, Goes, Calls, logVars,
     ckptVars, fileVars
<1>13. RoomIsLeft'
  BY <1>1, <1>2, <1>n, <1>l, <1>e, <1>m DEF LogTypes, CkptTypes, RoomIsLeft, logVars, ckptVars,
     fileVars
<1>14. DirectIsDirect' BY <1>1, <1>2 DEF DirectIsDirect, fileVars
<1>15. ASSUME NEW u \in Threads PROVE AfterIsRight(u)'
  BY Zenon, <1>1, <1>2, <1>n DEF ThreadTypes, WriteLabels, DblwrLabels, ThreadsAreRight,
     AfterIsRight, Goes, Calls
<1>16. ASSUME NEW u \in Threads PROVE CallIsRight(u)'
  BY <1>1, <1>2, <1>n, <1>l, <1>e DEF ThreadTypes, CallIsRight, LsnsAreRight, LogReaches, Writing,
     Posting, Sampled, WriteLabels, ThreadsAreRight, AfterIsRight, Goes, Calls, logVars
<1>17. ASSUME NEW u \in Threads PROVE MutexIsRight(u)'
  BY <1>1, <1>2, <1>n DEF LogTypes, ThreadTypes, MutexIsRight, ThreadsAreRight, Goes, logVars
<1>18. ASSUME NEW u \in Threads PROVE MtrIsRight(u)'
 <2>1. CASE u = t
   BY ZenonT(60), <2>1, <1>1, <1>2 DEF PoolTypes, ThreadTypes, MtrIsRight, HasMtr, Posting, Awaiting,
      WriteLabels, DblwrLabels, ThreadsAreRight, AfterIsRight, Goes, Calls, poolVars
 <2>2. CASE u # t
   BY <2>2, <1>1, <1>2, <1>o DEF PoolTypes, ThreadTypes, ThreadsAreRight, MtrIsRight, Calls,
      poolVars
 <2> QED BY <2>1, <2>2
<1>19. ASSUME NEW u \in Threads PROVE BatchIsRight(u)'
 <2>1. CASE u = t
   BY Zenon, <2>1, <1>1, <1>2, <1>w DEF PoolTypes, ThreadTypes, BatchIsRight, Posting, Awaiting,
      Batching, WriteLabels, DblwrLabels, ThreadsAreRight, AfterIsRight, Goes, Calls, poolVars,
      writeVars
 <2>2. CASE u # t
   BY <2>2, <1>1, <1>2, <1>o, <1>w DEF PoolTypes, ThreadTypes, ThreadsAreRight, BatchIsRight, Calls,
      poolVars, writeVars
 <2> QED BY <2>1, <2>2
<1>20. ASSUME NEW p \in Pages PROVE FrameIsRight(p)'
  BY <1>1, <1>2, <1>n, <1>l, <1>r DEF LogTypes, PoolTypes, PagesAreRight, FrameIsRight, logVars,
     poolVars
<1>21. ASSUME NEW p \in Pages PROVE FileIsRight(p)'
  BY <1>1, <1>2, <1>n, <1>r DEF LogTypes, PoolTypes, DiskTypes, PagesAreRight, FileIsRight, Good,
     poolVars, fileVars
<1>22. ASSUME NEW p \in Pages PROVE WriteIsRight(p)'
  BY <1>1, <1>2, <1>n, <1>w, <1>r DEF LogTypes, PoolTypes, DiskTypes, PagesAreRight, WriteIsRight,
     Good, Image, poolVars, writeVars, fileVars
<1>23. ASSUME NEW p \in Pages PROVE LatchIsRight(p)'
  BY ZenonT(60), <1>1, <1>2, <1>n, <1>w DEF PoolTypes, DiskTypes, ThreadTypes, PagesAreRight, LatchIsRight,
     Posting, WriteLabels, ThreadsAreRight, AfterIsRight, Goes, Calls, poolVars, writeVars
<1> QED
  BY <1>3, <1>4, <1>5, <1>6, <1>7, <1>8, <1>9, <1>10, <1>11, <1>12, <1>13, <1>14, <1>15, <1>16,
       <1>17, <1>18, <1>19, <1>20, <1>21, <1>22, <1>23 DEF ThreadsAreRight, PagesAreRight

\* log_checkpoint takes the lsn it sampled for the next checkpoint, unless it is stale.
LEMMA CheckpointWriteKeeps ==
    ASSUME IInv, NEW t \in Threads, CheckpointWrite(t)
    PROVE  IInv'
<1> USE DEF OthersStay, WritersStay
<1>n. Lsn \in Nat \ {0} /\ LogEnd \in Nat /\ Lsn = Len(log) + 1 /\ Len(log) \in Nat BY NumbersAre
<1>1. pc[t] = "checkpoint" /\ after[t] = "checkpoint"
  BY Zenon DEF CheckpointWrite, EntersLog, LogReaches, LogTypes, PoolTypes, ThreadTypes,
     ThreadsAreRight, AfterIsRight, WriteLabels, DblwrLabels
<1>2. /\ Goes(t, "idle") /\ Calls(t, 0, FALSE, "idle")
      /\ \/ UNCHANGED ckptVars
         \/ /\ last_checkpoint_lsn < upto[t] /\ n_pending_checkpoint_writes = 0
            /\ next_checkpoint_lsn' = upto[t] /\ n_pending_checkpoint_writes' = 1
            /\ UNCHANGED <<last_checkpoint_lsn, next_checkpoint_no>>
      /\ UNCHANGED <<logVars, poolVars, writeVars, fileVars, memo, endVars>>
  BY DEF CheckpointWrite, CkptTypes, GoTo, Finish, CallWriteUpTo, LogTypes, DiskTypes, ThreadTypes,
     Labels, Goes, Calls
<1>a. /\ upto[t] \in Nat /\ upto[t] <= synced /\ upto[t] \in Safe /\ UNCHANGED synced
      /\ \A u \in Threads : Sampled(u)' => Sampled(u) /\ upto'[u] = upto[u]
 <2>1. upto[t] <= synced /\ upto[t] \in Safe
   BY <1>1 DEF ThreadsAreRight, CallIsRight, LsnsAreRight, CheckpointsAreRight, Sampled, LogReaches,
      ThreadTypes, LogTypes
 <2>2. \A u \in Threads : Sampled(u)' => Sampled(u) /\ upto'[u] = upto[u]
   BY <1>2 DEF Sampled, Goes, Calls, WriteLabels
 <2> QED BY Zenon, <1>2, <2>1, <2>2 DEF ThreadTypes, fileVars
<1>l. Lsn' = Lsn BY <1>2 DEF Lsn, logVars
<1>e. LogEnd' = LogEnd BY <1>2 DEF LogEnd, logVars
<1>r. Recs' = Recs BY <1>2 DEF Recs, RecordsOf, logVars
<1>s. Safe' = Safe BY <1>2, <1>r DEF Safe, fileVars
<1>w. Unwritten' = Unwritten
 <2>1. (\A u \in Threads : pc[u] # "wait_no_pending")' <=> (\A u \in Threads : pc[u] # "wait_no_pending")
   BY <1>1, <1>2 DEF Goes, ThreadsAreRight, AfterIsRight
 <2> QED BY <1>2, <2>1 DEF Unwritten, writeVars
<1>m. MtrThreads' = MtrThreads
 <2>1. ASSUME NEW u \in Threads PROVE InMtr(u)' <=> InMtr(u)
   BY <1>1, <1>2 DEF InMtr, callVars, Goes, Calls, ThreadTypes, ThreadsAreRight, AfterIsRight,
      WriteLabels
 <2> QED BY <2>1 DEF MtrThreads
<1>v. WritersStay
  BY <1>1, <1>2 DEF Writing, Goes, Calls, callVars, ThreadsAreRight, AfterIsRight, WriteLabels
<1>o. OthersStay(t) BY <1>2 DEF HasMtr, Posting, Awaiting, Batching, Goes, Calls, callVars
<1>3. LogTypes' BY <1>1, <1>2, <1>n DEF LogTypes, logVars, fileVars
<1>4. CkptTypes' BY <1>1, <1>2, <1>n, <1>a DEF CkptTypes, ckptVars, fileVars
<1>5. PoolTypes' BY <1>1, <1>2 DEF PoolTypes, poolVars
<1>6. DiskTypes' BY <1>1, <1>2 DEF DiskTypes, writeVars, fileVars
<1>7. ThreadTypes' BY <1>1, <1>2 DEF ThreadTypes, Goes, Calls, endVars
<1>8. LsnsAreRight'
  BY <1>1, <1>2, <1>n, <1>l, <1>e, <1>v DEF LogTypes, LsnsAreRight, Writing, logVars, fileVars
<1>9. AckedIsKept'
  BY <1>1, <1>2, <1>n, <1>l DEF LogTypes, ThreadTypes, AckedIsKept, logVars, fileVars, endVars
<1>10. DblwrIsRight'
  BY <1>1, <1>2 DEF DblwrIsRight, ThreadTypes, Goes, ThreadsAreRight, AfterIsRight, writeVars,
     fileVars
<1>11. FlushListIsRight' BY <1>1, <1>2 DEF FlushListIsRight, poolVars
<1>12. CheckpointsAreRight'
  BY SMTT(30), <1>2, <1>s, <1>a DEF CkptTypes, LogTypes, CheckpointsAreRight, SlotsAreRight, fileVars,
     ckptVars
<1>13. RoomIsLeft'
  BY <1>1, <1>2, <1>n, <1>l, <1>e, <1>m DEF LogTypes, CkptTypes, RoomIsLeft, logVars, ckptVars,
     fileVars
<1>14. DirectIsDirect' BY <1>1, <1>2 DEF DirectIsDirect, fileVars
<1>15. ASSUME NEW u \in Threads PROVE AfterIsRight(u)'
  BY ZenonT(60), <1>1, <1>2, <1>n DEF ThreadTypes, WriteLabels, DblwrLabels, ThreadsAreRight,
     AfterIsRight, Goes, Calls
<1>16. ASSUME NEW u \in Threads PROVE CallIsRight(u)'
  BY <1>1, <1>2, <1>n, <1>l, <1>e DEF ThreadTypes, CallIsRight, LsnsAreRight, LogReaches, Writing,
     Posting, Sampled, WriteLabels, ThreadsAreRight, AfterIsRight, Goes, Calls, logVars
<1>17. ASSUME NEW u \in Threads PROVE MutexIsRight(u)'
  BY Zenon, <1>1, <1>2, <1>n DEF LogTypes, ThreadTypes, MutexIsRight, ThreadsAreRight, Goes, logVars
<1>18. ASSUME NEW u \in Threads PROVE MtrIsRight(u)'
 <2>1. CASE u = t
   BY ZenonT(60), <2>1, <1>1, <1>2 DEF PoolTypes, ThreadTypes, MtrIsRight, HasMtr, Posting, Awaiting,
      WriteLabels, DblwrLabels, ThreadsAreRight, AfterIsRight, Goes, Calls, poolVars
 <2>2. CASE u # t
   BY <2>2, <1>1, <1>2, <1>o DEF PoolTypes, ThreadTypes, ThreadsAreRight, MtrIsRight, Calls,
      poolVars
 <2> QED BY <2>1, <2>2
<1>19. ASSUME NEW u \in Threads PROVE BatchIsRight(u)'
 <2>1. CASE u = t
   BY Zenon, <2>1, <1>1, <1>2, <1>w DEF PoolTypes, ThreadTypes, BatchIsRight, Posting, Awaiting,
      Batching, WriteLabels, DblwrLabels, ThreadsAreRight, AfterIsRight, Goes, Calls, poolVars,
      writeVars
 <2>2. CASE u # t
   BY <2>2, <1>1, <1>2, <1>o, <1>w DEF PoolTypes, ThreadTypes, ThreadsAreRight, BatchIsRight, Calls,
      poolVars, writeVars
 <2> QED BY <2>1, <2>2
<1>20. ASSUME NEW p \in Pages PROVE FrameIsRight(p)'
  BY <1>1, <1>2, <1>n, <1>l, <1>r DEF LogTypes, PoolTypes, PagesAreRight, FrameIsRight, logVars,
     poolVars
<1>21. ASSUME NEW p \in Pages PROVE FileIsRight(p)'
  BY <1>1, <1>2, <1>n, <1>r DEF LogTypes, PoolTypes, DiskTypes, PagesAreRight, FileIsRight, Good,
     poolVars, fileVars
<1>22. ASSUME NEW p \in Pages PROVE WriteIsRight(p)'
  BY <1>1, <1>2, <1>n, <1>w, <1>r DEF LogTypes, PoolTypes, DiskTypes, PagesAreRight, WriteIsRight,
     Good, Image, poolVars, writeVars, fileVars
<1>23. ASSUME NEW p \in Pages PROVE LatchIsRight(p)'
  BY ZenonT(60), <1>1, <1>2, <1>n, <1>w DEF PoolTypes, DiskTypes, ThreadTypes, PagesAreRight,
     LatchIsRight, Posting, WriteLabels, ThreadsAreRight, AfterIsRight, Goes, Calls, poolVars,
     writeVars
<1> QED
  BY <1>3, <1>4, <1>5, <1>6, <1>7, <1>8, <1>9, <1>10, <1>11, <1>12, <1>13, <1>14, <1>15, <1>16,
       <1>17, <1>18, <1>19, <1>20, <1>21, <1>22, <1>23 DEF ThreadsAreRight, PagesAreRight

\* A batch starts when no other one runs.
LEMMA BatchStartKeeps ==
    ASSUME IInv, NEW t \in Threads, BatchStart(t)
    PROVE  IInv'
<1> USE DEF OthersStay, WritersStay
<1>n. Lsn \in Nat \ {0} /\ LogEnd \in Nat /\ Lsn = Len(log) + 1 /\ Len(log) \in Nat BY NumbersAre
<1>1. pc[t] = "idle" /\ after[t] = "idle" /\ init_flush = NoThread
  BY DEF BatchStart, EntersLog, LogReaches, LogTypes, PoolTypes, ThreadTypes, ThreadsAreRight,
     AfterIsRight, WriteLabels, DblwrLabels
<1>2. /\ Goes(t, "batch") /\ UNCHANGED callVars /\ init_flush' = t
      /\ UNCHANGED <<logVars, ckptVars, frame, newest, oldest, flush_list, io_fix,
                     latch, writeVars, fileVars, memo, endVars>>
  BY <1>1, <1>n DEF BatchStart, GoTo, Finish, CallWriteUpTo, LogTypes, PoolTypes, DiskTypes,
     ThreadTypes, Labels, WriteLabels, DblwrLabels, Goes, Calls, Holds
<1>l. Lsn' = Lsn BY <1>2 DEF Lsn, logVars
<1>e. LogEnd' = LogEnd BY <1>2 DEF LogEnd, logVars
<1>r. Recs' = Recs BY <1>2 DEF Recs, RecordsOf, logVars
<1>s. Safe' = Safe BY <1>2, <1>r DEF Safe, fileVars
<1>w. Unwritten' = Unwritten
 <2>1. (\A u \in Threads : pc[u] # "wait_no_pending")' <=> (\A u \in Threads : pc[u] # "wait_no_pending")
   BY <1>1, <1>2 DEF Goes, ThreadsAreRight, AfterIsRight
 <2> QED BY <1>2, <2>1 DEF Unwritten, writeVars
<1>m. MtrThreads' = MtrThreads
 <2>1. ASSUME NEW u \in Threads PROVE InMtr(u)' <=> InMtr(u)
   BY <1>1, <1>2 DEF InMtr, callVars, Goes, Calls, ThreadTypes, ThreadsAreRight, AfterIsRight,
      WriteLabels
 <2> QED BY <2>1 DEF MtrThreads
<1>v. WritersStay
  BY <1>1, <1>2 DEF Writing, Goes, Calls, callVars, ThreadsAreRight, AfterIsRight, WriteLabels
<1>o. OthersStay(t) BY <1>2 DEF HasMtr, Posting, Awaiting, Batching, Goes, Calls, callVars
<1>3. LogTypes' BY <1>1, <1>2, <1>n DEF LogTypes, logVars, fileVars
<1>4. CkptTypes' BY <1>1, <1>2 DEF CkptTypes, ckptVars, fileVars
<1>5. PoolTypes' BY <1>1, <1>2 DEF PoolTypes
<1>6. DiskTypes' BY <1>1, <1>2 DEF DiskTypes, writeVars, fileVars
<1>7. ThreadTypes' BY <1>1, <1>2 DEF ThreadTypes, Goes, callVars, endVars
<1>8. LsnsAreRight'
  BY <1>1, <1>2, <1>n, <1>l, <1>e, <1>v DEF LogTypes, LsnsAreRight, Writing, logVars, fileVars,
     callVars
<1>9. AckedIsKept'
  BY <1>1, <1>2, <1>n, <1>l DEF LogTypes, ThreadTypes, AckedIsKept, logVars, fileVars, endVars
<1>10. DblwrIsRight'
  BY <1>1, <1>2 DEF DblwrIsRight, ThreadTypes, Goes, ThreadsAreRight, AfterIsRight, writeVars,
     fileVars
<1>11. FlushListIsRight' BY <1>1, <1>2 DEF FlushListIsRight
<1>12. CheckpointsAreRight'
  BY <1>1, <1>2, <1>n, <1>s DEF LogTypes, CkptTypes, CheckpointsAreRight, SlotsAreRight, Sampled,
     WriteLabels, ThreadsAreRight, AfterIsRight, Goes, logVars, ckptVars, fileVars, callVars
<1>13. RoomIsLeft'
  BY <1>1, <1>2, <1>n, <1>l, <1>e, <1>m DEF LogTypes, CkptTypes, RoomIsLeft, logVars, ckptVars,
     fileVars
<1>14. DirectIsDirect' BY <1>1, <1>2 DEF DirectIsDirect, fileVars
<1>15. ASSUME NEW u \in Threads PROVE AfterIsRight(u)'
  BY <1>1, <1>2, <1>n DEF ThreadTypes, WriteLabels, DblwrLabels, ThreadsAreRight, AfterIsRight,
     Goes, callVars
<1>16. ASSUME NEW u \in Threads PROVE CallIsRight(u)'
  BY <1>1, <1>2, <1>n, <1>l, <1>e DEF LogTypes, ThreadTypes, CallIsRight, LsnsAreRight, LogReaches,
     Writing, Posting, Sampled, WriteLabels, ThreadsAreRight, AfterIsRight, Goes, logVars, callVars
<1>17. ASSUME NEW u \in Threads PROVE MutexIsRight(u)'
  BY <1>1, <1>2, <1>n DEF LogTypes, ThreadTypes, MutexIsRight, ThreadsAreRight, Goes, logVars
<1>18. ASSUME NEW u \in Threads PROVE MtrIsRight(u)'
 <2>1. CASE u = t
   BY ZenonT(60), <2>1, <1>1, <1>2 DEF PoolTypes, ThreadTypes, MtrIsRight, HasMtr, Posting,
      Awaiting, WriteLabels, DblwrLabels, ThreadsAreRight, AfterIsRight, Goes, callVars
 <2>2. CASE u # t
   BY <2>2, <1>1, <1>2, <1>o DEF PoolTypes, ThreadTypes, ThreadsAreRight, MtrIsRight, callVars
 <2> QED BY <2>1, <2>2
<1>19. ASSUME NEW u \in Threads PROVE BatchIsRight(u)'
 <2>1. CASE u = t
   BY Zenon, <2>1, <1>1, <1>2, <1>w DEF PoolTypes, ThreadTypes, BatchIsRight, Posting, Awaiting,
      Batching, WriteLabels, DblwrLabels, ThreadsAreRight, AfterIsRight, Goes, writeVars, callVars
 <2>2. CASE u # t
  <3>1. BatchIsRight(u) /\ ~Batching(u)
   <4>1. BatchIsRight(u) /\ init_flush # u BY <1>1, RedoLogAssumption DEF ThreadsAreRight
   <4> QED BY <4>1 DEF BatchIsRight
  <3> QED BY <1>2, <1>o, <1>w, <2>2, <3>1 DEF BatchIsRight, callVars, writeVars
 <2> QED BY <2>1, <2>2
<1>20. ASSUME NEW p \in Pages PROVE FrameIsRight(p)'
  BY <1>1, <1>2, <1>n, <1>l, <1>r DEF LogTypes, PoolTypes, PagesAreRight, FrameIsRight, logVars
<1>21. ASSUME NEW p \in Pages PROVE FileIsRight(p)'
  BY <1>1, <1>2, <1>n, <1>r DEF LogTypes, PoolTypes, DiskTypes, PagesAreRight, FileIsRight, Good,
     fileVars
<1>22. ASSUME NEW p \in Pages PROVE WriteIsRight(p)'
  BY <1>1, <1>2, <1>n, <1>w, <1>r DEF LogTypes, PoolTypes, DiskTypes, PagesAreRight, WriteIsRight,
     Good, Image, writeVars, fileVars
<1>23. ASSUME NEW p \in Pages PROVE LatchIsRight(p)'
  BY Zenon, <1>1, <1>2, <1>n, <1>w DEF PoolTypes, DiskTypes, ThreadTypes, PagesAreRight,
     LatchIsRight, Posting, WriteLabels, ThreadsAreRight, AfterIsRight, Goes, writeVars, callVars
<1> QED
  BY <1>3, <1>4, <1>5, <1>6, <1>7, <1>8, <1>9, <1>10, <1>11, <1>12, <1>13, <1>14, <1>15, <1>16,
       <1>17, <1>18, <1>19, <1>20, <1>21, <1>22, <1>23 DEF ThreadsAreRight, PagesAreRight

\* mtr_commit notes the modification: the pages have all records again, and the ones
\* that were clean are put in front of the flush list (PagesInFront).
LEMMA MtrNoteKeeps ==
    ASSUME IInv, NEW t \in Threads, MtrNote(t)
    PROVE  IInv'
<1> USE DEF OthersStay, WritersStay
<1>n. Lsn \in Nat \ {0} /\ LogEnd \in Nat /\ Lsn = Len(log) + 1 /\ Len(log) \in Nat BY NumbersAre
<1>1. pc[t] = "note" /\ log_mutex = t /\ after[t] \in {"idle", "mtr"}
 <2>1. pc[t] = "note" BY DEF MtrNote
 <2>2. MutexIsRight(t) /\ AfterIsRight(t) BY DEF ThreadsAreRight
 <2> QED BY <2>1, <2>2 DEF MutexIsRight, AfterIsRight
<1>2. /\ Goes(t, pc'[t]) /\ Calls(t, upto'[t], flush'[t], after'[t])
      /\ \/ pc'[t] = "idle" /\ after'[t] = "idle" /\ upto'[t] = 0
         \/ pc'[t] = "write_up_to" /\ after'[t] = "ack" /\ upto'[t] = Lsn
      /\ log_mutex' = NoThread /\ Holds(t, {})
      /\ frame' \in [Pages -> SUBSET Nat] /\ newest' \in [Pages -> Nat] /\ oldest' \in [Pages -> Nat]
      /\ flush_list' \in Seq(Pages) /\ FlushListIsRight'
      /\ latch' \in [Pages -> Threads \cup {NoThread, Io}]
      /\ \A p \in memo[t] :
             /\ p \in Pages /\ Len(log) \in Recs[p] /\ latch[p] = t
             /\ frame'[p] = frame[p] \cup {Len(log)} /\ newest'[p] = Lsn /\ latch'[p] = NoThread
             /\ oldest'[p] = IF oldest[p] = 0 THEN Len(log) ELSE oldest[p]
      /\ \A p \in Pages : p \notin memo[t] =>
             /\ Len(log) \notin Recs[p] /\ frame'[p] = frame[p] /\ newest'[p] = newest[p]
             /\ oldest'[p] = oldest[p] /\ latch'[p] = latch[p]
      /\ UNCHANGED <<log, write_lsn, written_to_all_lsn, flushed_to_disk_lsn,
                     current_flush_lsn, n_pending_writes, check_flush_or_checkpoint,
                     ckptVars, io_fix, init_flush, writeVars, fileVars, endVars>>
 <2> DEFINE start == Len(log)
            clean == {p \in memo[t] : oldest[p] = 0}
 <2>1. memo[t] \in SUBSET Pages /\ start \in Nat \ {0} /\ \A p \in memo[t] : latch[p] = t
  <3>1. memo[t] \in SUBSET Pages BY DEF ThreadTypes
  <3>2. \A p \in memo[t] : latch[p] = t BY <1>1 DEF ThreadsAreRight, MtrIsRight, HasMtr
  <3>3. log # <<>> /\ log \in Seq(MtrPages) BY <1>1 DEF LogTypes, ThreadsAreRight, MutexIsRight
  <3>4. Len(log) # 0 BY <3>3
  <3> QED BY <1>n, <3>1, <3>2, <3>4
 <2>2. PICK q \in Dirtied(clean) : flush_list' = q \o flush_list BY DEF MtrNote
 <2>3. /\ frame' = [p \in Pages |-> IF p \in memo[t] THEN frame[p] \cup {start} ELSE frame[p]]
       /\ newest' = [p \in Pages |-> IF p \in memo[t] THEN Lsn ELSE newest[p]]
       /\ oldest' = [p \in Pages |-> IF p \in clean THEN start ELSE oldest[p]]
       /\ latch' = [p \in Pages |-> IF p \in memo[t] THEN NoThread ELSE latch[p]]
       /\ memo' = [memo EXCEPT ![t] = {}] /\ log_mutex' = NoThread
   BY DEF MtrNote
 <2>4. \A p \in Pages : (p \in clean <=> p \in memo[t] /\ oldest[p] = 0) OBVIOUS
 <2> HIDE DEF clean, start
 <2>5. /\ frame' \in [Pages -> SUBSET Nat] /\ newest' \in [Pages -> Nat] /\ oldest' \in [Pages -> Nat]
       /\ latch' \in [Pages -> Threads \cup {NoThread, Io}]
   BY <1>n, <2>1, <2>3 DEF PoolTypes
 <2>6. flush_list' \in Seq(Pages) /\ FlushListIsRight'
  <3>1. q \in SetToSeqs(clean) /\ clean \in SUBSET Pages BY <2>1, <2>2 DEF Dirtied, clean
  <3>2. /\ flush_list \in Seq(Pages) /\ oldest \in [Pages -> Nat] /\ Listed(flush_list, oldest)
        /\ \A p \in Pages : oldest[p] <= start
   <4>1. \A p \in Pages : oldest[p] < Lsn /\ oldest[p] \in Nat
     BY DEF PagesAreRight, FrameIsRight, PoolTypes
   <4> QED BY <1>n, <4>1 DEF PoolTypes, FlushListIsRight, start
  <3>3. /\ \A p \in clean : oldest[p] = 0 /\ oldest'[p] = start
        /\ \A p \in Pages \ clean : oldest'[p] = oldest[p]
    BY <2>1, <2>3, <2>4, <3>1
  <3>4. flush_list' \in Seq(Pages) /\ Listed(flush_list', oldest')
    BY <2>1, <2>2, <2>5, <3>1, <3>2, <3>3, PagesInFront
  <3> QED BY <3>4 DEF FlushListIsRight, Listed
 <2>7. \A p \in Pages : start \in Recs[p] <=> p \in memo[t]
   BY <1>1, <2>1 DEF LogTypes, ThreadsAreRight, MutexIsRight, Recs, RecordsOf, start
 <2>8. Holds(t, {}) BY <2>3 DEF ThreadTypes, Holds
 <2>9. /\ Goes(t, pc'[t]) /\ Calls(t, upto'[t], flush'[t], after'[t])
       /\ \/ pc'[t] = "idle" /\ after'[t] = "idle" /\ upto'[t] = 0
          \/ pc'[t] = "write_up_to" /\ after'[t] = "ack" /\ upto'[t] = Lsn
  <3>1. CASE Finish(t) BY <3>1 DEF Finish, ThreadTypes, Labels, Goes, Calls
  <3>2. ASSUME NEW d \in BOOLEAN, CallWriteUpTo(t, Lsn, d, "ack")
        PROVE  /\ Goes(t, pc'[t]) /\ Calls(t, upto'[t], flush'[t], after'[t])
               /\ pc'[t] = "write_up_to" /\ after'[t] = "ack" /\ upto'[t] = Lsn
    BY <1>n, <3>2 DEF CallWriteUpTo, ThreadTypes, Labels, WriteLabels, Goes, Calls
  <3> QED BY <3>1, <3>2 DEF MtrNote
 <2>10. \A p \in memo[t] :
            /\ p \in Pages /\ start \in Recs[p] /\ latch[p] = t
            /\ frame'[p] = frame[p] \cup {start} /\ newest'[p] = Lsn /\ latch'[p] = NoThread
            /\ oldest'[p] = IF oldest[p] = 0 THEN start ELSE oldest[p]
   BY <2>1, <2>3, <2>4, <2>7
 <2>11. \A p \in Pages : p \notin memo[t] =>
            /\ start \notin Recs[p] /\ frame'[p] = frame[p] /\ newest'[p] = newest[p]
            /\ oldest'[p] = oldest[p] /\ latch'[p] = latch[p]
   BY <2>3, <2>4, <2>7
 <2>12. UNCHANGED <<log, write_lsn, written_to_all_lsn, flushed_to_disk_lsn,
                    current_flush_lsn, n_pending_writes, check_flush_or_checkpoint,
                    ckptVars, io_fix, init_flush, writeVars, fileVars, endVars>>
   BY DEF MtrNote
 <2> QED BY <2>3, <2>5, <2>6, <2>8, <2>9, <2>10, <2>11, <2>12 DEF start
<1>p. /\ \A p \in memo[t] :
             /\ p \in Pages /\ Len(log) \in Recs[p] /\ latch[p] = t
             /\ frame'[p] = frame[p] \cup {Len(log)} /\ newest'[p] = Lsn /\ latch'[p] = NoThread
             /\ oldest'[p] = IF oldest[p] = 0 THEN Len(log) ELSE oldest[p]
      /\ \A p \in Pages : p \notin memo[t] =>
             /\ Len(log) \notin Recs[p] /\ frame'[p] = frame[p] /\ newest'[p] = newest[p]
             /\ oldest'[p] = oldest[p] /\ latch'[p] = latch[p]
  BY <1>2
<1>q. NoThread # t /\ Io # t /\ NoThread # Io BY RedoLogAssumption
<1>i. \A p \in Pages : (latch'[p] = Io => latch[p] = Io) /\ (latch[p] = Io => latch'[p] = Io /\ p \notin memo[t])
  BY <1>p, <1>q
<1>l. Lsn' = Lsn BY <1>2 DEF Lsn
<1>e. LogEnd' = LogEnd BY <1>2 DEF LogEnd
<1>r. Recs' = Recs BY <1>2 DEF Recs, RecordsOf
<1>s. Safe' = Safe BY <1>2, <1>r DEF Safe, fileVars
<1>w. Unwritten' = Unwritten
 <2>1. (\A u \in Threads : pc[u] # "wait_no_pending")' <=> (\A u \in Threads : pc[u] # "wait_no_pending")
   BY ZenonT(60), <1>1, <1>2 DEF Goes, ThreadsAreRight, AfterIsRight
 <2> QED BY <1>2, <2>1 DEF Unwritten, writeVars
<1>m. MtrThreads' = MtrThreads
 <2>1. ASSUME NEW u \in Threads PROVE InMtr(u)' <=> InMtr(u)
   BY <1>1, <1>2 DEF InMtr, callVars, Goes, Calls, ThreadTypes, ThreadsAreRight, AfterIsRight,
      WriteLabels
 <2> QED BY <2>1 DEF MtrThreads
<1>v. WritersStay
  BY <1>1, <1>2 DEF Writing, Goes, Calls, callVars, ThreadsAreRight, AfterIsRight, WriteLabels
<1>o. OthersStay(t) BY <1>2 DEF HasMtr, Posting, Awaiting, Batching, Goes, Calls, callVars
<1>3. LogTypes' BY <1>1, <1>2, <1>n DEF LogTypes, fileVars
<1>4. CkptTypes' BY <1>1, <1>2 DEF CkptTypes, ckptVars, fileVars
<1>5. PoolTypes' BY <1>1, <1>2 DEF PoolTypes
<1>6. DiskTypes' BY <1>1, <1>2 DEF DiskTypes, writeVars, fileVars
<1>7. ThreadTypes' BY <1>1, <1>2 DEF ThreadTypes, Goes, Calls, Holds, endVars
<1>8. LsnsAreRight'
  BY <1>1, <1>2, <1>n, <1>l, <1>e, <1>v DEF LogTypes, LsnsAreRight, Writing, fileVars
<1>9. AckedIsKept'
  BY <1>1, <1>2, <1>n, <1>l DEF LogTypes, ThreadTypes, AckedIsKept, fileVars, endVars
<1>10. DblwrIsRight'
 <2>1. \A u \in Threads : /\ pc'[u] = "write_pages" <=> pc[u] = "write_pages"
                          /\ pc'[u] = "wait_no_pending" <=> pc[u] = "wait_no_pending"
   BY <1>1, <1>2 DEF Goes
 <2> QED BY <1>2, <2>1 DEF DblwrIsRight, writeVars, fileVars
<1>11. FlushListIsRight' BY <1>2
<1>12. CheckpointsAreRight'
  BY ZenonT(60), <1>1, <1>2, <1>n, <1>s DEF LogTypes, CkptTypes, CheckpointsAreRight,
     SlotsAreRight, Sampled, WriteLabels, ThreadsAreRight, AfterIsRight, Goes, Calls, ckptVars,
     fileVars
<1>13. RoomIsLeft'
  BY <1>1, <1>2, <1>n, <1>l, <1>e, <1>m DEF LogTypes, CkptTypes, RoomIsLeft, ckptVars, fileVars
<1>14. DirectIsDirect' BY <1>1, <1>2 DEF DirectIsDirect, fileVars
<1>15. ASSUME NEW u \in Threads PROVE AfterIsRight(u)'
  BY ZenonT(60), <1>1, <1>2, <1>n DEF ThreadTypes, WriteLabels, DblwrLabels, ThreadsAreRight,
     AfterIsRight, Goes, Calls
<1>16. ASSUME NEW u \in Threads PROVE CallIsRight(u)'
  BY <1>2, <1>n, <1>l DEF ThreadTypes, CallIsRight, LogReaches, Writing, Posting, Sampled,
     WriteLabels, ThreadsAreRight, Goes, Calls
<1>17. ASSUME NEW u \in Threads PROVE MutexIsRight(u)'
 <2>1. pc[u] = "note" => u = t BY <1>1 DEF ThreadsAreRight, MutexIsRight
 <2>2. pc'[u] # "note" BY <1>2, <2>1 DEF Goes
 <2> QED BY Zenon, <1>2, <2>2, RedoLogAssumption DEF MutexIsRight
<1>18. ASSUME NEW u \in Threads PROVE MtrIsRight(u)'
 <2>1. CASE u = t
  <3>1. ~HasMtr(t)' /\ pc'[t] # "latching" /\ memo'[t] = {}
    BY <1>1, <1>2 DEF HasMtr, Goes, Holds, WriteLabels
  <3>2. \A p \in Pages : latch'[p] # t
   <4>1. \A p \in Pages : latch[p] = t => p \in memo[t] BY DEF ThreadsAreRight, MtrIsRight
   <4> QED BY <1>p, <1>q, <4>1
  <3> QED BY <2>1, <3>1, <3>2 DEF MtrIsRight
 <2>2. CASE u # t
  <3>1. \A p \in Pages : latch'[p] = u <=> latch[p] = u BY <1>p, <1>q, <2>2, RedoLogAssumption
  <3>2. MtrIsRight(u) /\ memo'[u] = memo[u] /\ memo[u] \in SUBSET Pages
    BY <1>2, <2>2 DEF ThreadsAreRight, ThreadTypes, Holds
  <3> QED BY <1>o, <2>2, <3>1, <3>2 DEF MtrIsRight
 <2> QED BY <2>1, <2>2
<1>19. ASSUME NEW u \in Threads PROVE BatchIsRight(u)'
 <2>1. CASE u = t
   BY <2>1, <1>1, <1>2, <1>w DEF PoolTypes, ThreadTypes, BatchIsRight, Posting, Awaiting, Batching,
      WriteLabels, DblwrLabels, ThreadsAreRight, AfterIsRight, Goes, Calls, Holds, writeVars
 <2>2. CASE u # t
  <3>1. BatchIsRight(u) /\ memo'[u] = memo[u] /\ memo[u] \in SUBSET Pages
        /\ upto'[u] = upto[u] /\ after'[u] = after[u]
    BY <1>2, <2>2 DEF ThreadsAreRight, ThreadTypes, Holds, Calls
  <3>2. \A p \in Pages : (oldest[p] # 0 => oldest'[p] # 0) /\ (latch[p] = Io => newest'[p] = newest[p])
   <4>1. \A p \in memo[t] : Len(log) # 0 BY <1>p, RecordsAre
   <4> QED BY <1>p, <1>i, <4>1
  <3>3. io_fix' = io_fix /\ posted' = posted /\ init_flush' = init_flush BY <1>2 DEF writeVars
  <3> QED BY <1>i, <1>o, <1>w, <2>2, <3>1, <3>2, <3>3 DEF BatchIsRight
 <2> QED BY <2>1, <2>2
<1>20. ASSUME NEW p \in Pages PROVE FrameIsRight(p)'
 <2>1. /\ FrameIsRight(p) /\ frame[p] \subseteq Nat /\ newest[p] \in Nat /\ oldest[p] \in Nat
       /\ log_mutex # NoThread
   BY <1>1, <1>q DEF PagesAreRight, PoolTypes
 <2>2. \A i \in Recs[p] : i \in Nat /\ i < Lsn BY RecordsAre
 <2>3. \A i \in Recs[p] : i \in frame[p] <=> i + 1 < Lsn BY <2>1 DEF FrameIsRight
 <2>4. frame[p] \subseteq Recs[p] /\ newest[p] <= Lsn /\ oldest[p] < Lsn
       /\ (oldest[p] # 0 => \A i \in frame[p] : i < newest[p])
   BY <2>1 DEF FrameIsRight
 <2>5. CASE p \in memo[t]
  <3>1. /\ frame'[p] = frame[p] \cup {Len(log)} /\ newest'[p] = Lsn /\ Len(log) \in Recs[p]
        /\ oldest'[p] = IF oldest[p] = 0 THEN Len(log) ELSE oldest[p]
    BY <1>p, <2>5
  <3>2. \A i \in Recs[p] : i \in frame'[p] BY <1>n, <2>2, <2>3, <3>1
  <3>3. frame'[p] \subseteq Recs[p] /\ \A i \in frame'[p] : i < Lsn BY <2>2, <2>4, <3>1
  <3>4. newest'[p] <= Lsn /\ oldest'[p] < Lsn BY <1>n, <2>4, <3>1
  <3> QED BY <1>2, <1>l, <1>r, <3>1, <3>2, <3>3, <3>4 DEF FrameIsRight
 <2>6. CASE p \notin memo[t]
  <3>1. /\ frame'[p] = frame[p] /\ newest'[p] = newest[p] /\ oldest'[p] = oldest[p]
        /\ Len(log) \notin Recs[p]
    BY <1>p, <2>6
  <3>2. \A i \in Recs[p] : i \in frame[p] BY <1>n, <2>2, <2>3, <3>1
  <3> QED BY <1>2, <1>l, <1>r, <2>4, <3>1, <3>2 DEF FrameIsRight
 <2> QED BY <2>5, <2>6
<1>21. ASSUME NEW p \in Pages PROVE FileIsRight(p)'
 <2>1. /\ FileIsRight(p) /\ frame[p] \subseteq Nat /\ oldest[p] \in Nat /\ oldest[p] < Lsn
   BY DEF PagesAreRight, PoolTypes, FrameIsRight
 <2>2. Good(p, cache[p])' /\ cache' = cache BY <1>2, <1>r, <2>1 DEF FileIsRight, Good, fileVars
 <2>3. ASSUME NEW i \in frame'[p], oldest'[p] = 0 \/ i < oldest'[p] PROVE i \in cache[p].recs
  <3>1. CASE p \in memo[t]
   <4>1. Len(log) \in Nat \ {0} BY <1>p, <3>1, RecordsAre
   <4>2. (i \in frame[p] \/ i = Len(log)) /\ oldest'[p] = IF oldest[p] = 0 THEN Len(log) ELSE oldest[p]
     BY <1>p, <3>1
   <4>3. i \in frame[p] /\ (oldest[p] = 0 \/ i < oldest[p]) BY <1>n, <2>1, <2>3, <4>1, <4>2
   <4> QED BY <2>1, <4>3 DEF FileIsRight
  <3>2. CASE p \notin memo[t] BY <1>p, <2>1, <2>3, <3>2 DEF FileIsRight
  <3> QED BY <3>1, <3>2
 <2> QED BY <2>2, <2>3 DEF FileIsRight
<1>22. ASSUME NEW p \in Pages PROVE WriteIsRight(p)'
 <2>1. WriteIsRight(p) /\ (p \in Unwritten => p \notin memo[t])
   BY <1>i DEF PagesAreRight, WriteIsRight
 <2>2. Good(p, write_buf[p]) => Good(p, write_buf[p])' BY <1>2, <1>r DEF Good, writeVars, fileVars
 <2>3. p \in Unwritten => Image(p)' = Image(p) /\ oldest'[p] = oldest[p] /\ newest'[p] = newest[p]
                          /\ latch'[p] = latch[p]
   BY <1>p, <2>1 DEF Image
 <2> QED BY <1>2, <1>w, <2>1, <2>2, <2>3 DEF WriteIsRight, writeVars, fileVars
<1>23. ASSUME NEW p \in Pages PROVE LatchIsRight(p)'
 <2>1. LatchIsRight(p) /\ (latch'[p] = Io => latch[p] = Io) BY <1>i DEF PagesAreRight
 <2>2. \A u \in Threads : Posting(u) => u # t BY <1>1 DEF Posting, WriteLabels
 <2>3. \A u \in Threads : Posting(u) => Posting(u)' /\ memo'[u] = memo[u]
   BY <1>2, <1>o, <2>2 DEF Holds
 <2> QED BY <1>w, <2>1, <2>3 DEF LatchIsRight
<1> QED
  BY <1>3, <1>4, <1>5, <1>6, <1>7, <1>8, <1>9, <1>10, <1>11, <1>12, <1>13, <1>14, <1>15, <1>16,
       <1>17, <1>18, <1>19, <1>20, <1>21, <1>22, <1>23 DEF ThreadsAreRight, PagesAreRight

\* A batch takes a page: it latches it, or finds it latched and writes first what it
\* has posted.
LEMMA TryPageKeeps ==
    ASSUME IInv, NEW t \in Threads, TryPage(t)
    PROVE  IInv'
<1> USE DEF OthersStay, WritersStay
<1>n. Lsn \in Nat \ {0} /\ LogEnd \in Nat /\ Lsn = Len(log) + 1 /\ Len(log) \in Nat BY NumbersAre
<1>1. pc[t] = "batch" /\ init_flush = t
 <2>1. pc[t] = "batch" BY DEF TryPage
 <2>2. BatchIsRight(t) BY DEF ThreadsAreRight
 <2> QED BY <2>1, <2>2 DEF BatchIsRight, Batching
<1>2. PICK d \in Pages :
      /\ oldest[d] # 0 /\ ~io_fix[d] /\ latch[d] # Io /\ d \notin Unwritten
      /\ io_fix' \in [Pages -> BOOLEAN] /\ io_fix'[d]
      /\ \A p \in Pages : p # d => io_fix'[p] = io_fix[p]
      /\ latch' \in [Pages -> Threads \cup {NoThread, Io}]
      /\ \A p \in Pages : p # d => latch'[p] = latch[p]
      /\ Holds(t, {d})
      /\ Goes(t, pc'[t]) /\ Calls(t, upto'[t], flush'[t], after'[t])
      /\ \/ /\ latch[d] = NoThread /\ latch'[d] = Io /\ pc'[t] = "write_up_to"
            /\ after'[t] = "post" /\ upto'[t] = newest[d] /\ flush'[t]
         \/ /\ latch'[d] = latch[d] /\ pc'[t] = "write_dblwr"
            /\ after'[t] = "latch" /\ upto'[t] = upto[t]
      /\ UNCHANGED <<logVars, ckptVars, frame, newest, oldest, flush_list, init_flush,
                     writeVars, fileVars, endVars>>
 <2>1. PICK d \in Pages :
       /\ oldest[d] # 0 /\ ~io_fix[d]
       /\ io_fix' = [io_fix EXCEPT ![d] = TRUE]
       /\ memo' = [memo EXCEPT ![t] = {d}]
       /\ \/ /\ ~Fixed(d) /\ latch' = [latch EXCEPT ![d] = Io]
             /\ CallWriteUpTo(t, newest[d], TRUE, "post")
          \/ /\ pc' = [pc EXCEPT ![t] = "write_dblwr"]
             /\ after' = [after EXCEPT ![t] = "latch"]
             /\ UNCHANGED <<latch, upto, flush>>
   BY DEF TryPage
 <2>2. d \notin Unwritten BY <2>1 DEF PagesAreRight, WriteIsRight
 <2>3. latch[d] # Io
  <3>1. ASSUME NEW u \in Threads, Posting(u), d \in memo[u] PROVE FALSE
    BY <2>1, <3>1 DEF ThreadsAreRight, BatchIsRight
  <3> QED BY <2>2, <3>1 DEF PagesAreRight, LatchIsRight
 <2>4. ~Fixed(d) => latch[d] = NoThread BY <2>3 DEF Fixed, PoolTypes
 <2>5. /\ io_fix' \in [Pages -> BOOLEAN] /\ io_fix'[d]
       /\ \A p \in Pages : p # d => io_fix'[p] = io_fix[p]
   BY <2>1 DEF PoolTypes
 <2>6. Holds(t, {d}) BY <2>1 DEF ThreadTypes, Holds
 <2>7. UNCHANGED <<logVars, ckptVars, frame, newest, oldest, flush_list, init_flush,
                   writeVars, fileVars, endVars>>
   BY DEF TryPage
 <2>8. newest[d] \in Nat BY DEF PoolTypes
 <2>9. CASE /\ ~Fixed(d) /\ latch' = [latch EXCEPT ![d] = Io]
            /\ CallWriteUpTo(t, newest[d], TRUE, "post")
  <3>1. /\ latch' \in [Pages -> Threads \cup {NoThread, Io}] /\ latch'[d] = Io
        /\ \A p \in Pages : p # d => latch'[p] = latch[p]
    BY <2>9 DEF PoolTypes
  <3>2. Goes(t, pc'[t]) /\ Calls(t, upto'[t], flush'[t], after'[t]) /\ pc'[t] = "write_up_to"
        /\ after'[t] = "post" /\ upto'[t] = newest[d] /\ flush'[t]
    BY <2>8, <2>9 DEF CallWriteUpTo, ThreadTypes, Labels, WriteLabels, Goes, Calls
  <3> QED BY <2>1, <2>2, <2>3, <2>4, <2>5, <2>6, <2>7, <2>9, <3>1, <3>2
 <2>10. CASE /\ pc' = [pc EXCEPT ![t] = "write_dblwr"]
             /\ after' = [after EXCEPT ![t] = "latch"]
             /\ UNCHANGED <<latch, upto, flush>>
  <3>1. Goes(t, pc'[t]) /\ Calls(t, upto'[t], flush'[t], after'[t]) /\ pc'[t] = "write_dblwr"
        /\ after'[t] = "latch" /\ upto'[t] = upto[t]
    BY <2>10 DEF ThreadTypes, Labels, DblwrLabels, Goes, Calls
  <3>2. /\ latch' \in [Pages -> Threads \cup {NoThread, Io}] /\ latch'[d] = latch[d]
        /\ \A p \in Pages : p # d => latch'[p] = latch[p]
    BY <2>10 DEF PoolTypes
  <3> QED BY <2>1, <2>2, <2>3, <2>5, <2>6, <2>7, <2>10, <3>1, <3>2
 <2> QED BY <2>1, <2>9, <2>10
<1>p. newest[d] \in Nat /\ newest[d] <= Lsn BY DEF PoolTypes, PagesAreRight, FrameIsRight
<1>q. NoThread # Io /\ \A u \in Threads : NoThread # u /\ Io # u BY RedoLogAssumption
<1>a. ~HasMtr(t) /\ ~Posting(t) /\ ~Awaiting(t)
  BY <1>1 DEF HasMtr, Posting, Awaiting, WriteLabels, DblwrLabels
<1>b. /\ ~HasMtr(t)' /\ pc'[t] # "latching" /\ (Posting(t)' \/ Awaiting(t)')
      /\ Posting(t)' <=> latch[d] = NoThread /\ latch'[d] = Io /\ pc'[t] = "write_up_to"
  BY <1>2, <1>q DEF HasMtr, Posting, Awaiting, WriteLabels, DblwrLabels, Goes, Calls
<1>c. \A u \in Threads, p \in Pages : latch'[p] = u <=> latch[p] = u BY <1>2, <1>q
<1>d. \A p \in Pages : latch'[p] = Io => latch[p] = Io \/ (p = d /\ Posting(t)') BY <1>2, <1>b, <1>q
<1>l. Lsn' = Lsn BY <1>2 DEF Lsn, logVars
<1>e. LogEnd' = LogEnd BY <1>2 DEF LogEnd, logVars
<1>r. Recs' = Recs BY <1>2 DEF Recs, RecordsOf, logVars
<1>s. Safe' = Safe BY <1>2, <1>r DEF Safe, fileVars
<1>w. Unwritten' = Unwritten
 <2>1. (\A u \in Threads : pc[u] # "wait_no_pending")' <=> (\A u \in Threads : pc[u] # "wait_no_pending")
   BY <1>1, <1>2 DEF Goes, ThreadsAreRight, AfterIsRight
 <2> QED BY <1>2, <2>1 DEF Unwritten, writeVars
<1>m. MtrThreads' = MtrThreads
 <2>1. ASSUME NEW u \in Threads PROVE InMtr(u)' <=> InMtr(u)
   BY <1>1, <1>2 DEF InMtr, callVars, Goes, Calls, ThreadTypes, ThreadsAreRight, AfterIsRight,
      WriteLabels
 <2> QED BY <2>1 DEF MtrThreads
<1>v. WritersStay
  BY <1>1, <1>2 DEF Writing, Goes, Calls, callVars, ThreadsAreRight, AfterIsRight, WriteLabels
<1>o. OthersStay(t) BY <1>2 DEF HasMtr, Posting, Awaiting, Batching, Goes, Calls, callVars
<1>3. LogTypes' BY <1>1, <1>2, <1>n, <1>p DEF LogTypes, logVars, fileVars
<1>4. CkptTypes' BY <1>1, <1>2, <1>p DEF CkptTypes, ckptVars, fileVars
<1>5. PoolTypes' BY <1>1, <1>2, <1>p DEF PoolTypes
<1>6. DiskTypes' BY <1>1, <1>2, <1>p DEF DiskTypes, writeVars, fileVars
<1>7. ThreadTypes' BY <1>1, <1>2, <1>p DEF ThreadTypes, Goes, Calls, Holds, endVars
<1>8. LsnsAreRight'
  BY <1>1, <1>2, <1>n, <1>l, <1>e, <1>v, <1>p DEF LogTypes, LsnsAreRight, Writing, logVars, fileVars
<1>9. AckedIsKept'
  BY <1>1, <1>2, <1>n, <1>l, <1>p DEF LogTypes, ThreadTypes, AckedIsKept, logVars, fileVars, endVars
<1>10. DblwrIsRight'
  BY <1>1, <1>2, <1>p DEF DblwrIsRight, ThreadTypes, Goes, ThreadsAreRight, AfterIsRight, writeVars,
     fileVars
<1>11. FlushListIsRight' BY <1>1, <1>2, <1>p DEF FlushListIsRight
<1>12. CheckpointsAreRight'
  BY ZenonT(60), <1>1, <1>2, <1>n, <1>s, <1>p DEF LogTypes, CkptTypes, CheckpointsAreRight, SlotsAreRight,
     Sampled, WriteLabels, ThreadsAreRight, AfterIsRight, Goes, Calls, logVars, ckptVars, fileVars
<1>13. RoomIsLeft'
  BY <1>1, <1>2, <1>n, <1>l, <1>e, <1>m, <1>p DEF LogTypes, CkptTypes, RoomIsLeft, logVars,
     ckptVars, fileVars
<1>14. DirectIsDirect' BY <1>1, <1>2, <1>p DEF DirectIsDirect, fileVars
<1>15. ASSUME NEW u \in Threads PROVE AfterIsRight(u)'
  BY <1>1, <1>2, <1>n, <1>p DEF ThreadTypes, WriteLabels, DblwrLabels, ThreadsAreRight,
     AfterIsRight, Goes, Calls
<1>16. ASSUME NEW u \in Threads PROVE CallIsRight(u)'
 <2>1. CallIsRight(u) /\ AfterIsRight(u) BY DEF ThreadsAreRight
 <2>2. CASE u = t
  <3>1. pc'[t] \in {"write_up_to", "write_dblwr"} /\ upto'[t] <= Lsn
    BY <1>2, <1>p, <2>1, <2>2 DEF CallIsRight
  <3>2. ~Sampled(t)' /\ ~Writing(t)' /\ (Posting(t)' => flush'[t])
    BY <1>2, <3>1 DEF Sampled, Writing, Posting, Goes, Calls, WriteLabels
  <3> QED BY <1>l, <2>2, <3>1, <3>2 DEF CallIsRight
 <2>3. CASE u # t
  <3>1. /\ pc'[u] = pc[u] /\ after'[u] = after[u] /\ upto'[u] = upto[u] /\ flush'[u] = flush[u]
        /\ Writing(u)' <=> Writing(u)
    BY <1>2, <2>3 DEF Goes, Calls, Writing
  <3> QED BY <1>2, <1>l, <1>o, <2>1, <2>3, <3>1 DEF CallIsRight, logVars, LogReaches, Sampled
 <2> QED BY <2>2, <2>3
<1>17. ASSUME NEW u \in Threads PROVE MutexIsRight(u)'
  BY <1>1, <1>2, <1>n, <1>p DEF LogTypes, ThreadTypes, MutexIsRight, ThreadsAreRight, Goes, Holds,
     logVars
<1>18. ASSUME NEW u \in Threads PROVE MtrIsRight(u)'
 <2>1. CASE u = t
  <3>1. \A p \in Pages : latch[p] # t BY <1>a DEF ThreadsAreRight, MtrIsRight
  <3> QED BY Zenon, <1>b, <1>c, <2>1, <3>1 DEF MtrIsRight
 <2>2. CASE u # t
  <3>1. MtrIsRight(u) /\ memo'[u] = memo[u] /\ memo[u] \in SUBSET Pages
    BY <1>2, <2>2 DEF ThreadsAreRight, ThreadTypes, Holds
  <3> QED BY <1>c, <1>o, <2>2, <3>1 DEF MtrIsRight
 <2> QED BY <2>1, <2>2
<1>19. ASSUME NEW u \in Threads PROVE BatchIsRight(u)'
 <2>1. CASE u = t
   BY <2>1, <1>1, <1>2, <1>w, <1>p DEF PoolTypes, ThreadTypes, BatchIsRight, Posting, Awaiting,
      Batching, WriteLabels, DblwrLabels, ThreadsAreRight, AfterIsRight, Goes, Calls, Holds,
      writeVars
 <2>2. CASE u # t
   BY <2>2, <1>1, <1>2, <1>o, <1>w, <1>p DEF PoolTypes, ThreadTypes, ThreadsAreRight, BatchIsRight,
      Holds, Calls, writeVars
 <2> QED BY <2>1, <2>2
<1>20. ASSUME NEW p \in Pages PROVE FrameIsRight(p)'
  BY <1>1, <1>2, <1>n, <1>l, <1>r, <1>p DEF LogTypes, PoolTypes, PagesAreRight, FrameIsRight,
     logVars
<1>21. ASSUME NEW p \in Pages PROVE FileIsRight(p)'
  BY <1>1, <1>2, <1>n, <1>r, <1>p DEF LogTypes, PoolTypes, DiskTypes, PagesAreRight, FileIsRight,
     Good, fileVars
<1>22. ASSUME NEW p \in Pages PROVE WriteIsRight(p)'
  BY <1>1, <1>2, <1>n, <1>w, <1>r, <1>p DEF LogTypes, PoolTypes, DiskTypes, PagesAreRight,
     WriteIsRight, Good, Image, writeVars, fileVars
<1>23. ASSUME NEW p \in Pages PROVE LatchIsRight(p)'
 <2>1. LatchIsRight(p) BY DEF PagesAreRight
 <2>2. ASSUME NEW u \in Threads, Posting(u) PROVE Posting(u)' /\ memo'[u] = memo[u]
   BY <1>2, <1>a, <1>o, <2>2 DEF Holds
 <2>3. memo'[t] = {d} BY <1>2 DEF Holds
 <2> QED BY <1>d, <1>w, <2>1, <2>2, <2>3 DEF LatchIsRight
<1> QED
  BY <1>3, <1>4, <1>5, <1>6, <1>7, <1>8, <1>9, <1>10, <1>11, <1>12, <1>13, <1>14, <1>15, <1>16,
       <1>17, <1>18, <1>19, <1>20, <1>21, <1>22, <1>23 DEF ThreadsAreRight, PagesAreRight

\* A batch that had to wait gets the latch of its page.
LEMMA LatchPageKeeps ==
    ASSUME IInv, NEW t \in Threads, LatchPage(t)
    PROVE  IInv'
<1> USE DEF OthersStay, WritersStay
<1>n. Lsn \in Nat \ {0} /\ LogEnd \in Nat /\ Lsn = Len(log) + 1 /\ Len(log) \in Nat BY NumbersAre
<1>1. pc[t] = "latch" /\ after[t] = "latch" /\ Awaiting(t)
 <2>1. pc[t] = "latch" /\ AfterIsRight(t) BY DEF LatchPage, ThreadsAreRight
 <2> QED BY <2>1 DEF AfterIsRight, Awaiting
<1>2. PICK d \in Pages :
      /\ memo[t] = {d} /\ oldest[d] # 0 /\ io_fix[d] /\ latch[d] = NoThread /\ d \notin Unwritten
      /\ latch' \in [Pages -> Threads \cup {NoThread, Io}] /\ latch'[d] = Io
      /\ \A p \in Pages : p # d => latch'[p] = latch[p]
      /\ Goes(t, "write_up_to") /\ Calls(t, newest[d], TRUE, "post")
      /\ UNCHANGED <<logVars, ckptVars, frame, newest, oldest, flush_list, io_fix, init_flush,
                     writeVars, fileVars, memo, endVars>>
 <2>1. PICK d \in memo[t] : /\ latch[d] = NoThread /\ latch' = [latch EXCEPT ![d] = Io]
                            /\ CallWriteUpTo(t, newest[d], TRUE, "post")
   BY DEF LatchPage
 <2>2. BatchIsRight(t) /\ memo[t] \in SUBSET Pages BY DEF ThreadsAreRight, ThreadTypes
 <2>3. memo[t] = {d} /\ d \in Pages /\ oldest[d] # 0 /\ io_fix[d] /\ d \notin Unwritten
   BY <1>1, <2>2 DEF BatchIsRight
 <2>4. /\ latch' \in [Pages -> Threads \cup {NoThread, Io}] /\ latch'[d] = Io
       /\ \A p \in Pages : p # d => latch'[p] = latch[p]
   BY <2>1, <2>3 DEF PoolTypes
 <2>5. newest[d] \in Nat BY <2>3 DEF PoolTypes
 <2>6. Goes(t, "write_up_to") /\ Calls(t, newest[d], TRUE, "post")
   BY <2>1, <2>5 DEF CallWriteUpTo, ThreadTypes, Labels, WriteLabels, Goes, Calls
 <2> QED BY <2>1, <2>3, <2>4, <2>6 DEF LatchPage
<1>p. newest[d] \in Nat /\ newest[d] <= Lsn BY DEF PoolTypes, PagesAreRight, FrameIsRight
<1>q. NoThread # Io /\ \A u \in Threads : NoThread # u /\ Io # u BY RedoLogAssumption
<1>a. ~HasMtr(t) /\ ~Posting(t) BY <1>1 DEF HasMtr, Posting, Awaiting, WriteLabels, DblwrLabels
<1>b. ~HasMtr(t)' /\ pc'[t] # "latching" /\ Posting(t)' /\ ~Awaiting(t)' /\ pc'[t] = "write_up_to"
  BY <1>2, <1>q DEF HasMtr, Posting, Awaiting, WriteLabels, DblwrLabels, Goes, Calls
<1>c. \A u \in Threads, p \in Pages : latch'[p] = u <=> latch[p] = u BY <1>2, <1>q
<1>l. Lsn' = Lsn BY <1>2 DEF Lsn, logVars
<1>e. LogEnd' = LogEnd BY <1>2 DEF LogEnd, logVars
<1>r. Recs' = Recs BY <1>2 DEF Recs, RecordsOf, logVars
<1>s. Safe' = Safe BY <1>2, <1>r DEF Safe, fileVars
<1>w. Unwritten' = Unwritten
 <2>1. (\A u \in Threads : pc[u] # "wait_no_pending")' <=> (\A u \in Threads : pc[u] # "wait_no_pending")
   BY <1>1, <1>2 DEF Goes, ThreadsAreRight, AfterIsRight
 <2> QED BY <1>2, <2>1 DEF Unwritten, writeVars
<1>m. MtrThreads' = MtrThreads
 <2>1. ASSUME NEW u \in Threads PROVE InMtr(u)' <=> InMtr(u)
   BY <1>1, <1>2 DEF InMtr, callVars, Goes, Calls, ThreadTypes, ThreadsAreRight, AfterIsRight,
      WriteLabels
 <2> QED BY <2>1 DEF MtrThreads
<1>v. WritersStay
  BY <1>1, <1>2 DEF Writing, Goes, Calls, callVars, ThreadsAreRight, AfterIsRight, WriteLabels
<1>o. OthersStay(t) BY <1>2 DEF HasMtr, Posting, Awaiting, Batching, Goes, Calls, callVars
<1>3. LogTypes' BY <1>1, <1>2, <1>n, <1>p DEF LogTypes, logVars, fileVars
<1>4. CkptTypes' BY <1>1, <1>2, <1>p DEF CkptTypes, ckptVars, fileVars
<1>5. PoolTypes' BY <1>1, <1>2, <1>p DEF PoolTypes
<1>6. DiskTypes' BY <1>1, <1>2, <1>p DEF DiskTypes, writeVars, fileVars
<1>7. ThreadTypes' BY <1>1, <1>2, <1>p DEF ThreadTypes, Goes, Calls, endVars
<1>8. LsnsAreRight'
  BY <1>1, <1>2, <1>n, <1>l, <1>e, <1>v, <1>p DEF LogTypes, LsnsAreRight, Writing, logVars, fileVars
<1>9. AckedIsKept'
  BY <1>1, <1>2, <1>n, <1>l, <1>p DEF LogTypes, ThreadTypes, AckedIsKept, logVars, fileVars, endVars
<1>10. DblwrIsRight'
  BY <1>1, <1>2, <1>p DEF DblwrIsRight, ThreadTypes, Goes, ThreadsAreRight, AfterIsRight, writeVars,
     fileVars
<1>11. FlushListIsRight' BY <1>1, <1>2, <1>p DEF FlushListIsRight
<1>12. CheckpointsAreRight'
  BY ZenonT(60), <1>1, <1>2, <1>n, <1>s, <1>p DEF LogTypes, CkptTypes, CheckpointsAreRight, SlotsAreRight,
     Sampled, WriteLabels, ThreadsAreRight, AfterIsRight, Goes, Calls, logVars, ckptVars, fileVars
<1>13. RoomIsLeft'
  BY <1>1, <1>2, <1>n, <1>l, <1>e, <1>m, <1>p DEF LogTypes, CkptTypes, RoomIsLeft, logVars,
     ckptVars, fileVars
<1>14. DirectIsDirect' BY <1>1, <1>2, <1>p DEF DirectIsDirect, fileVars
<1>15. ASSUME NEW u \in Threads PROVE AfterIsRight(u)'
  BY ZenonT(60), <1>1, <1>2, <1>n, <1>p DEF ThreadTypes, WriteLabels, DblwrLabels, ThreadsAreRight,
     AfterIsRight, Goes, Calls
<1>16. ASSUME NEW u \in Threads PROVE CallIsRight(u)'
 <2>1. CallIsRight(u) /\ AfterIsRight(u) BY DEF ThreadsAreRight
 <2>2. CASE u = t
  <3>1. pc'[t] = "write_up_to" /\ upto'[t] <= Lsn /\ flush'[t]
    BY <1>2, <1>p, <2>1, <2>2 DEF CallIsRight, Goes, Calls
  <3> QED BY Zenon, <1>l, <2>2, <3>1 DEF CallIsRight, Writing
 <2>3. CASE u # t
  <3>1. /\ pc'[u] = pc[u] /\ after'[u] = after[u] /\ upto'[u] = upto[u] /\ flush'[u] = flush[u]
        /\ Writing(u)' <=> Writing(u)
    BY <1>2, <2>3 DEF Goes, Calls, Writing
  <3> QED BY <1>2, <1>l, <1>o, <2>1, <2>3, <3>1 DEF CallIsRight, logVars, LogReaches, Sampled
 <2> QED BY <2>2, <2>3
<1>17. ASSUME NEW u \in Threads PROVE MutexIsRight(u)'
  BY <1>1, <1>2, <1>n, <1>p DEF LogTypes, ThreadTypes, MutexIsRight, ThreadsAreRight, Goes, logVars
<1>18. ASSUME NEW u \in Threads PROVE MtrIsRight(u)'
 <2>1. CASE u = t
  <3>1. \A p \in Pages : latch[p] # t BY <1>a DEF ThreadsAreRight, MtrIsRight
  <3> QED BY <1>b, <1>c, <2>1, <3>1 DEF MtrIsRight
 <2>2. CASE u # t
  <3>1. MtrIsRight(u) /\ memo' = memo /\ memo[u] \in SUBSET Pages
    BY <1>2, <2>2 DEF ThreadsAreRight, ThreadTypes
  <3> QED BY <1>c, <1>o, <2>2, <3>1 DEF MtrIsRight
 <2> QED BY <2>1, <2>2
<1>19. ASSUME NEW u \in Threads PROVE BatchIsRight(u)'
 <2>1. CASE u = t
   BY <2>1, <1>1, <1>2, <1>w, <1>p DEF PoolTypes, ThreadTypes, BatchIsRight, Posting, Awaiting,
      Batching, WriteLabels, DblwrLabels, ThreadsAreRight, AfterIsRight, Goes, Calls, writeVars
 <2>2. CASE u # t
  <3>1. BatchIsRight(u) /\ BatchIsRight(t) BY DEF ThreadsAreRight
  <3>2. ~Batching(u) BY <1>1, <2>2, <3>1 DEF BatchIsRight, Batching
  <3>3. pc[u] # "latch" /\ ~Posting(u) /\ ~Awaiting(u) /\ init_flush' # u
    BY <1>2, <3>1, <3>2 DEF Batching, Awaiting, BatchIsRight
  <3> QED BY <1>2, <1>o, <2>2, <3>2, <3>3 DEF BatchIsRight
 <2> QED BY <2>1, <2>2
<1>20. ASSUME NEW p \in Pages PROVE FrameIsRight(p)'
  BY <1>1, <1>2, <1>n, <1>l, <1>r, <1>p DEF LogTypes, PoolTypes, PagesAreRight, FrameIsRight,
     logVars
<1>21. ASSUME NEW p \in Pages PROVE FileIsRight(p)'
  BY <1>1, <1>2, <1>n, <1>r, <1>p DEF LogTypes, PoolTypes, DiskTypes, PagesAreRight, FileIsRight,
     Good, fileVars
<1>22. ASSUME NEW p \in Pages PROVE WriteIsRight(p)'
  BY <1>1, <1>2, <1>n, <1>w, <1>r, <1>p DEF LogTypes, PoolTypes, DiskTypes, PagesAreRight,
     WriteIsRight, Good, Image, writeVars, fileVars
<1>23. ASSUME NEW p \in Pages PROVE LatchIsRight(p)'
 <2>1. LatchIsRight(p) /\ memo'[t] = {d} /\ memo' = memo BY <1>2 DEF PagesAreRight
 <2>2. ASSUME NEW u \in Threads, Posting(u) PROVE Posting(u)' BY <1>2, <1>a, <1>o, <2>2
 <2>3. latch'[p] = Io => latch[p] = Io \/ p = d BY <1>2
 <2> QED BY <1>b, <1>w, <2>1, <2>2, <2>3 DEF LatchIsRight
<1> QED
  BY <1>3, <1>4, <1>5, <1>6, <1>7, <1>8, <1>9, <1>10, <1>11, <1>12, <1>13, <1>14, <1>15, <1>16,
       <1>17, <1>18, <1>19, <1>20, <1>21, <1>22, <1>23 DEF ThreadsAreRight, PagesAreRight

\* A batch ends with buf_flush_buffered_writes.
LEMMA BatchEndKeeps ==
    ASSUME IInv, NEW t \in Threads, BatchEnd(t)
    PROVE  IInv'
<1> USE DEF OthersStay, WritersStay
<1>n. Lsn \in Nat \ {0} /\ LogEnd \in Nat /\ Lsn = Len(log) + 1 /\ Len(log) \in Nat BY NumbersAre
<1>1. pc[t] = "batch" /\ init_flush = t /\ memo[t] = {}
 <2>1. pc[t] = "batch" BY DEF BatchEnd
 <2>2. BatchIsRight(t) /\ MtrIsRight(t) BY DEF ThreadsAreRight
 <2>3. Batching(t) /\ ~HasMtr(t) /\ ~Posting(t) /\ ~Awaiting(t)
   BY <2>1 DEF Batching, HasMtr, Posting, Awaiting, WriteLabels, DblwrLabels
 <2> QED BY <2>1, <2>2, <2>3 DEF BatchIsRight, MtrIsRight
<1>2. /\ Goes(t, "write_dblwr") /\ Calls(t, upto[t], flush[t], "idle")
      /\ init_flush' = NoThread
      /\ UNCHANGED <<logVars, ckptVars, frame, newest, oldest, flush_list, io_fix,
                     latch, writeVars, fileVars, upto, flush, memo, endVars>>
  BY DEF BatchEnd, ThreadTypes, Labels, DblwrLabels, Goes, Calls
<1>q. NoThread # Io /\ \A u \in Threads : NoThread # u /\ Io # u BY RedoLogAssumption
<1>l. Lsn' = Lsn BY <1>2 DEF Lsn, logVars
<1>e. LogEnd' = LogEnd BY <1>2 DEF LogEnd, logVars
<1>r. Recs' = Recs BY <1>2 DEF Recs, RecordsOf, logVars
<1>s. Safe' = Safe BY <1>2, <1>r DEF Safe, fileVars
<1>w. Unwritten' = Unwritten
 <2>1. (\A u \in Threads : pc[u] # "wait_no_pending")' <=> (\A u \in Threads : pc[u] # "wait_no_pending")
   BY <1>1, <1>2 DEF Goes, ThreadsAreRight, AfterIsRight
 <2> QED BY <1>2, <2>1 DEF Unwritten, writeVars
<1>m. MtrThreads' = MtrThreads
 <2>1. ASSUME NEW u \in Threads PROVE InMtr(u)' <=> InMtr(u)
   BY <1>1, <1>2 DEF InMtr, callVars, Goes, Calls, ThreadTypes, ThreadsAreRight, AfterIsRight,
      WriteLabels
 <2> QED BY <2>1 DEF MtrThreads
<1>v. WritersStay
  BY <1>1, <1>2 DEF Writing, Goes, Calls, callVars, ThreadsAreRight, AfterIsRight, WriteLabels
<1>o. OthersStay(t) BY <1>2 DEF HasMtr, Posting, Awaiting, Batching, Goes, Calls, callVars
<1>3. LogTypes' BY <1>1, <1>2, <1>n, <1>q DEF LogTypes, logVars, fileVars
<1>4. CkptTypes' BY <1>1, <1>2, <1>q DEF CkptTypes, ckptVars, fileVars
<1>5. PoolTypes' BY <1>1, <1>2, <1>q DEF PoolTypes
<1>6. DiskTypes' BY <1>1, <1>2, <1>q DEF DiskTypes, writeVars, fileVars
<1>7. ThreadTypes' BY <1>1, <1>2, <1>q DEF ThreadTypes, Goes, Calls, endVars
<1>8. LsnsAreRight'
  BY <1>1, <1>2, <1>n, <1>l, <1>e, <1>v, <1>q DEF LogTypes, LsnsAreRight, Writing, logVars, fileVars
<1>9. AckedIsKept'
  BY <1>1, <1>2, <1>n, <1>l, <1>q DEF LogTypes, ThreadTypes, AckedIsKept, logVars, fileVars, endVars
<1>10. DblwrIsRight'
  BY <1>1, <1>2, <1>q DEF DblwrIsRight, ThreadTypes, Goes, ThreadsAreRight, AfterIsRight, writeVars,
     fileVars
<1>11. FlushListIsRight' BY <1>1, <1>2, <1>q DEF FlushListIsRight
<1>12. CheckpointsAreRight'
  BY ZenonT(60), <1>1, <1>2, <1>n, <1>s, <1>q DEF LogTypes, CkptTypes, CheckpointsAreRight,
     SlotsAreRight, Sampled, WriteLabels, ThreadsAreRight, AfterIsRight, Goes, Calls, logVars,
     ckptVars, fileVars
<1>13. RoomIsLeft'
  BY <1>1, <1>2, <1>n, <1>l, <1>e, <1>m, <1>q DEF LogTypes, CkptTypes, RoomIsLeft, logVars,
     ckptVars, fileVars
<1>14. DirectIsDirect' BY Zenon, <1>1, <1>2, <1>q DEF DirectIsDirect, fileVars
<1>15. ASSUME NEW u \in Threads PROVE AfterIsRight(u)'
  BY <1>1, <1>2, <1>n, <1>q DEF ThreadTypes, WriteLabels, DblwrLabels, ThreadsAreRight,
     AfterIsRight, Goes, Calls
<1>16. ASSUME NEW u \in Threads PROVE CallIsRight(u)'
  BY <1>1, <1>2, <1>n, <1>l, <1>e, <1>q DEF LogTypes, ThreadTypes, CallIsRight, LsnsAreRight,
     LogReaches, Writing, Posting, Sampled, WriteLabels, ThreadsAreRight, AfterIsRight, Goes, Calls,
     logVars
<1>17. ASSUME NEW u \in Threads PROVE MutexIsRight(u)'
  BY <1>1, <1>2, <1>n, <1>q DEF LogTypes, ThreadTypes, MutexIsRight, ThreadsAreRight, Goes, logVars
<1>18. ASSUME NEW u \in Threads PROVE MtrIsRight(u)'
 <2>1. CASE u = t
   BY <2>1, <1>1, <1>2, <1>q DEF PoolTypes, ThreadTypes, MtrIsRight, HasMtr, Posting, Awaiting,
      WriteLabels, DblwrLabels, ThreadsAreRight, AfterIsRight, Goes, Calls
 <2>2. CASE u # t
   BY <2>2, <1>1, <1>2, <1>o, <1>q DEF PoolTypes, ThreadTypes, ThreadsAreRight, MtrIsRight, Calls
 <2> QED BY <2>1, <2>2
<1>19. ASSUME NEW u \in Threads PROVE BatchIsRight(u)'
 <2>1. CASE u = t
   BY <2>1, <1>1, <1>2, <1>w, <1>q DEF PoolTypes, ThreadTypes, BatchIsRight, Posting, Awaiting,
      Batching, WriteLabels, DblwrLabels, ThreadsAreRight, AfterIsRight, Goes, Calls, writeVars
 <2>2. CASE u # t
  <3>1. BatchIsRight(u) /\ ~Batching(u) BY <1>1, <2>2 DEF ThreadsAreRight, BatchIsRight
  <3>2. pc[u] # "latch" /\ ~Posting(u) /\ ~Awaiting(u) BY <3>1 DEF Batching, Awaiting
  <3> QED BY <1>2, <1>o, <1>q, <2>2, <3>1, <3>2 DEF BatchIsRight
 <2> QED BY <2>1, <2>2
<1>20. ASSUME NEW p \in Pages PROVE FrameIsRight(p)'
  BY <1>1, <1>2, <1>n, <1>l, <1>r, <1>q DEF LogTypes, PoolTypes, PagesAreRight, FrameIsRight,
     logVars
<1>21. ASSUME NEW p \in Pages PROVE FileIsRight(p)'
  BY <1>1, <1>2, <1>n, <1>r, <1>q DEF LogTypes, PoolTypes, DiskTypes, PagesAreRight, FileIsRight,
     Good, fileVars
<1>22. ASSUME NEW p \in Pages PROVE WriteIsRight(p)'
  BY <1>1, <1>2, <1>n, <1>w, <1>r, <1>q DEF LogTypes, PoolTypes, DiskTypes, PagesAreRight,
     WriteIsRight, Good, Image, writeVars, fileVars
<1>23. ASSUME NEW p \in Pages PROVE LatchIsRight(p)'
  BY ZenonT(60), <1>1, <1>2, <1>n, <1>w, <1>q DEF PoolTypes, DiskTypes, ThreadTypes, PagesAreRight,
     LatchIsRight, Posting, WriteLabels, ThreadsAreRight, AfterIsRight, Goes, Calls, writeVars
<1> QED
  BY <1>3, <1>4, <1>5, <1>6, <1>7, <1>8, <1>9, <1>10, <1>11, <1>12, <1>13, <1>14, <1>15, <1>16,
       <1>17, <1>18, <1>19, <1>20, <1>21, <1>22, <1>23 DEF ThreadsAreRight, PagesAreRight

\* The doublewrite blocks are written, as images that are good.
LEMMA WriteDblwrKeeps ==
    ASSUME IInv, NEW t \in Threads, WriteDblwr(t)
    PROVE  IInv'
<1> USE DEF OthersStay, WritersStay
<1>n. Lsn \in Nat \ {0} /\ LogEnd \in Nat /\ Lsn = Len(log) + 1 /\ Len(log) \in Nat BY NumbersAre
<1>1. pc[t] = "write_dblwr" /\ after[t] \in {"idle", "latch"}
      /\ \A u \in Threads : pc[u] # "write_pages" /\ pc[u] # "wait_no_pending"
 <2>1. pc[t] = "write_dblwr" /\ AfterIsRight(t) BY DEF WriteDblwr, ThreadsAreRight
 <2> QED BY <2>1 DEF WriteDblwr, DblwrMutexFree, AfterIsRight, DblwrLabels
<1>2. /\ Goes(t, pc'[t]) /\ UNCHANGED callVars
      /\ \/ posted = {} /\ pc'[t] = after[t] /\ dblwr' = dblwr /\ dblwr_synced' = dblwr_synced
         \/ posted # {} /\ pc'[t] = "write_pages" /\ dblwr' = write_buf /\ dblwr_synced' = FALSE
      /\ UNCHANGED <<logVars, ckptVars, poolVars, writeVars, file, synced, slots, cache,
                     disk, memo, endVars>>
  BY <1>1 DEF WriteDblwr, GoTo, ThreadTypes, Labels, DblwrLabels, Goes
<1>l. Lsn' = Lsn BY <1>2 DEF Lsn, logVars
<1>e. LogEnd' = LogEnd BY <1>2 DEF LogEnd, logVars
<1>r. Recs' = Recs BY <1>2 DEF Recs, RecordsOf, logVars
<1>s. Safe' = Safe BY <1>2, <1>r DEF Safe, fileVars
<1>w. Unwritten' = Unwritten
 <2>1. (\A u \in Threads : pc[u] # "wait_no_pending")' <=> (\A u \in Threads : pc[u] # "wait_no_pending")
   BY <1>1, <1>2 DEF Goes, ThreadsAreRight, AfterIsRight
 <2> QED BY <1>2, <2>1 DEF Unwritten, writeVars
<1>m. MtrThreads' = MtrThreads
 <2>1. ASSUME NEW u \in Threads PROVE InMtr(u)' <=> InMtr(u)
   BY <1>1, <1>2 DEF InMtr, callVars, Goes, Calls, ThreadTypes, ThreadsAreRight, AfterIsRight,
      WriteLabels
 <2> QED BY <2>1 DEF MtrThreads
<1>v. WritersStay
  BY <1>1, <1>2 DEF Writing, Goes, Calls, callVars, ThreadsAreRight, AfterIsRight, WriteLabels
<1>o. OthersStay(t) BY <1>2 DEF HasMtr, Posting, Awaiting, Batching, Goes, Calls, callVars
<1>3. LogTypes' BY <1>1, <1>2, <1>n DEF LogTypes, logVars
<1>4. CkptTypes' BY <1>1, <1>2 DEF CkptTypes, ckptVars
<1>5. PoolTypes' BY <1>1, <1>2 DEF PoolTypes, poolVars
<1>6. DiskTypes' BY <1>1, <1>2 DEF DiskTypes, writeVars
<1>7. ThreadTypes' BY <1>1, <1>2 DEF ThreadTypes, Goes, callVars, endVars
<1>8. LsnsAreRight'
  BY <1>1, <1>2, <1>n, <1>l, <1>e, <1>v DEF LogTypes, LsnsAreRight, Writing, logVars, callVars
<1>9. AckedIsKept'
  BY <1>1, <1>2, <1>n, <1>l DEF LogTypes, ThreadTypes, AckedIsKept, logVars, endVars
<1>10. DblwrIsRight'
 <2>1. io_posted = {} /\ io_posted' = io_posted /\ write_buf' = write_buf
   BY <1>1, <1>2 DEF DblwrIsRight, writeVars
 <2>2. \A u \in Threads : u # t => pc'[u] # "write_pages" /\ pc'[u] # "wait_no_pending"
   BY <1>1, <1>2 DEF Goes
 <2>3. pc'[t] # "wait_no_pending" /\ (pc'[t] = "write_pages" => dblwr' = write_buf) BY <1>1, <1>2
 <2> QED BY <2>1, <2>2, <2>3 DEF DblwrIsRight
<1>11. FlushListIsRight' BY <1>1, <1>2 DEF FlushListIsRight, poolVars
<1>12. CheckpointsAreRight'
  BY <1>1, <1>2, <1>n, <1>s DEF LogTypes, CkptTypes, CheckpointsAreRight, SlotsAreRight, Sampled,
     WriteLabels, ThreadsAreRight, AfterIsRight, Goes, logVars, ckptVars, callVars
<1>13. RoomIsLeft'
  BY <1>1, <1>2, <1>n, <1>l, <1>e, <1>m DEF LogTypes, CkptTypes, RoomIsLeft, logVars, ckptVars
<1>14. DirectIsDirect' BY <1>1, <1>2 DEF DirectIsDirect
<1>15. ASSUME NEW u \in Threads PROVE AfterIsRight(u)'
  BY <1>1, <1>2, <1>n DEF ThreadTypes, WriteLabels, DblwrLabels, ThreadsAreRight, AfterIsRight,
     Goes, callVars
<1>16. ASSUME NEW u \in Threads PROVE CallIsRight(u)'
  BY <1>1, <1>2, <1>n, <1>l, <1>e DEF LogTypes, ThreadTypes, CallIsRight, LsnsAreRight, LogReaches,
     Writing, Posting, Sampled, WriteLabels, ThreadsAreRight, AfterIsRight, Goes, logVars, callVars
<1>17. ASSUME NEW u \in Threads PROVE MutexIsRight(u)'
  BY <1>1, <1>2, <1>n DEF LogTypes, ThreadTypes, MutexIsRight, ThreadsAreRight, Goes, logVars
<1>18. ASSUME NEW u \in Threads PROVE MtrIsRight(u)'
 <2>1. CASE u = t
   BY <2>1, <1>1, <1>2 DEF PoolTypes, ThreadTypes, MtrIsRight, HasMtr, Posting, Awaiting,
      WriteLabels, DblwrLabels, ThreadsAreRight, AfterIsRight, Goes, poolVars, callVars
 <2>2. CASE u # t
   BY <2>2, <1>1, <1>2, <1>o DEF PoolTypes, ThreadTypes, ThreadsAreRight, MtrIsRight, poolVars,
      callVars
 <2> QED BY <2>1, <2>2
<1>19. ASSUME NEW u \in Threads PROVE BatchIsRight(u)'
 <2>1. CASE u = t
   BY <2>1, <1>1, <1>2, <1>w DEF PoolTypes, ThreadTypes, BatchIsRight, Posting, Awaiting, Batching,
      WriteLabels, DblwrLabels, ThreadsAreRight, AfterIsRight, Goes, poolVars, writeVars, callVars
 <2>2. CASE u # t
   BY <2>2, <1>1, <1>2, <1>o, <1>w DEF PoolTypes, ThreadTypes, ThreadsAreRight, BatchIsRight,
      poolVars, writeVars, callVars
 <2> QED BY <2>1, <2>2
<1>20. ASSUME NEW p \in Pages PROVE FrameIsRight(p)'
  BY <1>1, <1>2, <1>n, <1>l, <1>r DEF LogTypes, PoolTypes, PagesAreRight, FrameIsRight, logVars,
     poolVars
<1>21. ASSUME NEW p \in Pages PROVE FileIsRight(p)'
  BY <1>1, <1>2, <1>n, <1>r DEF LogTypes, PoolTypes, DiskTypes, PagesAreRight, FileIsRight, Good,
     poolVars
<1>22. ASSUME NEW p \in Pages PROVE WriteIsRight(p)'
  BY <1>1, <1>2, <1>n, <1>w, <1>r DEF LogTypes, PoolTypes, DiskTypes, PagesAreRight, WriteIsRight,
     Good, Image, poolVars, writeVars
<1>23. ASSUME NEW p \in Pages PROVE LatchIsRight(p)'
  BY <1>1, <1>2, <1>n, <1>w DEF PoolTypes, DiskTypes, ThreadTypes, PagesAreRight, LatchIsRight,
     Posting, WriteLabels, ThreadsAreRight, AfterIsRight, Goes, poolVars, writeVars, callVars
<1> QED
  BY <1>3, <1>4, <1>5, <1>6, <1>7, <1>8, <1>9, <1>10, <1>11, <1>12, <1>13, <1>14, <1>15, <1>16,
       <1>17, <1>18, <1>19, <1>20, <1>21, <1>22, <1>23 DEF ThreadsAreRight, PagesAreRight

\* The doublewrite blocks are flushed before the pages are handed to the i/o handlers.
LEMMA WritePagesKeeps ==
    ASSUME IInv, NEW t \in Threads, WritePages(t)
    PROVE  IInv'
<1> USE DEF OthersStay, WritersStay
<1>n. Lsn \in Nat \ {0} /\ LogEnd \in Nat /\ Lsn = Len(log) + 1 /\ Len(log) \in Nat BY NumbersAre
<1>1. pc[t] = "write_pages" /\ after[t] \in {"idle", "latch"}
      /\ \A u \in Threads : u # t => pc[u] # "write_pages" /\ pc[u] # "wait_no_pending"
 <2>1. pc[t] = "write_pages" /\ AfterIsRight(t) BY DEF WritePages, ThreadsAreRight
 <2>2. after[t] \in {"idle", "latch"} BY <2>1 DEF AfterIsRight, DblwrLabels
 <2> QED BY <2>1, <2>2 DEF DblwrIsRight
<1>2. /\ Goes(t, "wait_no_pending") /\ UNCHANGED callVars
      /\ io_posted' = posted /\ dblwr_synced' = TRUE
      /\ UNCHANGED <<logVars, ckptVars, poolVars, write_buf, posted, file, synced, slots,
                     cache, disk, dblwr, memo, endVars>>
  BY DEF WritePages, GoTo, ThreadTypes, Labels, DblwrLabels, Goes
<1>l. Lsn' = Lsn BY <1>2 DEF Lsn, logVars
<1>e. LogEnd' = LogEnd BY <1>2 DEF LogEnd, logVars
<1>r. Recs' = Recs BY <1>2 DEF Recs, RecordsOf, logVars
<1>s. Safe' = Safe BY <1>2, <1>r DEF Safe, fileVars
<1>w. Unwritten' = Unwritten
 <2>1. (\A u \in Threads : pc[u] # "wait_no_pending") /\ io_posted = {} /\ posted \in SUBSET Pages
   BY <1>1 DEF DblwrIsRight, DiskTypes
 <2>2. pc'[t] = "wait_no_pending" /\ io_posted' = posted /\ posted' = posted BY <1>2 DEF Goes
 <2>3. \A p \in Pages : p \in Unwritten <=> p \in posted BY <2>1 DEF Unwritten
 <2>4. \A p \in Pages : p \in Unwritten' <=> p \in posted BY <2>2 DEF Unwritten
 <2>5. Unwritten \in SUBSET Pages /\ Unwritten' \in SUBSET Pages BY DEF Unwritten
 <2> QED BY <2>3, <2>4, <2>5
<1>m. MtrThreads' = MtrThreads
 <2>1. ASSUME NEW u \in Threads PROVE InMtr(u)' <=> InMtr(u)
   BY <1>1, <1>2 DEF InMtr, callVars, Goes, Calls, ThreadTypes, ThreadsAreRight, AfterIsRight,
      WriteLabels
 <2> QED BY <2>1 DEF MtrThreads
<1>v. WritersStay
  BY <1>1, <1>2 DEF Writing, Goes, Calls, callVars, ThreadsAreRight, AfterIsRight, WriteLabels
<1>o. OthersStay(t) BY <1>2 DEF HasMtr, Posting, Awaiting, Batching, Goes, Calls, callVars
<1>3. LogTypes' BY <1>1, <1>2, <1>n DEF LogTypes, logVars
<1>4. CkptTypes' BY <1>1, <1>2 DEF CkptTypes, ckptVars
<1>5. PoolTypes' BY <1>1, <1>2 DEF PoolTypes, poolVars
<1>6. DiskTypes' BY <1>1, <1>2 DEF DiskTypes
<1>7. ThreadTypes' BY <1>1, <1>2 DEF ThreadTypes, Goes, callVars, endVars
<1>8. LsnsAreRight'
  BY <1>1, <1>2, <1>n, <1>l, <1>e, <1>v DEF LogTypes, LsnsAreRight, Writing, logVars, callVars
<1>9. AckedIsKept'
  BY <1>1, <1>2, <1>n, <1>l DEF LogTypes, ThreadTypes, AckedIsKept, logVars, endVars
<1>10. DblwrIsRight'
 <2>1. dblwr = write_buf BY <1>1 DEF DblwrIsRight
 <2>2. \A u \in Threads : pc'[u] \in {"write_pages", "wait_no_pending"} => u = t
   BY <1>1, <1>2 DEF Goes
 <2>3. pc'[t] = "wait_no_pending" /\ dblwr' = dblwr /\ write_buf' = write_buf /\ dblwr_synced'
   BY <1>2 DEF Goes
 <2> QED BY <2>1, <2>2, <2>3 DEF DblwrIsRight
<1>11. FlushListIsRight' BY <1>1, <1>2 DEF FlushListIsRight, poolVars
<1>12. CheckpointsAreRight'
  BY <1>1, <1>2, <1>n, <1>s DEF LogTypes, CkptTypes, CheckpointsAreRight, SlotsAreRight, Sampled,
     WriteLabels, ThreadsAreRight, AfterIsRight, Goes, logVars, ckptVars, callVars
<1>13. RoomIsLeft'
  BY <1>1, <1>2, <1>n, <1>l, <1>e, <1>m DEF LogTypes, CkptTypes, RoomIsLeft, logVars, ckptVars
<1>14. DirectIsDirect' BY <1>1, <1>2 DEF DirectIsDirect
<1>15. ASSUME NEW u \in Threads PROVE AfterIsRight(u)'
  BY <1>1, <1>2, <1>n DEF ThreadTypes, WriteLabels, DblwrLabels, ThreadsAreRight, AfterIsRight,
     Goes, callVars
<1>16. ASSUME NEW u \in Threads PROVE CallIsRight(u)'
  BY <1>1, <1>2, <1>n, <1>l, <1>e DEF LogTypes, ThreadTypes, CallIsRight, LsnsAreRight, LogReaches,
     Writing, Posting, Sampled, WriteLabels, ThreadsAreRight, AfterIsRight, Goes, logVars, callVars
<1>17. ASSUME NEW u \in Threads PROVE MutexIsRight(u)'
  BY <1>1, <1>2, <1>n DEF LogTypes, ThreadTypes, MutexIsRight, ThreadsAreRight, Goes, logVars
<1>18. ASSUME NEW u \in Threads PROVE MtrIsRight(u)'
 <2>1. CASE u = t
   BY ZenonT(60), <2>1, <1>1, <1>2 DEF PoolTypes, ThreadTypes, MtrIsRight, HasMtr, Posting,
      Awaiting, WriteLabels, DblwrLabels, ThreadsAreRight, AfterIsRight, Goes, poolVars, callVars
 <2>2. CASE u # t
   BY <2>2, <1>1, <1>2, <1>o DEF PoolTypes, ThreadTypes, ThreadsAreRight, MtrIsRight, poolVars,
      callVars
 <2> QED BY <2>1, <2>2
<1>19. ASSUME NEW u \in Threads PROVE BatchIsRight(u)'
 <2>1. CASE u = t
   BY <2>1, <1>1, <1>2, <1>w DEF PoolTypes, ThreadTypes, BatchIsRight, Posting, Awaiting, Batching,
      WriteLabels, DblwrLabels, ThreadsAreRight, AfterIsRight, Goes, poolVars, callVars
 <2>2. CASE u # t
   BY <2>2, <1>1, <1>2, <1>o, <1>w DEF PoolTypes, ThreadTypes, ThreadsAreRight, BatchIsRight,
      poolVars, callVars
 <2> QED BY <2>1, <2>2
<1>20. ASSUME NEW p \in Pages PROVE FrameIsRight(p)'
  BY <1>1, <1>2, <1>n, <1>l, <1>r DEF LogTypes, PoolTypes, PagesAreRight, FrameIsRight, logVars,
     poolVars
<1>21. ASSUME NEW p \in Pages PROVE FileIsRight(p)'
  BY <1>1, <1>2, <1>n, <1>r DEF LogTypes, PoolTypes, DiskTypes, PagesAreRight, FileIsRight, Good,
     poolVars
<1>22. ASSUME NEW p \in Pages PROVE WriteIsRight(p)'
  BY <1>1, <1>2, <1>n, <1>w, <1>r DEF LogTypes, PoolTypes, DiskTypes, PagesAreRight, WriteIsRight,
     Good, Image, poolVars
<1>23. ASSUME NEW p \in Pages PROVE LatchIsRight(p)'
  BY <1>1, <1>2, <1>n, <1>w DEF PoolTypes, DiskTypes, ThreadTypes, PagesAreRight, LatchIsRight,
     Posting, WriteLabels, ThreadsAreRight, AfterIsRight, Goes, poolVars, callVars
<1> QED
  BY <1>3, <1>4, <1>5, <1>6, <1>7, <1>8, <1>9, <1>10, <1>11, <1>12, <1>13, <1>14, <1>15, <1>16,
       <1>17, <1>18, <1>19, <1>20, <1>21, <1>22, <1>23 DEF ThreadsAreRight, PagesAreRight

\* All pages of the batch are on the files: the doublewrite buffer is empty again.
LEMMA SyncPagesKeeps ==
    ASSUME IInv, NEW t \in Threads, SyncPages(t)
    PROVE  IInv'
<1> USE DEF OthersStay, WritersStay
<1>n. Lsn \in Nat \ {0} /\ LogEnd \in Nat /\ Lsn = Len(log) + 1 /\ Len(log) \in Nat BY NumbersAre
<1>1. pc[t] = "wait_no_pending" /\ after[t] \in {"idle", "latch"} /\ io_posted = {}
      /\ \A u \in Threads : u # t => pc[u] # "write_pages" /\ pc[u] # "wait_no_pending"
 <2>1. pc[t] = "wait_no_pending" /\ AfterIsRight(t) /\ io_posted = {}
   BY DEF SyncPages, ThreadsAreRight
 <2>2. after[t] \in {"idle", "latch"} BY <2>1 DEF AfterIsRight, DblwrLabels
 <2> QED BY <2>1, <2>2 DEF DblwrIsRight
<1>2. /\ Goes(t, after[t]) /\ UNCHANGED callVars
      /\ disk' = cache /\ posted' = {} /\ io_posted' = {}
      /\ write_buf' \in [Pages -> Images]
      /\ UNCHANGED <<logVars, ckptVars, poolVars, file, synced, slots, cache, dblwr,
                     dblwr_synced, memo, endVars>>
 <2>1. Torn \in Images BY RedoLogAssumption DEF Torn, Images
 <2>2. write_buf' \in [Pages -> Images] BY <2>1 DEF SyncPages
 <2>3. Goes(t, after[t]) /\ UNCHANGED callVars
   BY <1>1 DEF SyncPages, GoTo, ThreadTypes, Labels, Goes
 <2> QED BY <1>1, <2>2, <2>3 DEF SyncPages
<1>l. Lsn' = Lsn BY <1>2 DEF Lsn, logVars
<1>e. LogEnd' = LogEnd BY <1>2 DEF LogEnd, logVars
<1>r. Recs' = Recs BY <1>2 DEF Recs, RecordsOf, logVars
<1>s. Safe' = Safe BY <1>2, <1>r DEF Safe, fileVars
<1>w. Unwritten' = {} /\ Unwritten = {} BY <1>1, <1>2 DEF Unwritten
<1>m. MtrThreads' = MtrThreads
 <2>1. ASSUME NEW u \in Threads PROVE InMtr(u)' <=> InMtr(u)
   BY <1>1, <1>2 DEF InMtr, callVars, Goes, Calls, ThreadTypes, ThreadsAreRight, AfterIsRight,
      WriteLabels
 <2> QED BY <2>1 DEF MtrThreads
<1>v. WritersStay
  BY <1>1, <1>2 DEF Writing, Goes, Calls, callVars, ThreadsAreRight, AfterIsRight, WriteLabels
<1>o. OthersStay(t) BY <1>2 DEF HasMtr, Posting, Awaiting, Batching, Goes, Calls, callVars
<1>3. LogTypes' BY <1>1, <1>2, <1>n DEF LogTypes, logVars
<1>4. CkptTypes' BY <1>1, <1>2 DEF CkptTypes, ckptVars
<1>5. PoolTypes' BY <1>1, <1>2 DEF PoolTypes, poolVars
<1>6. DiskTypes' BY <1>1, <1>2 DEF DiskTypes
<1>7. ThreadTypes' BY <1>1, <1>2 DEF ThreadTypes, Goes, callVars, endVars
<1>8. LsnsAreRight'
  BY <1>1, <1>2, <1>n, <1>l, <1>e, <1>v DEF LogTypes, LsnsAreRight, Writing, logVars, callVars
<1>9. AckedIsKept'
  BY <1>1, <1>2, <1>n, <1>l DEF LogTypes, ThreadTypes, AckedIsKept, logVars, endVars
<1>10. DblwrIsRight'
 <2>1. \A u \in Threads : pc'[u] \notin {"write_pages", "wait_no_pending"} BY <1>1, <1>2 DEF Goes
 <2> QED BY <1>2, <2>1 DEF DblwrIsRight
<1>11. FlushListIsRight' BY <1>1, <1>2 DEF FlushListIsRight, poolVars
<1>12. CheckpointsAreRight'
  BY <1>1, <1>2, <1>n, <1>s DEF LogTypes, CkptTypes, CheckpointsAreRight, SlotsAreRight, Sampled,
     WriteLabels, ThreadsAreRight, AfterIsRight, Goes, logVars, ckptVars, callVars
<1>13. RoomIsLeft'
  BY <1>1, <1>2, <1>n, <1>l, <1>e, <1>m DEF LogTypes, CkptTypes, RoomIsLeft, logVars, ckptVars
<1>14. DirectIsDirect' BY <1>1, <1>2 DEF DirectIsDirect
<1>15. ASSUME NEW u \in Threads PROVE AfterIsRight(u)'
  BY <1>1, <1>2, <1>n DEF ThreadTypes, WriteLabels, DblwrLabels, ThreadsAreRight, AfterIsRight,
     Goes, callVars
<1>16. ASSUME NEW u \in Threads PROVE CallIsRight(u)'
  BY <1>1, <1>2, <1>n, <1>l, <1>e DEF LogTypes, ThreadTypes, CallIsRight, LsnsAreRight, LogReaches,
     Writing, Posting, Sampled, WriteLabels, ThreadsAreRight, AfterIsRight, Goes, logVars, callVars
<1>17. ASSUME NEW u \in Threads PROVE MutexIsRight(u)'
  BY <1>1, <1>2, <1>n DEF LogTypes, ThreadTypes, MutexIsRight, ThreadsAreRight, Goes, logVars
<1>18. ASSUME NEW u \in Threads PROVE MtrIsRight(u)'
 <2>1. CASE u = t
   BY <2>1, <1>1, <1>2 DEF PoolTypes, ThreadTypes, MtrIsRight, HasMtr, Posting, Awaiting,
      WriteLabels, DblwrLabels, ThreadsAreRight, AfterIsRight, Goes, poolVars, callVars
 <2>2. CASE u # t
   BY <2>2, <1>1, <1>2, <1>o DEF PoolTypes, ThreadTypes, ThreadsAreRight, MtrIsRight, poolVars,
      callVars
 <2> QED BY <2>1, <2>2
<1>19. ASSUME NEW u \in Threads PROVE BatchIsRight(u)'
 <2>1. CASE u = t
   BY <2>1, <1>1, <1>2, <1>w DEF PoolTypes, ThreadTypes, BatchIsRight, Posting, Awaiting, Batching,
      WriteLabels, DblwrLabels, ThreadsAreRight, AfterIsRight, Goes, poolVars, callVars
 <2>2. CASE u # t
   BY <2>2, <1>1, <1>2, <1>o, <1>w DEF PoolTypes, ThreadTypes, ThreadsAreRight, BatchIsRight,
      poolVars, callVars
 <2> QED BY <2>1, <2>2
<1>20. ASSUME NEW p \in Pages PROVE FrameIsRight(p)'
  BY <1>1, <1>2, <1>n, <1>l, <1>r DEF LogTypes, PoolTypes, PagesAreRight, FrameIsRight, logVars,
     poolVars
<1>21. ASSUME NEW p \in Pages PROVE FileIsRight(p)'
  BY <1>1, <1>2, <1>n, <1>r DEF LogTypes, PoolTypes, DiskTypes, PagesAreRight, FileIsRight, Good,
     poolVars
<1>22. ASSUME NEW p \in Pages PROVE WriteIsRight(p)' BY <1>2, <1>w DEF WriteIsRight
<1>23. ASSUME NEW p \in Pages PROVE LatchIsRight(p)'
  BY <1>1, <1>2, <1>n, <1>w DEF PoolTypes, DiskTypes, ThreadTypes, PagesAreRight, LatchIsRight,
     Posting, WriteLabels, ThreadsAreRight, AfterIsRight, Goes, poolVars, callVars
<1> QED
  BY <1>3, <1>4, <1>5, <1>6, <1>7, <1>8, <1>9, <1>10, <1>11, <1>12, <1>13, <1>14, <1>15, <1>16,
       <1>17, <1>18, <1>19, <1>20, <1>21, <1>22, <1>23 DEF ThreadsAreRight, PagesAreRight

\* A page is posted when the log of its image is flushed: the image is good.
LEMMA PostPageKeeps ==
    ASSUME IInv, NEW t \in Threads, PostPage(t)
    PROVE  IInv'
<1> USE DEF OthersStay, WritersStay
<1>n. Lsn \in Nat \ {0} /\ LogEnd \in Nat /\ Lsn = Len(log) + 1 /\ Len(log) \in Nat BY NumbersAre
<1>1. pc[t] = "post" /\ Posting(t) /\ LogReaches(t) /\ flush[t]
      /\ \A u \in Threads : pc[u] # "write_pages" /\ pc[u] # "wait_no_pending"
 <2>1. pc[t] = "post" /\ CallIsRight(t) /\ \A u \in Threads : pc[u] # "write_pages" /\ pc[u] # "wait_no_pending"
   BY DEF PostPage, DblwrMutexFree, ThreadsAreRight
 <2> QED BY <2>1 DEF CallIsRight, Posting
<1>2. PICK d \in Pages :
      /\ memo[t] = {d} /\ oldest[d] # 0 /\ io_fix[d] /\ latch[d] = Io /\ d \notin Unwritten
      /\ newest[d] <= synced
      /\ write_buf' \in [Pages -> Images] /\ write_buf'[d] = Image(d)
      /\ \A p \in Pages : p # d => write_buf'[p] = write_buf[p]
      /\ posted' = posted \cup {d} /\ io_posted' = {} /\ io_posted = {}
      /\ Goes(t, "batch") /\ UNCHANGED callVars /\ Holds(t, {})
      /\ UNCHANGED <<logVars, ckptVars, poolVars, fileVars, endVars>>
 <2>1. BatchIsRight(t) /\ memo[t] \in SUBSET Pages BY DEF ThreadsAreRight, ThreadTypes
 <2>2. PICK d \in Pages : memo[t] = {d} /\ d \notin Unwritten BY <1>1, <2>1 DEF BatchIsRight
 <2>3. oldest[d] # 0 /\ io_fix[d] /\ latch[d] = Io /\ upto[t] = newest[d]
   BY <1>1, <2>1, <2>2 DEF BatchIsRight
 <2>4. newest[d] \in Nat /\ newest[d] <= synced
  <3>1. upto[t] <= flushed_to_disk_lsn BY <1>1 DEF LogReaches
  <3> QED BY <2>3, <3>1 DEF LogTypes, PoolTypes, LsnsAreRight
 <2>5. Image(d) \in Images
  <3>1. frame[d] \subseteq Recs[d] /\ frame[d] \subseteq Nat /\ newest[d] <= Lsn
    BY DEF PagesAreRight, FrameIsRight, PoolTypes
  <3>2. Len(log) <= MaxRecords
   <4>1. Len(log) + Cardinality(MtrThreads) <= MaxRecords BY DEF RoomIsLeft
   <4> QED BY <1>n, <4>1, MtrThreadsCounted, RedoLogAssumption
  <3>3. \A i \in frame[d] : i \in Nat \ {0} /\ i < Lsn BY <3>1, RecordsAre
  <3>4. frame[d] \in SUBSET (1 .. MaxRecords) /\ newest[d] \in -1 .. MaxRecords + 1
    BY <1>n, <2>4, <3>1, <3>2, <3>3, RedoLogAssumption
  <3> QED BY <3>4 DEF Image, Images
 <2>6. /\ write_buf' \in [Pages -> Images] /\ write_buf'[d] = Image(d)
       /\ \A p \in Pages : p # d => write_buf'[p] = write_buf[p]
  <3>1. write_buf' = [p \in Pages |-> IF p \in memo[t] THEN Image(p) ELSE write_buf[p]]
    BY DEF PostPage
  <3>2. write_buf \in [Pages -> Images] BY DEF DiskTypes
  <3> QED BY <2>2, <2>5, <3>1, <3>2
 <2>7. io_posted = {} /\ io_posted' = io_posted BY <1>1 DEF PostPage, DblwrIsRight
 <2>8. Goes(t, "batch") /\ UNCHANGED callVars /\ Holds(t, {})
   BY Zenon DEF PostPage, GoTo, ThreadTypes, Labels, Goes, Holds
 <2> QED BY <2>2, <2>3, <2>4, <2>6, <2>7, <2>8 DEF PostPage
<1>q. NoThread # Io /\ \A u \in Threads : NoThread # u /\ Io # u BY RedoLogAssumption

<1>a. ~HasMtr(t) /\ ~Awaiting(t) /\ Batching(t)
  BY <1>1 DEF HasMtr, Posting, Awaiting, WriteLabels, DblwrLabels, Batching
<1>b. ~HasMtr(t)' /\ ~Awaiting(t)' /\ ~Posting(t)' /\ Batching(t)' /\ pc'[t] = "batch" /\ memo'[t] = {}
  BY <1>2 DEF HasMtr, Posting, Awaiting, WriteLabels, DblwrLabels, Goes, Holds, Batching
<1>c. \A u \in Threads : u # t => ~Posting(u) /\ ~Awaiting(u) /\ pc[u] # "latch"
 <2>1. init_flush = t BY <1>a DEF ThreadsAreRight, BatchIsRight
 <2>2. \A u \in Threads : Batching(u) => u = t BY <2>1 DEF ThreadsAreRight, BatchIsRight
 <2> QED BY <2>2 DEF Batching, Awaiting
<1>d. frame[d] = Recs[d] BY <1>2, LatchedByIo
<1>g. Good(d, Image(d))
 <2>1. newest[d] <= synced /\ newest[d] \in Nat /\ oldest[d] # 0 /\ \A i \in frame[d] : i < newest[d]
   BY <1>2 DEF PoolTypes, PagesAreRight, FrameIsRight
 <2>2. Image(d).recs = frame[d] /\ Image(d).lsn = newest[d] BY DEF Image
 <2> QED BY <1>d, <2>1, <2>2 DEF Good
<1>l. Lsn' = Lsn BY <1>2 DEF Lsn, logVars
<1>e. LogEnd' = LogEnd BY <1>2 DEF LogEnd, logVars
<1>r. Recs' = Recs BY <1>2 DEF Recs, RecordsOf, logVars
<1>s. Safe' = Safe BY <1>2, <1>r DEF Safe, fileVars
<1>w. Unwritten' = Unwritten \cup {d}
 <2>1. \A u \in Threads : pc[u] # "wait_no_pending" /\ pc'[u] # "wait_no_pending"
   BY <1>1, <1>2 DEF Goes
 <2>2. /\ \A p \in Pages : p \in Unwritten <=> p \in posted
       /\ \A p \in Pages : p \in Unwritten' <=> p \in posted \cup {d}
   BY <1>2, <2>1 DEF Unwritten
 <2>3. Unwritten \in SUBSET Pages /\ Unwritten' \in SUBSET Pages BY DEF Unwritten
 <2> QED BY <2>2, <2>3
<1>m. MtrThreads' = MtrThreads
 <2>1. ASSUME NEW u \in Threads PROVE InMtr(u)' <=> InMtr(u)
   BY <1>1, <1>2 DEF InMtr, callVars, Goes, Calls, ThreadTypes, ThreadsAreRight, AfterIsRight,
      WriteLabels
 <2> QED BY <2>1 DEF MtrThreads
<1>v. WritersStay
  BY <1>1, <1>2 DEF Writing, Goes, Calls, callVars, ThreadsAreRight, AfterIsRight, WriteLabels
<1>o. OthersStay(t) BY <1>2 DEF HasMtr, Posting, Awaiting, Batching, Goes, Calls, callVars
<1>3. LogTypes' BY <1>1, <1>2, <1>n DEF LogTypes, logVars, fileVars
<1>4. CkptTypes' BY <1>1, <1>2 DEF CkptTypes, ckptVars, fileVars
<1>5. PoolTypes' BY <1>1, <1>2 DEF PoolTypes, poolVars
<1>6. DiskTypes' BY <1>1, <1>2 DEF DiskTypes, fileVars
<1>7. ThreadTypes' BY <1>1, <1>2 DEF ThreadTypes, Goes, Holds, callVars, endVars
<1>8. LsnsAreRight'
  BY <1>1, <1>2, <1>n, <1>l, <1>e, <1>v DEF LogTypes, LsnsAreRight, Writing, logVars, fileVars,
     callVars
<1>9. AckedIsKept'
  BY <1>1, <1>2, <1>n, <1>l DEF LogTypes, ThreadTypes, AckedIsKept, logVars, fileVars, endVars
<1>10. DblwrIsRight'
 <2>1. \A u \in Threads : pc'[u] \notin {"write_pages", "wait_no_pending"} BY <1>1, <1>2 DEF Goes
 <2> QED BY <1>2, <2>1 DEF DblwrIsRight
<1>11. FlushListIsRight' BY <1>1, <1>2 DEF FlushListIsRight, poolVars
<1>12. CheckpointsAreRight'
  BY <1>1, <1>2, <1>n, <1>s DEF LogTypes, CkptTypes, CheckpointsAreRight, SlotsAreRight, Sampled,
     WriteLabels, ThreadsAreRight, AfterIsRight, Goes, logVars, ckptVars, fileVars, callVars
<1>13. RoomIsLeft'
  BY <1>1, <1>2, <1>n, <1>l, <1>e, <1>m DEF LogTypes, CkptTypes, RoomIsLeft, logVars, ckptVars,
     fileVars
<1>14. DirectIsDirect' BY Zenon, <1>1, <1>2 DEF DirectIsDirect, fileVars
<1>15. ASSUME NEW u \in Threads PROVE AfterIsRight(u)'
  BY <1>1, <1>2, <1>n DEF ThreadTypes, WriteLabels, DblwrLabels, ThreadsAreRight, AfterIsRight,
     Goes, callVars
<1>16. ASSUME NEW u \in Threads PROVE CallIsRight(u)'
  BY <1>1, <1>2, <1>n, <1>l, <1>e DEF LogTypes, ThreadTypes, CallIsRight, LsnsAreRight, LogReaches,
     Writing, Posting, Sampled, WriteLabels, ThreadsAreRight, AfterIsRight, Goes, logVars, callVars
<1>17. ASSUME NEW u \in Threads PROVE MutexIsRight(u)'
  BY <1>1, <1>2, <1>n DEF LogTypes, ThreadTypes, MutexIsRight, ThreadsAreRight, Goes, Holds, logVars
<1>18. ASSUME NEW u \in Threads PROVE MtrIsRight(u)'
 <2>1. CASE u = t
  <3>1. \A p \in Pages : latch'[p] # t BY <1>2, <1>a DEF ThreadsAreRight, MtrIsRight, poolVars
  <3> QED BY <1>b, <2>1, <3>1 DEF MtrIsRight
 <2>2. CASE u # t
   BY <2>2, <1>1, <1>2, <1>o DEF PoolTypes, ThreadTypes, ThreadsAreRight, MtrIsRight, Holds,
      poolVars, callVars
 <2> QED BY <2>1, <2>2
<1>19. ASSUME NEW u \in Threads PROVE BatchIsRight(u)'
 <2>1. CASE u = t
  <3>1. init_flush' = t BY <1>2, <1>a DEF ThreadsAreRight, BatchIsRight, poolVars
  <3> QED BY <1>b, <2>1, <3>1 DEF BatchIsRight
 <2>2. CASE u # t
  <3>1. BatchIsRight(u) /\ ~Posting(u)' /\ ~Awaiting(u)' /\ pc'[u] # "latch" /\ init_flush' = init_flush
    BY <1>2, <1>c, <1>o, <2>2 DEF ThreadsAreRight, poolVars
  <3> QED BY <1>o, <2>2, <3>1 DEF BatchIsRight
 <2> QED BY <2>1, <2>2
<1>20. ASSUME NEW p \in Pages PROVE FrameIsRight(p)'
  BY <1>1, <1>2, <1>n, <1>l, <1>r DEF LogTypes, PoolTypes, PagesAreRight, FrameIsRight, logVars,
     poolVars
<1>21. ASSUME NEW p \in Pages PROVE FileIsRight(p)'
  BY <1>1, <1>2, <1>n, <1>r DEF LogTypes, PoolTypes, DiskTypes, PagesAreRight, FileIsRight, Good,
     poolVars, fileVars
<1>22. ASSUME NEW p \in Pages PROVE WriteIsRight(p)'
 <2>1. CASE p = d
  <3>1. /\ io_fix'[p] /\ latch'[p] = Io /\ oldest'[p] # 0 /\ newest'[p] <= synced'
        /\ write_buf'[p] = Image(p)' /\ write_buf'[p] = Image(d)
    BY <1>2, <2>1 DEF poolVars, fileVars, Image
  <3>2. Good(p, Image(p))' BY <1>2, <1>g, <1>r, <2>1 DEF Good, fileVars, Image, poolVars
  <3>3. Good(p, write_buf[p])' BY <3>1, <3>2 DEF Good
  <3> QED BY <3>1, <3>3 DEF WriteIsRight
 <2>2. CASE p # d
  <3>1. WriteIsRight(p) /\ (p \in Unwritten' <=> p \in Unwritten) /\ (p \in posted' <=> p \in posted)
        /\ write_buf'[p] = write_buf[p]
    BY <1>2, <1>w, <2>2 DEF PagesAreRight
  <3> QED BY <1>2, <1>r, <3>1 DEF WriteIsRight, Good, Image, poolVars, fileVars
 <2> QED BY <2>1, <2>2
<1>23. ASSUME NEW p \in Pages PROVE LatchIsRight(p)'
 <2>1. LatchIsRight(p) /\ latch' = latch BY <1>2 DEF PagesAreRight, poolVars
 <2>2. ASSUME NEW u \in Threads, Posting(u), p \in memo[u] PROVE p = d BY <1>2, <1>c, <2>2
 <2> QED BY <1>w, <2>1, <2>2 DEF LatchIsRight
<1> QED
  BY <1>3, <1>4, <1>5, <1>6, <1>7, <1>8, <1>9, <1>10, <1>11, <1>12, <1>13, <1>14, <1>15, <1>16,
       <1>17, <1>18, <1>19, <1>20, <1>21, <1>22, <1>23 DEF ThreadsAreRight, PagesAreRight

\* A checkpoint is written into the slot of its number; the other slot keeps the one
\* before.
LEMMA CheckpointWrittenKeeps ==
    ASSUME IInv, CheckpointWritten
    PROVE  IInv'
<1>n. Lsn \in Nat \ {0} /\ LogEnd \in Nat /\ Lsn = Len(log) + 1 /\ Len(log) \in Nat BY NumbersAre
<1>1. n_pending_checkpoint_writes = 1 BY DEF CheckpointWritten, CkptTypes
<1>2. /\ n_pending_checkpoint_writes' = 0
      /\ next_checkpoint_no' = next_checkpoint_no + 1 /\ last_checkpoint_lsn' = next_checkpoint_lsn
      /\ slots' \in [{0, 1} -> [no : Int, lsn : Nat]]
      /\ slots'[next_checkpoint_no % 2] = NextCheckpoint
      /\ slots'[(next_checkpoint_no - 1) % 2] = slots[(next_checkpoint_no - 1) % 2]
      /\ last_checkpoint_lsn \in Nat /\ last_checkpoint_lsn' \in Nat /\ last_checkpoint_lsn <= last_checkpoint_lsn'
      /\ last_checkpoint_lsn' <= synced /\ last_checkpoint_lsn' \in Safe
      /\ UNCHANGED <<logVars, next_checkpoint_lsn, poolVars, writeVars, file, synced,
                     cache, disk, dblwr, dblwr_synced, threadVars, endVars>>
 <2> DEFINE n == next_checkpoint_no
 <2>1. n \in Nat /\ n > 0 /\ slots \in [{0, 1} -> [no : Int, lsn : Nat]] /\ next_checkpoint_lsn \in Nat
       /\ last_checkpoint_lsn \in Nat
   BY DEF CkptTypes
 <2>2. n % 2 \in {0, 1} /\ (n - 1) % 2 = 1 - (n % 2) BY <2>1, Parity
 <2>3. slots' = [slots EXCEPT ![n % 2] = NextCheckpoint] /\ NextCheckpoint \in [no : Int, lsn : Nat]
   BY <2>1 DEF CheckpointWritten, NextCheckpoint
 <2> HIDE DEF n
 <2>4. /\ slots' \in [{0, 1} -> [no : Int, lsn : Nat]] /\ slots'[n % 2] = NextCheckpoint
       /\ slots'[(n - 1) % 2] = slots[(n - 1) % 2]
   BY <2>1, <2>2, <2>3
 <2>5. /\ last_checkpoint_lsn <= next_checkpoint_lsn /\ next_checkpoint_lsn <= synced
       /\ next_checkpoint_lsn \in Safe
   BY <1>1 DEF CheckpointsAreRight
 <2>6. /\ n_pending_checkpoint_writes' = 0
       /\ next_checkpoint_no' = next_checkpoint_no + 1 /\ last_checkpoint_lsn' = next_checkpoint_lsn
       /\ UNCHANGED <<logVars, next_checkpoint_lsn, poolVars, writeVars, file, synced,
                      cache, disk, dblwr, dblwr_synced, threadVars, endVars>>
   BY <1>1 DEF CheckpointWritten
 <2> QED BY <2>1, <2>4, <2>5, <2>6 DEF n
<1>l. Lsn' = Lsn BY <1>2 DEF Lsn, logVars
<1>e. LogEnd' = LogEnd BY <1>2 DEF LogEnd, logVars
<1>r. Recs' = Recs BY <1>2 DEF Recs, RecordsOf, logVars
<1>s. Safe' = Safe BY <1>2, <1>r DEF Safe
<1>w. Unwritten' = Unwritten BY <1>2 DEF Unwritten, writeVars, threadVars
<1>m. MtrThreads' = MtrThreads BY <1>2 DEF MtrThreads, InMtr, threadVars, callVars
<1>v. threadVars' = threadVars /\ \A u \in Threads : Writing(u)' <=> Writing(u)
  BY <1>2 DEF Writing, threadVars
<1>3. LogTypes' BY <1>1, <1>2, <1>n DEF LogTypes, logVars
<1>4. CkptTypes' BY <1>1, <1>2, <1>n DEF CheckpointWritten, NextCheckpoint, CkptTypes
<1>5. PoolTypes' BY <1>1, <1>2 DEF PoolTypes, poolVars
<1>6. DiskTypes' BY <1>1, <1>2 DEF DiskTypes, writeVars
<1>7. ThreadTypes' BY <1>2 DEF ThreadTypes, threadVars, callVars, endVars
<1>8. LsnsAreRight' BY <1>2, <1>l, <1>e, <1>v DEF LsnsAreRight, logVars, threadVars, callVars
<1>9. AckedIsKept'
  BY <1>1, <1>2, <1>n, <1>l DEF LogTypes, ThreadTypes, AckedIsKept, logVars, endVars
<1>10. DblwrIsRight' BY <1>2 DEF DblwrIsRight, writeVars, threadVars
<1>11. FlushListIsRight' BY <1>1, <1>2 DEF FlushListIsRight, poolVars
<1>12. CheckpointsAreRight'
 <2> DEFINE n == next_checkpoint_no
 <2>1. n \in Nat /\ n > 0 /\ next_checkpoint_lsn \in Nat /\ n' = n + 1 BY <1>2 DEF CkptTypes
 <2>2. (n - 1) % 2 = 1 - (n % 2) /\ (n + 1) % 2 = 1 - (n % 2) /\ n + 1 - 1 = n BY <2>1, Parity
 <2>3. slots'[n % 2] = [no |-> n, lsn |-> next_checkpoint_lsn]
       /\ slots'[(n + 1) % 2] = slots[(n - 1) % 2]
   BY <1>2, <2>2 DEF NextCheckpoint
 <2>4. slots[(n - 1) % 2].no = n - 1 BY DEF CheckpointsAreRight, SlotsAreRight
 <2>5. /\ slots'[(n + 1 - 1) % 2] = [no |-> n + 1 - 1, lsn |-> last_checkpoint_lsn']
       /\ slots'[(n + 1) % 2].no < n + 1 - 1
   BY <1>2, <2>1, <2>2, <2>3, <2>4
 <2> HIDE DEF n
 <2>6. SlotsAreRight' BY <2>1, <2>5 DEF SlotsAreRight, n
 <2>7. \A t \in Threads : Sampled(t) => upto[t] \in Safe BY DEF CheckpointsAreRight
 <2>8. \A t \in Threads : Sampled(t)' => upto'[t] \in Safe'
   BY <1>s, <1>v, <2>7 DEF Sampled, threadVars, callVars
 <2> QED BY <1>2, <1>s, <2>6, <2>8 DEF CheckpointsAreRight
<1>13. RoomIsLeft'
 <2> DEFINE m == Cardinality(MtrThreads)
 <2>1. m \in Nat /\ Cardinality(Threads) \in Nat /\ MaxCheckpointAge \in Nat /\ MtrThreads' = MtrThreads
   BY <1>m, MtrThreadsCounted, RedoLogAssumption
 <2>2. /\ \A i \in last_checkpoint_lsn .. LogEnd - 1 : file[i % Capacity] = i
       /\ Lsn + m <= last_checkpoint_lsn + MaxCheckpointAge + Cardinality(Threads)
       /\ ~check_flush_or_checkpoint => Lsn <= last_checkpoint_lsn + MaxCheckpointAge
       /\ Len(log) + m <= MaxRecords
   BY DEF RoomIsLeft
 <2>3. last_checkpoint_lsn \in Nat /\ last_checkpoint_lsn' \in Nat /\ last_checkpoint_lsn <= last_checkpoint_lsn'
   BY <1>2
 <2> HIDE DEF m
 <2>4. /\ \A i \in last_checkpoint_lsn' .. LogEnd - 1 : file[i % Capacity] = i
       /\ Lsn + m <= last_checkpoint_lsn' + MaxCheckpointAge + Cardinality(Threads)
       /\ ~check_flush_or_checkpoint => Lsn <= last_checkpoint_lsn' + MaxCheckpointAge
   BY <1>n, <2>1, <2>2, <2>3
 <2> QED BY <1>2, <1>l, <1>e, <2>1, <2>2, <2>4 DEF RoomIsLeft, logVars, m
<1>14. DirectIsDirect' BY <1>1, <1>2 DEF DirectIsDirect
<1>15. ASSUME NEW u \in Threads PROVE AfterIsRight(u)'
  BY <1>v DEF ThreadsAreRight, AfterIsRight, threadVars, callVars
<1>16. ASSUME NEW u \in Threads PROVE CallIsRight(u)'
  BY <1>2, <1>l, <1>v DEF ThreadsAreRight, CallIsRight, LogReaches, Posting, Sampled, logVars,
     threadVars, callVars
<1>17. ASSUME NEW u \in Threads PROVE MutexIsRight(u)'
  BY <1>2 DEF ThreadsAreRight, MutexIsRight, logVars, threadVars
<1>18. ASSUME NEW u \in Threads PROVE MtrIsRight(u)'
  BY <1>2 DEF ThreadsAreRight, MtrIsRight, HasMtr, Posting, Awaiting, poolVars, threadVars, callVars
<1>19. ASSUME NEW u \in Threads PROVE BatchIsRight(u)'
  BY <1>2, <1>w DEF ThreadsAreRight, BatchIsRight, Posting, Awaiting, Batching, poolVars, writeVars,
     threadVars, callVars
<1>20. ASSUME NEW p \in Pages PROVE FrameIsRight(p)'
  BY <1>1, <1>2, <1>n, <1>l, <1>r DEF LogTypes, PoolTypes, PagesAreRight, FrameIsRight, logVars,
     poolVars
<1>21. ASSUME NEW p \in Pages PROVE FileIsRight(p)'
  BY <1>1, <1>2, <1>n, <1>r DEF LogTypes, PoolTypes, DiskTypes, PagesAreRight, FileIsRight, Good,
     poolVars
<1>22. ASSUME NEW p \in Pages PROVE WriteIsRight(p)'
  BY <1>1, <1>2, <1>n, <1>w, <1>r DEF LogTypes, PoolTypes, DiskTypes, PagesAreRight, WriteIsRight,
     Good, Image, poolVars, writeVars
<1>23. ASSUME NEW p \in Pages PROVE LatchIsRight(p)'
  BY <1>2, <1>w DEF PagesAreRight, LatchIsRight, Posting, poolVars, threadVars, callVars
<1> QED
  BY <1>3, <1>4, <1>5, <1>6, <1>7, <1>8, <1>9, <1>10, <1>11, <1>12, <1>13, <1>14, <1>15, <1>16,
       <1>17, <1>18, <1>19, <1>20, <1>21, <1>22, <1>23 DEF ThreadsAreRight, PagesAreRight

\* A page is written: its file holds what the frame has, it leaves the flush list
\* (PageRemoved) and its latch is released.
LEMMA PageWrittenKeeps ==
    ASSUME IInv, NEW d \in Pages, PageWritten(d)
    PROVE  IInv'
<1>n. Lsn \in Nat \ {0} /\ LogEnd \in Nat /\ Lsn = Len(log) + 1 /\ Len(log) \in Nat BY NumbersAre
<1>1. d \in Unwritten /\ d \in io_posted /\ oldest[d] # 0 /\ latch[d] = Io /\ Good(d, write_buf[d])
      /\ \A i \in Recs[d] : i \in write_buf[d].recs
 <2>1. d \in Unwritten /\ d \in io_posted /\ d \in posted BY DEF PageWritten, Unwritten, DiskTypes
 <2>2. WriteIsRight(d) BY DEF PagesAreRight
 <2>3. latch[d] = Io /\ oldest[d] # 0 /\ write_buf[d] = Image(d) /\ Good(d, write_buf[d])
   BY <2>1, <2>2 DEF WriteIsRight
 <2>4. write_buf[d].recs = Recs[d] BY <2>3, LatchedByIo DEF Image
 <2> QED BY <2>1, <2>3, <2>4
<1>2. /\ io_posted' = io_posted \ {d}
      /\ cache' \in [Pages -> Images] /\ disk' \in [Pages -> Images] /\ (DirectIo => disk' = cache')
      /\ oldest' \in [Pages -> Nat] /\ io_fix' \in [Pages -> BOOLEAN]
      /\ latch' \in [Pages -> Threads \cup {NoThread, Io}]
      /\ cache'[d] = write_buf[d] /\ oldest'[d] = 0 /\ ~io_fix'[d] /\ latch'[d] = NoThread
      /\ \A p \in Pages : p # d => /\ cache'[p] = cache[p] /\ oldest'[p] = oldest[p]
                                   /\ io_fix'[p] = io_fix[p] /\ latch'[p] = latch[p]
      /\ flush_list' \in Seq(Pages) /\ FlushListIsRight'
      /\ UNCHANGED <<logVars, ckptVars, frame, newest, init_flush, write_buf, posted,
                     file, synced, slots, dblwr, dblwr_synced, threadVars, endVars>>
 <2>1. /\ cache \in [Pages -> Images] /\ disk \in [Pages -> Images] /\ write_buf \in [Pages -> Images]
       /\ (DirectIo => disk = cache)
       /\ oldest \in [Pages -> Nat] /\ io_fix \in [Pages -> BOOLEAN]
       /\ latch \in [Pages -> Threads \cup {NoThread, Io}] /\ flush_list \in Seq(Pages)
       /\ Listed(flush_list, oldest)
   BY DEF DiskTypes, PoolTypes, DirectIsDirect, FlushListIsRight
 <2>2. /\ io_posted' = io_posted \ {d}
       /\ cache' = [cache EXCEPT ![d] = write_buf[d]]
       /\ disk' = IF DirectIo THEN [disk EXCEPT ![d] = write_buf[d]] ELSE disk
       /\ oldest' = [oldest EXCEPT ![d] = 0]
       /\ io_fix' = [io_fix EXCEPT ![d] = FALSE]
       /\ latch' = [latch EXCEPT ![d] = NoThread]
       /\ UNCHANGED <<logVars, ckptVars, frame, newest, init_flush, write_buf, posted,
                      file, synced, slots, dblwr, dblwr_synced, threadVars, endVars>>
   BY DEF PageWritten
 <2>3. PICK k \in DOMAIN flush_list : flush_list[k] = d /\ flush_list' = RemoveAt(flush_list, k)
   BY DEF PageWritten
 <2>4. oldest' \in [Pages -> Nat] /\ \A p \in Pages : oldest'[p] = IF p = d THEN 0 ELSE oldest[p]
   BY <2>1, <2>2
 <2>5. flush_list' \in Seq(Pages) /\ Listed(flush_list', oldest') BY <2>1, <2>3, <2>4, PageRemoved
 <2>6. FlushListIsRight' BY <2>5 DEF FlushListIsRight, Listed
 <2>7. /\ cache' \in [Pages -> Images] /\ disk' \in [Pages -> Images] /\ (DirectIo => disk' = cache')
       /\ cache'[d] = write_buf[d]
       /\ \A p \in Pages : p # d => cache'[p] = cache[p]
   BY <2>1, <2>2
 <2>8. /\ io_fix' \in [Pages -> BOOLEAN] /\ ~io_fix'[d]
       /\ \A p \in Pages : p # d => io_fix'[p] = io_fix[p]
   BY <2>1, <2>2
 <2>9. /\ latch' \in [Pages -> Threads \cup {NoThread, Io}] /\ latch'[d] = NoThread
       /\ \A p \in Pages : p # d => latch'[p] = latch[p]
   BY <2>1, <2>2
 <2> QED BY <2>2, <2>4, <2>5, <2>6, <2>7, <2>8, <2>9
<1>q. NoThread # Io /\ \A u \in Threads : NoThread # u /\ Io # u BY RedoLogAssumption
<1>l. Lsn' = Lsn BY <1>2 DEF Lsn, logVars
<1>e. LogEnd' = LogEnd BY <1>2 DEF LogEnd, logVars
<1>r. Recs' = Recs BY <1>2 DEF Recs, RecordsOf, logVars
<1>s. \A n \in Safe : n \in Safe' BY <1>1, <1>2, <1>r DEF Safe
<1>w. Unwritten' = Unwritten \ {d}
 <2>1. io_posted # {} => \E t \in Threads : pc[t] = "wait_no_pending" BY DEF DblwrIsRight
 <2>2. \E t \in Threads : pc[t] = "wait_no_pending" BY <1>1, <2>1
 <2>3. pc' = pc /\ io_posted' = io_posted \ {d} BY <1>2 DEF threadVars
 <2> QED BY <2>2, <2>3 DEF Unwritten
<1>m. MtrThreads' = MtrThreads BY <1>2 DEF MtrThreads, InMtr, threadVars, callVars
<1>v. threadVars' = threadVars /\ \A u \in Threads : Writing(u)' <=> Writing(u)
  BY <1>2 DEF Writing, threadVars
<1>3. LogTypes' BY <1>1, <1>2, <1>n DEF LogTypes, logVars
<1>4. CkptTypes' BY <1>1, <1>2 DEF CkptTypes, ckptVars
<1>5. PoolTypes' BY <1>1, <1>2 DEF PoolTypes
<1>6. DiskTypes' BY <1>1, <1>2 DEF DiskTypes
<1>7. ThreadTypes' BY <1>2 DEF ThreadTypes, threadVars, callVars, endVars
<1>8. LsnsAreRight' BY <1>2, <1>l, <1>e, <1>v DEF LsnsAreRight, logVars, threadVars, callVars
<1>9. AckedIsKept'
  BY <1>1, <1>2, <1>n, <1>l DEF LogTypes, ThreadTypes, AckedIsKept, logVars, endVars
<1>10. DblwrIsRight' BY <1>2 DEF DblwrIsRight, threadVars
<1>11. FlushListIsRight' BY <1>2
<1>12. CheckpointsAreRight'
  BY <1>2, <1>s DEF CheckpointsAreRight, SlotsAreRight, Sampled, ckptVars, threadVars, callVars
<1>13. RoomIsLeft'
  BY <1>1, <1>2, <1>n, <1>l, <1>e, <1>m DEF LogTypes, CkptTypes, RoomIsLeft, logVars, ckptVars
<1>14. DirectIsDirect' BY <1>1, <1>2 DEF DirectIsDirect
<1>15. ASSUME NEW u \in Threads PROVE AfterIsRight(u)'
  BY <1>v DEF ThreadsAreRight, AfterIsRight, threadVars, callVars
<1>16. ASSUME NEW u \in Threads PROVE CallIsRight(u)'
  BY <1>2, <1>l, <1>v DEF ThreadsAreRight, CallIsRight, LogReaches, Posting, Sampled, logVars,
     threadVars, callVars
<1>17. ASSUME NEW u \in Threads PROVE MutexIsRight(u)'
  BY <1>2 DEF ThreadsAreRight, MutexIsRight, logVars, threadVars
<1>18. ASSUME NEW u \in Threads PROVE MtrIsRight(u)'
 <2>1. \A p \in Pages : latch'[p] = u <=> latch[p] = u BY <1>1, <1>2, <1>q
 <2>2. MtrIsRight(u) /\ memo[u] \in SUBSET Pages BY DEF ThreadsAreRight, ThreadTypes
 <2> QED BY <1>2, <2>1, <2>2 DEF MtrIsRight, HasMtr, Posting, Awaiting, threadVars, callVars
<1>19. ASSUME NEW u \in Threads PROVE BatchIsRight(u)'
 <2>1. BatchIsRight(u) /\ memo[u] \in SUBSET Pages BY DEF ThreadsAreRight, ThreadTypes
 <2>2. Posting(u) \/ Awaiting(u) => d \notin memo[u] BY <1>1, <2>1 DEF BatchIsRight
 <2>3. \A p \in Pages : p # d =>
           io_fix'[p] = io_fix[p] /\ oldest'[p] = oldest[p] /\ latch'[p] = latch[p] /\ newest'[p] = newest[p]
   BY <1>2
 <2>4. /\ Posting(u)' <=> Posting(u)
       /\ Awaiting(u)' <=> Awaiting(u)
       /\ Batching(u)' <=> Batching(u)
       /\ memo' = memo /\ upto' = upto /\ pc' = pc /\ init_flush' = init_flush /\ posted' = posted
   BY <1>2 DEF Posting, Awaiting, Batching, threadVars, callVars
 <2> QED BY <1>w, <2>1, <2>2, <2>3, <2>4 DEF BatchIsRight
<1>20. ASSUME NEW p \in Pages PROVE FrameIsRight(p)'
 <2>1. FrameIsRight(p) /\ Lsn \in Nat \ {0} BY <1>n DEF PagesAreRight
 <2>2. oldest'[p] = 0 \/ oldest'[p] = oldest[p] BY <1>2
 <2>3. log_mutex' = log_mutex /\ frame' = frame /\ newest' = newest BY <1>2 DEF logVars
 <2> QED BY <1>l, <1>r, <2>1, <2>2, <2>3 DEF FrameIsRight
<1>21. ASSUME NEW p \in Pages PROVE FileIsRight(p)'
 <2>1. FileIsRight(p) /\ frame[p] \subseteq Recs[p] BY DEF PagesAreRight, FrameIsRight
 <2>2. CASE p = d
  <3>1. Good(p, cache[p])' BY <1>1, <1>2, <1>r, <2>2 DEF Good
  <3>2. \A i \in frame'[p] : i \in cache'[p].recs BY <1>1, <1>2, <2>1, <2>2
  <3> QED BY <3>1, <3>2 DEF FileIsRight
 <2>3. CASE p # d BY <1>2, <1>r, <2>1, <2>3 DEF FileIsRight, Good
 <2> QED BY <2>2, <2>3
<1>22. ASSUME NEW p \in Pages PROVE WriteIsRight(p)'
 <2>1. WriteIsRight(p) BY DEF PagesAreRight
 <2>2. Good(p, write_buf[p]) => Good(p, write_buf[p])' BY <1>2, <1>r DEF Good
 <2>3. p # d => /\ Image(p)' = Image(p) /\ oldest'[p] = oldest[p] /\ io_fix'[p] = io_fix[p]
                /\ latch'[p] = latch[p] /\ newest'[p] = newest[p]
   BY <1>2 DEF Image
 <2> QED BY <1>2, <1>w, <2>1, <2>2, <2>3 DEF WriteIsRight
<1>23. ASSUME NEW p \in Pages PROVE LatchIsRight(p)'
 <2>1. LatchIsRight(p) /\ (latch'[p] = Io => p # d /\ latch[p] = Io) BY <1>2, <1>q DEF PagesAreRight
 <2> QED BY <1>2, <1>w, <2>1 DEF LatchIsRight, Posting, threadVars, callVars
<1> QED
  BY <1>3, <1>4, <1>5, <1>6, <1>7, <1>8, <1>9, <1>10, <1>11, <1>12, <1>13, <1>14, <1>15, <1>16,
       <1>17, <1>18, <1>19, <1>20, <1>21, <1>22, <1>23 DEF ThreadsAreRight, PagesAreRight

\* The checkpoint that recovery finds is the last one, or the one that was being written.
LEMMA CheckpointFound ==
    ASSUME IInv, NEW ck \in SurvivingSlots, NEW m, m = MaxCheckpoint(ck)
    PROVE  /\ ck \in [{0, 1} -> [no : Int, lsn : Nat]]
           /\ m.no \in Nat /\ m.lsn \in Nat \ {0} /\ ck[m.no % 2] = [no |-> m.no, lsn |-> m.lsn]
           /\ last_checkpoint_lsn <= m.lsn /\ m.lsn <= synced /\ m.lsn \in Safe
<1> DEFINE n == next_checkpoint_no
           last == last_checkpoint_lsn
           a == slots[(n - 1) % 2]
           b == slots[n % 2]
<1>1. /\ n \in Nat /\ n > 0 /\ last \in Nat \ {0} /\ next_checkpoint_lsn \in Nat
      /\ slots \in [{0, 1} -> [no : Int, lsn : Nat]] /\ n_pending_checkpoint_writes \in {0, 1}
  BY DEF CkptTypes
<1>2. n % 2 \in {0, 1} /\ (n - 1) % 2 = 1 - (n % 2) BY <1>1, Parity
<1>3. a = [no |-> n - 1, lsn |-> last] /\ (b = [no |-> n, lsn |-> last] \/ b.no < n - 1)
  BY DEF CheckpointsAreRight, SlotsAreRight
<1>4. last <= synced /\ last \in Safe BY DEF CheckpointsAreRight
<1>5. n_pending_checkpoint_writes = 1 =>
          last <= next_checkpoint_lsn /\ next_checkpoint_lsn <= synced /\ next_checkpoint_lsn \in Safe
  BY DEF CheckpointsAreRight
<1>6. b \in [no : Int, lsn : Nat] BY <1>1, <1>2
<1>7. PICK s \in [no : Int, lsn : Nat] :
          /\ ck = [slots EXCEPT ![n % 2] = s]
          /\ \/ s = b
             \/ s = [no |-> n, lsn |-> next_checkpoint_lsn] /\ n_pending_checkpoint_writes = 1
             \/ s.no = -1
 <2>1. CASE n_pending_checkpoint_writes = 0
  <3>1. ck = slots BY <2>1 DEF SurvivingSlots
  <3>2. ck = [slots EXCEPT ![n % 2] = b] BY <1>1, <3>1
  <3> QED BY <1>6, <3>2
 <2>2. CASE n_pending_checkpoint_writes = 1
  <3>1. PICK s \in {b, NextCheckpoint, InvalidSlot} : ck = [slots EXCEPT ![n % 2] = s]
    BY <2>2 DEF SurvivingSlots
  <3>2. NextCheckpoint \in [no : Int, lsn : Nat] /\ InvalidSlot \in [no : Int, lsn : Nat]
        /\ NextCheckpoint = [no |-> n, lsn |-> next_checkpoint_lsn] /\ InvalidSlot.no = -1
    BY <1>1 DEF NextCheckpoint, InvalidSlot
  <3> QED BY <1>6, <2>2, <3>1, <3>2
 <2> QED BY <1>1, <2>1, <2>2
<1>8. a \in [no : Int, lsn : Nat] /\ a.no = n - 1 /\ a.lsn = last BY <1>1, <1>3
<1>9. ck \in [{0, 1} -> [no : Int, lsn : Nat]] /\ ck[n % 2] = s /\ ck[(n - 1) % 2] = a
  BY <1>1, <1>2, <1>7
<1> HIDE DEF n, last, a, b
<1>10. m = IF s.no > n - 1 THEN s ELSE a
 <2>1. s.no # a.no BY <1>1, <1>3, <1>7, <1>8
 <2>2. CASE n % 2 = 0 BY <1>1, <1>2, <1>8, <1>9, <2>1, <2>2 DEF MaxCheckpoint
 <2>3. CASE n % 2 = 1 BY <1>1, <1>2, <1>8, <1>9, <2>1, <2>3 DEF MaxCheckpoint
 <2> QED BY <1>2, <2>2, <2>3
<1>11. CASE s.no > n - 1
 <2>1. m = s /\ s.no = n /\ s.lsn \in Nat /\ s = [no |-> s.no, lsn |-> s.lsn]
       /\ (s.lsn = last \/ (s.lsn = next_checkpoint_lsn /\ n_pending_checkpoint_writes = 1))
   BY <1>1, <1>3, <1>7, <1>10, <1>11
 <2> QED BY <1>1, <1>4, <1>5, <1>9, <2>1 DEF last
<1>12. CASE ~(s.no > n - 1)
 <2>1. m = a /\ a = [no |-> a.no, lsn |-> a.lsn] BY <1>8, <1>10, <1>12
 <2> QED BY <1>1, <1>4, <1>8, <1>9, <2>1 DEF last
<1> QED BY <1>11, <1>12

\* Recovery finds all the log that survived.
LEMMA LogFoundWhole ==
    ASSUME IInv, NEW c \in Nat, NEW k \in Nat, last_checkpoint_lsn <= c, c <= k, k <= LogEnd
    PROVE  Max(Scanned(c, k)) = k
<1> DEFINE S == Scanned(c, k)
<1>1. LogEnd \in Nat /\ last_checkpoint_lsn \in Nat BY NumbersAre DEF CkptTypes
<1>2. \A i \in last_checkpoint_lsn .. LogEnd - 1 : file[i % Capacity] = i BY DEF RoomIsLeft
<1>3. \A i \in c .. k - 1 : file[i % Capacity] = i BY <1>1, <1>2
<1>4. Max({c, k}) = k BY PairMax
<1>5. S = {r \in c .. k : \A i \in c .. r - 1 : file[i % Capacity] = i} BY <1>4 DEF Scanned
<1>6. S \in SUBSET (0 .. k) /\ k \in S BY <1>3, <1>5
<1> HIDE DEF S
<1>7. Max(S) \in S /\ \A y \in S : Max(S) >= y BY <1>6, MaxIsGreatest
<1> QED BY <1>6, <1>7 DEF S

\* The image of a page that recovery starts from has what is before a checkpoint, and
\* the changes up to its lsn.
LEMMA ImageIsRestored ==
    ASSUME IInv, NEW os \in BOOLEAN, NEW copies \in SurvivingCopies(os), NEW p \in Pages,
           NEW image \in SurvivingImages(p), NEW b, b = Restored(image, copies[p])
    PROVE  /\ b \in Images /\ Good(p, b)
           /\ \A n \in Safe : \A i \in Recs[p] : i < n => i \in b.recs
<1>1. CASE image = cache[p]
 <2>1. Good(p, cache[p]) /\ cache[p] \in Images BY DEF PagesAreRight, FileIsRight, DiskTypes
 <2>2. cache[p] # Torn BY <2>1 DEF Good, Torn
 <2> QED BY <1>1, <2>1, <2>2 DEF Restored, Safe
<1>2. CASE p \in io_posted
 <2>1. p \in Unwritten /\ p \in posted BY <1>2 DEF DiskTypes, Unwritten
 <2>2. WriteIsRight(p) /\ write_buf[p] \in Images BY DEF PagesAreRight, DiskTypes
 <2>3. latch[p] = Io /\ write_buf[p] = Image(p) /\ Good(p, write_buf[p])
   BY <2>1, <2>2 DEF WriteIsRight
 <2>4. write_buf[p].recs = Recs[p] /\ write_buf[p] # Torn BY <2>3, LatchedByIo DEF Image, Good, Torn
 <2>5. PICK t \in Threads : pc[t] = "wait_no_pending" BY <1>2 DEF DblwrIsRight
 <2>6. dblwr_synced /\ dblwr = write_buf BY <2>5 DEF DblwrIsRight
 <2>7. copies = write_buf BY <2>6 DEF SurvivingCopies
 <2>8. image = cache[p] \/ b = write_buf[p] BY <2>4, <2>7 DEF SurvivingImages, Restored
 <2> QED BY <1>1, <2>2, <2>3, <2>4, <2>8
<1> QED BY <1>1, <1>2 DEF SurvivingImages

\* Where the changes a that recovery makes to a page begin, and where they end.
FirstOf(a) == IF a = {} THEN 0 ELSE Min(a)
EndOf(a) == IF a = {} THEN 0 ELSE 1 + Max(a)

\* What recovery makes of a page.
LEMMA PageIsRecovered ==
    ASSUME Types, NEW p \in Pages, NEW b \in Images, Good(p, b),
           NEW k \in Nat, synced <= k, k <= Lsn, NEW c \in Nat \ {0},
           \A i \in Recs[p] : i < c => i \in b.recs,
           NEW a, a = Applied(p, b, c, k)
    PROVE  /\ b.recs \cup a = {i \in Recs[p] : i < k}
           /\ FirstOf(a) \in Nat /\ EndOf(a) \in Nat /\ EndOf(a) <= k /\ (k > 0 => FirstOf(a) < k)
           /\ FirstOf(a) # 0 => \A i \in b.recs \cup a : i < EndOf(a)
           /\ \A i \in b.recs \cup a : FirstOf(a) = 0 \/ i < FirstOf(a) => i \in b.recs
<1> DEFINE first == FirstOf(a)
           last == EndOf(a)
<1>1. b.lsn \in Int /\ b.recs \subseteq Recs[p] /\ b.lsn <= k
      /\ \A i \in Recs[p] : i \in b.recs <=> i < b.lsn
 <2>1. b.lsn \in Int /\ synced \in Nat BY RedoLogAssumption DEF Images, LogTypes
 <2> QED BY <2>1 DEF Good
<1>2. \A i \in Recs[p] : i \in Nat \ {0} BY RecordsAre
<1>3. a = {i \in Recs[p] : c <= i /\ i < k /\ i >= b.lsn}
 <2>1. a = {i \in Recs[p] : i \in c .. k - 1 /\ i >= b.lsn} BY DEF Applied, Recs
 <2> QED BY <1>2, <2>1
<1>4. b.recs \cup a = {i \in Recs[p] : i < k}
 <2>1. ASSUME NEW i \in Recs[p] PROVE i \in b.recs \cup a <=> i < k
  <3>1. i \in Nat BY <1>2
  <3>2. i \in a <=> c <= i /\ i < k /\ i >= b.lsn BY <1>3
  <3>3. (i \in b.recs <=> i < b.lsn) /\ (i < c => i \in b.recs) BY <1>1
  <3> QED BY <1>1, <3>1, <3>2, <3>3
 <2>2. b.recs \cup a \subseteq Recs[p] BY <1>1, <1>3
 <2> QED BY <2>1, <2>2
<1>5. a # {} => /\ first \in a /\ last \in Nat /\ first \in Nat \ {0} /\ first < k /\ last <= k
                /\ \A i \in a : first <= i /\ i < last
 <2>1. SUFFICES ASSUME a # {} PROVE /\ first \in a /\ last \in Nat /\ first \in Nat \ {0} /\ first < k /\ last <= k
                                    /\ \A i \in a : first <= i /\ i < last
   OBVIOUS
 <2>2. a \in SUBSET Nat /\ a \in SUBSET (0 .. k) /\ \A i \in a : i \in Nat \ {0} /\ i < k
   BY <1>2, <1>3
 <2>3. Min(a) \in a /\ \A y \in a : Min(a) <= y BY <2>1, <2>2, MinIsLeast
 <2>4. Max(a) \in a /\ \A y \in a : Max(a) >= y BY <2>1, <2>2, MaxIsGreatest
 <2>5. first = Min(a) /\ last = 1 + Max(a) BY <2>1 DEF FirstOf, EndOf
 <2> QED BY <2>2, <2>3, <2>4, <2>5
<1>6. a = {} => first = 0 /\ last = 0 BY DEF FirstOf, EndOf
<1> HIDE DEF first, last
<1>7. first # 0 => \A i \in b.recs \cup a : i < last
 <2>1. ASSUME first # 0, NEW i \in b.recs PROVE i < last
  <3>1. first \in a /\ first \in Nat /\ last \in Nat /\ first < last BY <1>5, <1>6, <2>1
  <3>2. first >= b.lsn /\ i < b.lsn /\ i \in Nat BY <1>1, <1>2, <1>3, <2>1, <3>1
  <3> QED BY <1>1, <3>1, <3>2
 <2> QED BY <1>5, <1>6, <2>1
<1>8. \A i \in b.recs \cup a : first = 0 \/ i < first => i \in b.recs
 <2>1. ASSUME NEW i \in a PROVE first # 0 /\ ~(i < first)
  <3>1. i \in Nat BY <1>2, <1>3
  <3>2. first \in Nat \ {0} /\ first <= i BY <1>5
  <3> QED BY <3>1, <3>2
 <2> QED BY <2>1
<1> QED BY <1>4, <1>5, <1>6, <1>7, <1>8 DEF first, last

\* A crash and recovery.
LEMMA RestartKeeps ==
    ASSUME IInv, NEW os \in BOOLEAN, Restart(os)
    PROVE  IInv'
<1>n. Lsn \in Nat \ {0} /\ LogEnd \in Nat /\ Lsn = Len(log) + 1 /\ Len(log) \in Nat BY NumbersAre
<1>1. PICK k \in SurvivingLogs(os), ck \in SurvivingSlots, copies \in SurvivingCopies(os),
           images \in [Pages -> UNION {SurvivingImages(p) : p \in Pages}] :
          /\ \A p \in Pages : images[p] \in SurvivingImages(p)
          /\ Recover([p \in Pages |-> Restored(images[p], copies[p])], k, ck)
          /\ cache' = [p \in Pages |-> Restored(images[p], copies[p])]
          /\ disk' = [p \in Pages |-> Restored(images[p], copies[p])]
          /\ dblwr' = copies
  BY DEF Restart
<1> DEFINE base == [p \in Pages |-> Restored(images[p], copies[p])]
           m == MaxCheckpoint(ck)
           c == m.lsn
           applied == [p \in Pages |-> Applied(p, base[p], c, k)]
           first == [p \in Pages |-> IF applied[p] = {} THEN 0 ELSE Min(applied[p])]
<1>2. /\ ck \in [{0, 1} -> [no : Int, lsn : Nat]]
      /\ m.no \in Nat /\ c \in Nat \ {0} /\ ck[m.no % 2] = [no |-> m.no, lsn |-> c]
      /\ last_checkpoint_lsn <= c /\ c <= synced /\ c \in Safe
  BY CheckpointFound
<1>3. k \in Nat /\ synced \in Nat /\ synced <= k /\ k <= LogEnd /\ (~os => written_to_all_lsn <= k)
 <2>1. /\ synced \in Nat /\ written_to_all_lsn \in Nat /\ write_lsn \in Nat
       /\ synced <= LogEnd
   BY DEF LogTypes, LsnsAreRight
 <2>2. CASE os
  <3>1. k \in synced .. LogEnd BY <2>2 DEF SurvivingLogs, LogEnd
  <3> QED BY <1>n, <2>1, <2>2, <3>1
 <2>3. CASE ~os
  <3>1. k \in (IF synced > written_to_all_lsn THEN synced ELSE written_to_all_lsn) .. LogEnd
    BY <2>3 DEF SurvivingLogs, LogEnd
  <3> QED BY <1>n, <2>1, <3>1
 <2> QED BY <2>2, <2>3
<1>4. k > 0 /\ k <= Lsn /\ c <= k BY <1>n, <1>2, <1>3 DEF LsnsAreRight
<1>5. Max(Scanned(c, k)) = k
 <2>1. last_checkpoint_lsn <= c /\ c <= k /\ c \in Nat BY <1>2, <1>4
 <2> HIDE DEF c
 <2> QED BY <1>3, <2>1, LogFoundWhole
<1>6. base = cache' /\ base = disk' /\ copies = dblwr' BY <1>1
<1>7. ASSUME NEW p \in Pages
      PROVE  /\ base[p] \in Images /\ Good(p, base[p])
             /\ \A n \in Safe : \A i \in Recs[p] : i < n => i \in base[p].recs
 <2>1. images[p] \in SurvivingImages(p) /\ base[p] = Restored(images[p], copies[p]) BY <1>1
 <2> HIDE DEF base
 <2> QED BY Zenon, <2>1, ImageIsRestored
<1>8. /\ log' = SubSeq(log, 1, k - 1) /\ log_mutex' = NoThread
      /\ write_lsn' = 0 /\ written_to_all_lsn' = k
      /\ flushed_to_disk_lsn' = 0 /\ current_flush_lsn' = 0
      /\ n_pending_writes' = 0 /\ check_flush_or_checkpoint' = TRUE
      /\ synced' = k
      /\ file' = [i \in DOMAIN file |-> IF file[i] >= k THEN 0 ELSE file[i]]
  BY <1>1, <1>5 DEF Recover
<1>9. /\ last_checkpoint_lsn' = c /\ next_checkpoint_lsn' = c
      /\ next_checkpoint_no' = m.no + 1 /\ n_pending_checkpoint_writes' = 0
      /\ slots' = [ck EXCEPT ![(m.no + 1) % 2] = [no |-> m.no + 1, lsn |-> c]]
  BY <1>1 DEF Recover
<1>10. /\ frame' = [p \in Pages |-> base[p].recs \cup applied[p]]
       /\ newest' = [p \in Pages |-> IF applied[p] = {} THEN 0 ELSE 1 + Max(applied[p])]
       /\ oldest' = first /\ flush_list' \in SortedByOldest(first)
  BY <1>1, <1>5 DEF Recover
<1>11. \A p \in Pages : /\ frame'[p] = base[p].recs \cup Applied(p, base[p], c, k)
                        /\ newest'[p] = EndOf(Applied(p, base[p], c, k))
                        /\ oldest'[p] = FirstOf(Applied(p, base[p], c, k))
  BY <1>10 DEF FirstOf, EndOf
<1>12. /\ flush_list' \in SortedByOldest(oldest') /\ DOMAIN frame' = Pages
       /\ DOMAIN newest' = Pages /\ DOMAIN oldest' = Pages
       /\ frame' = [p \in Pages |-> frame'[p]] /\ newest' = [p \in Pages |-> newest'[p]]
       /\ oldest' = [p \in Pages |-> oldest'[p]]
  BY <1>10
<1> HIDE DEF base, m, c, applied, first
<1>13. ASSUME NEW p \in Pages
       PROVE  /\ frame'[p] = {i \in Recs[p] : i < k}
              /\ oldest'[p] \in Nat /\ newest'[p] \in Nat /\ newest'[p] <= k /\ oldest'[p] < k
              /\ oldest'[p] # 0 => \A i \in frame'[p] : i < newest'[p]
              /\ \A i \in frame'[p] : oldest'[p] = 0 \/ i < oldest'[p] => i \in base[p].recs
 <2>1. base[p] \in Images /\ Good(p, base[p]) /\ \A i \in Recs[p] : i < c => i \in base[p].recs
   BY <1>2, <1>7
 <2> DEFINE a == Applied(p, base[p], c, k)
 <2>2. /\ base[p].recs \cup a = {i \in Recs[p] : i < k}
       /\ FirstOf(a) \in Nat /\ EndOf(a) \in Nat /\ EndOf(a) <= k /\ (k > 0 => FirstOf(a) < k)
       /\ FirstOf(a) # 0 => \A i \in base[p].recs \cup a : i < EndOf(a)
       /\ \A i \in base[p].recs \cup a : FirstOf(a) = 0 \/ i < FirstOf(a) => i \in base[p].recs
  <3>1. k \in Nat /\ synced <= k /\ k <= Lsn /\ c \in Nat \ {0} /\ Types BY <1>2, <1>3, <1>4
  <3> QED BY <2>1, <3>1, PageIsRecovered
 <2>3. frame'[p] = base[p].recs \cup a /\ newest'[p] = EndOf(a) /\ oldest'[p] = FirstOf(a) BY <1>11
 <2> HIDE DEF a
 <2> QED BY <1>4, <2>2, <2>3
<1>14. log \in Seq(MtrPages) /\ Len(log') = k - 1 /\ log' \in Seq(MtrPages)
       /\ \A i \in 1 .. k - 1 : log'[i] = log[i]
 <2>1. log \in Seq(MtrPages) /\ k - 1 \in 0 .. Len(log) BY <1>n, <1>3, <1>4 DEF LogTypes
 <2> QED BY <1>8, <2>1
<1>l. Lsn' = k /\ LogEnd' = k BY <1>3, <1>8, <1>14 DEF Lsn, LogEnd
<1>r. \A p \in Pages : Recs'[p] = {i \in Recs[p] : i < k}
 <2>1. ASSUME NEW p \in Pages, NEW i PROVE i \in Recs'[p] <=> i \in Recs[p] /\ i < k
  <3>1. i \in Recs[p] <=> i \in 1 .. Len(log) /\ p \in log[i] BY <1>14 DEF Recs, RecordsOf
  <3>2. i \in Recs'[p] <=> i \in 1 .. k - 1 /\ p \in log'[i] BY <1>14, <1>3 DEF Recs, RecordsOf
  <3> QED BY <1>n, <1>3, <1>4, <1>14, <3>1, <3>2
 <2> QED BY <2>1
<1>t. /\ pc' = [t \in Threads |-> "idle"] /\ memo' = [t \in Threads |-> {}]
      /\ upto' = [t \in Threads |-> 0] /\ flush' = [t \in Threads |-> FALSE]
      /\ after' = [t \in Threads |-> "idle"]
      /\ io_fix' = [p \in Pages |-> FALSE] /\ latch' = [p \in Pages |-> NoThread]
      /\ init_flush' = NoThread
      /\ write_buf' = [p \in Pages |-> Torn] /\ posted' = {} /\ io_posted' = {}
      /\ dblwr_synced' = TRUE /\ crashes' = crashes + 1
      /\ acked' = IF os THEN [acked EXCEPT !.written = Min({@, Len(log') + 1})] ELSE acked
  BY DEF Restart
<1>u. \A t \in Threads : pc'[t] = "idle" /\ memo'[t] = {} /\ after'[t] = "idle" /\ upto'[t] = 0
                         /\ ~flush'[t]
  BY <1>t
<1>w. Unwritten' = {} /\ MtrThreads' = {} BY <1>t, <1>u DEF Unwritten, MtrThreads, InMtr
<1>a. acked' \in [flushed : Nat, written : Nat] /\ acked'.flushed <= k /\ acked'.written <= k
 <2>1. /\ acked \in [flushed : Nat, written : Nat] /\ written_to_all_lsn \in Nat
       /\ acked.flushed <= synced
       /\ acked.written <= synced \/ acked.written <= written_to_all_lsn
   BY DEF LogTypes, ThreadTypes, AckedIsKept
 <2>2. CASE os
  <3>0. Len(log') + 1 = k BY <1>3, <1>14
  <3>1. acked' = [acked EXCEPT !.written = Min({acked.written, k})] BY <1>t, <2>2, <3>0
  <3>2. Min({acked.written, k}) = IF acked.written <= k THEN acked.written ELSE k
    BY <1>3, <2>1, PairMin
  <3> QED BY <1>3, <2>1, <3>1, <3>2
 <2>3. CASE ~os BY <1>3, <1>t, <2>1, <2>3
 <2> QED BY <2>2, <2>3
<1>q. NoThread # Io /\ \A t \in Threads : NoThread # t /\ Io # t BY RedoLogAssumption
<1>f. file \in [0 .. Capacity - 1 -> Nat] /\ file' \in [0 .. Capacity - 1 -> Nat]
      /\ \A i \in 0 .. Capacity - 1 : file[i] < k => file'[i] = file[i]
 <2>1. file \in [0 .. Capacity - 1 -> Nat] BY DEF LogTypes
 <2> QED BY <1>3, <1>8, <2>1
<1>20. LogTypes' BY <1>3, <1>4, <1>8, <1>14, <1>f DEF LogTypes
<1>p. m.no + 1 \in Nat \ {0} /\ (m.no + 1) % 2 \in {0, 1} /\ (m.no + 1) % 2 = 1 - (m.no % 2)
      /\ (m.no + 1 - 1) = m.no
 <2>1. m.no \in Nat BY <1>2
 <2> QED BY <2>1
<1>21. CkptTypes' /\ SlotsAreRight'
 <2>1. /\ slots' \in [{0, 1} -> [no : Int, lsn : Nat]]
       /\ slots'[(m.no + 1) % 2] = [no |-> m.no + 1, lsn |-> c]
       /\ slots'[m.no % 2] = [no |-> m.no, lsn |-> c]
   BY <1>2, <1>9, <1>p
 <2>2. CkptTypes' BY <1>2, <1>9, <1>p, <2>1 DEF CkptTypes
 <2>3. SlotsAreRight'
  <3> DEFINE no == m.no + 1
  <3>0. m.no \in Nat BY <1>2
  <3>1. next_checkpoint_no' = no /\ no \in Nat /\ no - 1 = m.no /\ last_checkpoint_lsn' = c
    BY <1>9, <3>0
  <3>2. slots'[no % 2] = [no |-> no, lsn |-> c] /\ slots'[m.no % 2] = [no |-> m.no, lsn |-> c]
    BY <2>1
  <3> HIDE DEF no
  <3>3. /\ slots'[(no - 1) % 2] = [no |-> no - 1, lsn |-> last_checkpoint_lsn']
        /\ slots'[no % 2] = [no |-> no, lsn |-> last_checkpoint_lsn']
    BY <3>1, <3>2
  <3> QED BY <3>1, <3>3 DEF SlotsAreRight
 <2> QED BY <2>2, <2>3
<1>22. flush_list' \in Seq(Pages) /\ FlushListIsRight'
 <2> DEFINE S == {p \in Pages : oldest'[p] # 0}
            q == flush_list'
 <2>1. q \in SetToSeqs(S) /\ \A i, j \in DOMAIN q : i < j => oldest'[q[i]] >= oldest'[q[j]]
   BY <1>12 DEF SortedByOldest
 <2>2. IsFiniteSet(S) /\ S \in SUBSET Pages BY RedoLogAssumption, FS_Subset
 <2>3. \A p \in Pages : p \in S <=> oldest'[p] # 0 OBVIOUS
 <2> HIDE DEF S, q
 <2>4. /\ q \in Seq(S)
       /\ \A i, j \in DOMAIN q : q[i] = q[j] => i = j
       /\ \A x \in S : \E i \in DOMAIN q : q[i] = x
   BY <2>1, <2>2, SequencesOfSet
 <2>5. q \in Seq(Pages) /\ \A i \in DOMAIN q : q[i] \in S /\ q[i] \in Pages BY <2>2, <2>4
 <2>6. \A i \in DOMAIN q : oldest'[q[i]] # 0 BY <2>3, <2>5
 <2>7. \A p \in Pages : oldest'[p] # 0 => \E i \in DOMAIN q : q[i] = p BY <2>3, <2>4
 <2>8. FlushListIsRight' BY <2>1, <2>4, <2>6, <2>7 DEF FlushListIsRight, Listed, q
 <2> QED BY <2>5, <2>8 DEF q
<1>23. PoolTypes'
 <2>1. \A p \in Pages : frame'[p] \in SUBSET Nat /\ newest'[p] \in Nat /\ oldest'[p] \in Nat
  <3>1. \A p \in Pages : \A i \in Recs[p] : i \in Nat BY RecordsAre
  <3> QED BY <1>13, <3>1
 <2>2. frame' \in [Pages -> SUBSET Nat] /\ newest' \in [Pages -> Nat] /\ oldest' \in [Pages -> Nat]
   BY <1>12, <2>1
 <2>3. /\ io_fix' \in [Pages -> BOOLEAN] /\ latch' \in [Pages -> Threads \cup {NoThread, Io}]
       /\ init_flush' \in Threads \cup {NoThread}
   BY <1>t
 <2> QED BY <1>22, <2>2, <2>3 DEF PoolTypes
<1>24. DiskTypes'
 <2>1. Torn \in Images BY RedoLogAssumption DEF Torn, Images
 <2>2. copies \in [Pages -> Images] BY <2>1 DEF SurvivingCopies, DiskTypes
 <2>3. base \in [Pages -> Images] BY <1>7 DEF base
 <2> QED BY <1>6, <1>t, <2>1, <2>2, <2>3 DEF DiskTypes
<1>25. ThreadTypes'
 <2>1. crashes' \in Nat BY <1>t DEF ThreadTypes
 <2>2. pc' \in [Threads -> Labels] BY <1>t DEF Labels
 <2> QED BY <1>a, <1>t, <2>1, <2>2 DEF ThreadTypes
<1>26. LsnsAreRight' BY <1>3, <1>8, <1>l, <1>u DEF LsnsAreRight, Writing
<1>27. AckedIsKept' BY <1>8, <1>a DEF AckedIsKept
<1>28. DblwrIsRight' BY <1>t, <1>u DEF DblwrIsRight
<1>29. CheckpointsAreRight'
 <2>1. c \in Safe'
  <3>1. ASSUME NEW p \in Pages, NEW i \in Recs'[p], i < c PROVE i \in cache'[p].recs
    BY <1>2, <1>6, <1>7, <1>r, <3>1
  <3> QED BY <1>2, <3>1 DEF Safe
 <2> QED BY <1>4, <1>8, <1>9, <1>21, <1>u, <2>1 DEF CheckpointsAreRight, Sampled, WriteLabels
<1>30. RoomIsLeft'
 <2>1. k + Cardinality(MtrThreads') <= c + MaxCheckpointAge + Cardinality(Threads)
  <3> DEFINE o == Cardinality(MtrThreads)
             z == Cardinality(Threads)
  <3>1. o \in Nat /\ z \in Nat /\ Cardinality(MtrThreads') = 0
    BY <1>w, MtrThreadsCounted, FS_EmptySet
  <3>2. Lsn + o <= last_checkpoint_lsn + MaxCheckpointAge + z BY DEF RoomIsLeft
  <3>3. last_checkpoint_lsn \in Nat /\ MaxCheckpointAge \in Nat BY RedoLogAssumption DEF CkptTypes
  <3> HIDE DEF o, z
  <3>4. k <= c + MaxCheckpointAge + z BY <1>n, <1>2, <1>3, <1>4, <3>1, <3>2, <3>3
  <3> QED BY <1>3, <3>1, <3>4 DEF z
 <2>2. \A i \in c .. k - 1 : file'[i % Capacity] = i
  <3>1. \A i \in last_checkpoint_lsn .. LogEnd - 1 : file[i % Capacity] = i BY DEF RoomIsLeft
  <3>2. ASSUME NEW i \in c .. k - 1 PROVE file'[i % Capacity] = i
   <4>0. last_checkpoint_lsn \in Nat /\ last_checkpoint_lsn <= c /\ c \in Nat BY Zenon, <1>2 DEF
       CkptTypes
   <4>1. i \in Nat /\ c <= i /\ i < k /\ file[i % Capacity] = i BY <1>n, <1>3, <3>1, <4>0
   <4>2. Capacity \in Nat \ {0}
    <5> DEFINE z == Cardinality(Threads)
    <5>1. z \in Nat /\ Capacity \in Nat /\ MaxCheckpointAge \in Nat /\ Capacity >= MaxCheckpointAge + z
      BY MtrThreadsCounted, RedoLogAssumption
    <5>2. k <= c + MaxCheckpointAge + z BY <2>1, <1>3, <1>w, FS_EmptySet
    <5> HIDE DEF z
    <5> QED BY <1>3, <4>0, <4>1, <5>1, <5>2
   <4>3. i % Capacity \in 0 .. Capacity - 1 BY <4>1, <4>2
   <4> QED BY <1>f, <4>1, <4>3
  <3> QED BY <3>2
 <2>3. Len(log') + Cardinality(MtrThreads') <= MaxRecords
  <3> DEFINE o == Cardinality(MtrThreads)
  <3>1. o \in Nat /\ Cardinality(MtrThreads') = 0 BY <1>w, MtrThreadsCounted, FS_EmptySet
  <3>2. Len(log) + o <= MaxRecords BY DEF RoomIsLeft
  <3> HIDE DEF o
  <3>3. k - 1 <= MaxRecords BY <1>n, <1>3, <1>4, <3>1, <3>2, RedoLogAssumption
  <3> QED BY <1>3, <1>14, <3>1, <3>3
 <2> QED BY <1>8, <1>9, <1>l, <2>1, <2>2, <2>3 DEF RoomIsLeft
<1>31. DirectIsDirect' BY <1>6 DEF DirectIsDirect
<1>32. ASSUME NEW t \in Threads
       PROVE  AfterIsRight(t)' /\ CallIsRight(t)' /\ MutexIsRight(t)' /\ MtrIsRight(t)' /\ BatchIsRight(t)'
 <2>1. AfterIsRight(t)' BY <1>u DEF AfterIsRight, WriteLabels, DblwrLabels
 <2>2. CallIsRight(t)' BY <1>3, <1>l, <1>u DEF CallIsRight, Writing, Posting, Sampled, WriteLabels
 <2>3. MutexIsRight(t)' BY <1>8, <1>q, <1>u DEF MutexIsRight
 <2>4. ~HasMtr(t)' /\ ~Posting(t)' /\ ~Awaiting(t)' /\ ~Batching(t)'
   BY <1>u DEF HasMtr, Posting, Awaiting, Batching, WriteLabels, DblwrLabels
 <2>5. MtrIsRight(t)' BY <1>q, <1>t, <1>u, <2>4 DEF MtrIsRight
 <2>6. BatchIsRight(t)' BY <1>q, <1>t, <1>u, <2>4 DEF BatchIsRight
 <2> QED BY <2>1, <2>2, <2>3, <2>5, <2>6
<1>33. ASSUME NEW p \in Pages
       PROVE  FrameIsRight(p)' /\ FileIsRight(p)' /\ WriteIsRight(p)' /\ LatchIsRight(p)'
 <2>1. /\ frame'[p] = {i \in Recs[p] : i < k} /\ Recs'[p] = {i \in Recs[p] : i < k}
       /\ newest'[p] <= k /\ oldest'[p] < k
       /\ oldest'[p] # 0 => \A i \in frame'[p] : i < newest'[p]
       /\ \A i \in frame'[p] : oldest'[p] = 0 \/ i < oldest'[p] => i \in base[p].recs
   BY <1>13, <1>r
 <2>2. FrameIsRight(p)' BY <1>8, <1>l, <2>1 DEF FrameIsRight
 <2>3. Good(p, cache[p])'
  <3>1. /\ base[p].lsn >= 0 /\ base[p].lsn <= synced /\ base[p].recs \subseteq Recs[p]
        /\ \A i \in Recs[p] : i \in base[p].recs <=> i < base[p].lsn
        /\ base[p].lsn \in Int
    BY <1>7, RedoLogAssumption DEF Good, Images
  <3>2. \A i \in Recs[p] : i \in Nat BY RecordsAre
  <3>3. base[p].lsn <= k /\ base[p].recs \subseteq Recs'[p] BY <1>3, <2>1, <3>1, <3>2
  <3> QED BY <1>6, <1>8, <2>1, <3>1, <3>3 DEF Good
 <2>4. FileIsRight(p)' BY <1>6, <2>1, <2>3 DEF FileIsRight
 <2>5. WriteIsRight(p)' BY <1>t, <1>w DEF WriteIsRight
 <2>6. LatchIsRight(p)' BY <1>q, <1>t DEF LatchIsRight
 <2> QED BY <2>2, <2>4, <2>5, <2>6
<1> QED
  BY <1>20, <1>21, <1>22, <1>23, <1>24, <1>25, <1>26, <1>27, <1>28, <1>29, <1>30, <1>31, <1>32,
     <1>33 DEF ThreadsAreRight, PagesAreRight

\* The database that has just been created.
LEMMA InitIsRight == Init => IInv
<1> SUFFICES ASSUME Init PROVE IInv OBVIOUS
<1>1. log = <<>> /\ Len(log) = 0 /\ Lsn = 1 /\ LogEnd = 1 /\ log_mutex = NoThread
  BY DEF Init, Lsn, LogEnd
<1>2. \A p \in Pages : Recs[p] = {} BY <1>1 DEF Recs, RecordsOf
<1>3. \A t \in Threads : pc[t] = "idle" /\ memo[t] = {} /\ after[t] = "idle" /\ upto[t] = 0 /\ ~flush[t]
  BY DEF Init
<1>4. Unwritten = {} /\ MtrThreads = {} BY <1>3 DEF Init, Unwritten, MtrThreads, InMtr
<1>5. NoThread # Io /\ \A t \in Threads : NoThread # t /\ Io # t BY RedoLogAssumption
<1>6. Torn \in Images /\ Blank \in Images BY RedoLogAssumption DEF Torn, Blank, Images
<1>7. 1 \in Safe BY <1>2 DEF Safe
<1>8. LogTypes BY <1>1 DEF Init, LogTypes
<1>9. CkptTypes BY DEF Init, CkptTypes
<1>10. PoolTypes BY DEF Init, PoolTypes
<1>11. DiskTypes BY <1>6 DEF Init, DiskTypes
<1>12. ThreadTypes BY DEF Init, ThreadTypes, Labels
<1>13. LsnsAreRight BY <1>1, <1>3 DEF Init, LsnsAreRight, Writing
<1>14. AckedIsKept BY DEF Init, AckedIsKept
<1>15. DblwrIsRight BY <1>3 DEF Init, DblwrIsRight
<1>16. FlushListIsRight BY DEF Init, FlushListIsRight, Listed
<1>17. CheckpointsAreRight
 <2>1. next_checkpoint_no = 2 /\ last_checkpoint_lsn = 1 /\ slots[0] = [no |-> 0, lsn |-> 1]
       /\ slots[1] = [no |-> 1, lsn |-> 1]
   BY DEF Init
 <2>2. (2 - 1) % 2 = 1 /\ 2 % 2 = 0 /\ 2 - 1 = 1 OBVIOUS
 <2>3. SlotsAreRight BY <2>1, <2>2 DEF SlotsAreRight
 <2> QED BY <1>3, <1>7, <2>3 DEF Init, CheckpointsAreRight, Sampled, WriteLabels
<1>18. RoomIsLeft
 <2>1. Cardinality(MtrThreads) = 0 /\ Cardinality(Threads) \in Nat
   BY <1>4, MtrThreadsCounted, FS_EmptySet
 <2>2. last_checkpoint_lsn = 1 /\ check_flush_or_checkpoint BY DEF Init
 <2> QED BY <1>1, <2>1, <2>2, RedoLogAssumption DEF RoomIsLeft
<1>19. DirectIsDirect BY DEF Init, DirectIsDirect
<1>20. ASSUME NEW t \in Threads
       PROVE  AfterIsRight(t) /\ CallIsRight(t) /\ MutexIsRight(t) /\ MtrIsRight(t) /\ BatchIsRight(t)
 <2>1. AfterIsRight(t) BY <1>3 DEF AfterIsRight, WriteLabels, DblwrLabels
 <2>2. CallIsRight(t) BY <1>1, <1>3 DEF CallIsRight, Writing, Posting, Sampled, WriteLabels
 <2>3. MutexIsRight(t) BY <1>1, <1>3, <1>5 DEF MutexIsRight
 <2>4. ~HasMtr(t) /\ ~Posting(t) /\ ~Awaiting(t) /\ ~Batching(t)
   BY <1>3 DEF HasMtr, Posting, Awaiting, Batching, WriteLabels, DblwrLabels
 <2>5. MtrIsRight(t) BY <1>3, <1>5, <2>4 DEF Init, MtrIsRight
 <2>6. BatchIsRight(t) BY <1>3, <1>5, <2>4 DEF Init, BatchIsRight
 <2> QED BY <2>1, <2>2, <2>3, <2>5, <2>6
<1>21. ASSUME NEW p \in Pages
       PROVE  FrameIsRight(p) /\ FileIsRight(p) /\ WriteIsRight(p) /\ LatchIsRight(p)
 <2>1. frame[p] = {} /\ newest[p] = 0 /\ oldest[p] = 0 /\ latch[p] = NoThread
       /\ cache[p] = Blank /\ posted = {} /\ synced = 1
   BY DEF Init
 <2>2. FrameIsRight(p) BY <1>1, <1>2, <2>1 DEF FrameIsRight
 <2>3. FileIsRight(p) BY <1>2, <2>1 DEF FileIsRight, Good, Blank
 <2>4. WriteIsRight(p) BY <1>4, <2>1 DEF WriteIsRight
 <2>5. LatchIsRight(p) BY <1>5, <2>1 DEF LatchIsRight
 <2> QED BY <2>2, <2>3, <2>4, <2>5
<1> QED BY <1>8, <1>9, <1>10, <1>11, <1>12, <1>13, <1>14, <1>15, <1>16, <1>17, <1>18, <1>19, <1>20,
     <1>21 DEF ThreadsAreRight, PagesAreRight

\* A step that changes nothing.
LEMMA StutterKeeps ==
    ASSUME IInv, UNCHANGED vars
    PROVE  IInv'
<1> USE DEF vars, logVars, ckptVars, poolVars, writeVars, fileVars, threadVars, callVars, endVars
<1>1. Lsn' = Lsn /\ LogEnd' = LogEnd BY DEF Lsn, LogEnd
<1>2. Recs' = Recs BY DEF Recs, RecordsOf
<1>3. Safe' = Safe /\ Unwritten' = Unwritten BY <1>2 DEF Safe, Unwritten
<1>4. MtrThreads' = MtrThreads BY DEF MtrThreads, InMtr
<1>5. Types' BY DEF LogTypes, CkptTypes, PoolTypes, DiskTypes, ThreadTypes
<1>6. LsnsAreRight' /\ AckedIsKept' /\ DblwrIsRight'
  BY <1>1 DEF LsnsAreRight, Writing, AckedIsKept, DblwrIsRight
<1>7. FlushListIsRight' /\ DirectIsDirect' BY DEF FlushListIsRight, Listed, DirectIsDirect
<1>8. CheckpointsAreRight' BY <1>3 DEF CheckpointsAreRight, SlotsAreRight, Sampled
<1>9. RoomIsLeft' BY <1>1, <1>4 DEF RoomIsLeft
<1>10. ASSUME NEW t \in Threads
       PROVE  AfterIsRight(t)' /\ CallIsRight(t)' /\ MutexIsRight(t)' /\ MtrIsRight(t)' /\ BatchIsRight(t)'
 <2>1. AfterIsRight(t)' /\ MutexIsRight(t)' BY DEF ThreadsAreRight, AfterIsRight, MutexIsRight
 <2>2. CallIsRight(t)'
   BY <1>1 DEF ThreadsAreRight, CallIsRight, LogReaches, Writing, Posting, Sampled
 <2>3. MtrIsRight(t)' BY DEF ThreadsAreRight, MtrIsRight, HasMtr, Posting, Awaiting
 <2>4. BatchIsRight(t)' BY <1>3 DEF ThreadsAreRight, BatchIsRight, Posting, Awaiting, Batching
 <2> QED BY <2>1, <2>2, <2>3, <2>4
<1>11. ASSUME NEW p \in Pages
       PROVE  FrameIsRight(p)' /\ FileIsRight(p)' /\ WriteIsRight(p)' /\ LatchIsRight(p)'
 <2>1. FrameIsRight(p)' BY <1>1, <1>2 DEF PagesAreRight, FrameIsRight
 <2>2. FileIsRight(p)' BY <1>2 DEF PagesAreRight, FileIsRight, Good
 <2>3. WriteIsRight(p)' BY <1>2, <1>3 DEF PagesAreRight, WriteIsRight, Good, Image
 <2>4. LatchIsRight(p)' BY <1>3 DEF PagesAreRight, LatchIsRight, Posting
 <2> QED BY <2>1, <2>2, <2>3, <2>4
<1> QED BY <1>5, <1>6, <1>7, <1>8, <1>9, <1>10, <1>11 DEF ThreadsAreRight, PagesAreRight

\* A step of a thread.
LEMMA StepKeeps ==
    ASSUME IInv, NEW t \in Threads, Step(t)
    PROVE  IInv'
<1>1. CASE AlreadyWritten(t) \/ WaitForWrite(t) \/ StartWrite(t) \/ FlushFile(t) \/ CompleteWrite(t)
  BY <1>1, AlreadyWrittenKeeps, WaitForWriteKeeps, StartWriteKeeps, FlushFileKeeps,
     CompleteWriteKeeps
<1>2. CASE MtrStart(t) \/ MtrLatch(t) \/ MtrFindsBufferFull(t) \/ MtrWriteLog(t) \/ MtrNote(t)
           \/ Ack(t) \/ CheckpointMargin(t)
  BY <1>2, MtrStartKeeps, MtrLatchKeeps, MtrFindsBufferFullKeeps, MtrWriteLogKeeps, MtrNoteKeeps,
     AckKeeps, CheckpointMarginKeeps
<1>3. CASE BatchStart(t) \/ TryPage(t) \/ LatchPage(t) \/ PostPage(t) \/ BatchEnd(t)
           \/ WriteDblwr(t) \/ WritePages(t) \/ SyncPages(t)
  BY <1>3, BatchStartKeeps, TryPageKeeps, LatchPageKeeps, PostPageKeeps, BatchEndKeeps,
     WriteDblwrKeeps, WritePagesKeeps, SyncPagesKeeps
<1>4. CASE CheckpointStart(t) \/ CheckpointSample(t) \/ CheckpointWrite(t)
  BY <1>4, CheckpointStartKeeps, CheckpointSampleKeeps, CheckpointWriteKeeps
<1> QED BY <1>1, <1>2, <1>3, <1>4 DEF Step

HIDE DEF IInv, Types

\* The inductive invariant: the order of the lsns, what is safe on the files, what is
\* latched and posted, and what the last checkpoint leaves to recovery.
THEOREM InductiveInvariant == Spec => []IInv
<1>1. Init => IInv BY InitIsRight
<1>2. IInv /\ [Next]_vars => IInv'
 <2> SUFFICES ASSUME IInv, [Next]_vars PROVE IInv' OBVIOUS
 <2>1. ASSUME NEW t \in Threads, Step(t) PROVE IInv' BY <2>1, StepKeeps
 <2>2. CASE CheckpointWritten BY <2>2, CheckpointWrittenKeeps
 <2>3. ASSUME NEW p \in Pages, PageWritten(p) PROVE IInv' BY <2>3, PageWrittenKeeps
 <2>4. CASE Crash BY <2>4, RestartKeeps DEF Crash
 <2>5. CASE UNCHANGED vars BY <2>5, StutterKeeps
 <2> QED BY <2>1, <2>2, <2>3, <2>4, <2>5 DEF Next, IoHandler, Terminated
<1> QED BY <1>1, <1>2, PTL DEF Spec

\* The types of the variables, with at most one write of the log and one of a checkpoint
\* under way, and the flush list a list of the dirty pages by their oldest modification:
\* TypeOK holds in every state.
THEOREM TypeCorrect == Spec => []TypeOK
<1>1. IInv => TypeOK
 <2> SUFFICES ASSUME IInv PROVE TypeOK OBVIOUS
 <2>1. \A p \in Pages : frame[p] \in SUBSET (1 .. MaxRecords)
  <3> SUFFICES ASSUME NEW p \in Pages, NEW i \in frame[p] PROVE i \in 1 .. MaxRecords OBVIOUS
  <3>1. i \in Recs[p] BY DEF IInv, PagesAreRight, FrameIsRight
  <3>2. i \in Nat \ {0} /\ i < Lsn BY <3>1, RecordsAre DEF IInv
  <3>3. Lsn = Len(log) + 1 /\ Len(log) \in Nat BY NumbersAre DEF IInv
  <3>4. Len(log) + Cardinality(MtrThreads) <= MaxRecords BY DEF IInv, RoomIsLeft
  <3>5. Cardinality(MtrThreads) \in Nat /\ MaxRecords \in Nat
    BY MtrThreadsCounted, RedoLogAssumption
  <3> QED BY <3>2, <3>3, <3>4, <3>5
 <2>2. FlushListSorted
  <3>1. flush_list \in Seq(Pages) /\ oldest \in [Pages -> Nat] /\ Listed(flush_list, oldest)
    BY DEF IInv, Types, PoolTypes, FlushListIsRight
  <3>2. \A i \in DOMAIN flush_list : flush_list[i] \in Pages BY <3>1
  <3>3. {flush_list[i] : i \in DOMAIN flush_list} = {p \in Pages : oldest[p] # 0}
    BY <3>1, <3>2 DEF Listed
  <3>4. \A i, j \in DOMAIN flush_list : flush_list[i] = flush_list[j] => i = j BY <3>1 DEF Listed
  <3>5. Cardinality({flush_list[i] : i \in DOMAIN flush_list}) = Len(flush_list)
    BY <3>1, <3>4, CountOfEntries
  <3> QED BY <3>1, <3>3, <3>5 DEF FlushListSorted, Listed
 <2>3. frame \in [Pages -> SUBSET (1 .. MaxRecords)] BY <2>1 DEF IInv, Types, PoolTypes
 <2>4. LogTypes /\ CkptTypes /\ PoolTypes /\ DiskTypes /\ ThreadTypes BY DEF IInv, Types
 <2>5. acked.flushed \in Nat /\ acked.written \in Nat BY <2>4 DEF ThreadTypes
 <2>6. pc \in [Threads -> {"idle", "write_up_to", "wait_return", "wait_retry",
                "flush_file", "complete_write", "latching", "mtr", "note", "ack",
                "batch", "latch", "post", "write_dblwr", "write_pages",
                "wait_no_pending", "sample", "checkpoint"}]
   BY <2>4 DEF ThreadTypes, Labels, WriteLabels, DblwrLabels
 <2> QED
   BY Zenon, <2>2, <2>3, <2>4, <2>5, <2>6 DEF TypeOK, LogTypes, CkptTypes, PoolTypes, DiskTypes,
      ThreadTypes
<1> QED BY <1>1, InductiveInvariant, PTL

\* After a crash, and always but inside mtr_commit, the pages hold what the log says of
\* them: RecoveryRestores holds in every state.
THEOREM RecoveryIsRight == Spec => []RecoveryRestores
<1>1. IInv => RecoveryRestores
 <2> SUFFICES ASSUME IInv, log_mutex = NoThread, NEW p \in Pages PROVE frame[p] = RecordsOf(p)
   BY DEF RecoveryRestores
 <2>1. frame[p] \subseteq Recs[p] /\ \A i \in Recs[p] : i \in frame[p]
   BY DEF IInv, PagesAreRight, FrameIsRight
 <2> QED BY <2>1 DEF Recs
<1> QED BY <1>1, InductiveInvariant, PTL

\* A commit that was acknowledged is in the log: CommitsSurvive holds in every state.
THEOREM CommitsAreKept == Spec => []CommitsSurvive
<1>1. IInv => CommitsSurvive
 <2> SUFFICES ASSUME IInv PROVE CommitsSurvive OBVIOUS
 <2>1. Lsn \in Nat /\ LogEnd \in Nat BY NumbersAre DEF IInv
 <2>2. acked.flushed \in Nat /\ acked.written \in Nat /\ synced \in Nat /\ written_to_all_lsn \in Nat
   BY DEF IInv, Types, LogTypes, ThreadTypes
 <2>3. synced <= LogEnd /\ LogEnd <= Lsn /\ written_to_all_lsn <= LogEnd BY DEF IInv, LsnsAreRight
 <2> QED BY <2>1, <2>2, <2>3 DEF IInv, AckedIsKept, CommitsSurvive
<1> QED BY <1>1, InductiveInvariant, PTL

\* When data files are not cached, the last checkpoint covers what is not on the disk, and
\* the log from it on is whole: CheckpointSuffices holds in every state.
THEOREM CheckpointsSuffice ==
    ASSUME DirectIo
    PROVE  Spec => []CheckpointSuffices
<1>1. IInv => CheckpointSuffices
 <2> SUFFICES ASSUME IInv PROVE CheckpointSuffices OBVIOUS
 <2> DEFINE n == next_checkpoint_no
            m == MaxCheckpoint(slots)
 <2>1. n \in Nat /\ n > 0 /\ last_checkpoint_lsn \in Nat BY DEF IInv, Types, CkptTypes
 <2>2. n % 2 \in {0, 1} /\ (n - 1) % 2 = 1 - (n % 2) BY <2>1, Parity
 <2>3. /\ slots[(n - 1) % 2] = [no |-> n - 1, lsn |-> last_checkpoint_lsn]
       /\ \/ slots[n % 2] = [no |-> n, lsn |-> last_checkpoint_lsn]
          \/ slots[n % 2].no < n - 1
   BY DEF IInv, CheckpointsAreRight, SlotsAreRight
 <2>4. slots[0].no \in Int /\ slots[1].no \in Int BY DEF IInv, Types, CkptTypes
 <2> HIDE DEF n
 <2>5. m.lsn = last_checkpoint_lsn
  <3>1. CASE n % 2 = 0 BY <2>1, <2>2, <2>3, <2>4, <3>1 DEF MaxCheckpoint
  <3>2. CASE n % 2 = 1 BY <2>1, <2>2, <2>3, <2>4, <3>2 DEF MaxCheckpoint
  <3> QED BY <2>2, <3>1, <3>2
 <2> HIDE DEF m
 <2>6. \A p \in Pages : \A i \in RecordsOf(p) : i < m.lsn => i \in disk[p].recs
  <3>1. last_checkpoint_lsn \in Safe /\ disk = cache
    BY DEF IInv, CheckpointsAreRight, DirectIsDirect
  <3> QED BY <2>5, <3>1 DEF Safe, Recs
 <2>7. \A i \in m.lsn .. written_to_all_lsn - 1 : file[i % Capacity] = i
  <3>1. \A i \in last_checkpoint_lsn .. LogEnd - 1 : file[i % Capacity] = i BY DEF IInv, RoomIsLeft
  <3>2. written_to_all_lsn \in Nat /\ LogEnd \in Nat /\ written_to_all_lsn <= LogEnd
    BY NumbersAre DEF IInv, Types, LogTypes, LsnsAreRight
  <3> QED BY <2>1, <2>5, <3>1, <3>2
 <2> QED BY <2>6, <2>7 DEF CheckpointSuffices, CheckpointCovers, LogNotOverwritten, m
<1> QED BY <1>1, InductiveInvariant, PTL

\* A batch waits for a latch only when all that it has latched is with the i/o handlers:
\* BatchWaitsWithoutLatches holds in every state.
THEOREM BatchesDoNotBlock == Spec => []BatchWaitsWithoutLatches
<1>1. IInv => BatchWaitsWithoutLatches
 <2> SUFFICES ASSUME IInv, NEW t \in Threads, pc[t] = "latch", NEW p \in Pages, latch[p] = Io
              PROVE  p \in io_posted
   BY DEF BatchWaitsWithoutLatches
 <2>1. Batching(t) /\ Awaiting(t) /\ ~Posting(t) BY DEF Batching, Awaiting, Posting, WriteLabels
 <2>2. init_flush = t /\ posted = {} BY <2>1 DEF IInv, ThreadsAreRight, BatchIsRight
 <2>3. ASSUME NEW u \in Threads, Posting(u) PROVE FALSE
  <3>1. init_flush = u BY <2>3 DEF IInv, ThreadsAreRight, BatchIsRight, Batching
  <3> QED BY <2>1, <2>2, <2>3, <3>1
 <2>4. p \in Unwritten BY <2>3 DEF IInv, PagesAreRight, LatchIsRight
 <2> QED BY <2>2, <2>4 DEF Unwritten
<1> QED BY <1>1, InductiveInvariant, PTL
=============================================================================

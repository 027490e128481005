----------------------------- MODULE LockQueue -----------------------------
(***************************************************************************)
(* The lock table of lock0lock.c as a value, and what its low-level        *)
(* functions make of it.  lock_sys keeps every lock struct on three lists  *)
(* at once: the hash chain of its page, the queue of its table and the     *)
(* list of its transaction.  Each of the three only appends at its end and *)
(* removes, so one sequence in the order of creation represents them all:  *)
(* a queue is what remains of it when the other structs are left out.      *)
(*                                                                         *)
(* One table, and the leaf pages of its clustered index.  A record is its  *)
(* key, wherever it is; every page has a supremum, which is behind its     *)
(* records, and an infimum, which only carries locks while a record is     *)
(* being replaced.  Here these are numbers behind the keys.                *)
(***************************************************************************)
EXTENDS Integers, Sequences, FiniteSets

CONSTANTS Trxs,           \* the transactions
          MaxKey          \* the greatest key

ASSUME MaxKeyAssumption == MaxKey \in Nat

\* The root, which is a leaf while it has room for all records, and the pages
\* that take its place.
Root == 0
Pages == 0..2

Keys == 1..MaxKey
SupremumOf(p) == MaxKey + 1 + p
InfimumOf(p) == MaxKey + 4 + p
Suprema == (MaxKey + 1)..(MaxKey + 3)
Heap == 1..(MaxKey + 6)

Modes == {"IS", "IX", "S", "X", "AUTO_INC"}

\* LOCK_ORDINARY locks the record and the gap before it, LOCK_GAP the gap
\* only, LOCK_REC_NOT_GAP the record only.
Gaps == {"ORDINARY", "GAP", "REC_NOT_GAP"}

Compatible(a, b) ==
    {a, b} \in {{"IS"}, {"IX"}, {"S"}, {"IX", "IS"}, {"IS", "AUTO_INC"},
                {"S", "IS"}, {"AUTO_INC", "IX"}}

StrongerOrEq(a, b) ==
    \/ a = b
    \/ a = "X"
    \/ b = "IS" /\ a \in {"IX", "S"}

\* A lock struct.  A table lock has no bits; a record lock has one bit per
\* record it is set on, and only one while it waits.
LockStruct == [trx : Trxs, type : {"TABLE", "REC"}, mode : Modes, gap : Gaps,
               ii : BOOLEAN, page : Pages, bits : SUBSET Heap, wait : BOOLEAN]

NewTableLock(t, m, w) ==
    [trx |-> t, type |-> "TABLE", mode |-> m, gap |-> "ORDINARY",
     ii |-> FALSE, page |-> Root, bits |-> {}, wait |-> w]

\* Every lock on the supremum is of the gap type: the flags are left out.
GapOn(h, g) == IF h \in Suprema THEN "ORDINARY" ELSE g

NewRecLock(t, m, g, i, p, h, w) ==
    [trx |-> t, type |-> "REC", mode |-> m, gap |-> GapOn(h, g),
     ii |-> i, page |-> p, bits |-> {h}, wait |-> w]

-----------------------------------------------------------------------------
(* Who has to wait for whom.                                               *)

\* A request of t for a record, with the flags g and i, against the lock l.
RecHasToWait(t, m, g, i, l, onSupremum) ==
    /\ t # l.trx
    /\ ~Compatible(m, l.mode)
    /\ i \/ (~onSupremum /\ g # "GAP")         \* gap locks wait for nothing,
    /\ i \/ l.gap # "GAP"                      \* record locks not for gap locks,
    /\ ~(g = "GAP" /\ l.gap = "REC_NOT_GAP")   \* gaps not for records,
    /\ ~l.ii                                   \* and nobody for an intention

LockHasToWait(l1, l2) ==
    /\ l1.trx # l2.trx
    /\ ~Compatible(l1.mode, l2.mode)
    /\ l1.type = "REC" =>
          RecHasToWait(l1.trx, l1.mode, l1.gap, l1.ii, l2, l1.bits \cap Suprema # {})

On(l, h) == l.type = "REC" /\ h \in l.bits

SameQueue(l1, l2) ==
    \/ l1.type = "TABLE" /\ l2.type = "TABLE"
    \/ l1.type = "REC" /\ l2.type = "REC" /\ l1.bits \cap l2.bits # {}

\* lock i is blocked by lock j of s: j is ahead of it and conflicts
Blocks(s, j, i) == j < i /\ SameQueue(s[i], s[j]) /\ LockHasToWait(s[i], s[j])

HasToWaitInQueue(s, i) == \E j \in DOMAIN s : Blocks(s, j, i)

TableHas(s, t, m) ==
    \E i \in DOMAIN s : /\ s[i].type = "TABLE"
                        /\ s[i].trx = t
                        /\ StrongerOrEq(s[i].mode, m)

TableOtherHasIncompatible(s, t, m) ==
    \E i \in DOMAIN s : /\ s[i].type = "TABLE"
                        /\ s[i].trx # t
                        /\ ~Compatible(s[i].mode, m)

\* t has a granted explicit lock on h that is at least as strong as asked for
RecHasExpl(s, t, m, g, h) ==
    \E i \in DOMAIN s :
        LET l == s[i]
        IN  /\ On(l, h) /\ l.trx = t
            /\ StrongerOrEq(l.mode, m)
            /\ ~l.wait
            /\ l.gap = "REC_NOT_GAP" => (g = "REC_NOT_GAP" \/ h \in Suprema)
            /\ l.gap = "GAP" => (g = "GAP" \/ h \in Suprema)
            /\ ~l.ii

RecOtherHasConflicting(s, t, m, g, i, h) ==
    \E j \in DOMAIN s : On(s[j], h) /\ RecHasToWait(t, m, g, i, s[j], h \in Suprema)

-----------------------------------------------------------------------------
(* What becomes of the lock table.                                         *)

SomebodyWaitsOn(s, p, h) ==
    \E i \in DOMAIN s : On(s[i], h) /\ s[i].page = p /\ s[i].wait

\* the two differ at most in their bits
Similar(k, l) == [k EXCEPT !.bits = l.bits] = l

FirstSimilar(s, i, l) == Similar(s[i], l) /\ \A j \in 1..(i - 1) : ~Similar(s[j], l)

\* The lock l on the record h goes to its queue: into a similar struct if it is
\* granted and nobody waits for h, and into one of its own at the end otherwise.
AddToQueue(s, l, h) ==
    IF ~l.wait /\ ~SomebodyWaitsOn(s, l.page, h) /\ \E i \in DOMAIN s : Similar(s[i], l)
    THEN [i \in DOMAIN s |-> IF FirstSimilar(s, i, l)
                             THEN [s[i] EXCEPT !.bits = @ \cup {h}] ELSE s[i]]
    ELSE Append(s, l)

\* A granted request that is not an insert intention goes to the queue of h.
RecAddToQueue(s, t, m, g, p, h) ==
    AddToQueue(s, NewRecLock(t, m, g, FALSE, p, h, FALSE), h)

\* on the hash chain of the same page, or in the queue of the table
SameList(k, l) == k.type = l.type /\ (l.type = "REC" => k.page = l.page)

\* mutant: a waiter is granted whoever is still ahead of it
GrantEveryWaiter(s, l, first) ==
    [i \in DOMAIN s |->
        IF s[i].wait /\ SameList(s[i], l) /\ i >= first
        THEN [s[i] EXCEPT !.wait = FALSE] ELSE s[i]]

\* lock_grant to the waiters on the page, or the table, of l from position first
\* on that nothing ahead of them blocks any more
GrantWaiters(s, l, first) ==
    [i \in DOMAIN s |->
        IF /\ s[i].wait /\ SameList(s[i], l) /\ i >= first
           /\ ~HasToWaitInQueue(s, i)
        THEN [s[i] EXCEPT !.wait = FALSE] ELSE s[i]]

Without(s, i) == [j \in 1..(Len(s) - 1) |-> s[IF j < i THEN j ELSE j + 1]]

\* mutant: nobody is looked at
DequeueSilently(s, i) == Without(s, i)

\* A struct leaves its queue: all waiters of the page are looked at, but only
\* those of a table queue that were behind it.
Dequeue(s, i) == GrantWaiters(Without(s, i), s[i], IF s[i].type = "TABLE" THEN i ELSE 1)

\* A waiting record request gives up its bit; the empty struct stays.
ForgetRecWait(s, i) == [s EXCEPT ![i].bits = {}, ![i].wait = FALSE]

ResetBit(s, i, h) == [s EXCEPT ![i].bits = @ \ {h}]

LastOf(s, t, h, m) ==
    CHOOSE i \in DOMAIN s :
        /\ On(s[i], h) /\ s[i].trx = t /\ s[i].mode = m
        /\ \A j \in (i + 1)..Len(s) : ~(On(s[j], h) /\ s[j].trx = t /\ s[j].mode = m)

\* mutant: nobody is granted the lock that was given up
RecUnlockSilently(s, t, h, m) ==
    IF \E i \in DOMAIN s : On(s[i], h) /\ s[i].trx = t /\ s[i].mode = m
    THEN ResetBit(s, LastOf(s, t, h, m), h) ELSE s

\* lock_rec_unlock: the last lock of t on h in mode m loses its bit
RecUnlock(s, t, h, m) ==
    IF \E i \in DOMAIN s : On(s[i], h) /\ s[i].trx = t /\ s[i].mode = m
    THEN LET u == ResetBit(s, LastOf(s, t, h, m), h)
         IN  [i \in DOMAIN u |->
                IF u[i].wait /\ On(u[i], h) /\ ~HasToWaitInQueue(u, i)
                THEN [u[i] EXCEPT !.wait = FALSE] ELSE u[i]]
    ELSE s

-----------------------------------------------------------------------------
(* Locks that outlive the record they were set on.                         *)

\* For each of the donors, in the order of the queue, the record heir of page p
\* gets a granted gap lock.
InheritToGap(s, donors, p, heir) ==
    LET after[i \in 0..Len(s)] ==
            IF i = 0 THEN s
            ELSE IF i \in donors
                 THEN RecAddToQueue(after[i - 1], s[i].trx, s[i].mode, "GAP", p, heir)
                 ELSE after[i - 1]
    IN  after[Len(s)]

\* Structs on h whose gap lock a record inserted before h inherits.
GapDonors(s, h) ==
    {i \in DOMAIN s : /\ On(s[i], h)
                      /\ ~s[i].ii
                      /\ h \in Suprema \/ s[i].gap # "REC_NOT_GAP"}

\* Structs on h that the record behind h inherits when h is removed, where rc
\* are the transactions at READ COMMITTED.
Donors(s, h, rc) ==
    {i \in DOMAIN s : /\ On(s[i], h)
                      /\ ~s[i].ii
                      /\ ~(s[i].trx \in rc /\ s[i].mode = "X")}

\* The granted locks on h lose their bits, the requests that wait are withdrawn.
ResetAndReleaseWait(s, h) ==
    [i \in DOMAIN s |->
        IF ~On(s[i], h) THEN s[i]
        ELSE IF s[i].wait THEN [s[i] EXCEPT !.bits = {}, !.wait = FALSE]
        ELSE [s[i] EXCEPT !.bits = @ \ {h}]]

UpdateInsert(s, p, h, next) == InheritToGap(s, GapDonors(s, next), p, h)

\* What h leaves when it is removed goes to the record heir of page p.
UpdateDelete(s, h, p, heir, rc) ==
    ResetAndReleaseWait(InheritToGap(s, Donors(s, h, rc), p, heir), h)

-----------------------------------------------------------------------------
(* Locks that move with their records from page to page.  A struct stays   *)
(* on its page, even without a bit, until the page is freed.               *)

\* The bits of l on the records in hs are entered again on page q, in the order of
\* the records; h becomes to[h].
Reenter(s, l, hs, q, to) ==
    LET after[h \in 0..(MaxKey + 6)] ==
            IF h = 0 THEN s
            ELSE IF h \in hs /\ h \in l.bits
                 THEN AddToQueue(after[h - 1],
                                 [l EXCEPT !.page = q, !.bits = {to[h]}, !.gap = GapOn(to[h], @)],
                                 to[h])
                 ELSE after[h - 1]
    IN  after[MaxKey + 6]

OnPageOf(l, p) == l.type = "REC" /\ l.page = p

\* All bits on the records in hs of page p are reset, and the requests taken back.
ResetBits(s, p, hs) ==
    [i \in DOMAIN s |->
        IF OnPageOf(s[i], p) /\ s[i].bits \cap hs # {}
        THEN [s[i] EXCEPT !.bits = @ \ hs, !.wait = FALSE] ELSE s[i]]

\* They are entered again, in the order of the queue, on page q.  A request that
\* waited waits again, for nobody else is there before the first of them.
Requeue(s, p, hs, q, to) ==
    LET after[i \in 0..Len(s)] ==
            IF i = 0 THEN ResetBits(s, p, hs)
            ELSE IF OnPageOf(s[i], p) THEN Reenter(after[i - 1], s[i], hs, q, to)
            ELSE after[i - 1]
    IN  after[Len(s)]

\* lock_rec_move
RecMove(s, p, h, q, to) == Requeue(s, p, {h}, q, [g \in {h} |-> to])

\* lock_move_rec_list_end, lock_move_rec_list_start: the records ks
MoveRecList(s, p, ks, q) == Requeue(s, p, ks, q, [h \in ks |-> h])

MoveReorganizePage(s, p) ==
    LET hs == Keys \cup {SupremumOf(p), InfimumOf(p)}
    IN  Requeue(s, p, hs, p, [h \in hs |-> h])

FreeAllFromDiscardPage(s, p) ==
    LET after[i \in 0..Len(s)] ==
            IF i = 0 THEN <<>>
            ELSE IF OnPageOf(s[i], p) THEN after[i - 1]
            ELSE Append(after[i - 1], s[i])
    IN  after[Len(s)]

\* The records of the root, where it is a leaf, are copied to page q, or the
\* other way round.
RootRaise(s, ks, q) ==
    RecMove(MoveRecList(s, Root, ks, q), Root, SupremumOf(Root), q, SupremumOf(q))

CopyAndDiscard(s, p, ks) ==
    FreeAllFromDiscardPage(
        RecMove(MoveRecList(s, p, ks, Root), p, SupremumOf(p), Root, SupremumOf(Root)), p)

\* The records ks are moved from page p to a new page q on the right, or on the
\* left, where min is the first record of the page on the right afterwards.
SplitRight(s, p, ks, q, min, rc) ==
    LET moved == RecMove(MoveRecList(s, p, ks, q), p, SupremumOf(p), q, SupremumOf(q))
    IN  InheritToGap(moved, Donors(moved, min, rc), p, SupremumOf(p))

SplitLeft(s, p, ks, q, min, rc) ==
    LET moved == MoveRecList(s, p, ks, q)
    IN  InheritToGap(moved, Donors(moved, min, rc), q, SupremumOf(q))

\* The records ks of page q go to page p on its left, where first is the least
\* of them, and q is freed.
MergeLeft(s, p, q, ks, first, rc) ==
    LET moved == UpdateDelete(MoveRecList(s, q, ks, p), SupremumOf(p), p, first, rc)
    IN  FreeAllFromDiscardPage(RecMove(moved, q, SupremumOf(q), p, SupremumOf(p)), q)

\* The records ks of page p go to page q on its right, where succ was the first
\* record, and p is freed.
MergeRight(s, p, q, ks, succ, rc) ==
    FreeAllFromDiscardPage(
        UpdateDelete(MoveRecList(s, p, ks, q), SupremumOf(p), q, succ, rc), p)

\* Page p is freed with its only record h; heir, on page q, inherits everything.
Discard(s, p, h, q, heir, rc) ==
    FreeAllFromDiscardPage(
        UpdateDelete(UpdateDelete(s, h, q, heir, rc), SupremumOf(p), q, heir, rc), p)

\* mutant: the supremum keeps what it inherited in the split
RestoreSupremumNot(s, p, h, rc) == s

\* The supremum of p is the predecessor of the replaced record h, and inherits
\* from h in the place of what it has.
RestoreSupremum(s, p, h, rc) ==
    LET bare == ResetAndReleaseWait(s, SupremumOf(p))
    IN  InheritToGap(bare, Donors(bare, h, rc), p, SupremumOf(p))

-----------------------------------------------------------------------------
(* A request for a record lock: the fast path, and the general one.        *)

OnPage(s, p) == {i \in DOMAIN s : s[i].type = "REC" /\ s[i].page = p}

FastPathApplies(s, t, m, g, p, h) ==
    \/ OnPage(s, p) = {}
    \/ \E i \in DOMAIN s : /\ OnPage(s, p) = {i}
                           /\ s[i].trx = t /\ s[i].mode = m /\ s[i].gap = g
                           /\ ~s[i].ii /\ ~s[i].wait

\* the fast path sets no lock when the caller's own change is the lock
FastPath(s, impl, t, m, g, p, h) ==
    IF impl THEN s
    ELSE IF OnPage(s, p) = {} THEN Append(s, NewRecLock(t, m, g, FALSE, p, h, FALSE))
    ELSE [i \in DOMAIN s |-> IF i \in OnPage(s, p)
                             THEN [s[i] EXCEPT !.bits = @ \cup {h}] ELSE s[i]]

SlowPathGrants(s, t, m, g, h) ==
    RecHasExpl(s, t, m, g, h) \/ ~RecOtherHasConflicting(s, t, m, g, FALSE, h)

SlowPath(s, impl, t, m, g, p, h) ==
    IF impl \/ RecHasExpl(s, t, m, g, h) THEN s
    ELSE RecAddToQueue(s, t, m, g, p, h)

RecLockGrants(s, t, m, g, p, h) ==
    FastPathApplies(s, t, m, g, p, h) \/ SlowPathGrants(s, t, m, g, h)

RecLock(s, impl, t, m, g, p, h) ==
    IF FastPathApplies(s, t, m, g, p, h) THEN FastPath(s, impl, t, m, g, p, h)
    ELSE SlowPath(s, impl, t, m, g, p, h)
=============================================================================

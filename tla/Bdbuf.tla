------------------------------- MODULE Bdbuf -------------------------------
(***************************************************************************)
(* The block device buffer cache (cpukit/libblock/src/bdbuf.c) between the  *)
(* file systems and the disk drivers: buffer descriptors (BDs) in groups,   *)
(* the tree of the blocks in the cache, the LRU, modified and sync lists,   *)
(* the three sets of waiters, the swap-out task, its workers and the        *)
(* read-ahead task.                                                         *)
(*                                                                          *)
(* All of it is protected by one cache lock.  The state it protects is the  *)
(* record cache; an operator with a first parameter c is a piece of code    *)
(* that runs with the lock held and returns the cache it leaves behind.  A  *)
(* step of the specification is what a task does from taking the lock to    *)
(* giving it up, in rtems_bdbuf_unlock_cache() or in a wait.                *)
(*                                                                          *)
(* The contents of a block are abstracted to one bit: a BD is fresh, and a  *)
(* block of the medium is current (disk), if it holds what a file system    *)
(* put into the cache last.  What a purge or a failed write makes the cache *)
(* give up counts no more from then on (GiveUp): the medium is current      *)
(* whatever it holds.  No other discard is excused.                         *)
(* The block size of a device is fixed.                                     *)
(***************************************************************************)
EXTENDS Integers, FiniteSets, Sequences, SequencesExt

CONSTANTS
    User,           \* the tasks of the file systems
    Device,         \* the disk devices
    Count,          \* dd->block_count of each device
    Size,           \* dd->bds_per_group of each device
    Groups,         \* bdbuf_cache.group_count
    MaxBds,         \* bdbuf_cache.max_bds_per_group
    MaxWrite,       \* max_write_blocks of the configuration
    MaxReadAhead,   \* max_read_ahead_blocks of the configuration
    Worker,         \* the swap-out workers
    Swapout,        \* the swap-out task
    ReadAhead,      \* the read-ahead task
    Consecutive,    \* the devices that only take consecutive blocks
    Calls,          \* bound: what each task calls: a set of "get", "read",
                    \* "release", "modified", "sync", "syncdev" and "purge"
    Wants,          \* bound: the blocks each task asks for (it synchronises
                    \* and purges their devices)
    Fails,          \* bound: the transfers that may fail: a set of "read",
                    \* "write" and "ahead"
    None

ASSUME BdbufAssumption ==
    /\ Groups \in Nat \ {0} /\ MaxBds \in Nat \ {0}
    /\ MaxWrite \in Nat \ {0} /\ MaxReadAhead \in Nat
    /\ \A d \in Device : /\ Count[d] \in Nat \ {0}
                         /\ Size[d] \in 1 .. MaxBds /\ MaxBds % Size[d] = 0
    /\ Fails \subseteq {"read", "write", "ahead"}
    /\ Swapout \notin Worker

VARIABLES
    cache,     \* what the cache lock protects
    user,      \* where each task of a file system is
    sync,      \* the sync lock and the state of rtems_bdbuf_syncdev()
    writer,    \* the swap-out task and its workers
    freeWorker,\* swapout_free_workers
    ahead      \* the read-ahead task and the read-ahead state of the devices

vars == <<cache, user, sync, writer, freeWorker, ahead>>

Bd == (1 .. Groups) \X (0 .. MaxBds - 1)
Block(d) == 0 .. Count[d] - 1
Key == UNION {{d} \X Block(d) : d \in Device}

Accessed == {"ACCESS_CACHED", "ACCESS_MODIFIED", "ACCESS_EMPTY", "ACCESS_PURGED"}
Transferred == {"TRANSFER", "TRANSFER_PURGED"}

----------------------------------------------------------------------------
(* The waiters, the groups, the tree and the lists.                        *)

Fatal(c) == [c EXCEPT !.fatal = TRUE]
SetState(c, b, s) == [c EXCEPT !.bd[b].state = s]
GroupObtain(c, b) == [c EXCEPT !.users[b[1]] = @ + 1]
GroupRelease(c, b) == [c EXCEPT !.users[b[1]] = @ - 1]

\* A task counts as a waiter until it has the lock again; wake lets all go.
AnonymousWait(c, t, w) ==
    [c EXCEPT !.on[t] = w, !.asleep = @ \cup {t}]
Wait(c, t, b, w) ==
    AnonymousWait([GroupObtain(c, b) EXCEPT !.bd[b].waiters = @ + 1], t, w)
Wake(c, w) == [c EXCEPT !.asleep = {t \in @ : c.on[t] # w}]
WakeSwapper(c) == [c EXCEPT !.event = TRUE]
HasBufferWaiters(c) == \E t \in User : c.on[t] = "buffer"

Without(s, b) == SelectSeq(s, LAMBDA x : x # b)
OnList(c, b) == \E i \in {"lru", "modified", "sync"} : b \in ToSet(c[i])

\* Extracting a node that is on no chain corrupts the chains.
Extract(c, b) ==
    [c EXCEPT !.lru = Without(@, b), !.modified = Without(@, b),
              !.sync = Without(@, b), !.fatal = @ \/ ~OnList(c, b)]

Find(c, k) == {b \in c.tree : c.bd[b].key = k}

\* The tree is searched by device and block: what goes is the BD found there.
RemoveFromTree(c, b) ==
    [c EXCEPT !.tree = @ \ Find(c, c.bd[b].key),
              !.fatal = @ \/ Find(c, c.bd[b].key) = {}]

RemoveFromTreeAndLruList(c, b) ==
    CASE c.bd[b].state = "FREE"   -> Extract(c, b)
      [] c.bd[b].state = "CACHED" -> Extract(RemoveFromTree(c, b), b)
      [] OTHER                    -> Fatal(c)

\* The other fields of a free BD are set anew before they are read again.
FreeBd == [state |-> "FREE", key |-> None, waiters |-> 0,
           held |-> FALSE, fresh |-> FALSE, owed |-> FALSE]
MakeFree(c, b) == [c EXCEPT !.bd[b] = FreeBd, !.lru = <<b>> \o @]
MakeCached(c, b) ==
    [SetState(c, b, "CACHED") EXCEPT !.lru = Append(@, b), !.bd[b].owed = FALSE]

MakeEmpty(c, b) == [SetState(c, b, "EMPTY") EXCEPT !.bd[b].owed = FALSE]
DiscardBuffer(c, b) ==
    IF c.bd[b].waiters = 0
    THEN MakeFree(RemoveFromTree(MakeEmpty(c, b), b), b)
    ELSE MakeEmpty(c, b)

\* Mutant: a release without a waiter for the buffer wakes nobody.
WakeAfterAccessOwnOnly(c, b) ==
    IF c.bd[b].waiters > 0 THEN Wake(c, "access") ELSE c

WakeAfterAccess(c, b) ==
    Wake(c, IF c.bd[b].waiters > 0 THEN "access" ELSE "buffer")
AddToLruListAfterAccess(c, b) ==
    WakeAfterAccess(MakeCached(GroupRelease(c, b), b), b)
DiscardBufferAfterAccess(c, b) ==
    LET d == DiscardBuffer(GroupRelease(c, b), b) IN WakeAfterAccess(d, b)

\* A file system has put new data into the block.
Modify(c, b) ==
    [c EXCEPT !.bd[b].fresh = TRUE, !.disk[c.bd[b].key] = FALSE]

\* rtems_bdbuf_add_to_modified_list_after_access() behind its wait for a sync.
\* Only the first modified release of a block sets the hold timer.
AddToModifiedList(c, b) ==
    LET first == c.bd[b].state \in {"ACCESS_CACHED", "ACCESS_EMPTY"}
        m == [SetState(Modify(c, b), b, "MODIFIED") EXCEPT
                !.bd[b].held = @ \/ first, !.modified = Append(@, b)]
    IN IF c.bd[b].waiters > 0 THEN Wake(m, "access")
       ELSE IF HasBufferWaiters(c) THEN WakeSwapper(m) ELSE m

----------------------------------------------------------------------------
(* A buffer for a block that is not in the cache.                          *)

BdOfGroup(g, n, i) == <<g, i * (MaxBds \div n)>>

Forget(c, b) == [RemoveFromTreeAndLruList(c, b) EXCEPT !.bd[b] = FreeBd]

GroupRealloc(c, g, n) ==
    LET old == FoldLeft(LAMBDA a, i : Forget(a, BdOfGroup(g, c.size[g], i)),
                        c, [i \in 1 .. c.size[g] |-> i - 1])
        new == FoldLeft(LAMBDA a, i : MakeFree(a, BdOfGroup(g, n, i)),
                        [old EXCEPT !.size[g] = n], [i \in 1 .. n - 1 |-> i])
    IN IF n > 1 THEN Wake(new, "buffer") ELSE new

SetupEmptyBuffer(c, b, k) ==
    [c EXCEPT !.bd[b] = [@ EXCEPT !.state = "EMPTY", !.key = k, !.waiters = 0,
                                  !.fresh = FALSE],
              !.tree = @ \cup {b},
              !.fatal = @ \/ Find(c, k) # {}]

\* Mutant: a buffer somebody waits for is recycled.
RecyclableWaitedFor(c, d, b) == c.size[b[1]] = Size[d] \/ c.users[b[1]] = 0

Recyclable(c, d, b) ==
    /\ c.bd[b].waiters = 0
    /\ c.size[b[1]] = Size[d] \/ c.users[b[1]] = 0

\* The first of the list that may be recycled; the BD taken with its cache.
FromLruList(c, d) == SelectSeq(c.lru, LAMBDA b : Recyclable(c, d, b))

GetBufferFromLruList(c, k) ==
    LET b == Head(FromLruList(c, k[1]))
        fits == c.size[b[1]] = Size[k[1]]
        e == IF fits THEN b ELSE <<b[1], 0>>
        f == IF fits THEN RemoveFromTreeAndLruList(c, b)
                     ELSE GroupRealloc(c, b[1], Size[k[1]])
    IN [bd |-> e, cache |-> SetupEmptyBuffer(f, e, k)]

----------------------------------------------------------------------------
(* Transfers.                                                              *)

\* Mutant: the status of the request is not looked at.
AfterTransferAnyStatus(c, b, ok) ==
    IF c.bd[b].state = "TRANSFER" THEN MakeCached(c, b) ELSE DiscardBuffer(c, b)

AfterTransfer(c, b, ok) ==
    IF ok /\ c.bd[b].state = "TRANSFER" THEN MakeCached(c, b) ELSE DiscardBuffer(c, b)

\* What was put into the blocks of keys is given up.
GiveUp(c, keys) == [c EXCEPT !.disk = [k \in Key |-> @[k] \/ k \in keys]]

\* What the driver does to the data of a BD in a request.
MovedData(c, b, ok, read) ==
    LET k == c.bd[b].key
    IN CASE ok /\ read   -> [c EXCEPT !.bd[b].fresh = c.disk[k]]
         [] ok /\ ~read  -> [c EXCEPT !.disk[k] = c.bd[b].fresh]
         [] ~ok /\ read  -> c
         [] ~ok /\ ~read -> GiveUp(c, {k})

\* The end of a request for the BDs of bds: wake whom it was waited for by.
TransferDone(c, bds, ok, read) ==
    LET One(a, b) == AfterTransfer(MovedData(GroupRelease(a, b), b, ok, read), b, ok)
        d == FoldLeft(One, c, bds)
        some == {c.bd[b].waiters > 0 : b \in ToSet(bds)}
        e == IF TRUE \in some THEN Wake(d, "transfer") ELSE d
    IN IF FALSE \in some THEN Wake(e, "buffer") ELSE e

\* The answers of a device to a request.
Answer(request) == IF request \in Fails THEN BOOLEAN ELSE {TRUE}

----------------------------------------------------------------------------
(* Read-ahead: a miss sets a trigger, a read of the trigger block hands the *)
(* device to the read-ahead task.                                          *)

\* A device without a trigger is not on the chain, and its next block is not
\* read until it has one.
NoTrigger == -1
ClearTrigger(a, d) == [a EXCEPT !.trigger[d] = NoTrigger, !.next[d] = 0]

ReadAheadCancel(a, d) == [a EXCEPT !.chain = Without(@, d)]
ReadAheadReset(a, d) == ClearTrigger(ReadAheadCancel(a, d), d)

\* The trigger is of no use without a read-ahead task.
SetReadAheadTrigger(a, d, b) ==
    IF MaxReadAhead = 0 \/ a.trigger[d] = b THEN a
    ELSE [ReadAheadCancel(a, d) EXCEPT !.trigger[d] = b + 1, !.next[d] = b + 2]

CheckReadAheadTrigger(a, d, b) ==
    IF MaxReadAhead > 0 /\ a.trigger[d] = b /\ d \notin ToSet(a.chain)
    THEN [a EXCEPT !.event = @ \/ a.chain = <<>>, !.chain = Append(@, d)]
    ELSE a

\* The buffers of a read-ahead of n blocks: up to the first that is in the
\* cache or for which there is no buffer.
ReadAheadBuffers(c, k, n) ==
    LET One(a, i) ==
            LET j == <<k[1], k[2] + i>>
            IN IF a.stop \/ Find(a.cache, j) # {} \/ FromLruList(a.cache, k[1]) = <<>>
               THEN [a EXCEPT !.stop = TRUE]
               ELSE LET g == GetBufferFromLruList(a.cache, j)
                    IN [a EXCEPT !.bds = Append(@, g.bd),
                                 !.cache = SetState(GroupObtain(g.cache, g.bd), g.bd, "TRANSFER")]
    IN FoldLeft(One, [cache |-> c, bds |-> <<>>, stop |-> FALSE],
                [i \in 1 .. n |-> i - 1])

----------------------------------------------------------------------------
(* rtems_bdbuf_get() and rtems_bdbuf_read().                               *)

At(t, pc) == user[t].pc = pc
Goto(t, pc) == user' = [user EXCEPT ![t].pc = pc]
Outside == [pc |-> "idle", op |-> None, key |-> None, bd |-> None]
Leave(t) == user' = [user EXCEPT ![t] = Outside]

\* A wait is over once the task has the cache lock again: the cache it finds.
Awake(t, pc) == At(t, pc) /\ t \notin cache.asleep
Resumed(t) ==
    LET b == user[t].bd
        c == [cache EXCEPT !.on[t] = None]
    IN IF b = None THEN c ELSE [GroupRelease(c, b) EXCEPT !.bd[b].waiters = @ - 1]

\* rtems_bdbuf_wait_for_access(): the wait that the state of the BD asks for,
\* or the BD taken off its list.
WaitForAccess(c, t, b) ==
    LET s == c.bd[b].state
    IN CASE s \in Accessed                  -> Wait(c, t, b, "access")
         [] s \in Transferred \cup {"SYNC"} -> Wait(c, t, b, "transfer")
         [] OTHER                           -> Fatal(c)

Taken(c, b) ==
    LET s == c.bd[b].state
        d == IF s = "MODIFIED" THEN GroupRelease(c, b) ELSE c
        e == IF s = "EMPTY" THEN d ELSE Extract(d, b)
    IN [GroupObtain(e, b) EXCEPT !.bd[b].owed = FALSE]

Place(t, pc, op, k, b) ==
    user' = [user EXCEPT ![t] = [pc |-> pc, op |-> op, key |-> k, bd |-> b]]

TakeBuffer(t, c, b, op, k) ==
    LET s == c.bd[b].state
        there == s \in {"CACHED", "MODIFIED"}
        read == s = "EMPTY" /\ op = "read"
        new == CASE s = "CACHED"   -> "ACCESS_CACHED"
                 [] s = "MODIFIED" -> "ACCESS_MODIFIED"
                 [] OTHER          -> IF read THEN "TRANSFER" ELSE "ACCESS_EMPTY"
    IN /\ cache' = IF there \/ s = "EMPTY" THEN SetState(Taken(c, b), b, new)
                   ELSE WaitForAccess(c, t, b)
       /\ Place(t, CASE read -> "reading"
                     [] there \/ (s = "EMPTY" /\ ~read) -> "use"
                     [] OTHER -> "access", op, k, b)
       /\ ahead' = CASE read -> SetReadAheadTrigger(ahead, k[1], k[2])
                     [] there /\ op = "read" -> CheckReadAheadTrigger(ahead, k[1], k[2])
                     [] OTHER -> ahead
       /\ UNCHANGED <<sync, writer, freeWorker>>

\* The block is in the cache, or takes a buffer of the LRU list, or waits.
Search(t, c, op, k) ==
    LET g == GetBufferFromLruList(c, k)
    IN \/ \E b \in Find(c, k) : TakeBuffer(t, c, b, op, k)
       \/ /\ Find(c, k) = {} /\ FromLruList(c, k[1]) # <<>>
          /\ TakeBuffer(t, g.cache, g.bd, op, k)
       \/ /\ Find(c, k) = {} /\ FromLruList(c, k[1]) = <<>>
          /\ cache' = AnonymousWait(IF c.modified # <<>> THEN WakeSwapper(c) ELSE c,
                                    t, "buffer")
          /\ Place(t, "search", op, k, None)
          /\ UNCHANGED <<sync, writer, freeWorker, ahead>>

Access(t, op, k) == At(t, "idle") /\ Search(t, cache, op, k)
SearchAgain(t) == Awake(t, "search") /\ Search(t, Resumed(t), user[t].op, user[t].key)
AccessAgain(t) ==
    /\ Awake(t, "access")
    /\ TakeBuffer(t, Resumed(t), user[t].bd, user[t].op, user[t].key)

\* The rest of rtems_bdbuf_read() once the driver has answered.
ReadDone(t, ok) ==
    LET b == user[t].bd
        done == TransferDone(cache, <<b>>, ok, TRUE)
    IN /\ At(t, "reading")
       /\ ahead' = CheckReadAheadTrigger(ahead, user[t].key[1], user[t].key[2])
       /\ \/ /\ ok
             /\ cache' = GroupObtain(Extract(SetState(done, b, "ACCESS_CACHED"), b), b)
             /\ Goto(t, "use")
          \/ /\ ~ok
             /\ cache' = done
             /\ Leave(t)
       /\ UNCHANGED <<sync, writer, freeWorker>>

----------------------------------------------------------------------------
(* rtems_bdbuf_release(), rtems_bdbuf_release_modified().                  *)

SyncInProgress(b) == sync.active /\ sync.device = cache.bd[b].key[1]

\* With a sync of the device in progress the release waits for its end.
ReleaseToModified(t) ==
    /\ cache' = IF SyncInProgress(user[t].bd) THEN cache
                ELSE AddToModifiedList(cache, user[t].bd)
    /\ user' = [user EXCEPT ![t] = IF SyncInProgress(@.bd) THEN [@ EXCEPT !.pc = "blocked"]
                                   ELSE Outside]
    /\ UNCHANGED <<sync, writer, freeWorker, ahead>>

Release(t) ==
    LET b == user[t].bd
        s == cache.bd[b].state
    IN /\ At(t, "use")
       /\ \/ s = "ACCESS_MODIFIED" /\ ReleaseToModified(t)
          \/ /\ s # "ACCESS_MODIFIED"
             /\ cache' = CASE s = "ACCESS_CACHED" -> AddToLruListAfterAccess(cache, b)
                           [] s \in {"ACCESS_EMPTY", "ACCESS_PURGED"} ->
                                DiscardBufferAfterAccess(cache, b)
                           [] OTHER -> Fatal(cache)
             /\ Leave(t)
             /\ UNCHANGED <<sync, writer, freeWorker, ahead>>

\* A purged buffer is dropped, whatever the file system put into it.
DropPurged(t) ==
    LET b == user[t].bd
    IN /\ cache' = IF cache.bd[b].state = "ACCESS_PURGED"
                   THEN DiscardBufferAfterAccess(cache, b) ELSE Fatal(cache)
       /\ Leave(t)
       /\ UNCHANGED <<sync, writer, freeWorker, ahead>>

HeldValid(t) ==
    cache.bd[user[t].bd].state \in {"ACCESS_CACHED", "ACCESS_EMPTY", "ACCESS_MODIFIED"}

ReleaseModified(t) ==
    /\ At(t, "use")
    /\ \/ HeldValid(t) /\ ReleaseToModified(t)
       \/ ~HeldValid(t) /\ DropPurged(t)

\* The release waited for the sync lock, without the cache lock.
PassSyncLock(t) ==
    /\ user[t].pc = "blocked" /\ sync.lock = None
    /\ Goto(t, "passed")
    /\ UNCHANGED <<cache, sync, writer, freeWorker, ahead>>

ReleaseAfterSync(t) ==
    /\ At(t, "passed")
    /\ cache' = AddToModifiedList(cache, user[t].bd)
    /\ Leave(t)
    /\ UNCHANGED <<sync, writer, freeWorker, ahead>>

----------------------------------------------------------------------------
(* rtems_bdbuf_sync(): release as modified and wait for the write.         *)

SyncAfterAccess(c, t, b) ==
    LET s == [SetState(Modify(c, b), b, "SYNC") EXCEPT !.sync = Append(@, b)]
        w == IF c.bd[b].waiters > 0 THEN Wake(s, "access") ELSE s
    IN Wait(WakeSwapper(w), t, b, "transfer")

SyncBuffer(t) ==
    /\ At(t, "use")
    /\ \/ /\ HeldValid(t)
          /\ cache' = SyncAfterAccess(cache, t, user[t].bd)
          /\ Goto(t, "syncing")
          /\ UNCHANGED <<sync, writer, freeWorker, ahead>>
       \/ ~HeldValid(t) /\ DropPurged(t)

\* The write may have left a buffer that can be recycled.
SyncDone(c, b) ==
    LET s == c.bd[b].state
    IN CASE c.bd[b].waiters > 0 \/ s \notin {"CACHED", "EMPTY"} -> c
         [] c.bd[b].waiters = 0 /\ s = "CACHED" -> Wake(c, "buffer")
         [] c.bd[b].waiters = 0 /\ s = "EMPTY" ->
              Wake(MakeFree(RemoveFromTree(c, b), b), "buffer")

WaitForSyncDone(t) ==
    LET b == user[t].bd
        c == Resumed(t)
        s == c.bd[b].state
    IN /\ Awake(t, "syncing")
       /\ \/ /\ s \in Transferred \cup {"SYNC"}
             /\ cache' = Wait(c, t, b, "transfer")
             /\ UNCHANGED user
          \/ /\ s \notin Transferred \cup {"SYNC"}
             /\ cache' = IF s = "FREE" THEN Fatal(c) ELSE SyncDone(c, b)
             /\ Leave(t)
       /\ UNCHANGED <<sync, writer, freeWorker, ahead>>

----------------------------------------------------------------------------
(* rtems_bdbuf_syncdev(): the sync lock, then the cache lock, then the wait *)
(* for the swap-out task with the sync lock held.                          *)

\* Mark the buffers of d that were released as modified and are not written:
\* the call owes them to its caller.
Owe(c, d) ==
    [c EXCEPT !.bd = [b \in Bd |-> [@[b] EXCEPT !.owed =
        /\ b \in c.tree /\ c.bd[b].key[1] = d /\ ~c.disk[c.bd[b].key]
        /\ c.bd[b].state \in {"MODIFIED", "SYNC", "TRANSFER"}]]]

SyncDev(t, d) ==
    /\ user[t].pc = "idle" /\ sync.lock = None
    /\ user' = [user EXCEPT ![t].pc = "syncdev", ![t].key = <<d, 0>>]
    /\ sync' = [sync EXCEPT !.lock = t]
    /\ UNCHANGED <<cache, writer, freeWorker, ahead>>

SyncDevStart(t) ==
    LET d == user[t].key[1]
    IN /\ At(t, "syncdev")
       /\ sync' = [sync EXCEPT !.active = TRUE, !.requester = t, !.device = d]
       /\ cache' = WakeSwapper(Owe(cache, d))
       /\ Goto(t, "wait_event")
       /\ UNCHANGED <<writer, freeWorker, ahead>>

SyncDevDone(t) ==
    /\ user[t].pc = "wait_event" /\ sync.signalled
    /\ sync' = [sync EXCEPT !.lock = None, !.signalled = FALSE]
    /\ Leave(t)
    /\ UNCHANGED <<cache, writer, freeWorker, ahead>>

----------------------------------------------------------------------------
(* rtems_bdbuf_purge_dev().                                                *)

\* Mutant: the group keeps its count of a purged modified buffer.
GatherForPurgeKeepsCount(c, b) ==
    LET s == c.bd[b].state
    IN CASE s = "SYNC"     -> Extract(GroupRelease(Wake(c, "transfer"), b), b)
         [] s \in {"MODIFIED", "CACHED"} -> Extract(c, b)
         [] s = "TRANSFER" -> SetState(c, b, "TRANSFER_PURGED")
         [] s \in Accessed -> SetState(c, b, "ACCESS_PURGED")
         [] OTHER          -> c

GatherForPurge(c, b) ==
    LET s == c.bd[b].state
    IN CASE s = "SYNC"     -> Extract(GroupRelease(Wake(c, "transfer"), b), b)
         [] s = "MODIFIED" -> Extract(GroupRelease(c, b), b)
         [] s = "CACHED"   -> Extract(c, b)
         [] s = "TRANSFER" -> SetState(c, b, "TRANSFER_PURGED")
         [] s \in Accessed -> SetState(c, b, "ACCESS_PURGED")
         [] OTHER          -> c

\* order: the BDs of the device in the order the tree is walked.
PurgeDev(c, order) ==
    LET list == SelectSeq(order, LAMBDA b : c.bd[b].state \in {"SYNC", "MODIFIED", "CACHED"})
        gathered == FoldLeft(GatherForPurge, c, order)
        purged == FoldLeft(DiscardBuffer, gathered, list)
    IN IF \E b \in ToSet(list) : c.bd[b].waiters = 0
       THEN Wake(purged, "buffer") ELSE purged

Purge(t, d) ==
    /\ At(t, "idle")
    /\ \E order \in SetToSeqs({b \in cache.tree : cache.bd[b].key[1] = d}) :
          cache' = GiveUp(PurgeDev(cache, order), {d} \X Block(d))
    /\ ahead' = ReadAheadReset(ahead, d)
    /\ UNCHANGED <<user, sync, writer, freeWorker>>

----------------------------------------------------------------------------
(* The swap-out task.  It collects the buffers of one device, from the sync *)
(* list first, and writes them or has a worker write them.                 *)

\* Mutant: a sync of the device does not cut the hold timer short.
DueOnTimer(a, list, syncing, expired) ==
    {b \in ToSet(a.cache[list]) :
       HasBufferWaiters(a.cache) \/ ~a.cache.bd[b].held \/ b \in expired}

\* The buffers of a list to be written now.  expired are those whose hold timer
\* reaches zero in this scan.
Due(a, list, syncing, expired) ==
    {b \in ToSet(a.cache[list]) :
       \/ syncing /\ a.dd \in {None, a.cache.bd[b].key[1]}
       \/ HasBufferWaiters(a.cache) \/ ~a.cache.bd[b].held \/ b \in expired}

\* One list: the buffers that are due, of the device dd or, when there is none
\* yet, of the device of the first of them.
ModifiedProcessing(a, list, syncing, expired) ==
    LET c == a.cache
        due == Due(a, list, syncing, expired)
        timed == [b \in Bd |-> [c.bd[b] EXCEPT !.held = @ /\ b \notin due]]
        order == SelectSeq(c[list], LAMBDA b : b \in due)
        dd == IF a.dd # None \/ order = <<>> THEN a.dd ELSE c.bd[Head(order)].key[1]
        taken == {b \in due : c.bd[b].key[1] = dd}
        left == SelectSeq(c[list], LAMBDA b : b \notin taken)
    IN [dd |-> dd,
        bds |-> a.bds \cup taken,
        cache |-> [c EXCEPT ![list] = left,
                     !.bd = [b \in Bd |-> IF b \in taken
                              THEN [timed[b] EXCEPT !.state = "TRANSFER"] ELSE timed[b]]]]

\* The transfer list is sorted by the block number.
Sorted(c, bds) ==
    SortSeq(SetToSeq(bds), LAMBDA x, y : c.bd[x].key[2] < c.bd[y].key[2])

Idle == [pc |-> "receive", todo |-> <<>>, req |-> <<>>]

\* rtems_bdbuf_swapout_write() gives the driver as many buffers as configured,
\* fewer if it needs consecutive blocks and they are not.
Write(c, list) ==
    LET d == c.bd[Head(list)].key[1]
        fits == {n \in 1 .. Min({MaxWrite, Len(list)}) :
                   d \in Consecutive =>
                     \A i \in 2 .. n : c.bd[list[i]].key[2] = c.bd[list[i - 1]].key[2] + 1}
    IN [pc |-> "writing", req |-> SubSeq(list, 1, Max(fits)),
        todo |-> SubSeq(list, Max(fits) + 1, Len(list))]

\* The first critical section of rtems_bdbuf_swapout_processing(), behind the
\* event or the end of the swap-out period if the last scan found nothing.  A
\* worker is taken off the list of free workers even if there is nothing to
\* write.
Scan(expired) ==
    LET woken == writer[Swapout].pc = "receive"
        c == [cache EXCEPT !.event = @ /\ ~woken]
        start == [dd |-> IF sync.active THEN sync.device ELSE None, bds |-> {}, cache |-> c]
        first == ModifiedProcessing(start, "sync", TRUE, {})
        found == ModifiedProcessing(first, "modified", sync.active, expired)
        list == Sorted(cache, found.bds)
        x == IF sync.active \/ freeWorker = <<>> THEN Swapout ELSE Head(freeWorker)
    IN /\ writer[Swapout].pc \in {"receive", "scan"}
       /\ expired # {} => woken
       /\ cache' = found.cache
       /\ freeWorker' = IF x = Swapout THEN freeWorker ELSE Tail(freeWorker)
       /\ \/ /\ list # <<>>
             /\ writer' = [writer EXCEPT ![Swapout].pc = "scan", ![x] = Write(cache, list)]
          \/ /\ list = <<>>
             /\ writer' = [writer EXCEPT ![Swapout].pc =
                             IF sync.active THEN "sync_done" ELSE "receive"]
       /\ UNCHANGED <<user, sync, ahead>>

WriteDone(x, ok) ==
    /\ writer[x].pc = "writing"
    /\ cache' = TransferDone(cache, writer[x].req, ok, FALSE)
    /\ writer' = [writer EXCEPT ![x] =
                     IF @.todo # <<>> THEN Write(cache, @.todo)
                     ELSE [Idle EXCEPT !.pc = IF x = Swapout THEN "scan" ELSE "return"]]
    /\ UNCHANGED <<user, sync, freeWorker, ahead>>

WorkerReturns(x) ==
    /\ writer[x].pc = "return"
    /\ writer' = [writer EXCEPT ![x] = Idle]
    /\ freeWorker' = Append(freeWorker, x)
    /\ UNCHANGED <<cache, user, sync, ahead>>

\* Its second critical section: nothing is left to write for the sync.
NotifyRequester ==
    /\ writer[Swapout].pc = "sync_done"
    /\ sync' = [sync EXCEPT !.active = FALSE, !.requester = None,
                            !.signalled = sync.requester # None]
    /\ writer' = [writer EXCEPT ![Swapout].pc = "receive"]
    /\ UNCHANGED <<cache, user, freeWorker, ahead>>

----------------------------------------------------------------------------
(* The read-ahead task.                                                    *)

\* One device off the chain.  The next read-ahead is triggered in the middle
\* of this one, unless this one meets the end of the device.
ReadAheadDevice(s) ==
    LET d == Head(s.ahead.chain)
        b == s.ahead.next[d]
        n == Min({Count[d] - b, MaxReadAhead})
        full == Count[d] - b >= MaxReadAhead
        got == ReadAheadBuffers(s.cache, <<d, b>>, n)
        off == [s.ahead EXCEPT !.chain = Tail(@)]
        next == IF ~full THEN ClearTrigger(off, d)
                ELSE [off EXCEPT !.trigger[d] = b + n \div 2, !.next[d] = b + n]
    IN CASE b \notin Block(d) -> [s EXCEPT !.ahead = ClearTrigger(off, d)]
         [] b \in Block(d) /\ got.bds = <<>> -> [s EXCEPT !.ahead = off]
         [] b \in Block(d) /\ got.bds # <<>> ->
              [cache |-> got.cache, ahead |-> [next EXCEPT !.req = got.bds]]

\* The loop over the chain holds the cache lock up to the next transfer or the
\* wait for the next event.
ReadAheadLoop(c, a) ==
    LET s == FoldLeft(LAMBDA r, i : IF r.ahead.req # <<>> THEN r ELSE ReadAheadDevice(r),
                      [cache |-> c, ahead |-> a], a.chain)
    IN cache' = s.cache /\ ahead' = s.ahead

ReadAheadWakes ==
    /\ ahead.req = <<>> /\ ahead.event
    /\ ReadAheadLoop(cache, [ahead EXCEPT !.event = FALSE])
    /\ UNCHANGED <<user, sync, writer, freeWorker>>

ReadAheadDone(ok) ==
    /\ ahead.req # <<>>
    /\ ReadAheadLoop(TransferDone(cache, ahead.req, ok, TRUE), [ahead EXCEPT !.req = <<>>])
    /\ UNCHANGED <<user, sync, writer, freeWorker>>

----------------------------------------------------------------------------
Init ==
    /\ cache = [bd |-> [b \in Bd |-> FreeBd],
                size |-> [g \in 1 .. Groups |-> MaxBds],
                users |-> [g \in 1 .. Groups |-> 0],
                tree |-> {},
                lru |-> [i \in 1 .. Groups * MaxBds |->
                           <<(i - 1) \div MaxBds + 1, (i - 1) % MaxBds>>],
                modified |-> <<>>, sync |-> <<>>,
                on |-> [t \in User |-> None], asleep |-> {},
                event |-> FALSE, fatal |-> FALSE,
                disk |-> [k \in Key |-> TRUE]]
    /\ user = [t \in User |-> Outside]
    /\ sync = [lock |-> None, active |-> FALSE, requester |-> None,
               device |-> None, signalled |-> FALSE]
    /\ writer = [x \in Worker \cup {Swapout} |-> Idle]
    /\ freeWorker = SetToSeq(Worker)
    /\ ahead = [chain |-> <<>>, event |-> FALSE, req |-> <<>>,
                trigger |-> [d \in Device |-> NoTrigger], next |-> [d \in Device |-> 0]]

Uses(t, call, d) == call \in Calls[t] /\ \E k \in Wants[t] : k[1] = d

UserStep(t) ==
    \/ \E op \in {"get", "read"} \cap Calls[t], k \in Wants[t] : Access(t, op, k)
    \/ SearchAgain(t) \/ AccessAgain(t)
    \/ \E ok \in Answer("read") : ReadDone(t, ok)
    \/ "release" \in Calls[t] /\ Release(t)
    \/ "modified" \in Calls[t] /\ ReleaseModified(t)
    \/ "sync" \in Calls[t] /\ SyncBuffer(t)
    \/ PassSyncLock(t) \/ ReleaseAfterSync(t) \/ WaitForSyncDone(t)
    \/ \E d \in Device : \/ Uses(t, "syncdev", d) /\ SyncDev(t, d)
                         \/ Uses(t, "purge", d) /\ Purge(t, d)
    \/ SyncDevStart(t) \/ SyncDevDone(t)

WriterStep ==
    \/ \E expired \in SUBSET ToSet(cache.modified) : Scan(expired)
    \/ \E x \in Worker \cup {Swapout}, ok \in Answer("write") : WriteDone(x, ok)
    \/ \E x \in Worker : WorkerReturns(x)
    \/ NotifyRequester

ReadAheadStep ==
    \/ ReadAheadWakes
    \/ \E ok \in Answer("ahead") : ReadAheadDone(ok)

Next == (\E t \in User : UserStep(t)) \/ WriterStep \/ ReadAheadStep

Spec == Init /\ [][Next]_vars

----------------------------------------------------------------------------
(* Properties.                                                             *)

\* The descriptors in use: a group with large buffers has fewer.
InUse == {b \in Bd : b[2] % (MaxBds \div cache.size[b[1]]) = 0}

Holders(b) == {t \in User : user[t].bd = b /\ user[t].pc \in {"use", "blocked", "passed"}}
Requests(b) ==
    {t \in User : user[t].bd = b /\ user[t].pc = "reading"} \cup
    {x \in DOMAIN writer : b \in ToSet(writer[x].todo \o writer[x].req)} \cup
    {x \in {ReadAhead} : b \in ToSet(ahead.req)}

Counted(b) ==
    cache.bd[b].state \in Accessed \cup Transferred \cup {"MODIFIED", "SYNC"}
Waits(t) == cache.on[t] # None /\ user[t].bd # None
WaitingOn(b) == {t \in User : Waits(t) /\ user[t].bd = b}

\* A purge has met the read of a task.  The read goes on to use the buffer
\* that the end of its transfer discards; run bdbuf_purge is about what
\* follows, and the other runs end here.
ReadPurged ==
    \E t \in User : user[t].pc = "reading" /\ cache.bd[user[t].bd].state = "TRANSFER_PURGED"
ReadNotPurged == ~ReadPurged

\* Whenever the cache is unlocked, each buffer is in the tree and on the list
\* that the table of its states in bdbuf.h gives it, once, and its group
\* counts exactly the buffers in use and the tasks that wait for one; no
\* switch of bdbuf.c over the states of a buffer meets an unexpected one.
\* With a purge that meets the read of a task this is the claim of bdbuf.h
\* that run bdbuf_purge refutes; without, it holds (run bdbuf).
StateTable ==
    /\ ~cache.fatal
    /\ LET used == InUse
           listed == cache.lru \o cache.modified \o cache.sync
       IN /\ \A b \in used : LET s == cache.bd[b].state IN
               /\ b \in cache.tree <=> s # "FREE"
               /\ b \in ToSet(cache.lru) <=> s \in {"FREE", "CACHED"}
               /\ b \in ToSet(cache.modified) <=> s = "MODIFIED"
               /\ b \in ToSet(cache.sync) <=> s = "SYNC"
               /\ s = "EMPTY" => cache.bd[b].waiters > 0
               /\ cache.bd[b].waiters = Cardinality(WaitingOn(b))
          /\ cache.tree \subseteq used
          /\ \A x, y \in cache.tree : cache.bd[x].key = cache.bd[y].key => x = y
          /\ IsInjective(listed) /\ ToSet(listed) \subseteq used
          /\ \A g \in 1 .. Groups :
               cache.users[g] = Cardinality({b \in used : b[1] = g /\ Counted(b)})
                 + Cardinality({t \in User : Waits(t) /\ user[t].bd[1] = g})

\* A buffer with a file system or a driver is with one of them only, and a
\* file system has the block it asked for: a wait for the buffer does not
\* look again whose block it is.
OneExternalUser ==
    /\ \A b \in InUse :
         /\ Cardinality(Holders(b)) = IF cache.bd[b].state \in Accessed THEN 1 ELSE 0
         /\ Cardinality(Requests(b)) = IF cache.bd[b].state \in Transferred THEN 1 ELSE 0
    /\ \A t \in User : user[t].bd # None =>
         user[t].bd \in cache.tree /\ cache.bd[user[t].bd].key = user[t].key

\* A buffer with what a file system put in last, and it will be written or
\* is with the file system that decides.
WillBeWritten(k) ==
    \E b \in Find(cache, k) :
        /\ cache.bd[b].fresh
        /\ cache.bd[b].state \in {"MODIFIED", "SYNC", "TRANSFER", "ACCESS_MODIFIED"}

\* What a file system put into the cache is on the medium or in a buffer that
\* will be written, unless a purge or the failure of its own write made the
\* cache give it up: no other discard, no recycling and no reallocation of a
\* group loses it.  A buffer that an access may return without a transfer
\* holds it.
CacheCoherent ==
    /\ \A k \in Key : cache.disk[k] \/ WillBeWritten(k)
    /\ \A b \in cache.tree :
         cache.bd[b].state \in {"CACHED", "ACCESS_CACHED", "MODIFIED", "ACCESS_MODIFIED", "SYNC"}
           => cache.bd[b].fresh

\* "If the transfer fails place the buffers back on the modified list and try
\* again later" (bdbuf.c:2736): so do the buffers of a write that fails,
\* except those that were purged during the write.
FailedWriteRetried ==
    [][\A x \in DOMAIN writer : WriteDone(x, FALSE) =>
         \A b \in ToSet(writer[x].req) :
           cache.bd[b].state = "TRANSFER" => b \in ToSet(cache'.modified)]_vars

\* Nobody sleeps without a reason: a task that waits for a buffer in use
\* sleeps only while it is in use, one that waits for any buffer only while
\* none can be recycled, and then the swap-out task is at work or told of the
\* modified buffers nobody else is about to take, or has seen them and writes
\* them at the latest in its next period.
SleepHasReason ==
    \A t \in cache.asleep :
        LET b == user[t].bd IN
        /\ cache.on[t] = "access" => cache.bd[b].state \in Accessed
        /\ cache.on[t] = "transfer" => cache.bd[b].state \in Transferred \cup {"SYNC"}
        /\ cache.on[t] = "buffer" =>
             /\ FromLruList(cache, user[t].key[1]) = <<>>
             /\ (\E m \in ToSet(cache.modified) : cache.bd[m].waiters = 0 /\ cache.bd[m].held) =>
                  cache.event \/ writer[Swapout].pc # "receive"

\* When rtems_bdbuf_syncdev() returns, every buffer of the device that was
\* released as modified before the call has been written by the swap-out task,
\* unless a file system took it again, it was purged or the device failed.
\* What a worker had taken before the call is not waited for: see
\* SyncDevCompletes.
SyncWritesAll ==
    sync.signalled => \A b \in cache.tree :
        cache.bd[b].owed => Requests(b) \cap Worker # {}

\* "Synchronize all modified buffers for this device with the disk and wait
\* until the transfers have completed" (bdbuf.h:618), whoever carries out the
\* transfers.
SyncDevCompletes ==
    sync.signalled => \A b \in cache.tree : ~cache.bd[b].owed
=============================================================================

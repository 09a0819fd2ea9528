----------------------------- MODULE BlockDevice -----------------------------
(***************************************************************************)
(* Block devices: the requests of src/kernel/blockdev.c, the ramdisk that  *)
(* answers them from the work queue thread (ramdisk.c, workqueue.c), the   *)
(* pager over a range of blocks (blockdev_pager.c), the arithmetic of      *)
(* addresses (lba.c, range.c) and the table of devices (dev.c).            *)
(*                                                                         *)
(* A client is a thread with one request at a time.  The work queue thread *)
(* sleeps in s_waitqueue, where a thread that reads the keyboard may sleep *)
(* as well (keyboard.c).  Numbers of blocks are u32_t: arithmetic is       *)
(* modulo U32.  A KASSERT that fails spins: with interrupts disabled that  *)
(* stops the machine, otherwise only the thread is stuck.                  *)
(***************************************************************************)
EXTENDS Integers, SequencesExt, FiniteSets

CONSTANTS
    Clients, Devs, Names,
    NumBlocks,          \* the size of each ramdisk in blocks
    U32,                \* 2^32
    Extents,            \* the << lba, num_blocks >> clients ask for
    Vals,               \* the contents of a block
    BLOCK_SIZE, PAGE_SIZE,
    PagerExtents,       \* the << start, num_blocks >> pagers are made for
    PageNums            \* the pages their users ask for

range_is_power_of_two(val) == \E k \in 0 .. val : val = 2 ^ k

ASSUME BlockDeviceAssumption ==
    /\ U32 \in Nat \ {0} /\ NumBlocks \in 1 .. U32 - 1
    /\ Extents \subseteq (0 .. U32 - 1) \X (0 .. U32 - 1)
    /\ PagerExtents \subseteq (0 .. U32 - 1) \X (0 .. U32 - 1)
    /\ BLOCK_SIZE \in Nat \ {0} /\ range_is_power_of_two(BLOCK_SIZE)
    /\ PAGE_SIZE \in Nat \ {0} /\ range_is_power_of_two(PAGE_SIZE)
    /\ PageNums \subseteq 0 .. U32 - 1

VARIABLES
    devlist,        \* s_devlist: the names and devices registered
    pager,          \* a blockdev_pager over a range of blocks, once created
    disk,           \* the buffers of the ramdisks
    req,            \* the request of each client
    pc,             \* where a client is
    work,           \* s_workqueue: the requests posted
    worker,         \* the work queue thread: asleep, ready, busy or copied
    item,           \* the request it holds
    s_waitqueue,    \* of workqueue.c: the work queue thread, the reader
    intended,       \* the disks as the requests posted so far leave them
    halted          \* a KASSERT has failed with interrupts disabled

vars == << devlist, pager, disk, req, pc, work, worker, item, s_waitqueue, intended, halted >>

EINVAL == -4
FINISHED == 1           \* BLOCKDEV_REQ_FINISHED; BLOCKDEV_REQ_PENDING is 0
NoReq == << >>
NoPager == << >>
OtherMemory == -2       \* what lies behind the buffer of a ramdisk
Blocks == 0 .. NumBlocks - 1

Init ==
    /\ devlist = << >> /\ pager = NoPager
    /\ disk = [d \in Devs |-> [b \in Blocks |-> 0]]
    /\ req = [c \in Clients |-> NoReq] /\ pc = [c \in Clients |-> "idle"]
    /\ work = << >> /\ worker = "ready" /\ item = NoReq
    /\ s_waitqueue = << >> /\ intended = disk /\ halted = FALSE

-----------------------------------------------------------------------------
range_is_valid_u32(start, num, total) == num <= total /\ start <= total - num

\* lba_add_offset, which asserts that the sum did not wrap.
lba_add_offset(start, offset) == (start + offset) % U32
lba_add_offset_ok(start, offset) == lba_add_offset(start, offset) >= start

\* What memcpy reads from the buffer of ramdisk d.
CopyOut(d, lba, num) ==
    [i \in 1 .. num |-> IF lba + i - 1 \in Blocks THEN d[lba + i - 1] ELSE OtherMemory]

\* The buffer of ramdisk d once memcpy has written to it.
CopyIn(d, lba, buf) ==
    [b \in Blocks |-> IF b - lba + 1 \in DOMAIN buf THEN buf[b - lba + 1] ELSE d[b]]

-----------------------------------------------------------------------------
Registered(n) == {i \in DOMAIN devlist : devlist[i].name = n}

\* dev_register fails with EEXIST for a name that is in use.
dev_register(n, d) ==
    /\ Registered(n) = {}
    /\ devlist' = Append(devlist, [name |-> n, dev |-> d])
    /\ UNCHANGED << pager, disk, req, pc, work, worker, item, s_waitqueue, intended, halted >>

\* dev_find_blockdev, for a name that is registered.
dev_find_blockdev(n) == devlist[Min(Registered(n))].dev

Request(d, lba, num, buf, type, sync) ==
    [dev |-> d, lba |-> lba, num |-> num, buf |-> buf, type |-> type,
     state |-> 0, rc |-> 0, sync |-> sync, want |-> << >>]

\* A client makes a request of its own.
blockdev_create_request(c, d, ext, type, v) ==
    /\ pc[c] = "idle"
    /\ req' = [req EXCEPT ![c] =
                 Request(d, ext[1], ext[2], [i \in 1 .. ext[2] |-> v], type, FALSE)]
    /\ pc' = [pc EXCEPT ![c] = "created"]
    /\ UNCHANGED << devlist, pager, disk, work, worker, item, s_waitqueue, intended, halted >>

\* The superblock, in block 0, is read with blockdev_read_sync.
pfat_read_super(d) == Request(d, 0, 1, << 0 >>, "read", TRUE)

\* A name that is not registered is ENODEV.
pfat_create_instance(c, n) ==
    /\ pc[c] = "idle" /\ Registered(n) # {}
    /\ req' = [req EXCEPT ![c] = pfat_read_super(dev_find_blockdev(n))]
    /\ pc' = [pc EXCEPT ![c] = "created"]
    /\ UNCHANGED << devlist, pager, disk, work, worker, item, s_waitqueue, intended, halted >>

(***************************************************************************)
(* blockdev_pager_create: a range that reaches past the end of the device, *)
(* or a block larger than a page, is EINVAL.  The model has one pager.     *)
(***************************************************************************)
blockdev_pager_create(d, start, num) ==
    /\ pager = NoPager
    /\ range_is_valid_u32(start, num, NumBlocks) /\ BLOCK_SIZE <= PAGE_SIZE
    /\ pager' = [dev |-> d, start |-> start, num |-> num,
                 per_page |-> PAGE_SIZE \div BLOCK_SIZE]
    /\ UNCHANGED << devlist, disk, req, pc, work, worker, item, s_waitqueue, intended, halted >>

\* The blocks of a page, as a start and an exclusive end.
IoStart(p) == lba_add_offset(pager.start, (p * pager.per_page) % U32)
RangeEnd == lba_add_offset(pager.start, pager.num)

\* A mutation: the incomplete page at the end is not treated specially.
IoEnd_unbounded(p) == lba_add_offset(IoStart(p), pager.per_page)

IoEnd(p) == Min({RangeEnd, lba_add_offset(IoStart(p), pager.per_page)})

\* The asserts on the addresses of a page.
AddressesOk(p) ==
    /\ lba_add_offset_ok(pager.start, (p * pager.per_page) % U32)
    /\ lba_add_offset_ok(IoStart(p), pager.per_page)
    /\ lba_add_offset_ok(pager.start, pager.num)
    /\ IoStart(p) <= IoEnd(p)

\* blockdev_pager_rw_page: a request for the blocks of page p.
blockdev_pager_rw_page(c, p, type, v) ==
    /\ pc[c] = "idle" /\ pager # NoPager
    /\ \/ /\ AddressesOk(p)
          /\ pc' = [pc EXCEPT ![c] = "paging"]
          /\ LET num == IoEnd(p) - IoStart(p)
             IN req' = [req EXCEPT ![c] = Request(pager.dev, IoStart(p), num,
                                                  [i \in 1 .. num |-> v], type, TRUE)]
       \/ /\ ~AddressesOk(p)
          /\ pc' = [pc EXCEPT ![c] = "stuck"] /\ UNCHANGED req
    /\ UNCHANGED << devlist, pager, disk, work, worker, item, s_waitqueue, intended, halted >>

\* A mutation: the newest request first.
workqueue_schedule_work_lifo(c) == work' = << c >> \o work

\* The request is the last item of the work queue.
workqueue_schedule_work(c) == work' = Append(work, c)

ramdisk_post_request(c) == workqueue_schedule_work(c)

InRange(r) == r.lba + r.num <= NumBlocks

(***************************************************************************)
(* blockdev_post_request, which is ramdisk_post_request: the notification  *)
(* takes the first thread off s_waitqueue, and asserts that there is one.  *)
(* What the request ought to find is remembered in it.                     *)
(***************************************************************************)
blockdev_post_request(c) ==
    LET r == req[c]
    IN /\ pc[c] \in {"created", "paging"}
       /\ pc' = [pc EXCEPT ![c] = "posted"]
       /\ ramdisk_post_request(c)
       /\ req' = [req EXCEPT ![c].want = IF r.type = "read" /\ InRange(r)
                                         THEN CopyOut(intended[r.dev], r.lba, r.num)
                                         ELSE r.buf]
       /\ intended' = [intended EXCEPT ![r.dev] = IF r.type = "write" /\ InRange(r)
                                                  THEN CopyIn(@, r.lba, r.buf)
                                                  ELSE @]
       /\ \/ /\ s_waitqueue = << >> /\ halted' = TRUE
             /\ UNCHANGED << worker, s_waitqueue >>
          \/ /\ s_waitqueue # << >> /\ s_waitqueue' = Tail(s_waitqueue)
             /\ worker' = IF Head(s_waitqueue) = "worker" THEN "ready" ELSE worker
             /\ UNCHANGED halted
       /\ UNCHANGED << devlist, pager, disk, item >>

\* blockdev_wait_for_completion: sleep, or return.
blockdev_wait_for_completion(c) ==
    /\ pc[c] = "posted"
    /\ pc' = [pc EXCEPT ![c] = IF req[c].state = FINISHED THEN "returned" ELSE "waiting"]
    /\ UNCHANGED << devlist, pager, disk, req, work, worker, item, s_waitqueue, intended, halted >>

\* The client of an asynchronous request frees it.
client_done(c) ==
    /\ pc[c] = "returned" /\ ~req[c].sync
    /\ pc' = [pc EXCEPT ![c] = "idle"] /\ req' = [req EXCEPT ![c] = NoReq]
    /\ UNCHANGED << devlist, pager, disk, work, worker, item, s_waitqueue, intended, halted >>

\* blockdev_issue_sync asserts that the return code is BLOCKDEV_REQ_FINISHED,
\* which no return code is.
blockdev_issue_sync(c) ==
    /\ pc[c] = "returned" /\ req[c].sync
    /\ pc' = [pc EXCEPT ![c] = IF req[c].rc = FINISHED THEN "idle" ELSE "stuck"]
    /\ req' = [req EXCEPT ![c] = IF req[c].rc = FINISHED THEN NoReq ELSE @]
    /\ UNCHANGED << devlist, pager, disk, work, worker, item, s_waitqueue, intended, halted >>

-----------------------------------------------------------------------------
\* The work queue thread sleeps, or takes the first item.
workqueue_thread ==
    /\ worker = "ready"
    /\ \/ /\ work = << >>
          /\ worker' = "asleep" /\ s_waitqueue' = Append(s_waitqueue, "worker")
          /\ UNCHANGED << work, item >>
       \/ /\ work # << >>
          /\ worker' = "busy" /\ item' = << Head(work), 0 >> /\ work' = Tail(work)
          /\ UNCHANGED s_waitqueue
    /\ UNCHANGED << devlist, pager, disk, req, pc, intended, halted >>

\* ramdisk_handle_request up to the notification.
ramdisk_handle_request ==
    LET c == item[1]
        r == req[c]
        valid == range_is_valid_u32(r.lba, r.num, NumBlocks)
    IN /\ worker = "busy" /\ worker' = "copied"
       /\ item' = << c, IF valid THEN 0 ELSE EINVAL >>
       /\ \/ /\ valid /\ r.type = "read"
             /\ req' = [req EXCEPT ![c].buf = CopyOut(disk[r.dev], r.lba, r.num)]
             /\ UNCHANGED disk
          \/ /\ valid /\ r.type = "write"
             /\ disk' = [disk EXCEPT ![r.dev] = CopyIn(@, r.lba, r.buf)]
             /\ UNCHANGED req
          \/ /\ ~valid
             /\ UNCHANGED << disk, req >>
       /\ UNCHANGED << devlist, pager, pc, work, s_waitqueue, intended, halted >>

\* A mutation: a request that is out of range is not completed.
blockdev_notify_complete_ok_only ==
    LET c == item[1]
    IN /\ worker = "copied" /\ worker' = "ready" /\ item' = NoReq
       /\ IF item[2] = 0
          THEN /\ req' = [req EXCEPT ![c].state = FINISHED, ![c].rc = 0]
               /\ pc' = [pc EXCEPT ![c] = IF @ = "waiting" THEN "posted" ELSE @]
          ELSE UNCHANGED << req, pc >>
       /\ UNCHANGED << devlist, pager, disk, work, s_waitqueue, intended, halted >>

\* The client hears of it, and the work queue thread goes on.
blockdev_notify_complete ==
    LET c == item[1]
    IN /\ worker = "copied" /\ worker' = "ready" /\ item' = NoReq
       /\ req' = [req EXCEPT ![c].state = FINISHED, ![c].rc = item[2]]
       /\ pc' = [pc EXCEPT ![c] = IF @ = "waiting" THEN "posted" ELSE @]
       /\ UNCHANGED << devlist, pager, disk, work, s_waitqueue, intended, halted >>

\* Another thread calls wait_for_key, and no key is there.
wait_for_key ==
    /\ ~Contains(s_waitqueue, "reader")
    /\ s_waitqueue' = Append(s_waitqueue, "reader")
    /\ UNCHANGED << devlist, pager, disk, req, pc, work, worker, item, intended, halted >>

\* A key arrives: the handler wakes up everybody in s_waitqueue.
key_arrives ==
    /\ Contains(s_waitqueue, "reader")
    /\ s_waitqueue' = << >>
    /\ worker' = IF worker = "asleep" THEN "ready" ELSE worker
    /\ UNCHANGED << devlist, pager, disk, req, pc, work, item, intended, halted >>

Worker == workqueue_thread \/ ramdisk_handle_request \/ blockdev_notify_complete

Client(c) ==
    \/ blockdev_post_request(c) \/ blockdev_wait_for_completion(c)
    \/ client_done(c) \/ blockdev_issue_sync(c)

Call(c) ==
    \/ \E n \in Names : pfat_create_instance(c, n)
    \/ \E type \in {"read", "write"} :
          \E v \in IF type = "read" THEN {0} ELSE Vals :
             \/ \E d \in Devs, ext \in Extents : blockdev_create_request(c, d, ext, type, v)
             \/ \E p \in PageNums : blockdev_pager_rw_page(c, p, type, v)

Next ==
    /\ ~halted
    /\ \/ Worker \/ wait_for_key \/ key_arrives
       \/ \E c \in Clients : Client(c) \/ Call(c)
       \/ \E n \in Names, d \in Devs : dev_register(n, d)
       \/ \E d \in Devs, ext \in PagerExtents : blockdev_pager_create(d, ext[1], ext[2])

\* The work queue thread and a client inside a call are scheduled.
Spec ==
    /\ Init /\ [][Next]_vars
    /\ WF_vars(~halted /\ Worker)
    /\ \A c \in Clients : WF_vars(~halted /\ Client(c))

-----------------------------------------------------------------------------
(***************************************************************************)
(* A request that is complete got the answer it ought to get: an error if  *)
(* it reaches past the end of the device, and otherwise the data that the  *)
(* requests posted before it, and no others, left there.                   *)
(***************************************************************************)
AnswersInOrder ==
    \A c \in Clients : req[c] # NoReq /\ req[c].state = FINISHED =>
        /\ req[c].rc = IF InRange(req[c]) THEN 0 ELSE EINVAL
        /\ req[c].buf = req[c].want

(***************************************************************************)
(* The I/O of a page stays inside the blocks of its pager, whatever the    *)
(* page number, or the thread is stuck in an assert.                       *)
(***************************************************************************)
PagerStaysInRange ==
    \A c \in Clients : pc[c] = "paging" =>
        /\ pager.start <= req[c].lba
        /\ req[c].lba + req[c].num <= pager.start + pager.num

(***************************************************************************)
(* A request that was posted is completed, unless the machine stops or a   *)
(* reader of the keyboard took the notification of the work queue thread.  *)
(***************************************************************************)
RequestCompleted ==
    \A c \in Clients :
        pc[c] \in {"posted", "waiting"} ~>
            pc[c] = "returned" \/ halted \/ (worker = "asleep" /\ work # << >>)

=============================================================================

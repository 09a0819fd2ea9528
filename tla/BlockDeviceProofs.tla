-------------------------- MODULE BlockDeviceProofs --------------------------
(***************************************************************************)
(* What holds of the block devices of module BlockDevice for every number  *)
(* of clients, devices and blocks: a request is answered from the disks as *)
(* the requests posted before it leave them, whenever the work queue       *)
(* thread comes round to it, and a pager stays inside its range.           *)
(***************************************************************************)
EXTENDS BlockDevice, SequenceTheorems, TLAPS

-----------------------------------------------------------------------------
Val == Vals \cup {0, OtherMemory}

Disks == [Devs -> [Blocks -> Val]]

Rec == [dev : Devs, lba : 0 .. U32 - 1, num : 0 .. U32 - 1, buf : Seq(Val),
        type : {"read", "write"}, state : {0, 1}, rc : {0, EINVAL}, sync : BOOLEAN,
        want : Seq(Val)]

PC == {"idle", "created", "paging", "posted", "waiting", "returned", "stuck"}

Types ==
    /\ devlist \in Seq([name : Names, dev : Devs])
    /\ disk \in Disks /\ intended \in Disks
    /\ req \in [Clients -> {NoReq} \cup Rec] /\ pc \in [Clients -> PC]
    /\ work \in Seq(Clients) /\ worker \in {"asleep", "ready", "busy", "copied"}
    /\ worker \in {"busy", "copied"} => item \in Clients \X {0, EINVAL}

\* No two devices have the same name.
NamesUnique ==
    \A i, j \in DOMAIN devlist : devlist[i].name = devlist[j].name => i = j

\* A pager covers blocks of its device.
PagerOk ==
    pager # NoPager =>
        /\ pager.dev \in Devs /\ pager.start \in Nat /\ pager.num \in Nat
        /\ pager.start + pager.num <= NumBlocks /\ pager.per_page \in Nat

\* The data request r ought to find on the disks k, and the disks it leaves.
Want(r, k) ==
    IF r.type = "read" /\ InRange(r) THEN CopyOut(k[r.dev], r.lba, r.num) ELSE r.buf

Apply(r, k) ==
    IF r.type = "write" /\ InRange(r)
    THEN [k EXCEPT ![r.dev] = CopyIn(@, r.lba, r.buf)] ELSE k

ReturnCode(r) == IF InRange(r) THEN 0 ELSE EINVAL

\* What a client knows of its request.
ClientOk(c) ==
    /\ pc[c] \in {"created", "paging"} => req[c] \in Rec /\ req[c].state = 0
    /\ pc[c] \in {"posted", "waiting", "returned"} => req[c] \in Rec
    /\ pc[c] = "paging" => /\ pager # NoPager
                           /\ pager.start <= req[c].lba
                           /\ req[c].lba + req[c].num <= pager.start + pager.num
    /\ req[c] # NoReq /\ req[c].state = 1 => /\ req[c].rc = ReturnCode(req[c])
                                             /\ req[c].buf = req[c].want

ClientsOk == \A c \in Clients : ClientOk(c)

InFlight(c) == pc[c] \in {"posted", "waiting"} /\ req[c] \in Rec /\ req[c].state = 0

\* A request is posted once, and pending until it is notified.
QueueOk ==
    /\ \A i \in 1 .. Len(work) : InFlight(work[i])
    /\ \A i, j \in 1 .. Len(work) : work[i] = work[j] => i = j
    /\ worker \in {"busy", "copied"} =>
          InFlight(item[1]) /\ \A i \in 1 .. Len(work) : work[i] # item[1]

\* The work queue thread is in s_waitqueue once, and only while it sleeps.
WaitOk ==
    /\ s_waitqueue \in Seq({"worker", "reader"})
    /\ \A i \in 1 .. Len(s_waitqueue) : s_waitqueue[i] = "worker" => worker = "asleep"
    /\ \A i, j \in 1 .. Len(s_waitqueue) :
          s_waitqueue[i] = "worker" /\ s_waitqueue[j] = "worker" => i = j

\* What the work queue thread has in hand.
ItemOk ==
    /\ worker = "busy" => req[item[1]].want = Want(req[item[1]], disk)
    /\ worker = "copied" => /\ req[item[1]].buf = req[item[1]].want
                            /\ item[2] = ReturnCode(req[item[1]])

\* The disks once the request in hand is done.
Base == IF worker = "busy" THEN Apply(req[item[1]], disk) ELSE disk

\* The disks h that the requests of queue w, with the records q, find one after
\* the other, from base up to final.
Hist(h, w, q, base, final) ==
    /\ h \in [0 .. Len(w) -> Disks] /\ h[0] = base /\ h[Len(w)] = final
    /\ \A i \in 1 .. Len(w) :
          h[i] = Apply(q[w[i]], h[i - 1]) /\ q[w[i]].want = Want(q[w[i]], h[i - 1])

Historic(w, q, base, final) ==
    \E h \in [0 .. Len(w) -> Disks] : Hist(h, w, q, base, final)

History == Historic(work, req, Base, intended)

\* The inductive invariant.
IInv ==
    Types /\ NamesUnique /\ PagerOk /\ ClientsOk /\ QueueOk /\ WaitOk /\ ItemOk
    /\ History

-----------------------------------------------------------------------------
(***************************************************************************)
(* The history of a queue.                                                 *)
(***************************************************************************)
\* The records of the requests that are not in the queue do not matter.
LEMMA HistorySame ==
    ASSUME NEW w \in Seq(Clients), NEW q, NEW q2, NEW base, NEW final,
           Historic(w, q, base, final),
           \A i \in 1 .. Len(w) : q2[w[i]] = q[w[i]]
    PROVE  Historic(w, q2, base, final)
  <1>1. PICK h \in [0 .. Len(w) -> Disks] : Hist(h, w, q, base, final)
    BY DEF Historic
  <1>2. Hist(h, w, q2, base, final)
    BY <1>1 DEF Hist
  <1> QED  BY <1>2 DEF Historic

\* A request is posted.
LEMMA HistoryAppend ==
    ASSUME NEW w \in Seq(Clients), NEW q, NEW base, NEW final, NEW final2 \in Disks,
           Historic(w, q, base, final), NEW c \in Clients,
           final2 = Apply(q[c], final), q[c].want = Want(q[c], final)
    PROVE  Historic(Append(w, c), q, base, final2)
  <1>1. PICK h \in [0 .. Len(w) -> Disks] : Hist(h, w, q, base, final)
    BY DEF Historic
  <1>0. /\ h[0] = base /\ h[Len(w)] = final
        /\ \A i \in 1 .. Len(w) : h[i] = Apply(q[w[i]], h[i - 1])
                                  /\ q[w[i]].want = Want(q[w[i]], h[i - 1])
    BY <1>1 DEF Hist
  <1> DEFINE n == Len(w)
             w2 == Append(w, c)
             h2 == [i \in 0 .. n + 1 |-> IF i = n + 1 THEN final2 ELSE h[i]]
  <1>2. n \in Nat
    BY LenProperties
  <1>3. Len(w2) = n + 1 /\ w2[n + 1] = c /\ \A i \in 1 .. n : w2[i] = w[i]
    BY AppendProperties
  <1>4. /\ h2 \in [0 .. n + 1 -> Disks] /\ h2[n + 1] = final2
        /\ \A i \in 0 .. n : h2[i] = h[i]
    <2>1. \A i \in 0 .. n + 1 : i # n + 1 => i \in 0 .. n
      BY <1>2
    <2>2. \A i \in 0 .. n : i # n + 1 /\ i \in 0 .. n + 1
      BY <1>2
    <2>3. n + 1 \in 0 .. n + 1
      BY <1>2
    <2> QED  BY <2>1, <2>2, <2>3
  <1> HIDE DEF w2, h2
  <1>5. ASSUME NEW i \in 1 .. n + 1
        PROVE  h2[i] = Apply(q[w2[i]], h2[i - 1]) /\ q[w2[i]].want = Want(q[w2[i]], h2[i - 1])
    <2>1. CASE i = n + 1
      <3>1. h2[i] = final2 /\ w2[i] = c
        BY <1>3, <1>4, <2>1
      <3>2. i - 1 = n /\ n \in 0 .. n
        BY <1>2, <2>1
      <3>3. h2[i - 1] = final
        BY <1>0, <1>4, <3>2
      <3> QED  BY <3>1, <3>3
    <2>2. CASE i # n + 1
      <3>1. i \in 1 .. n /\ i \in 0 .. n /\ i - 1 \in 0 .. n
        BY <1>2, <2>2
      <3>2. h2[i] = h[i] /\ h2[i - 1] = h[i - 1] /\ w2[i] = w[i]
        BY <1>3, <1>4, <3>1
      <3> QED  BY <1>0, <3>1, <3>2
    <2> QED  BY <2>1, <2>2
  <1>6. h2[0] = base
    <2>1. 0 \in 0 .. n
      BY <1>2
    <2> QED  BY <1>0, <1>4, <2>1
  <1>7. Hist(h2, w2, q, base, final2)
    BY <1>3, <1>4, <1>5, <1>6 DEF Hist
  <1>8. h2 \in [0 .. Len(w2) -> Disks]
    BY <1>3, <1>4
  <1> QED  BY <1>7, <1>8 DEF Historic, w2

\* The first request is taken off the queue.
LEMMA HistoryTail ==
    ASSUME NEW w \in Seq(Clients), w # << >>, NEW q, NEW base, NEW final,
           Historic(w, q, base, final)
    PROVE  /\ q[Head(w)].want = Want(q[Head(w)], base)
           /\ Historic(Tail(w), q, Apply(q[Head(w)], base), final)
  <1>1. PICK h \in [0 .. Len(w) -> Disks] : Hist(h, w, q, base, final)
    BY DEF Historic
  <1>0. /\ h[0] = base /\ h[Len(w)] = final
        /\ \A i \in 1 .. Len(w) : h[i] = Apply(q[w[i]], h[i - 1])
                                  /\ q[w[i]].want = Want(q[w[i]], h[i - 1])
    BY <1>1 DEF Hist
  <1> DEFINE n == Len(w)
             w2 == Tail(w)
             h2 == [i \in 0 .. n - 1 |-> h[i + 1]]
  <1>2. n \in Nat \ {0} /\ Head(w) = w[1] /\ Len(w2) = n - 1
        /\ \A i \in 1 .. n - 1 : w2[i] = w[i + 1]
    BY HeadTailProperties, LenProperties, EmptySeq
  <1>3. h[1] = Apply(q[w[1]], base) /\ q[w[1]].want = Want(q[w[1]], base)
    <2>1. 1 \in 1 .. n /\ 1 - 1 = 0
      BY <1>2
    <2> QED  BY <1>0, <2>1
  <1>4. h2 \in [0 .. n - 1 -> Disks] /\ \A i \in 0 .. n - 1 : h2[i] = h[i + 1]
    <2>1. \A i \in 0 .. n - 1 : i + 1 \in 0 .. n
      BY <1>2
    <2> QED  BY <2>1
  <1> HIDE DEF h2, w2
  <1>5. h2[0] = Apply(q[w[1]], base) /\ h2[n - 1] = final
    <2>1. 0 \in 0 .. n - 1 /\ n - 1 \in 0 .. n - 1 /\ 0 + 1 = 1 /\ (n - 1) + 1 = n
      BY <1>2
    <2>2. h2[0] = h[0 + 1] /\ h2[n - 1] = h[(n - 1) + 1]
      BY <1>4, <2>1
    <2> QED  BY <1>0, <1>3, <2>1, <2>2
  <1>6. ASSUME NEW i \in 1 .. n - 1
        PROVE  h2[i] = Apply(q[w2[i]], h2[i - 1]) /\ q[w2[i]].want = Want(q[w2[i]], h2[i - 1])
    <2>1. i \in 0 .. n - 1 /\ i - 1 \in 0 .. n - 1 /\ i + 1 \in 1 .. n /\ (i + 1) - 1 = i
          /\ (i - 1) + 1 = i
      BY <1>2
    <2>2. h2[i] = h[i + 1] /\ h2[i - 1] = h[(i - 1) + 1] /\ w2[i] = w[i + 1]
      BY <1>2, <1>4, <2>1
    <2>3. h2[i - 1] = h[i]
      BY <2>1, <2>2
    <2>4. h[i + 1] = Apply(q[w[i + 1]], h[(i + 1) - 1])
          /\ q[w[i + 1]].want = Want(q[w[i + 1]], h[(i + 1) - 1])
      BY <1>0, <2>1
    <2> QED  BY <2>1, <2>2, <2>3, <2>4
  <1>7. Hist(h2, w2, q, Apply(q[w[1]], base), final)
    BY <1>2, <1>4, <1>5, <1>6 DEF Hist
  <1>8. h2 \in [0 .. Len(w2) -> Disks]
    BY <1>2, <1>4
  <1>9. Historic(w2, q, Apply(q[w[1]], base), final)
    BY <1>7, <1>8 DEF Historic
  <1> QED  BY <1>2, <1>3, <1>9 DEF w2

-----------------------------------------------------------------------------
(***************************************************************************)
(* Requests and disks.                                                     *)
(***************************************************************************)
LEMMA Numbers ==
    /\ U32 \in Nat \ {0} /\ NumBlocks \in Nat \ {0} /\ NumBlocks < U32
    /\ 0 \in Val /\ OtherMemory \in Val /\ Vals \subseteq Val
  BY BlockDeviceAssumption DEF Val

LEMMA RecFields ==
    ASSUME NEW r \in Rec
    PROVE  /\ r.dev \in Devs /\ r.lba \in Nat /\ r.num \in Nat /\ r.buf \in Seq(Val)
           /\ r.type \in {"read", "write"} /\ r.state \in {0, 1} /\ r.rc \in {0, EINVAL}
           /\ r.want \in Seq(Val)
  BY Numbers DEF Rec

LEMMA CopyOutType ==
    ASSUME NEW d \in [Blocks -> Val], NEW lba \in Nat, NEW num \in Nat
    PROVE  CopyOut(d, lba, num) \in Seq(Val)
  <1>1. \A i \in 1 .. num : (IF lba + i - 1 \in Blocks THEN d[lba + i - 1] ELSE OtherMemory) \in Val
    BY Numbers
  <1>2. CopyOut(d, lba, num) \in [1 .. num -> Val]
    BY <1>1 DEF CopyOut
  <1> QED  BY <1>2, SeqDef

LEMMA CopyInType ==
    ASSUME NEW d \in [Blocks -> Val], NEW lba \in Nat, NEW buf \in Seq(Val)
    PROVE  CopyIn(d, lba, buf) \in [Blocks -> Val]
  <1>1. \A i \in DOMAIN buf : buf[i] \in Val
    BY LenProperties
  <1> QED  BY <1>1 DEF CopyIn

LEMMA WantType ==
    ASSUME NEW r \in Rec, NEW k \in Disks
    PROVE  Want(r, k) \in Seq(Val)
  <1>1. r.dev \in Devs /\ r.lba \in Nat /\ r.num \in Nat /\ r.buf \in Seq(Val)
    BY RecFields
  <1>2. k[r.dev] \in [Blocks -> Val]
    BY <1>1 DEF Disks
  <1>3. CopyOut(k[r.dev], r.lba, r.num) \in Seq(Val)
    BY <1>1, <1>2, CopyOutType
  <1> QED  BY <1>1, <1>3 DEF Want

LEMMA ApplyType ==
    ASSUME NEW r \in Rec, NEW k \in Disks
    PROVE  Apply(r, k) \in Disks
  <1>1. r.dev \in Devs /\ r.lba \in Nat /\ r.buf \in Seq(Val)
    BY RecFields
  <1>2. k[r.dev] \in [Blocks -> Val]
    BY <1>1 DEF Disks
  <1>3. CopyIn(k[r.dev], r.lba, r.buf) \in [Blocks -> Val]
    BY <1>1, <1>2, CopyInType
  <1>4. [k EXCEPT ![r.dev] = CopyIn(k[r.dev], r.lba, r.buf)] \in Disks
    BY <1>1, <1>3 DEF Disks
  <1> QED  BY <1>4 DEF Apply

\* The answer depends on what is asked for only.
SameAsk(r, s) ==
    r.dev = s.dev /\ r.lba = s.lba /\ r.num = s.num /\ r.type = s.type

LEMMA SameAnswer ==
    ASSUME NEW r, NEW s, SameAsk(r, s)
    PROVE  /\ InRange(r) <=> InRange(s)
           /\ ReturnCode(r) = ReturnCode(s)
           /\ r.buf = s.buf => \A k : Want(r, k) = Want(s, k) /\ Apply(r, k) = Apply(s, k)
  BY DEF SameAsk, InRange, ReturnCode, Want, Apply

\* The check of ramdisk_handle_request is the range of the request.
LEMMA ValidRange ==
    ASSUME NEW r \in Rec
    PROVE  range_is_valid_u32(r.lba, r.num, NumBlocks) <=> InRange(r)
  <1>1. r.lba \in Nat /\ r.num \in Nat /\ NumBlocks \in Nat
    BY RecFields, Numbers
  <1> QED  BY <1>1 DEF range_is_valid_u32, InRange

LEMMA BufUpdate ==
    ASSUME NEW r \in Rec, NEW b \in Seq(Val)
    PROVE  LET s == [r EXCEPT !.buf = b]
           IN s \in Rec /\ SameAsk(r, s) /\ s.buf = b /\ s.state = r.state /\ s.rc = r.rc
              /\ s.want = r.want
  BY DEF Rec, SameAsk

LEMMA WantUpdate ==
    ASSUME NEW r \in Rec, NEW b \in Seq(Val)
    PROVE  LET s == [r EXCEPT !.want = b]
           IN s \in Rec /\ SameAsk(r, s) /\ s.buf = r.buf /\ s.state = r.state /\ s.rc = r.rc
              /\ s.want = b
  BY DEF Rec, SameAsk

LEMMA DoneUpdate ==
    ASSUME NEW r \in Rec, NEW x \in {0, EINVAL}
    PROVE  LET s == [r EXCEPT !.state = FINISHED, !.rc = x]
           IN s \in Rec /\ SameAsk(r, s) /\ s.buf = r.buf /\ s.state = 1 /\ s.rc = x
              /\ s.want = r.want
  BY DEF Rec, SameAsk, FINISHED

\* A buffer of num blocks.
LEMMA BufferType ==
    ASSUME NEW num \in Nat, NEW v \in Val
    PROVE  [i \in 1 .. num |-> v] \in Seq(Val)
  <1>1. [i \in 1 .. num |-> v] \in [1 .. num -> Val]
    OBVIOUS
  <1> QED  BY <1>1, SeqDef

NewRec(r, lba, num) == r \in Rec /\ r.state = 0 /\ r.lba = lba /\ r.num = num

LEMMA RequestType ==
    ASSUME NEW d \in Devs, NEW lba \in 0 .. U32 - 1, NEW num \in 0 .. U32 - 1,
           NEW b \in Seq(Val), NEW type \in {"read", "write"}
    PROVE  /\ NewRec(Request(d, lba, num, b, type, FALSE), lba, num)
           /\ NewRec(Request(d, lba, num, b, type, TRUE), lba, num)
  <1>1. << >> \in Seq(Val)
    OBVIOUS
  <1>2. Request(d, lba, num, b, type, FALSE) \in Rec
    BY <1>1 DEF Request, Rec
  <1>3. Request(d, lba, num, b, type, TRUE) \in Rec
    BY <1>1 DEF Request, Rec
  <1> QED  BY <1>2, <1>3 DEF Request, NewRec

-----------------------------------------------------------------------------
(***************************************************************************)
(* Steps that leave the requests alone.                                    *)
(***************************************************************************)
LEMMA QuietKept ==
    ASSUME IInv, UNCHANGED << disk, req, pc, work, item, intended >>,
           \/ worker' = worker
           \/ worker \in {"asleep", "ready"} /\ worker' \in {"asleep", "ready"},
           devlist' \in Seq([name : Names, dev : Devs]), NamesUnique', PagerOk', WaitOk',
           pager' = pager \/ pager = NoPager
    PROVE  IInv'
  <1>1. disk' = disk /\ req' = req /\ pc' = pc /\ work' = work /\ item' = item
        /\ intended' = intended
    OBVIOUS
  <1>2. Types /\ ClientsOk /\ QueueOk /\ ItemOk /\ History
    BY DEF IInv
  <1>3. /\ worker' \in {"busy", "copied"} <=> worker \in {"busy", "copied"}
        /\ worker' = "busy" <=> worker = "busy"
        /\ worker' = "copied" <=> worker = "copied"
        /\ worker' \in {"asleep", "ready", "busy", "copied"}
    BY <1>2 DEF Types
  <1>4. Types'
    BY <1>1, <1>2, <1>3 DEF Types
  <1>5. ClientsOk'
    <2> SUFFICES ASSUME NEW c \in Clients  PROVE  ClientOk(c)'
      BY DEF ClientsOk
    <2>1. ClientOk(c)
      BY <1>2 DEF ClientsOk
    <2>2. pc[c] = "paging" => pager' = pager
      BY <2>1 DEF ClientOk
    <2> QED  BY <1>1, <2>1, <2>2 DEF ClientOk, ReturnCode, InRange
  <1>6. QueueOk'
    BY <1>1, <1>2, <1>3 DEF QueueOk, InFlight
  <1>7. ItemOk'
    BY <1>1, <1>2, <1>3 DEF ItemOk, ReturnCode, InRange
  <1>8. Base' = Base
    BY <1>1, <1>3 DEF Base
  <1>9. History'
    BY <1>1, <1>2, <1>8 DEF History
  <1> QED  BY <1>4, <1>5, <1>6, <1>7, <1>9 DEF IInv

LEMMA RegisterKept ==
    ASSUME IInv, NEW n \in Names, NEW d \in Devs, dev_register(n, d)
    PROVE  IInv'
  <1> DEFINE e == [name |-> n, dev |-> d]
             len == Len(devlist)
  <1>1. /\ Registered(n) = {} /\ devlist' = Append(devlist, e) /\ pager' = pager
        /\ worker' = worker /\ UNCHANGED << disk, req, pc, work, item, s_waitqueue, intended >>
    BY DEF dev_register
  <1>2. Types /\ NamesUnique /\ PagerOk
    BY DEF IInv
  <1>3. devlist \in Seq([name : Names, dev : Devs]) /\ e \in [name : Names, dev : Devs]
        /\ e.name = n
    BY <1>2 DEF Types
  <1> HIDE DEF e
  <1>4. /\ devlist' \in Seq([name : Names, dev : Devs]) /\ Len(devlist') = len + 1
        /\ \A i \in 1 .. len : devlist'[i] = devlist[i]
        /\ devlist'[len + 1] = e
    BY <1>1, <1>3, AppendProperties
  <1>5. len \in Nat /\ DOMAIN devlist = 1 .. len /\ DOMAIN devlist' = 1 .. len + 1
    BY <1>3, <1>4, LenProperties
  <1>6. \A i \in 1 .. len : devlist[i].name # n
    BY <1>1, <1>5 DEF Registered
  <1>7. NamesUnique'
    <2> SUFFICES ASSUME NEW i \in 1 .. len + 1, NEW j \in 1 .. len + 1,
                        devlist'[i].name = devlist'[j].name
                 PROVE  i = j
      BY <1>5 DEF NamesUnique
    <2>1. (i \in 1 .. len \/ i = len + 1) /\ (j \in 1 .. len \/ j = len + 1)
      BY <1>5
    <2>2. CASE i \in 1 .. len /\ j \in 1 .. len
      BY <1>2, <1>4, <1>5, <2>2 DEF NamesUnique
    <2>3. CASE i \in 1 .. len /\ j = len + 1
      BY <1>3, <1>4, <1>6, <2>3
    <2>4. CASE i = len + 1 /\ j \in 1 .. len
      BY <1>3, <1>4, <1>6, <2>4
    <2> QED  BY <2>1, <2>2, <2>3, <2>4
  <1>8. PagerOk' /\ WaitOk'
    BY <1>1, <1>2 DEF PagerOk, WaitOk, IInv
  <1> QED  BY <1>1, <1>4, <1>7, <1>8, QuietKept

LEMMA PagerKept ==
    ASSUME IInv, NEW d \in Devs, NEW ext \in PagerExtents,
           blockdev_pager_create(d, ext[1], ext[2])
    PROVE  IInv'
  <1>1. /\ pager = NoPager /\ range_is_valid_u32(ext[1], ext[2], NumBlocks)
        /\ pager' = [dev |-> d, start |-> ext[1], num |-> ext[2],
                     per_page |-> PAGE_SIZE \div BLOCK_SIZE]
        /\ devlist' = devlist
        /\ worker' = worker /\ UNCHANGED << disk, req, pc, work, item, s_waitqueue, intended >>
    BY DEF blockdev_pager_create
  <1>2. ext[1] \in Nat /\ ext[2] \in Nat /\ NumBlocks \in Nat
        /\ PAGE_SIZE \in Nat /\ BLOCK_SIZE \in Nat \ {0}
    <2>1. ext \in (0 .. U32 - 1) \X (0 .. U32 - 1)
      BY BlockDeviceAssumption
    <2> QED  BY <2>1, BlockDeviceAssumption, Numbers
  <1>3. PAGE_SIZE \div BLOCK_SIZE \in Nat
    BY <1>2
  <1>4. ext[1] + ext[2] <= NumBlocks
    BY <1>1, <1>2 DEF range_is_valid_u32
  <1>5. PagerOk'
    BY <1>1, <1>2, <1>3, <1>4 DEF PagerOk
  <1>6. devlist' \in Seq([name : Names, dev : Devs]) /\ NamesUnique' /\ WaitOk'
    BY <1>1 DEF IInv, Types, NamesUnique, WaitOk
  <1> QED  BY <1>1, <1>5, <1>6, QuietKept

\* Steps that change s_waitqueue, or wake or lay down the work queue thread.
LEMMA SleepKept ==
    ASSUME IInv, UNCHANGED << devlist, pager, disk, req, pc, work, item, intended >>,
           \/ worker' = worker
           \/ worker \in {"asleep", "ready"} /\ worker' \in {"asleep", "ready"},
           WaitOk'
    PROVE  IInv'
  <1>1. devlist' \in Seq([name : Names, dev : Devs]) /\ NamesUnique' /\ PagerOk'
    BY DEF IInv, Types, NamesUnique, PagerOk
  <1> QED  BY <1>1, QuietKept

-----------------------------------------------------------------------------
(***************************************************************************)
(* Steps of a client whose request is not in flight.                       *)
(***************************************************************************)
OnlyClient(c) == \A u \in Clients : u # c => pc'[u] = pc[u] /\ req'[u] = req[u]

LEMMA LocalKept ==
    ASSUME IInv, NEW c \in Clients, OnlyClient(c), ClientOk(c)',
           InFlight(c) => InFlight(c)' /\ req'[c] = req[c],
           pc' \in [Clients -> PC], req' \in [Clients -> {NoReq} \cup Rec],
           UNCHANGED << devlist, pager, disk, work, worker, item, s_waitqueue, intended >>
    PROVE  IInv'
  <1>1. devlist' = devlist /\ pager' = pager /\ disk' = disk /\ work' = work
        /\ worker' = worker /\ item' = item /\ intended' = intended
        /\ s_waitqueue' = s_waitqueue
    OBVIOUS
  <1>2. Types /\ NamesUnique /\ PagerOk /\ ClientsOk /\ QueueOk /\ WaitOk /\ ItemOk /\ History
    BY DEF IInv
  <1>3. Types'
    BY <1>1, <1>2 DEF Types
  <1>4. NamesUnique' /\ PagerOk' /\ WaitOk'
    BY <1>1, <1>2 DEF NamesUnique, PagerOk, WaitOk
  <1>5. ClientsOk'
    <2> SUFFICES ASSUME NEW u \in Clients  PROVE  ClientOk(u)'
      BY DEF ClientsOk
    <2>1. CASE u = c
      BY <2>1
    <2>2. CASE u # c
      <3>1. pc'[u] = pc[u] /\ req'[u] = req[u] /\ ClientOk(u)
        BY <1>2, <2>2 DEF OnlyClient, ClientsOk
      <3> QED  BY <1>1, <3>1 DEF ClientOk, ReturnCode, InRange
    <2> QED  BY <2>1, <2>2
  <1>6. \A i \in 1 .. Len(work) : work[i] \in Clients /\ InFlight(work[i])
    <2>1. \A i \in 1 .. Len(work) : work[i] \in Clients
      BY <1>2, LenProperties DEF Types
    <2> QED  BY <1>2, <2>1 DEF QueueOk
  <1>7. worker \in {"busy", "copied"} => item[1] \in Clients /\ InFlight(item[1])
    BY <1>2 DEF Types, QueueOk
  <1>8. ASSUME NEW u \in Clients, InFlight(u)  PROVE  InFlight(u)' /\ req'[u] = req[u]
    <2>1. CASE u # c
      BY <1>8, <2>1 DEF InFlight, OnlyClient
    <2>2. CASE u = c
      BY <1>8, <2>2
    <2> QED  BY <2>1, <2>2
  <1>9. QueueOk'
    <2>1. \A i \in 1 .. Len(work) : InFlight(work[i])'
      BY <1>2, <1>6, <1>8 DEF QueueOk
    <2>2. worker \in {"busy", "copied"} => InFlight(item[1])'
      BY <1>2, <1>7, <1>8 DEF QueueOk
    <2>3. \A i, j \in 1 .. Len(work) : work[i] = work[j] => i = j
      BY <1>2 DEF QueueOk
    <2>4. worker \in {"busy", "copied"} => \A i \in 1 .. Len(work) : work[i] # item[1]
      BY <1>2 DEF QueueOk
    <2> QED  BY <1>1, <2>1, <2>2, <2>3, <2>4 DEF QueueOk
  <1>10. worker \in {"busy", "copied"} => req'[item[1]] = req[item[1]]
    BY <1>7, <1>8
  <1>11. ItemOk'
    BY <1>1, <1>2, <1>10 DEF ItemOk, ReturnCode, InRange
  <1>12. Base' = Base
    BY <1>1, <1>10 DEF Base
  <1>13. History'
    <2>1. work \in Seq(Clients)
      BY <1>2 DEF Types
    <2>2. \A i \in 1 .. Len(work) : req'[work[i]] = req[work[i]]
      BY <1>6, <1>8
    <2>3. Historic(work, req', Base, intended)
      BY <1>2, <2>1, <2>2, HistorySame DEF History
    <2> QED  BY <1>1, <1>12, <2>3 DEF History
  <1> QED  BY <1>3, <1>4, <1>5, <1>9, <1>11, <1>13 DEF IInv

\* Client c goes to p, with the request r.
Goes(c, p, r) ==
    /\ pc' \in [Clients -> PC] /\ req' \in [Clients -> {NoReq} \cup Rec]
    /\ pc'[c] = p /\ req'[c] = r /\ OnlyClient(c)

LEMMA OneClient ==
    ASSUME Types, NEW c \in Clients, NEW p \in PC, NEW r \in {NoReq} \cup Rec,
           pc' = [pc EXCEPT ![c] = p], req' = [req EXCEPT ![c] = r]
    PROVE  Goes(c, p, r)
  <1>1. pc \in [Clients -> PC] /\ req \in [Clients -> {NoReq} \cup Rec]
    BY DEF Types
  <1> QED  BY <1>1 DEF Goes, OnlyClient

\* The client has a new request, which is not posted yet.
LEMMA NewRequest ==
    ASSUME IInv, NEW c \in Clients, pc[c] = "idle", NEW r \in Rec, r.state = 0,
           Goes(c, "created", r),
           UNCHANGED << devlist, pager, disk, work, worker, item, s_waitqueue, intended >>
    PROVE  IInv'
  <1>1. ~InFlight(c)
    BY DEF InFlight
  <1>2. ClientOk(c)'
    BY DEF ClientOk, Goes
  <1> QED  BY <1>1, <1>2, LocalKept DEF Goes

LEMMA CreateKept ==
    ASSUME IInv, NEW c \in Clients, NEW d \in Devs, NEW ext \in Extents,
           NEW type \in {"read", "write"}, NEW v \in Val,
           blockdev_create_request(c, d, ext, type, v)
    PROVE  IInv'
  <1> DEFINE b == [i \in 1 .. ext[2] |-> v]
             r == Request(d, ext[1], ext[2], b, type, FALSE)
  <1>1. /\ pc[c] = "idle" /\ req' = [req EXCEPT ![c] = r] /\ pc' = [pc EXCEPT ![c] = "created"]
        /\ UNCHANGED << devlist, pager, disk, work, worker, item, s_waitqueue, intended >>
    BY DEF blockdev_create_request
  <1>2. r \in Rec /\ r.state = 0
    <2>1. ext \in (0 .. U32 - 1) \X (0 .. U32 - 1)
      BY BlockDeviceAssumption
    <2>2. ext[1] \in 0 .. U32 - 1 /\ ext[2] \in 0 .. U32 - 1
      BY <2>1
    <2>3. b \in Seq(Val)
      <3>1. ext[2] \in Nat
        BY <2>2, Numbers
      <3> QED  BY <3>1, BufferType
    <2> HIDE DEF b
    <2>4. NewRec(r, ext[1], ext[2])
      BY <2>2, <2>3, RequestType
    <2> QED  BY <2>4 DEF NewRec
  <1> HIDE DEF r, b
  <1>3. Goes(c, "created", r)
    <2>1. Types /\ "created" \in PC /\ r \in {NoReq} \cup Rec
      BY <1>2 DEF IInv, PC
    <2> QED  BY <1>1, <2>1, OneClient
  <1> QED  BY <1>1, <1>2, <1>3, NewRequest

LEMMA PfatKept ==
    ASSUME IInv, NEW c \in Clients, NEW n \in Names, pfat_create_instance(c, n)
    PROVE  IInv'
  <1> DEFINE r == pfat_read_super(dev_find_blockdev(n))
  <1>1. /\ pc[c] = "idle" /\ req' = [req EXCEPT ![c] = r] /\ pc' = [pc EXCEPT ![c] = "created"]
        /\ UNCHANGED << devlist, pager, disk, work, worker, item, s_waitqueue, intended >>
    BY DEF pfat_create_instance
  <1>2. dev_find_blockdev(n) \in Devs
    <2>1. PICK i \in DOMAIN devlist : devlist[i].name = n
      BY DEF pfat_create_instance, Registered
    <2>2. Types /\ NamesUnique
      BY DEF IInv
    <2>3. Registered(n) = {i}
      BY <2>1, <2>2 DEF Registered, NamesUnique
    <2>4. devlist \in Seq([name : Names, dev : Devs]) /\ DOMAIN devlist = 1 .. Len(devlist)
          /\ Len(devlist) \in Nat
      BY <2>2, LenProperties DEF Types
    <2>5. i \in Int /\ i <= i
      BY <2>1, <2>4
    <2>6. Min({i}) = i
      BY <2>5 DEF Min
    <2>7. devlist[i].dev \in Devs
      <3>1. devlist[i] \in [name : Names, dev : Devs]
        BY <2>1, <2>4, ElementOfSeq
      <3> QED  BY <3>1
    <2> QED  BY <2>3, <2>6, <2>7 DEF dev_find_blockdev
  <1>3. r \in Rec /\ r.state = 0
    <2>1. << 0 >> \in Seq(Val) /\ << >> \in Seq(Val)
      BY Numbers
    <2>2. 0 \in 0 .. U32 - 1 /\ 1 \in 0 .. U32 - 1
      BY BlockDeviceAssumption
    <2> QED  BY <1>2, <2>1, <2>2 DEF pfat_read_super, Request, Rec
  <1> HIDE DEF r
  <1>4. Goes(c, "created", r)
    <2>1. Types /\ "created" \in PC /\ r \in {NoReq} \cup Rec
      BY <1>3 DEF IInv, PC
    <2> QED  BY <1>1, <2>1, OneClient
  <1> QED  BY <1>1, <1>3, <1>4, NewRequest

\* The smaller one of two numbers.
LEMMA MinOfTwo ==
    ASSUME NEW a \in Int, NEW b \in Int
    PROVE  Min({a, b}) \in {a, b} /\ Min({a, b}) <= a /\ Min({a, b}) <= b
  <1>1. \E x \in {a, b} : \A y \in {a, b} : x <= y
    <2>1. CASE a <= b
      BY <2>1
    <2>2. CASE ~(a <= b)
      BY <2>2
    <2> QED  BY <2>1, <2>2
  <1>2. Min({a, b}) \in {a, b} /\ \A y \in {a, b} : Min({a, b}) <= y
    BY <1>1 DEF Min
  <1> QED  BY <1>2

\* Addresses do not leave the range of u32_t.
LEMMA AddOffset ==
    ASSUME NEW a \in Nat, NEW b \in Nat
    PROVE  /\ lba_add_offset(a, b) \in 0 .. U32 - 1
           /\ a + b < U32 => lba_add_offset(a, b) = a + b
  <1>1. U32 \in Nat \ {0} /\ a + b \in Nat
    BY Numbers
  <1> QED  BY <1>1 DEF lba_add_offset

(***************************************************************************)
(* If the asserts on the addresses of a page hold, also after a wrap, then *)
(* the blocks are in the range of the pager.                               *)
(***************************************************************************)
LEMMA PageInRange ==
    ASSUME PagerOk, pager # NoPager, NEW p \in PageNums, AddressesOk(p)
    PROVE  /\ IoStart(p) \in 0 .. U32 - 1 /\ IoEnd(p) - IoStart(p) \in 0 .. U32 - 1
           /\ pager.start <= IoStart(p) /\ IoEnd(p) <= pager.start + pager.num
           /\ IoEnd(p) \in Int
  <1>1. /\ pager.start \in Nat /\ pager.num \in Nat /\ pager.per_page \in Nat
        /\ pager.start + pager.num <= NumBlocks
    BY DEF PagerOk
  <1>2. p \in Nat /\ U32 \in Nat \ {0} /\ NumBlocks \in Nat /\ NumBlocks < U32
    BY BlockDeviceAssumption, Numbers
  <1> DEFINE off == (p * pager.per_page) % U32
  <1>3. off \in Nat
    <2>1. p * pager.per_page \in Nat
      BY <1>1, <1>2
    <2> HIDE DEF off
    <2>2. \A x \in Nat : x % U32 \in Nat
      BY <1>2
    <2> QED  BY <2>1, <2>2 DEF off
  <1>4. IoStart(p) = lba_add_offset(pager.start, off)
    BY DEF IoStart
  <1>5. lba_add_offset(pager.start, off) >= pager.start
    BY DEF AddressesOk, lba_add_offset_ok
  <1> HIDE DEF off
  <1>6. IoStart(p) \in 0 .. U32 - 1
    BY <1>1, <1>3, <1>4, AddOffset
  <1>7. IoStart(p) \in Nat
    BY <1>2, <1>6
  <1>8. RangeEnd = pager.start + pager.num
    <2>1. pager.start + pager.num < U32
      BY <1>1, <1>2
    <2> QED  BY <1>1, <2>1, AddOffset DEF RangeEnd
  <1>9. lba_add_offset(IoStart(p), pager.per_page) \in 0 .. U32 - 1
    BY <1>1, <1>7, AddOffset
  <1>10. IoEnd(p) <= RangeEnd /\ IoEnd(p) \in Int
    <2>1. RangeEnd \in Int /\ lba_add_offset(IoStart(p), pager.per_page) \in Int
      BY <1>1, <1>8, <1>9
    <2>2. /\ IoEnd(p) \in {RangeEnd, lba_add_offset(IoStart(p), pager.per_page)}
          /\ IoEnd(p) <= RangeEnd
      BY <2>1, MinOfTwo DEF IoEnd
    <2> QED  BY <2>1, <2>2
  <1>11. IoStart(p) <= IoEnd(p)
    BY DEF AddressesOk
  <1> QED  BY <1>1, <1>2, <1>4, <1>5, <1>6, <1>7, <1>8, <1>10, <1>11

LEMMA PageKept ==
    ASSUME IInv, NEW c \in Clients, NEW p \in PageNums, NEW type \in {"read", "write"},
           NEW v \in Val, blockdev_pager_rw_page(c, p, type, v)
    PROVE  IInv'
  <1> DEFINE num == IoEnd(p) - IoStart(p)
             b == [i \in 1 .. num |-> v]
             r == Request(pager.dev, IoStart(p), num, b, type, TRUE)
  <1>1. /\ pc[c] = "idle" /\ pager # NoPager
        /\ UNCHANGED << devlist, pager, disk, work, worker, item, s_waitqueue, intended >>
    BY DEF blockdev_pager_rw_page
  <1>2. Types /\ PagerOk
    BY DEF IInv
  <1>3. ~InFlight(c)
    BY <1>1 DEF InFlight
  <1>4. CASE AddressesOk(p)
    <2>1. pc' = [pc EXCEPT ![c] = "paging"] /\ req' = [req EXCEPT ![c] = r]
      BY <1>4 DEF blockdev_pager_rw_page
    <2>2. /\ IoStart(p) \in 0 .. U32 - 1 /\ num \in 0 .. U32 - 1
          /\ pager.start <= IoStart(p) /\ IoEnd(p) <= pager.start + pager.num
      BY <1>1, <1>2, <1>4, PageInRange
    <2>3. r \in Rec /\ r.state = 0 /\ r.lba = IoStart(p) /\ r.num = num
      <3>1. pager.dev \in Devs
        BY <1>1, <1>2 DEF PagerOk
      <3> HIDE DEF num
      <3>2. b \in Seq(Val)
        <4>1. num \in Nat
          BY <2>2, Numbers
        <4> QED  BY <4>1, BufferType
      <3> HIDE DEF b
      <3>3. NewRec(r, IoStart(p), num)
        BY <2>2, <3>1, <3>2, RequestType
      <3> QED  BY <3>3 DEF NewRec
    <2>4. IoStart(p) + num = IoEnd(p)
      <3>1. IoStart(p) \in Int
        BY <2>2
      <3>2. IoEnd(p) \in Int
        BY <1>1, <1>2, <1>4, PageInRange
      <3> QED  BY <3>1, <3>2
    <2> HIDE DEF r, b, num
    <2>5. Goes(c, "paging", r)
      <3>1. "paging" \in PC /\ r \in {NoReq} \cup Rec
        BY <2>3 DEF PC
      <3> QED  BY <1>2, <2>1, <3>1, OneClient
    <2>6. ClientOk(c)'
      <3>1. pager' = pager
        BY <1>1
      <3>2. pc'[c] = "paging" /\ req'[c] = r
        BY <2>5 DEF Goes
      <3> QED  BY <1>1, <2>2, <2>3, <2>4, <3>1, <3>2 DEF ClientOk
    <2> QED  BY <1>1, <1>3, <2>5, <2>6, LocalKept DEF Goes
  <1>5. CASE ~AddressesOk(p)
    <2>1. pc' = [pc EXCEPT ![c] = "stuck"] /\ req' = req
      BY <1>5 DEF blockdev_pager_rw_page
    <2>2. /\ pc' \in [Clients -> PC] /\ pc'[c] = "stuck" /\ OnlyClient(c)
          /\ req' \in [Clients -> {NoReq} \cup Rec]
      BY <1>2, <2>1 DEF Types, OnlyClient, PC
    <2>3. ClientOk(c)
      BY DEF IInv, ClientsOk
    <2>4. ClientOk(c)'
      BY <2>1, <2>2, <2>3 DEF ClientOk, ReturnCode, InRange
    <2> QED  BY <1>1, <1>3, <2>2, <2>4, LocalKept
  <1> QED  BY <1>4, <1>5

LEMMA ClientDoneKept ==
    ASSUME IInv, NEW c \in Clients, client_done(c)
    PROVE  IInv'
  <1>1. /\ pc[c] = "returned" /\ req' = [req EXCEPT ![c] = NoReq]
        /\ pc' = [pc EXCEPT ![c] = "idle"]
        /\ UNCHANGED << devlist, pager, disk, work, worker, item, s_waitqueue, intended >>
    BY DEF client_done
  <1>2. Goes(c, "idle", NoReq)
    <2>1. Types /\ "idle" \in PC /\ NoReq \in {NoReq} \cup Rec
      BY DEF IInv, PC
    <2> QED  BY <1>1, <2>1, OneClient
  <1>3. ~InFlight(c)
    BY <1>1 DEF InFlight
  <1>4. ClientOk(c)'
    BY <1>2 DEF ClientOk, Goes
  <1> QED  BY <1>1, <1>2, <1>3, <1>4, LocalKept DEF Goes

LEMMA IssueKept ==
    ASSUME IInv, NEW c \in Clients, blockdev_issue_sync(c)
    PROVE  IInv'
  <1> DEFINE ok == req[c].rc = FINISHED
             p == IF ok THEN "idle" ELSE "stuck"
             r == IF ok THEN NoReq ELSE req[c]
  <1>1. /\ pc[c] = "returned" /\ req' = [req EXCEPT ![c] = r]
        /\ pc' = [pc EXCEPT ![c] = p]
        /\ UNCHANGED << devlist, pager, disk, work, worker, item, s_waitqueue, intended >>
    BY DEF blockdev_issue_sync
  <1>2. Types /\ ClientOk(c)
    BY DEF IInv, ClientsOk
  <1>3. p \in PC /\ p \in {"idle", "stuck"} /\ r \in {NoReq} \cup Rec /\ r \in {NoReq, req[c]}
    BY <1>2 DEF Types, PC
  <1> HIDE DEF p, r
  <1>4. Goes(c, p, r)
    BY <1>1, <1>2, <1>3, OneClient
  <1>5. ~InFlight(c)
    BY <1>1 DEF InFlight
  <1>6. ClientOk(c)'
    <2>1. pc'[c] = p /\ req'[c] = r
      BY <1>4 DEF Goes
    <2> QED  BY <1>2, <1>3, <2>1 DEF ClientOk, ReturnCode, InRange
  <1> QED  BY <1>1, <1>4, <1>5, <1>6, LocalKept DEF Goes

\* Waiting for the request, or returning with it.
LEMMA WaitKept ==
    ASSUME IInv, NEW c \in Clients, blockdev_wait_for_completion(c)
    PROVE  IInv'
  <1> DEFINE p == IF req[c].state = FINISHED THEN "returned" ELSE "waiting"
  <1>1. /\ pc[c] = "posted" /\ req' = req /\ pc' = [pc EXCEPT ![c] = p]
        /\ UNCHANGED << devlist, pager, disk, work, worker, item, s_waitqueue, intended >>
    BY DEF blockdev_wait_for_completion
  <1>2. Types /\ ClientOk(c)
    BY DEF IInv, ClientsOk
  <1>3. p \in PC /\ p \in {"returned", "waiting"} /\ (req[c].state = 0 => p = "waiting")
    BY DEF PC, FINISHED
  <1> HIDE DEF p
  <1>4. /\ pc' \in [Clients -> PC] /\ req' \in [Clients -> {NoReq} \cup Rec]
        /\ pc'[c] = p /\ OnlyClient(c)
    BY <1>1, <1>2, <1>3 DEF Types, OnlyClient
  <1>5. InFlight(c) => InFlight(c)' /\ req'[c] = req[c]
    BY <1>1, <1>3, <1>4 DEF InFlight
  <1>6. ClientOk(c)'
    BY <1>1, <1>2, <1>3, <1>4 DEF ClientOk, ReturnCode, InRange
  <1> QED  BY <1>1, <1>4, <1>5, <1>6, LocalKept

-----------------------------------------------------------------------------
(***************************************************************************)
(* Posting a request, and the work queue thread.                           *)
(***************************************************************************)
\* The first thread of s_waitqueue is woken up.
LEMMA WakeFirst ==
    ASSUME WaitOk,
           \/ s_waitqueue = << >> /\ worker' = worker /\ s_waitqueue' = s_waitqueue
           \/ /\ s_waitqueue # << >> /\ s_waitqueue' = Tail(s_waitqueue)
              /\ worker' = IF Head(s_waitqueue) = "worker" THEN "ready" ELSE worker
    PROVE  /\ WaitOk'
           /\ \/ worker' = worker
              \/ worker \in {"asleep", "ready"} /\ worker' \in {"asleep", "ready"}
  <1>1. CASE s_waitqueue = << >> /\ worker' = worker /\ s_waitqueue' = s_waitqueue
    BY <1>1 DEF WaitOk
  <1>2. CASE /\ s_waitqueue # << >> /\ s_waitqueue' = Tail(s_waitqueue)
             /\ worker' = IF Head(s_waitqueue) = "worker" THEN "ready" ELSE worker
    <2> DEFINE s == s_waitqueue
               n == Len(s)
    <2>1. s \in Seq({"worker", "reader"})
      BY DEF WaitOk
    <2>2. /\ n \in Nat \ {0} /\ Head(s) = s[1] /\ Tail(s) \in Seq({"worker", "reader"})
          /\ Len(Tail(s)) = n - 1 /\ \A i \in 1 .. n - 1 : Tail(s)[i] = s[i + 1]
      BY <1>2, <2>1, HeadTailProperties, LenProperties, EmptySeq
    <2>3. \A i \in 1 .. n - 1 : i + 1 \in 1 .. n /\ i + 1 # 1
      BY <2>2
    <2>4. 1 \in 1 .. n
      BY <2>2
    <2>5. Head(s) = "worker" => worker = "asleep"
      BY <2>2, <2>4 DEF WaitOk
    <2>6. ASSUME NEW i \in 1 .. n - 1, Tail(s)[i] = "worker"  PROVE  worker' = "asleep"
      <3>1. s[i + 1] = "worker" /\ i + 1 \in 1 .. n /\ i + 1 # 1
        BY <2>2, <2>3, <2>6
      <3>2. worker = "asleep"
        BY <3>1 DEF WaitOk
      <3>3. s[1] # "worker"
        BY <2>4, <3>1 DEF WaitOk
      <3> QED  BY <1>2, <2>2, <3>2, <3>3
    <2>7. ASSUME NEW i \in 1 .. n - 1, NEW j \in 1 .. n - 1, Tail(s)[i] = "worker",
                 Tail(s)[j] = "worker"
          PROVE  i = j
      <3>1. /\ s[i + 1] = "worker" /\ s[j + 1] = "worker"
            /\ i + 1 \in 1 .. n /\ j + 1 \in 1 .. n
        BY <2>2, <2>3, <2>7
      <3>2. i + 1 = j + 1
        BY <3>1 DEF WaitOk
      <3> QED  BY <2>2, <3>2
    <2>8. WaitOk'
      BY <1>2, <2>2, <2>6, <2>7 DEF WaitOk
    <2> QED  BY <1>2, <2>5, <2>8
  <1> QED  BY <1>1, <1>2

LEMMA PostKept ==
    ASSUME IInv, NEW c \in Clients, blockdev_post_request(c)
    PROVE  IInv'
  <1> DEFINE r == req[c]
             new == [r EXCEPT !.want = Want(r, intended)]
             n == Len(work)
  <1>1. /\ pc[c] \in {"created", "paging"} /\ pc' = [pc EXCEPT ![c] = "posted"]
        /\ work' = Append(work, c)
        /\ devlist' = devlist /\ pager' = pager /\ disk' = disk /\ item' = item
    BY DEF blockdev_post_request, ramdisk_post_request, workqueue_schedule_work
  <1>2. req' = [req EXCEPT ![c] = new]
    BY DEF blockdev_post_request, Want
  <1>3. intended' = [intended EXCEPT ![r.dev] = IF r.type = "write" /\ InRange(r)
                                                THEN CopyIn(intended[r.dev], r.lba, r.buf)
                                                ELSE intended[r.dev]]
    BY DEF blockdev_post_request
  <1>4. \/ s_waitqueue = << >> /\ worker' = worker /\ s_waitqueue' = s_waitqueue
        \/ /\ s_waitqueue # << >> /\ s_waitqueue' = Tail(s_waitqueue)
           /\ worker' = IF Head(s_waitqueue) = "worker" THEN "ready" ELSE worker
    BY DEF blockdev_post_request
  <1>5. Types /\ NamesUnique /\ PagerOk /\ ClientsOk /\ QueueOk /\ WaitOk /\ ItemOk /\ History
    BY DEF IInv
  <1>6. /\ WaitOk'
        /\ \/ worker' = worker
           \/ worker \in {"asleep", "ready"} /\ worker' \in {"asleep", "ready"}
    BY <1>4, <1>5, WakeFirst
  <1>7. /\ worker' \in {"busy", "copied"} <=> worker \in {"busy", "copied"}
        /\ worker' = "busy" <=> worker = "busy"
        /\ worker' = "copied" <=> worker = "copied"
        /\ worker' \in {"asleep", "ready", "busy", "copied"}
    BY <1>5, <1>6 DEF Types
  <1>8. r \in Rec /\ r.state = 0 /\ ~InFlight(c)
    BY <1>1, <1>5 DEF ClientsOk, ClientOk, InFlight
  <1>9. intended \in Disks /\ r.dev \in Devs /\ Want(r, intended) \in Seq(Val)
        /\ Apply(r, intended) \in Disks
    <2>1. intended \in Disks
      BY <1>5 DEF Types
    <2> QED  BY <1>8, <2>1, RecFields, WantType, ApplyType
  <1>10. intended' = Apply(r, intended)
    BY <1>3, <1>9 DEF Apply, Disks
  <1>11. new \in Rec /\ SameAsk(r, new) /\ new.buf = r.buf /\ new.state = 0
         /\ new.want = Want(r, intended)
    BY <1>8, <1>9, WantUpdate
  <1> HIDE DEF new
  <1>12. Goes(c, "posted", new)
    <2>1. "posted" \in PC /\ new \in {NoReq} \cup Rec
      BY <1>11 DEF PC
    <2> QED  BY <1>1, <1>2, <1>5, <2>1, OneClient
  <1>13. new.want = Want(new, intended) /\ intended' = Apply(new, intended)
    <2>1. Want(r, intended) = Want(new, intended) /\ Apply(r, intended) = Apply(new, intended)
      BY <1>11, SameAnswer
    <2> QED  BY <1>10, <1>11, <2>1
  <1>14. /\ n \in Nat /\ work \in Seq(Clients) /\ work' \in Seq(Clients) /\ Len(work') = n + 1
         /\ \A i \in 1 .. n : work'[i] = work[i]
         /\ work'[n + 1] = c
    <2>1. work \in Seq(Clients)
      BY <1>5 DEF Types
    <2> QED  BY <1>1, <2>1, AppendProperties, LenProperties
  <1>15. /\ \A i \in 1 .. n : work[i] \in Clients /\ work[i] # c
         /\ worker \in {"busy", "copied"} => item[1] \in Clients /\ item[1] # c
    <2>1. \A i \in 1 .. n : work[i] \in Clients
      BY <1>14, ElementOfSeq
    <2> QED  BY <1>5, <1>8, <2>1 DEF QueueOk, Types
  <1>16. \A u \in Clients : u # c => pc'[u] = pc[u] /\ req'[u] = req[u]
    BY <1>12 DEF Goes, OnlyClient
  <1>17. pc'[c] = "posted" /\ req'[c] = new
    BY <1>12 DEF Goes
  <1>18. Types'
    <2>1. pc' \in [Clients -> PC] /\ req' \in [Clients -> {NoReq} \cup Rec]
      BY <1>12 DEF Goes
    <2>2. intended' \in Disks
      BY <1>9, <1>10
    <2>3. devlist' = devlist /\ disk' = disk /\ item' = item
      BY <1>1
    <2> QED  BY <1>5, <1>7, <1>14, <2>1, <2>2, <2>3 DEF Types
  <1>19. NamesUnique' /\ PagerOk'
    <2>1. devlist' = devlist /\ pager' = pager
      BY <1>1
    <2> QED  BY <1>5, <2>1 DEF NamesUnique, PagerOk
  <1>20. ClientsOk'
    <2> SUFFICES ASSUME NEW u \in Clients  PROVE  ClientOk(u)'
      BY DEF ClientsOk
    <2>0. pager' = pager
      BY <1>1
    <2>1. CASE u = c
      BY <1>11, <1>17, <2>1 DEF ClientOk
    <2>2. CASE u # c
      <3>1. pc'[u] = pc[u] /\ req'[u] = req[u] /\ ClientOk(u)
        BY <1>5, <1>16, <2>2 DEF ClientsOk
      <3> QED  BY <2>0, <3>1 DEF ClientOk, ReturnCode, InRange
    <2> QED  BY <2>1, <2>2
  <1>21. QueueOk'
    <2>0. item' = item
      BY <1>1
    <2>1. ASSUME NEW u \in Clients, u # c, InFlight(u)
          PROVE  pc'[u] \in {"posted", "waiting"} /\ req'[u] \in Rec /\ req'[u].state = 0
      BY <1>16, <2>1 DEF InFlight
    <2>2. \A i \in 1 .. n + 1 : i \in 1 .. n \/ i = n + 1
      BY <1>14
    <2>3. ASSUME NEW i \in 1 .. n + 1
          PROVE  /\ pc'[work'[i]] \in {"posted", "waiting"} /\ req'[work'[i]] \in Rec
                 /\ req'[work'[i]].state = 0
      <3>1. CASE i \in 1 .. n
        <4>1. InFlight(work[i])
          BY <1>5, <3>1 DEF QueueOk
        <4> QED  BY <1>14, <1>15, <2>1, <3>1, <4>1
      <3>2. CASE i = n + 1
        BY <1>11, <1>14, <1>17, <3>2
      <3> QED  BY <2>2, <3>1, <3>2
    <2>4. ASSUME NEW i \in 1 .. n + 1, NEW j \in 1 .. n + 1, work'[i] = work'[j]
          PROVE  i = j
      <3>1. CASE i \in 1 .. n /\ j \in 1 .. n
        BY <1>5, <1>14, <2>4, <3>1 DEF QueueOk
      <3>2. CASE i \in 1 .. n /\ j = n + 1
        BY <1>14, <1>15, <2>4, <3>2
      <3>3. CASE i = n + 1 /\ j \in 1 .. n
        BY <1>14, <1>15, <2>4, <3>3
      <3> QED  BY <2>2, <3>1, <3>2, <3>3
    <2>5. ASSUME worker \in {"busy", "copied"}
          PROVE  /\ pc'[item[1]] \in {"posted", "waiting"} /\ req'[item[1]] \in Rec
                 /\ req'[item[1]].state = 0
                 /\ \A i \in 1 .. n + 1 : work'[i] # item[1]
      <3>1. InFlight(item[1]) /\ \A i \in 1 .. n : work[i] # item[1]
        BY <1>5, <2>5 DEF QueueOk
      <3> QED  BY <1>14, <1>15, <2>1, <2>2, <2>5, <3>1
    <2> QED  BY <1>7, <1>14, <2>0, <2>3, <2>4, <2>5 DEF QueueOk, InFlight
  <1>22. worker \in {"busy", "copied"} => req'[item[1]] = req[item[1]]
    BY <1>15, <1>16
  <1>23. ItemOk'
    <2>1. disk' = disk /\ item' = item
      BY <1>1
    <2> QED  BY <1>5, <1>7, <1>22, <2>1 DEF ItemOk, ReturnCode, InRange
  <1>24. Base' = Base
    <2>1. disk' = disk /\ item' = item
      BY <1>1
    <2> QED  BY <1>7, <1>22, <2>1 DEF Base
  <1>25. History'
    <2>1. Historic(work, req', Base, intended)
      <3>1. \A i \in 1 .. Len(work) : req'[work[i]] = req[work[i]]
        BY <1>15, <1>16
      <3> QED  BY <1>5, <1>14, <3>1, HistorySame DEF History
    <2>2. req'[c].want = Want(req'[c], intended) /\ intended' = Apply(req'[c], intended)
      BY <1>13, <1>17
    <2>3. intended' \in Disks
      BY <1>9, <1>10
    <2>4. Historic(Append(work, c), req', Base, intended')
      BY <1>14, <2>1, <2>2, <2>3, HistoryAppend
    <2> QED  BY <1>1, <1>24, <2>4 DEF History
  <1> QED  BY <1>6, <1>18, <1>19, <1>20, <1>21, <1>23, <1>25 DEF IInv

LEMMA WorkerSleeps ==
    ASSUME IInv, worker = "ready", worker' = "asleep",
           s_waitqueue' = Append(s_waitqueue, "worker"),
           UNCHANGED << devlist, pager, disk, req, pc, work, item, intended >>
    PROVE  IInv'
  <1> DEFINE s == s_waitqueue
             n == Len(s)
  <1>1. WaitOk
    BY DEF IInv
  <1>2. s \in Seq({"worker", "reader"})
    BY <1>1 DEF WaitOk
  <1>3. /\ n \in Nat /\ s_waitqueue' \in Seq({"worker", "reader"}) /\ Len(s_waitqueue') = n + 1
        /\ \A i \in 1 .. n : s_waitqueue'[i] = s[i]
    BY <1>2, AppendProperties, LenProperties
  <1>4. \A i \in 1 .. n : s[i] # "worker"
    BY <1>1 DEF WaitOk
  <1>5. \A i \in 1 .. n + 1 : i \in 1 .. n \/ i = n + 1
    BY <1>3
  <1>6. ASSUME NEW i \in 1 .. n + 1, s_waitqueue'[i] = "worker"  PROVE  i = n + 1
    BY <1>3, <1>4, <1>5, <1>6
  <1>7. WaitOk'
    BY <1>3, <1>6 DEF WaitOk
  <1> QED  BY <1>7, SleepKept

LEMMA ReaderSleeps ==
    ASSUME IInv, wait_for_key
    PROVE  IInv'
  <1> DEFINE s == s_waitqueue
             n == Len(s)
  <1>0. /\ s_waitqueue' = Append(s, "reader") /\ worker' = worker
        /\ UNCHANGED << devlist, pager, disk, req, pc, work, item, intended >>
    BY DEF wait_for_key
  <1>1. WaitOk
    BY DEF IInv
  <1>2. s \in Seq({"worker", "reader"})
    BY <1>1 DEF WaitOk
  <1>3. /\ n \in Nat /\ s_waitqueue' \in Seq({"worker", "reader"}) /\ Len(s_waitqueue') = n + 1
        /\ \A i \in 1 .. n : s_waitqueue'[i] = s[i]
        /\ s_waitqueue'[n + 1] = "reader"
    BY <1>0, <1>2, AppendProperties, LenProperties
  <1>4. \A i \in 1 .. n + 1 : i \in 1 .. n \/ i = n + 1
    BY <1>3
  <1>5. ASSUME NEW i \in 1 .. n + 1, s_waitqueue'[i] = "worker"
        PROVE  i \in 1 .. n /\ s[i] = "worker"
    BY <1>3, <1>4, <1>5
  <1>6. WaitOk'
    <2>1. \A i \in 1 .. n + 1 : s_waitqueue'[i] = "worker" => worker' = "asleep"
      BY <1>0, <1>1, <1>5 DEF WaitOk
    <2>2. \A i, j \in 1 .. n + 1 :
             s_waitqueue'[i] = "worker" /\ s_waitqueue'[j] = "worker" => i = j
      BY <1>1, <1>5 DEF WaitOk
    <2> QED  BY <1>3, <2>1, <2>2 DEF WaitOk
  <1> QED  BY <1>0, <1>6, SleepKept

LEMMA KeyWakes ==
    ASSUME IInv, key_arrives
    PROVE  IInv'
  <1>1. /\ s_waitqueue' = << >> /\ worker' = IF worker = "asleep" THEN "ready" ELSE worker
        /\ UNCHANGED << devlist, pager, disk, req, pc, work, item, intended >>
    BY DEF key_arrives
  <1>2. WaitOk'
    BY <1>1 DEF WaitOk
  <1> QED  BY <1>1, <1>2, SleepKept

\* The work queue thread takes the first request.
LEMMA WorkerTakes ==
    ASSUME IInv, worker = "ready", work # << >>, worker' = "busy",
           item' = << Head(work), 0 >>, work' = Tail(work),
           UNCHANGED << s_waitqueue, devlist, pager, disk, req, pc, intended >>
    PROVE  IInv'
  <1> DEFINE c == Head(work)
             n == Len(work)
  <1>1. Types /\ NamesUnique /\ PagerOk /\ ClientsOk /\ QueueOk /\ WaitOk /\ ItemOk /\ History
    BY DEF IInv
  <1>2. work \in Seq(Clients)
    BY <1>1 DEF Types
  <1>3. /\ n \in Nat \ {0} /\ c = work[1] /\ c \in Clients /\ work' \in Seq(Clients)
        /\ Len(work') = n - 1 /\ \A i \in 1 .. n - 1 : work'[i] = work[i + 1]
    BY <1>2, HeadTailProperties, LenProperties, EmptySeq
  <1>4. item'[1] = c /\ item'[2] = 0 /\ item' \in Clients \X {0, EINVAL}
    BY <1>3
  <1>5. s_waitqueue' = s_waitqueue /\ devlist' = devlist /\ pager' = pager /\ disk' = disk
        /\ req' = req /\ pc' = pc /\ intended' = intended
    OBVIOUS
  <1> HIDE DEF c
  <1>6. Types'
    BY <1>1, <1>3, <1>4, <1>5 DEF Types
  <1>7. NamesUnique' /\ PagerOk' /\ ClientsOk'
    BY <1>1, <1>5 DEF NamesUnique, PagerOk, ClientsOk, ClientOk, ReturnCode, InRange
  <1>8. WaitOk'
    BY <1>1, <1>5 DEF WaitOk
  <1>9. \A i \in 1 .. n - 1 : i + 1 \in 1 .. n /\ i + 1 # 1
    BY <1>3
  <1>10. 1 \in 1 .. n
    BY <1>3
  <1>11. QueueOk'
    <2>1. ASSUME NEW i \in 1 .. n - 1  PROVE  InFlight(work[i + 1]) /\ work'[i] # c
      BY <1>1, <1>3, <1>9, <1>10 DEF QueueOk
    <2>2. ASSUME NEW i \in 1 .. n - 1, NEW j \in 1 .. n - 1, work'[i] = work'[j]
          PROVE  i = j
      <3>1. i + 1 = j + 1
        BY <1>1, <1>3, <1>9, <2>2 DEF QueueOk
      <3> QED  BY <1>3, <3>1
    <2>3. InFlight(c)
      BY <1>1, <1>3, <1>10 DEF QueueOk
    <2>4. \A u : InFlight(u) => pc'[u] \in {"posted", "waiting"} /\ req'[u] \in Rec
                                /\ req'[u].state = 0
      BY <1>5 DEF InFlight
    <2> QED  BY <1>3, <1>4, <2>1, <2>2, <2>3, <2>4 DEF QueueOk, InFlight
  <1>12. Base = disk /\ Base' = Apply(req[c], disk)
    BY <1>4, <1>5 DEF Base
  <1>13. /\ req[c].want = Want(req[c], disk)
         /\ Historic(Tail(work), req, Apply(req[c], disk), intended)
    <2>1. Historic(work, req, disk, intended)
      BY <1>1, <1>12 DEF History
    <2> QED  BY <1>2, <2>1, HistoryTail DEF c
  <1>14. ItemOk'
    BY <1>4, <1>5, <1>13 DEF ItemOk
  <1>15. History'
    BY <1>5, <1>12, <1>13 DEF History
  <1> QED  BY <1>6, <1>7, <1>8, <1>11, <1>14, <1>15 DEF IInv

LEMMA WorkKept ==
    ASSUME IInv, workqueue_thread
    PROVE  IInv'
  <1>1. CASE work = << >>
    <2>1. /\ worker = "ready" /\ worker' = "asleep"
          /\ s_waitqueue' = Append(s_waitqueue, "worker")
          /\ UNCHANGED << devlist, pager, disk, req, pc, work, item, intended >>
      BY <1>1 DEF workqueue_thread
    <2> QED  BY <2>1, WorkerSleeps
  <1>2. CASE work # << >>
    <2>1. /\ worker = "ready" /\ worker' = "busy" /\ item' = << Head(work), 0 >>
          /\ work' = Tail(work)
          /\ UNCHANGED << s_waitqueue, devlist, pager, disk, req, pc, intended >>
      BY <1>2 DEF workqueue_thread
    <2> QED  BY <1>2, <2>1, WorkerTakes
  <1> QED  BY <1>1, <1>2

\* A step of the work queue thread for the request in its hands.
LEMMA HeldKept ==
    ASSUME IInv, worker \in {"busy", "copied"}, NEW c \in Clients, c = item[1], OnlyClient(c),
           pc' \in [Clients -> PC], req' \in [Clients -> {NoReq} \cup Rec],
           disk' \in Disks, disk' = Base, ClientOk(c)',
           worker' \in {"ready", "copied"}, ItemOk',
           worker' = "copied" => item' \in Clients \X {0, EINVAL} /\ item'[1] = c /\ InFlight(c)',
           UNCHANGED << devlist, pager, work, s_waitqueue, intended >>
    PROVE  IInv'
  <1> DEFINE n == Len(work)
  <1>1. Types /\ NamesUnique /\ PagerOk /\ ClientsOk /\ QueueOk /\ WaitOk /\ ItemOk /\ History
    BY DEF IInv
  <1>2. s_waitqueue' = s_waitqueue /\ devlist' = devlist /\ pager' = pager
        /\ work' = work /\ intended' = intended
    OBVIOUS
  <1>3. Types'
    BY <1>1, <1>2 DEF Types
  <1>4. NamesUnique' /\ PagerOk'
    BY <1>1, <1>2 DEF NamesUnique, PagerOk
  <1>5. ClientsOk'
    <2> SUFFICES ASSUME NEW u \in Clients  PROVE  ClientOk(u)'
      BY DEF ClientsOk
    <2>1. CASE u = c
      BY <2>1
    <2>2. CASE u # c
      <3>1. pc'[u] = pc[u] /\ req'[u] = req[u] /\ ClientOk(u)
        BY <1>1, <2>2 DEF OnlyClient, ClientsOk
      <3> QED  BY <1>2, <3>1 DEF ClientOk, ReturnCode, InRange
    <2> QED  BY <2>1, <2>2
  <1>6. WaitOk'
    <2>1. worker # "asleep"
      OBVIOUS
    <2> QED  BY <1>1, <1>2, <2>1 DEF WaitOk
  <1>7. work \in Seq(Clients) /\ \A i \in 1 .. n : work[i] \in Clients /\ work[i] # c
    <2>1. \A i \in 1 .. n : work[i] \in Clients
      BY <1>1, LenProperties DEF Types
    <2> QED  BY <1>1, <2>1 DEF QueueOk, Types
  <1>8. \A i \in 1 .. n : pc'[work[i]] = pc[work[i]] /\ req'[work[i]] = req[work[i]]
    BY <1>7 DEF OnlyClient
  <1>9. QueueOk'
    <2>1. \A i \in 1 .. n : pc'[work[i]] \in {"posted", "waiting"} /\ req'[work[i]] \in Rec
                            /\ req'[work[i]].state = 0
      BY <1>1, <1>8 DEF QueueOk, InFlight
    <2>2. \A i, j \in 1 .. n : work[i] = work[j] => i = j
      BY <1>1 DEF QueueOk
    <2>3. worker' \in {"busy", "copied"} =>
             /\ pc'[item'[1]] \in {"posted", "waiting"} /\ req'[item'[1]] \in Rec
             /\ req'[item'[1]].state = 0 /\ \A i \in 1 .. n : work[i] # item'[1]
      BY <1>7 DEF InFlight
    <2> QED  BY <1>2, <2>1, <2>2, <2>3 DEF QueueOk, InFlight
  <1>10. Base' = Base
    BY DEF Base
  <1>11. History'
    <2>1. Historic(work, req', Base, intended)
      BY <1>1, <1>7, <1>8, HistorySame DEF History
    <2> QED  BY <1>2, <1>10, <2>1 DEF History
  <1> QED  BY <1>3, <1>4, <1>5, <1>6, <1>9, <1>11 DEF IInv

\* What the work queue thread knows of the request in its hands.
LEMMA Held ==
    ASSUME IInv, worker \in {"busy", "copied"}
    PROVE  /\ item[1] \in Clients /\ item[2] \in {0, EINVAL} /\ req[item[1]] \in Rec
           /\ InFlight(item[1]) /\ req[item[1]].state = 0 /\ pc[item[1]] \in {"posted", "waiting"}
           /\ disk \in Disks
  <1>1. Types /\ QueueOk
    BY DEF IInv
  <1>2. item[1] \in Clients /\ item[2] \in {0, EINVAL} /\ disk \in Disks
    BY <1>1 DEF Types
  <1>3. InFlight(item[1])
    BY <1>1 DEF QueueOk
  <1> QED  BY <1>2, <1>3 DEF InFlight

\* The copy leaves the disks and the buffer as the request ought to find them.
LEMMA HandleKept ==
    ASSUME IInv, ramdisk_handle_request
    PROVE  IInv'
  <1>0. PICK c \in Clients : c = item[1]
    <2>1. worker = "busy"
      BY DEF ramdisk_handle_request
    <2> QED  BY <2>1, Held
  <1> DEFINE r == req[c]
             s == [r EXCEPT !.buf = Want(r, disk)]
  <1>1. /\ worker = "busy" /\ worker' = "copied"
        /\ UNCHANGED << devlist, pager, pc, work, s_waitqueue, intended >>
    BY DEF ramdisk_handle_request
  <1>2. /\ c \in Clients /\ r \in Rec /\ InFlight(c) /\ r.state = 0
        /\ pc[c] \in {"posted", "waiting"} /\ disk \in Disks
    BY <1>0, <1>1, Held
  <1>3. Types /\ ItemOk /\ ClientOk(c)
    BY <1>2 DEF IInv, ClientsOk
  <1>4. r.want = Want(r, disk)
    BY <1>0, <1>1, <1>3 DEF ItemOk
  <1>5. range_is_valid_u32(r.lba, r.num, NumBlocks) <=> InRange(r)
    BY <1>2, ValidRange
  <1>6. r.type \in {"read", "write"} /\ r.dev \in Devs
    BY <1>2, RecFields
  <1>7. item' = << c, ReturnCode(r) >>
    BY <1>0, <1>5 DEF ramdisk_handle_request, ReturnCode
  <1>8. Want(r, disk) \in Seq(Val) /\ Apply(r, disk) \in Disks
    BY <1>2, WantType, ApplyType
  <1>9. s \in Rec /\ SameAsk(r, s) /\ s.buf = Want(r, disk) /\ s.state = r.state
        /\ s.want = r.want
    BY <1>2, <1>8, BufUpdate
  <1>10. disk' = Apply(r, disk)
    <2>1. CASE InRange(r) /\ r.type = "write"
      BY <1>0, <1>5, <2>1 DEF ramdisk_handle_request, Apply
    <2>2. CASE ~(InRange(r) /\ r.type = "write")
      <3>1. disk' = disk
        BY <1>0, <1>5, <1>6, <2>2 DEF ramdisk_handle_request
      <3> QED  BY <2>2, <3>1 DEF Apply
    <2> QED  BY <2>1, <2>2
  <1>11. req \in [Clients -> {NoReq} \cup Rec] /\ pc \in [Clients -> PC]
    BY <1>3 DEF Types
  <1>12. /\ req' \in [Clients -> {NoReq} \cup Rec] /\ req'[c] \in {r, s}
         /\ req'[c].buf = Want(r, disk)
         /\ \A u \in Clients : u # c => req'[u] = req[u]
    <2>1. CASE InRange(r) /\ r.type = "read"
      <3>1. Want(r, disk) = CopyOut(disk[r.dev], r.lba, r.num)
        BY <2>1 DEF Want
      <3>2. req' = [req EXCEPT ![c].buf = CopyOut(disk[r.dev], r.lba, r.num)]
        BY <1>0, <1>5, <1>6, <2>1 DEF ramdisk_handle_request
      <3>3. req' = [req EXCEPT ![c] = s]
        BY <3>1, <3>2
      <3> HIDE DEF s
      <3>4. req'[c] = s /\ req' \in [Clients -> {NoReq} \cup Rec]
            /\ \A u \in Clients : u # c => req'[u] = req[u]
        BY <1>2, <1>9, <1>11, <3>3
      <3> QED  BY <1>9, <3>4
    <2>2. CASE ~(InRange(r) /\ r.type = "read")
      <3>1. req' = req
        BY <1>0, <1>5, <1>6, <2>2 DEF ramdisk_handle_request
      <3>2. Want(r, disk) = r.buf
        BY <2>2 DEF Want
      <3> QED  BY <1>11, <3>1, <3>2
    <2> QED  BY <2>1, <2>2
  <1> HIDE DEF s
  <1>13. req'[c] \in Rec /\ SameAsk(r, req'[c]) /\ req'[c].state = 0 /\ req'[c].want = r.want
    <2>1. SameAsk(r, r)
      BY DEF SameAsk
    <2> QED  BY <1>2, <1>9, <1>12, <2>1
  <1>14. ReturnCode(req'[c]) = ReturnCode(r)
    BY <1>13, SameAnswer
  <1>15. pc' = pc /\ item'[1] = c /\ item'[2] = ReturnCode(r)
    BY <1>1, <1>7
  <1>16. ReturnCode(r) \in {0, EINVAL}
    BY DEF ReturnCode
  <1>17. item' \in Clients \X {0, EINVAL}
    BY <1>2, <1>7, <1>16
  <1>18. InFlight(c)'
    BY <1>2, <1>13, <1>15 DEF InFlight
  <1>19. ClientOk(c)'
    BY <1>2, <1>13, <1>15 DEF ClientOk
  <1>20. ItemOk'
    BY <1>1, <1>4, <1>12, <1>13, <1>14, <1>15 DEF ItemOk
  <1>21. OnlyClient(c)
    BY <1>12, <1>15 DEF OnlyClient
  <1>22. disk' \in Disks /\ disk' = Base
    BY <1>0, <1>1, <1>8, <1>10 DEF Base
  <1>23. pc' \in [Clients -> PC]
    BY <1>11, <1>15
  <1> QED  BY <1>0, <1>1, <1>12, <1>15, <1>17, <1>18, <1>19, <1>20, <1>21, <1>22, <1>23, HeldKept

\* The notification tells the client what the copy found.
LEMMA NotifyKept ==
    ASSUME IInv, blockdev_notify_complete
    PROVE  IInv'
  <1>0. PICK c \in Clients : c = item[1]
    <2>1. worker = "copied"
      BY DEF blockdev_notify_complete
    <2> QED  BY <2>1, Held
  <1> DEFINE r == req[c]
             s == [r EXCEPT !.state = FINISHED, !.rc = item[2]]
             p == IF pc[c] = "waiting" THEN "posted" ELSE pc[c]
  <1>1. /\ worker = "copied" /\ worker' = "ready" /\ disk' = disk
        /\ UNCHANGED << devlist, pager, work, s_waitqueue, intended >>
    BY DEF blockdev_notify_complete
  <1>2. /\ r \in Rec /\ item[2] \in {0, EINVAL} /\ pc[c] \in {"posted", "waiting"}
        /\ disk \in Disks
    BY <1>0, <1>1, Held
  <1>3. Types /\ ItemOk
    BY DEF IInv
  <1>4. r.buf = r.want /\ item[2] = ReturnCode(r)
    BY <1>0, <1>1, <1>3 DEF ItemOk
  <1>5. s \in Rec /\ SameAsk(r, s) /\ s.buf = r.buf /\ s.state = 1 /\ s.rc = item[2]
        /\ s.want = r.want
    BY <1>2, DoneUpdate
  <1>6. req' = [req EXCEPT ![c].state = FINISHED, ![c].rc = item[2]]
    BY <1>0 DEF blockdev_notify_complete
  <1>7. req' = [req EXCEPT ![c] = s]
    BY <1>3, <1>6 DEF Types
  <1>8. pc' = [pc EXCEPT ![c] = p]
    BY <1>0 DEF blockdev_notify_complete
  <1>9. p = "posted" /\ p \in PC
    BY <1>2 DEF PC
  <1> HIDE DEF s, p
  <1>10. Goes(c, p, s)
    BY <1>3, <1>5, <1>7, <1>8, <1>9, OneClient
  <1>11. pc'[c] = "posted" /\ req'[c] = s
    BY <1>9, <1>10 DEF Goes
  <1>12. ReturnCode(s) = ReturnCode(r)
    BY <1>5, SameAnswer
  <1>13. ClientOk(c)'
    BY <1>4, <1>5, <1>11, <1>12 DEF ClientOk
  <1>14. ItemOk'
    BY <1>1 DEF ItemOk
  <1>15. disk' = Base
    BY <1>1 DEF Base
  <1> QED  BY <1>0, <1>1, <1>2, <1>10, <1>13, <1>14, <1>15, HeldKept DEF Goes

-----------------------------------------------------------------------------
(***************************************************************************)
(* The invariant, and what follows from it.                                *)
(***************************************************************************)
LEMMA InitInv == Init => IInv
  <1> SUFFICES ASSUME Init  PROVE  IInv
    OBVIOUS
  <1>1. /\ devlist = << >> /\ pager = NoPager /\ disk = [d \in Devs |-> [b \in Blocks |-> 0]]
        /\ req = [c \in Clients |-> NoReq] /\ pc = [c \in Clients |-> "idle"]
        /\ work = << >> /\ worker = "ready" /\ s_waitqueue = << >> /\ intended = disk
    BY DEF Init
  <1>2. disk \in Disks
    <2>1. [b \in Blocks |-> 0] \in [Blocks -> Val]
      BY Numbers
    <2> QED  BY <1>1, <2>1 DEF Disks
  <1>3. Types
    <2>1. devlist \in Seq([name : Names, dev : Devs]) /\ work \in Seq(Clients)
      BY <1>1
    <2>2. req \in [Clients -> {NoReq} \cup Rec] /\ pc \in [Clients -> PC]
      BY <1>1 DEF PC
    <2> QED  BY <1>1, <1>2, <2>1, <2>2 DEF Types
  <1>4. NamesUnique /\ PagerOk
    BY <1>1 DEF NamesUnique, PagerOk
  <1>5. ClientsOk
    BY <1>1 DEF ClientsOk, ClientOk
  <1>6. Len(work) = 0 /\ Len(s_waitqueue) = 0 /\ s_waitqueue \in Seq({"worker", "reader"})
    BY <1>1, EmptySeq
  <1>7. QueueOk /\ ItemOk
    BY <1>1, <1>6 DEF QueueOk, ItemOk
  <1>8. WaitOk
    BY <1>1, <1>6 DEF WaitOk
  <1>9. History
    <2> DEFINE h == [i \in 0 .. 0 |-> disk]
    <2>1. h \in [0 .. 0 -> Disks] /\ h[0] = disk
      BY <1>2
    <2> HIDE DEF h
    <2>2. Base = disk
      BY <1>1 DEF Base
    <2>3. Hist(h, work, req, Base, intended)
      BY <1>1, <1>6, <2>1, <2>2 DEF Hist
    <2> QED  BY <1>6, <2>1, <2>3 DEF History, Historic
  <1> QED  BY <1>3, <1>4, <1>5, <1>7, <1>8, <1>9 DEF IInv

LEMMA NextInv == IInv /\ [Next]_vars => IInv'
  <1> SUFFICES ASSUME IInv, [Next]_vars  PROVE  IInv'
    OBVIOUS
  <1>1. CASE Worker
    BY <1>1, WorkKept, HandleKept, NotifyKept DEF Worker
  <1>2. CASE wait_for_key
    BY <1>2, ReaderSleeps
  <1>3. CASE key_arrives
    BY <1>3, KeyWakes
  <1>4. ASSUME NEW c \in Clients, Client(c)  PROVE  IInv'
    BY <1>4, PostKept, WaitKept, ClientDoneKept, IssueKept DEF Client
  <1>5. ASSUME NEW c \in Clients, Call(c)  PROVE  IInv'
    <2>1. CASE \E n \in Names : pfat_create_instance(c, n)
      BY <2>1, PfatKept
    <2>2. ASSUME NEW type \in {"read", "write"}, NEW v \in IF type = "read" THEN {0} ELSE Vals,
                 \/ \E d \in Devs, ext \in Extents : blockdev_create_request(c, d, ext, type, v)
                 \/ \E p \in PageNums : blockdev_pager_rw_page(c, p, type, v)
          PROVE  IInv'
      <3>1. v \in Val
        BY Numbers
      <3> QED  BY <2>2, <3>1, CreateKept, PageKept
    <2> QED  BY <1>5, <2>1, <2>2 DEF Call
  <1>6. ASSUME NEW n \in Names, NEW d \in Devs, dev_register(n, d)  PROVE  IInv'
    BY <1>6, RegisterKept
  <1>7. ASSUME NEW d \in Devs, NEW ext \in PagerExtents,
               blockdev_pager_create(d, ext[1], ext[2])
        PROVE  IInv'
    BY <1>7, PagerKept
  <1>8. CASE UNCHANGED vars
    <2>1. /\ UNCHANGED << devlist, pager, disk, req, pc, work, item, intended >>
          /\ worker' = worker /\ s_waitqueue' = s_waitqueue
      BY <1>8 DEF vars
    <2>2. WaitOk'
      BY <2>1 DEF IInv, WaitOk
    <2> QED  BY <2>1, <2>2, SleepKept
  <1> QED  BY <1>1, <1>2, <1>3, <1>4, <1>5, <1>6, <1>7, <1>8 DEF Next

(***************************************************************************)
(* The inductive invariant holds: at every moment there is a sequence of   *)
(* disks, from the one the ramdisks hold to the one that all the requests  *)
(* posted so far intend, along which every request in the work queue finds *)
(* what it remembers, whatever clients, work queue thread and keyboard do. *)
(***************************************************************************)
THEOREM IInvCorrect == Spec => []IInv
  BY InitInv, NextInv, PTL DEF Spec

(***************************************************************************)
(* Every request that blockdev_notify_complete has completed has EINVAL if *)
(* it reached past the end of the device, and otherwise the data that the  *)
(* requests posted before it, and no others, left in the ramdisk.          *)
(***************************************************************************)
THEOREM AnswersCorrect == Spec => []AnswersInOrder
  <1>1. IInv => AnswersInOrder
    BY DEF IInv, ClientsOk, ClientOk, AnswersInOrder, FINISHED, ReturnCode
  <1> QED  BY <1>1, IInvCorrect, PTL

(***************************************************************************)
(* The request that blockdev_pager_rw_page makes for a page, whatever its  *)
(* number, lies inside the blocks of the pager: the arithmetic modulo      *)
(* 2^32 either ends in an assert or does not wrap.                         *)
(***************************************************************************)
THEOREM PagerCorrect == Spec => []PagerStaysInRange
  <1>1. IInv => PagerStaysInRange
    BY DEF IInv, ClientsOk, ClientOk, PagerStaysInRange
  <1> QED  BY <1>1, IInvCorrect, PTL

=============================================================================

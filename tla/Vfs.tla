--------------------------------- MODULE Vfs ---------------------------------
(***************************************************************************)
(* The virtual filesystem (src/kernel/vfs.c): the tree of inodes, their    *)
(* reference counts, and lookups that give up s_fs_mutex while the         *)
(* filesystem driver searches a directory, which is marked busy meanwhile. *)
(*                                                                         *)
(* s_fs_mutex and the conditions of the inodes behave as module Monitor    *)
(* says.  The driver is external: its lookup fails, or makes an inode the  *)
(* way pfat_get_inode does, with an initial reference.  A path is a        *)
(* sequence of names; the name TooLong exceeds VFS_NAMELEN_MAX.  The root  *)
(* has a null pointer for its name: what strncmp finds at address 0 is     *)
(* equal to a name or not.                                                 *)
(***************************************************************************)
EXTENDS Integers, SequencesExt, FiniteSets

CONSTANTS
    Threads, NoThread,
    Paths,          \* the paths threads look up
    NoName,         \* the null pointer that the root directory has for a name
    TooLong,
    Drivers,        \* the names of filesystem drivers
    MaxInodes,      \* bounds the inodes created
    MaxCalls,       \* bounds the lookups of a thread
    MaxHeld         \* bounds the inodes a thread has

ASSUME VfsAssumption ==
    /\ NoThread \notin Threads /\ IsFiniteSet(Threads)
    /\ \A p \in Paths : p \in Seq(Range(p)) /\ NoName \notin Range(p)
    /\ MaxInodes \in Nat /\ MaxCalls \in Nat /\ MaxHeld \in Nat

VARIABLES
    s_driver_list,  \* the drivers registered
    s_root_dir,     \* the root directory
    inodes,         \* the inodes, in the order of their creation
    mutex,          \* who holds s_fs_mutex
    pc,             \* where a thread is in vfs_lookup_inode
    inode,          \* the local variable inode
    path,           \* the path elements that are left
    child,          \* the result of the driver's lookup
    held,           \* the inodes a thread was given and has not released
    calls,          \* how often a thread has called vfs_lookup_inode
    halted          \* a KASSERT has failed inside mutex_lock

vars == << s_driver_list, s_root_dir, inodes, mutex, pc, inode, path, child,
           held, calls, halted >>

NoInode == 0
Ids == 1 .. Len(inodes)

Init ==
    /\ s_driver_list = {} /\ s_root_dir = NoInode /\ inodes = << >>
    /\ mutex = NoThread /\ pc = [t \in Threads |-> "idle"]
    /\ inode = [t \in Threads |-> NoInode] /\ path = [t \in Threads |-> << >>]
    /\ child = [t \in Threads |-> NoInode] /\ held = [t \in Threads |-> << >>]
    /\ calls = [t \in Threads |-> 0] /\ halted = FALSE

vfs_inode_create(parent, type, name) ==
    [parent |-> parent, type |-> type, name |-> name, refcount |-> 0,
     busy |-> FALSE, child_list |-> << >>]

\* The driver adds the initial reference.
pfat_get_inode(parent, type, name) ==
    [vfs_inode_create(parent, type, name) EXCEPT !.refcount = @ + 1]

\* Every instance is new, and so has no root directory yet.
pfat_get_root == pfat_get_inode(NoInode, "dir", NoName)

\* Inode i and its ancestors: the smallest set that contains i and, with an
\* inode, its parent.
Ancestors(i) ==
    {k \in Ids : \A S \in SUBSET Ids :
        (i \in S /\ \A j \in S : inodes[j].parent \in S \cup {NoInode}) => k \in S}

\* A mutation: the ancestors are forgotten.
vfs_adjust_refcounts_inode_only(i, delta) ==
    inodes' = [inodes EXCEPT ![i].refcount = @ + delta]

vfs_adjust_refcounts(i, delta) ==
    inodes' = [k \in Ids |-> IF k \in Ancestors(i)
                             THEN [inodes[k] EXCEPT !.refcount = @ + delta]
                             ELSE inodes[k]]

-----------------------------------------------------------------------------
vfs_register_fs_driver(d) ==
    /\ s_driver_list' = s_driver_list \cup {d}
    /\ UNCHANGED << s_root_dir, inodes, mutex, pc, inode, path, child, held, calls, halted >>

vfs_find_fs_driver(d) == d \in s_driver_list

\* A driver that is unknown is EINVAL, and an instance that cannot be made or
\* has no root directory an error of the driver.  s_root_instance, which would
\* tell that a root is mounted, is never set: a second mount succeeds.
vfs_do_mount(d) ==
    /\ vfs_find_fs_driver(d)
    /\ inodes' = Append(inodes, pfat_get_root)
    /\ s_root_dir' = Len(inodes) + 1

vfs_mount_root(d) ==
    /\ mutex = NoThread /\ Len(inodes) < MaxInodes
    /\ vfs_do_mount(d)
    /\ UNCHANGED << s_driver_list, mutex, pc, inode, path, child, held, calls, halted >>

\* vfs_get_root_dir locks s_fs_mutex a second time where it should unlock it.
vfs_get_root_dir(t) ==
    /\ pc[t] = "idle" /\ Len(held[t]) < MaxHeld /\ mutex = NoThread
    /\ mutex' = t /\ halted' = TRUE
    /\ IF s_root_dir = NoInode THEN UNCHANGED << inodes, held >>
       ELSE /\ inodes' = [inodes EXCEPT ![s_root_dir].refcount = @ + 1]
            /\ held' = [held EXCEPT ![t] = Append(@, s_root_dir)]
    /\ UNCHANGED << s_driver_list, s_root_dir, pc, inode, path, child, calls >>

\* vfs_mount begins with it.
vfs_mount(t) == vfs_get_root_dir(t)

-----------------------------------------------------------------------------
\* A lookup from the root directory, or from an inode the thread has.
call_vfs_lookup_inode(t, start, p) ==
    /\ pc[t] = "idle" /\ calls[t] < MaxCalls /\ Len(held[t]) < MaxHeld
    /\ start # NoInode
    /\ pc' = [pc EXCEPT ![t] = "start"]
    /\ inode' = [inode EXCEPT ![t] = start] /\ path' = [path EXCEPT ![t] = p]
    /\ calls' = [calls EXCEPT ![t] = @ + 1]
    /\ UNCHANGED << s_driver_list, s_root_dir, inodes, mutex, child, held, halted >>

\* The mutex is taken and the reference to the start inode counted.
vfs_lookup_inode(t) ==
    /\ pc[t] = "start" /\ mutex = NoThread
    /\ vfs_adjust_refcounts(inode[t], 1)
    /\ mutex' = t /\ pc' = [pc EXCEPT ![t] = "loop"]
    /\ UNCHANGED << s_driver_list, s_root_dir, inode, path, child, held, calls, halted >>

InLoop(t) == pc[t] = "loop" /\ path[t] # << >>

Legal(t) == Head(path[t]) # TooLong /\ inodes[inode[t]].type = "dir"

\* EINVAL for a name that is too long, ENOTDIR for a file on the way.
lookup_illegal(t) ==
    /\ InLoop(t) /\ ~Legal(t)
    /\ pc' = [pc EXCEPT ![t] = "failed"]
    /\ UNCHANGED << s_driver_list, s_root_dir, inodes, mutex, inode, path, child, held,
                    calls, halted >>

\* vfs_lock_dir waits while the directory is busy.
vfs_lock_dir_wait(t) ==
    /\ InLoop(t) /\ Legal(t) /\ inodes[inode[t]].busy
    /\ mutex' = NoThread /\ pc' = [pc EXCEPT ![t] = "wait"]
    /\ UNCHANGED << s_driver_list, s_root_dir, inodes, inode, path, child, held, calls, halted >>

\* The search of the child list compares the name with that of the directory:
\* if they agree, the first child is taken.
MayHit(t) ==
    /\ inodes[inode[t]].child_list # << >>
    /\ inodes[inode[t]].name \in {Head(path[t]), NoName}

\* They differ for every child, or there is none.
MayMiss(t) ==
    \/ inodes[inode[t]].child_list = << >>
    \/ inodes[inode[t]].name # Head(path[t])

\* The search goes on in child k.
Descend(t, k) ==
    /\ inode' = [inode EXCEPT ![t] = k] /\ path' = [path EXCEPT ![t] = Tail(@)]

\* The directory is locked and unlocked in one step with the mutex held.
vfs_lookup_child_hit(t) ==
    LET k == Head(inodes[inode[t]].child_list)
    IN /\ InLoop(t) /\ Legal(t) /\ ~inodes[inode[t]].busy /\ MayHit(t)
       /\ inodes' = [inodes EXCEPT ![k].refcount = @ + 1]
       /\ Descend(t, k)
       /\ UNCHANGED << s_driver_list, s_root_dir, mutex, pc, child, held, calls, halted >>

\* A mutation: a directory that is busy is entered.
vfs_lookup_child_unlocked(t) ==
    /\ InLoop(t) /\ Legal(t) /\ MayMiss(t)
    /\ inodes' = [inodes EXCEPT ![inode[t]].busy = TRUE]
    /\ mutex' = NoThread /\ pc' = [pc EXCEPT ![t] = "io"]
    /\ UNCHANGED << s_driver_list, s_root_dir, inode, path, child, held, calls, halted >>

\* The directory is locked, and the mutex released for the driver.
vfs_lookup_child(t) ==
    /\ InLoop(t) /\ Legal(t) /\ ~inodes[inode[t]].busy /\ MayMiss(t)
    /\ inodes' = [inodes EXCEPT ![inode[t]].busy = TRUE]
    /\ mutex' = NoThread /\ pc' = [pc EXCEPT ![t] = "io"]
    /\ UNCHANGED << s_driver_list, s_root_dir, inode, path, child, held, calls, halted >>

\* dir->ops->lookup of a driver makes the child, which joins the child list
\* although the mutex is not held.
lookup_found(t, type) ==
    LET d == inode[t]
        k == Len(inodes) + 1
    IN /\ pc[t] = "io" /\ Len(inodes) < MaxInodes
       /\ inodes' = Append([inodes EXCEPT ![d].child_list = Append(@, k)],
                           pfat_get_inode(d, type, Head(path[t])))
       /\ child' = [child EXCEPT ![t] = k] /\ pc' = [pc EXCEPT ![t] = "relock"]
       /\ UNCHANGED << s_driver_list, s_root_dir, mutex, inode, path, held, calls, halted >>

\* It fails.
lookup_failed(t) ==
    /\ pc[t] = "io"
    /\ child' = [child EXCEPT ![t] = NoInode] /\ pc' = [pc EXCEPT ![t] = "relock"]
    /\ UNCHANGED << s_driver_list, s_root_dir, inodes, mutex, inode, path, held, calls, halted >>

\* Where the threads are after cond_broadcast(&dir->inode_cond).
Broadcast(d, ready) ==
    [u \in Threads |-> IF ready[u] = "wait" /\ inode[u] = d THEN "woken" ELSE ready[u]]


\* The broadcast of vfs_unlock_dir.
vfs_unlock_dir(t, ready) == pc' = Broadcast(inode[t], ready)

\* The mutex is taken again, the directory unlocked, and the child entered.
lookup_relock(t) ==
    LET d == inode[t]
        k == child[t]
    IN /\ pc[t] = "relock" /\ mutex = NoThread /\ mutex' = t
       /\ child' = [child EXCEPT ![t] = NoInode]
       /\ \/ /\ k = NoInode
             /\ inodes' = [inodes EXCEPT ![d].busy = FALSE]
             /\ vfs_unlock_dir(t, [pc EXCEPT ![t] = "failed"])
             /\ UNCHANGED << inode, path >>
          \/ /\ k # NoInode
             /\ inodes' = [inodes EXCEPT ![d].busy = FALSE, ![k].refcount = @ + 1]
             /\ vfs_unlock_dir(t, [pc EXCEPT ![t] = "loop"])
             /\ Descend(t, k)
       /\ UNCHANGED << s_driver_list, s_root_dir, held, calls, halted >>

\* cond_wait returns with the mutex, and the directory is looked at again.
vfs_lock_dir_woken(t) ==
    /\ pc[t] = "woken" /\ mutex = NoThread
    /\ mutex' = t /\ pc' = [pc EXCEPT ![t] = "loop"]
    /\ UNCHANGED << s_driver_list, s_root_dir, inodes, inode, path, child, held, calls, halted >>

\* The path is used up: success.
lookup_done(t) ==
    /\ pc[t] = "loop" /\ path[t] = << >>
    /\ mutex' = NoThread /\ pc' = [pc EXCEPT ![t] = "idle"]
    /\ inode' = [inode EXCEPT ![t] = NoInode]
    /\ held' = [held EXCEPT ![t] = Append(@, inode[t])]
    /\ UNCHANGED << s_driver_list, s_root_dir, inodes, path, child, calls, halted >>

\* The references counted so far are given up.
lookup_error(t) ==
    /\ pc[t] = "failed"
    /\ vfs_adjust_refcounts(inode[t], -1)
    /\ mutex' = NoThread /\ pc' = [pc EXCEPT ![t] = "idle"]
    /\ inode' = [inode EXCEPT ![t] = NoInode] /\ path' = [path EXCEPT ![t] = << >>]
    /\ UNCHANGED << s_driver_list, s_root_dir, child, held, calls, halted >>

vfs_release_ref(t, i) ==
    /\ pc[t] = "idle" /\ mutex = NoThread
    /\ vfs_adjust_refcounts(held[t][i], -1)
    /\ held' = [held EXCEPT ![t] = RemoveAt(@, i)]
    /\ UNCHANGED << s_driver_list, s_root_dir, mutex, pc, inode, path, child, calls, halted >>

Lookup(t) ==
    \/ vfs_lookup_inode(t) \/ lookup_illegal(t)
    \/ vfs_lock_dir_wait(t) \/ vfs_lock_dir_woken(t)
    \/ vfs_lookup_child_hit(t) \/ vfs_lookup_child(t)
    \/ lookup_failed(t) \/ \E type \in {"dir", "file"} : lookup_found(t, type)
    \/ lookup_relock(t) \/ lookup_done(t) \/ lookup_error(t)

Next ==
    /\ ~halted
    /\ \/ \E d \in Drivers : vfs_register_fs_driver(d) \/ vfs_mount_root(d)
       \/ \E t \in Threads :
             \/ Lookup(t) \/ vfs_get_root_dir(t) \/ vfs_mount(t)
             \/ \E start \in {s_root_dir} \cup Range(held[t]), p \in Paths :
                   call_vfs_lookup_inode(t, start, p)
             \/ \E i \in DOMAIN held[t] : vfs_release_ref(t, i)

\* A thread inside vfs_lookup_inode is scheduled, and the driver returns.
Spec == Init /\ [][Next]_vars /\ \A t \in Threads : WF_vars(~halted /\ Lookup(t))

-----------------------------------------------------------------------------
\* The references thread t has: of the inodes it was given, and of the inode
\* where its lookup is.
References(t) ==
    held[t] \o IF pc[t] \in {"idle", "start"} THEN << >> ELSE << inode[t] >>

(***************************************************************************)
(* The reference count of an inode is the number of references threads     *)
(* have to it or to one of its descendants, and the driver's initial one,  *)
(* whatever lookups are under way, waiting or have failed: no assert on a  *)
(* reference count fails, and an inode in use has a count above one.  The  *)
(* initial reference is never dropped: the count is always one more than   *)
(* the comment at the field says, and it never reaches the zero of which   *)
(* the comment at the last assert speaks.                                  *)
(***************************************************************************)
RefcountsCoverTree ==
    \A i \in Ids :
        inodes[i].refcount = 1 + Cardinality({r \in Threads \X (1 .. MaxHeld + 1) :
            /\ r[2] \in DOMAIN References(r[1])
            /\ i \in Ancestors(References(r[1])[r[2]])})

(***************************************************************************)
(* A directory is busy exactly while one thread is between vfs_lock_dir    *)
(* and vfs_unlock_dir, nobody sleeps for one that is not busy, and the     *)
(* child list, changed without the mutex, is that of a tree: an inode is   *)
(* listed once, by its parent, which is a directory.                       *)
(***************************************************************************)
OneLookupPerDirectory ==
    \A d \in Ids :
        /\ Cardinality({t \in Threads : pc[t] \in {"io", "relock"} /\ inode[t] = d})
             = IF inodes[d].busy THEN 1 ELSE 0
        /\ (\E t \in Threads : pc[t] = "wait" /\ inode[t] = d) => inodes[d].busy
        /\ LET list == inodes[d].child_list
           IN /\ Range(list) = {k \in Ids : inodes[k].parent = d}
              /\ Cardinality(Range(list)) = Len(list)
              /\ list # << >> => inodes[d].type = "dir"


=============================================================================

-------------------------------- MODULE Vfs --------------------------------
(***************************************************************************)
(* Names, mounts and the files of devices: fs/namei.c, fs/mount.c,         *)
(* fs/vfs/vfs.c and fs/devfs.  A vnode is <<sb, ino>>: the number of its   *)
(* super block, in the order of the mounts, and of its inode; 0 is the     *)
(* inode of a root.  The volumes that hold a tree of files (initrdfs,      *)
(* ext2) all hold Tree, which gives for the inode of each directory its    *)
(* entries; other inodes are files.  A path is [abs, comps]: whether it    *)
(* begins with '/', and what stands between its slashes.                   *)
(***************************************************************************)
EXTENDS Integers, Sequences, SequencesExt, FiniteSetsExt

CONSTANTS Tree,         \* directory |-> name |-> inode
          Devices,      \* names of devices
          MaxMounts,    \* bound: super blocks besides that of the rootfs
          MaxDevices,   \* bound: devices that are registered
          DevPath,      \* what sys_reboot unmounts first ("/dev")
          SomePaths,    \* bound: the paths of system calls, which name no files
          AllPaths      \* bound: the paths that are looked at in every state

VARIABLES sbs,          \* the types of the mounted volumes, in their order
          mount, cover, \* vnode |-> vnode: what is mounted on it, what it is mounted on
          root, pwd,    \* of the task
          dev,          \* the devfs: entries, next_inode, cache (the inodes with a handle)
          trail,        \* the directories that led to pwd, from a root on
          halting       \* how far sys_reboot has come: "no", "dev" or "closed"

\* "/"
RootPath == [abs |-> TRUE, comps |-> <<"">>]

\* Directories have a parent, which is the one directory they are found in; the paths
\* of system calls name no files
ASSUME VfsAssumption ==
    /\ 0 \in DOMAIN Tree /\ DOMAIN Tree \subseteq Nat
    /\ \A d \in DOMAIN Tree :
         /\ ".." \in DOMAIN Tree[d] /\ Tree[d][".."] \in DOMAIN Tree
         /\ \A name \in DOMAIN Tree[d] \ {".", ".."} :
              /\ Tree[d][name] \in Nat \ {0}
              /\ Tree[d][name] \in DOMAIN Tree => Tree[Tree[d][name]][".."] = d
    /\ {DevPath, RootPath} \subseteq SomePaths
    /\ SomePaths \cup AllPaths \subseteq [abs : BOOLEAN, comps : Seq(STRING) \ {<<>>}]
    /\ \A path \in SomePaths : \A i \in DOMAIN path.comps :
         /\ path.comps[i] \notin Devices
         /\ \A d \in DOMAIN Tree :
              path.comps[i] \in DOMAIN Tree[d] => Tree[d][path.comps[i]] \in DOMAIN Tree

volumes == <<sbs, mount, cover, root, pwd, dev, trail>>
vfsVars == <<volumes, halting>>

None == <<-1, -1>>
root_vnode == <<0, 0>>

\* setup_vfs
VfsInit ==
    /\ sbs = <<>> /\ mount = <<>> /\ cover = <<>>
    /\ root = root_vnode /\ pwd = root_vnode /\ trail = <<root_vnode>>
    /\ dev = [entries |-> <<>>, next |-> 1, cache |-> {}]
    /\ halting = "no"

Type(v) == IF v[1] = 0 THEN "rootfs" ELSE sbs[v[1]]
IsDir(v) == IF Type(v) \in {"rootfs", "devfs"} THEN v[2] = 0 ELSE v[2] \in DOMAIN Tree

\* devfs_lookup searches from the last entry down; a rootfs has no lookup
devfs_lookup(name) ==
    LET i == SelectLastInSeq(dev.entries, LAMBDA e : e.name = name)
    IN IF i = 0 THEN -1 ELSE dev.entries[i].inode

lookup(v, name) ==
    LET ino == IF Type(v) = "devfs" THEN devfs_lookup(name)
               ELSE IF Type(v) # "rootfs" /\ name \in DOMAIN Tree[v[2]] THEN Tree[v[2]][name] ELSE -1
    IN IF ino = -1 THEN None ELSE <<v[1], ino>>

\* Mutant: only one mount on top of each other is followed
ResolveOnce(v) == IF v \in DOMAIN mount THEN mount[v] ELSE v

\* The end of a chain of mounts or of covers that begins at v.  A vnode that is mounted
\* has been made for it, so that no chain has more links than there are super blocks.
Followed(link, v, n) ==
    LET at[k \in 0..n] ==
          IF k = 0 THEN v ELSE IF at[k - 1] \in DOMAIN link THEN link[at[k - 1]] ELSE at[k - 1]
    IN at[n]

\* steps is never counted down
resolve_mount(v) == Followed(mount, v, Len(sbs))

\* For ".." the covers of mounted roots come before the root of the task.  A task without
\* the permission to search is not modelled: all run as root.
getdentry(v, name) ==
    LET top == resolve_mount(v)
        node == IF name = ".." THEN Followed(cover, top, Len(sbs)) ELSE top
        found == lookup(node, name)
    IN IF name = "." \/ (name = ".." /\ node = resolve_mount(root)) THEN node
       ELSE IF ~IsDir(node) THEN None
       ELSE IF found = None THEN None ELSE resolve_mount(found)

\* Nothing between two slashes stands for "."
Step(v, name) == IF v = None THEN None ELSE getdentry(v, IF name = "" THEN "." ELSE name)

igetdir(v, names) ==
    LET at[k \in 0..Len(names)] == IF k = 0 THEN v ELSE Step(at[k - 1], names[k])
    IN at[Len(names)]

namei(path) ==
    LET start == IF path.abs THEN root ELSE pwd
        dir == igetdir(start, Front(path.comps))
    IN IF path.comps = <<"">> THEN IF path.abs THEN resolve_mount(start) ELSE None
       ELSE IF dir = None \/ Last(path.comps) = "" THEN dir
       ELSE Step(dir, Last(path.comps))

-----------------------------------------------------------------------------
(***************************************************************************)
(* What a path means: the directories on the way, of which ".." takes the  *)
(* last one away, but not the task's root.  At the begin of the way it is  *)
(* open what ".." means, and so it is at a root of the task that is a      *)
(* mounted one.                                                            *)
(***************************************************************************)
Lost == <<>>
Open == <<None>>

Walk(t, name) ==
    LET here == resolve_mount(Last(t))
        found == IF IsDir(here) THEN lookup(here, name) ELSE None
    IN IF t \in {Lost, Open} THEN t
       ELSE IF name \in {"", "."} THEN t
       ELSE IF name # ".." THEN IF found = None THEN Lost ELSE Append(t, found)
       ELSE IF ~IsDir(here) THEN Lost
       ELSE IF here = resolve_mount(root) /\ here \notin DOMAIN cover THEN t
       ELSE IF Len(t) > 1 THEN Front(t) ELSE Open

WayOf(path) ==
    LET at[k \in 0..Len(path.comps)] ==
          IF k = 0 THEN IF path.abs THEN <<root>> ELSE trail ELSE Walk(at[k - 1], path.comps[k])
    IN at[Len(path.comps)]

-----------------------------------------------------------------------------
\* The devfs: its one directory and its handles
devfs_add_d_entry(entries, name, ino) == Append(entries, [name |-> name, inode |-> ino])

\* "." and ".." are left out of the search
devfs_del_d_entry(entries, ino) ==
    LET found == {i \in 3..Len(entries) : entries[i].inode = ino}
    IN IF found = {} THEN entries ELSE RemoveAt(entries, Min(found))

devfs_empty_dir(ino, parent) ==
    <<[name |-> ".", inode |-> ino], [name |-> "..", inode |-> parent]>>

read_devfs_sb(d) == [d EXCEPT !.cache = {0}, !.entries = devfs_empty_dir(0, 0)]

devfs_put_super == [entries |-> <<>>, next |-> 0, cache |-> {}]

devfs_del_from_cache(cache, ino) == cache \ {ino}

\* One of the two pointers between a mount point and what is mounted there
SetPointer(link, from, to) ==
    [v \in DOMAIN link \cup {from} |-> IF v = from THEN to ELSE link[v]]

\* A volume that is not refused by read_super (ext2 is like initrdfs); a second devfs
\* is, and then the pointer to its root is null, which is not noticed.  The device of
\* a volume is taken for found.
sys_mount(path, type) ==
    LET point == namei(path)
        new == <<Len(sbs) + 1, 0>>
    IN /\ Len(sbs) < MaxMounts
       /\ type = "devfs" => type \notin ToSet(sbs)
       /\ IF point = None THEN UNCHANGED volumes
          ELSE /\ sbs' = Append(sbs, type)
               /\ mount' = SetPointer(mount, point, new)
               /\ cover' = SetPointer(cover, new, point)
               /\ dev' = IF type = "devfs" THEN read_devfs_sb(dev) ELSE dev
               /\ UNCHANGED <<root, pwd, trail>>

\* With put_super, free_sb_inodes and d_umount, if the node has something mounted on
\* it.  The super block is freed; the mount point keeps its pointer to the freed root.
sys_umount(path) ==
    LET node == namei(path)
    IN IF node \notin DOMAIN mount THEN UNCHANGED volumes
       ELSE /\ sbs' = [sbs EXCEPT ![mount[node][1]] = "freed"]
            /\ dev' = IF Type(mount[node]) = "devfs" THEN devfs_put_super ELSE dev
            /\ UNCHANGED <<mount, cover, root, pwd, trail>>

sys_chdir(path) ==
    LET node == namei(path)
        way == WayOf(path)
    IN /\ IF node = None THEN UNCHANGED <<pwd, trail>>
          ELSE IF ~IsDir(node) THEN UNCHANGED <<pwd, trail>>
          ELSE pwd' = node /\ trail' = IF way \in {Lost, Open} THEN <<node>> ELSE way
       /\ UNCHANGED <<sbs, mount, cover, root, dev>>

sys_chroot(path) ==
    LET node == namei(path)
    IN /\ IF node = None THEN UNCHANGED root
          ELSE root' = IF IsDir(node) THEN node ELSE root
       /\ UNCHANGED <<sbs, mount, cover, pwd, dev, trail>>

\* Without a devfs there is no devfs_root and nothing happens
devfs_register_device(name) ==
    /\ "devfs" \in ToSet(sbs)
    /\ dev.next <= MaxDevices
    /\ dev' = [entries |-> devfs_add_d_entry(dev.entries, name, dev.next),
               next |-> dev.next + 1, cache |-> dev.cache \cup {dev.next}]
    /\ UNCHANGED <<sbs, mount, cover, root, pwd, trail>>

devfs_unregister_device(ino) ==
    /\ ino \in dev.cache \ {0}
    /\ dev' = [dev EXCEPT !.entries = devfs_del_d_entry(@, ino),
                          !.cache = devfs_del_from_cache(@, ino)]
    /\ UNCHANGED <<sbs, mount, cover, root, pwd, trail>>

\* sys_reboot, called by a task that runs as root.  Behind its second call close_vfs
\* frees the rootfs and the machine stops, so that no name is looked up any more.
RebootUnmountsDev == halting = "no" /\ sys_umount(DevPath) /\ halting' = "dev"
RebootUnmountsRoot == halting = "dev" /\ sys_umount(RootPath) /\ halting' = "closed"

Running ==
    \/ \E path \in SomePaths, type \in {"initrdfs", "devfs"} : sys_mount(path, type)
    \/ \E path \in SomePaths : sys_umount(path) \/ sys_chdir(path) \/ sys_chroot(path)
    \/ \E name \in Devices : devfs_register_device(name)
    \/ \E ino \in dev.cache : devfs_unregister_device(ino)

VfsNext == (halting = "no" /\ Running /\ UNCHANGED halting) \/ RebootUnmountsDev \/ RebootUnmountsRoot

VfsSpec == VfsInit /\ [][VfsNext]_vfsVars

-----------------------------------------------------------------------------
\* Once a volume is mounted, namei finds what the path means, across mounts, mounts on
\* mounts, mounts made over the current directory or above it, and changed roots: the
\* way the parents and the covers lead is the way the names came.
NameiWalks ==
    sbs # <<>> => \A path \in AllPaths :
      LET way == WayOf(path)
      IN way # Open /\ (path.abs \/ path.comps # <<"">>) =>
           namei(path) = IF way = Lost THEN None ELSE resolve_mount(Last(way))

\* Nothing is ever unmounted: namei answers with what is mounted and not with the mount
\* point, so that sys_umount finds nothing to unmount, and no super block is freed that
\* mount points still refer to.
MountsStay == [][\A i \in DOMAIN sbs : sbs'[i] = sbs[i]]_vfsVars

\* What sys_reboot says of itself ("I unmount devfs"): once it has come so far, its path
\* does not lead to the root of the devfs any more.
RebootUnmounts ==
    halting # "no" => LET node == namei(DevPath) IN node = None \/ Type(node) # "devfs"

\* Every entry of the devfs has a handle, which readdir uses unasked, and no two have the
\* same inode but "." and "..".
DevicesReachable ==
    /\ \A i \in 1..Len(dev.entries) : dev.entries[i].inode \in dev.cache
    /\ \A i, j \in 3..Len(dev.entries) : dev.entries[i].inode = dev.entries[j].inode => i = j
    /\ \A ino \in dev.cache \ {0} : ino < dev.next /\ \E i \in 3..Len(dev.entries) : dev.entries[i].inode = ino

\* Names lead where they should in every state of mounts, roots and devices: paths to
\* what they mean, entries of the devfs to a handle.
NamesResolve == NameiWalks /\ DevicesReachable

=============================================================================

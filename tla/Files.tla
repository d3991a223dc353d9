------------------------------- MODULE Files -------------------------------
(***************************************************************************)
(* Files: the VFS (vfs/mod.rs), the RAM filesystem (vfs/ramfs.rs) and the  *)
(* file calls of syscall/mod.rs.  A descriptor of type FsFile holds an     *)
(* index into its process's file_handles; a handle is shared (an Arc) by   *)
(* the descriptors dup makes and by the processes fork makes.              *)
(*                                                                         *)
(* Directories of the RAM filesystem are never removed, so a directory is  *)
(* its path; a file has an identity of its own, which a handle keeps alive *)
(* after its name is gone.  The FAT volume mounted at boot (Fat32.tla) is  *)
(* seen here as the tree its reads return: a file opened from it is a      *)
(* private copy in memory, since FatFileInode::open leaves no way back.    *)
(* A call that only returns an error changes nothing and is left out.      *)
(***************************************************************************)
EXTENDS Integers, Sequences, FiniteSets

CONSTANTS
  Procs,              \* process slots
  Root,               \* the process that exists first
  MAX_FDS,
  MAX_FILE_HANDLES,
  NameOrder,          \* the names, in the order of the BTreeMap
  Paths,              \* every path of the instance, closed under prefixes
  MountPath,          \* where the FAT volume is mounted
  DiskFiles,          \* its files: [paths below the mount -> bytes]
  DiskDirs,           \* its directories, the root of the volume first
  NameBytes,          \* [names -> length in bytes with the final NUL]
  CwdBytes,           \* bytes of a path that fit in the cwd of a Process
  CutName,            \* [names -> [k -> its first k bytes]]
  TMP,                \* bytes sys_readdir asks of the directory at a time
  Programs,           \* what the programs of a behaviour may ask for, by slot:
                      \* [Procs -> [call -> set of its arguments]]
  MaxLen,             \* longest file (bound)
  Inos, Handles       \* identities of file data and of handles (bound)

None == -1            \* FdType::None, a free slot, a name not there
Std == -2             \* a descriptor that is not a VFS file
Dir == -3             \* a RamNode::Dir

Names == {NameOrder[i] : i \in DOMAIN NameOrder}
Fds == 0..(MAX_FDS - 1)
Slots == 0..(MAX_FILE_HANDLES - 1)

\* The calls a program makes; its arguments besides descriptors are the set.
Calls == {"open", "creat", "unlink", "mkdir", "chdir", "read", "readdir", "write", "lseek",
          "close", "dup", "dup2", "fork"}

ASSUME FilesAssumption ==
  /\ Root \in Procs
  /\ MAX_FDS \in Nat \ {0} /\ MAX_FILE_HANDLES \in Nat \ {0}
  /\ Paths \subseteq Seq(Names) /\ <<>> \in Paths
  /\ \A q \in Paths : \A k \in 1..Len(q) : SubSeq(q, 1, k) \in Paths
  /\ MountPath \in Paths /\ MountPath # <<>>
  /\ <<>> \in DiskDirs
  /\ TMP \in Nat \ {0} /\ MaxLen \in Nat
  /\ Inos \subseteq Nat /\ Handles \subseteq Nat
  /\ \A w \in Programs, p \in Procs :
       /\ w[p].open \cup w[p].creat \cup w[p].unlink \cup w[p].mkdir \subseteq Paths
       /\ w[p].read \cup w[p].readdir \subseteq Nat \ {0}
       /\ w[p].lseek \subseteq Nat
       /\ w[p].write \subseteq Seq(Nat)
  /\ \A q \in DOMAIN DiskFiles : DiskFiles[q] \in Seq(Nat)

VARIABLES
  programs,           \* the member of Programs this behaviour runs
  live,               \* processes that exist
  fd_types,           \* [Procs -> [Fds -> None, Std or a slot]]
  file_handles,       \* [Procs -> [Slots -> None or a handle]]
  handles,            \* [Handles -> Handle]
  tree,               \* the RAM filesystem: [Paths -> None, Dir or a file]
  content,            \* [Inos -> its bytes]
  cwd,                \* [Procs -> path]
  halted              \* the kernel panicked

vars == <<programs, live, fd_types, file_handles, handles, tree, content, cwd, halted>>

\* RamFileHandle and FatFileHandle hold data, RamDirHandle the names listed
\* when it was opened, FatDirHandle the same names packed into bytes.
FreeHandle == [kind |-> "free", ino |-> None, entries |-> <<>>, pos |-> 0]
FileHandle(i) == [kind |-> "file", ino |-> i, entries |-> <<>>, pos |-> 0]
DirHandle(k, es) == [kind |-> k, ino |-> None, entries |-> es, pos |-> 0]

Init ==
  /\ programs \in Programs
  /\ live = {Root}
  /\ fd_types = [p \in Procs |-> [f \in Fds |-> IF p = Root /\ f = 0 THEN Std ELSE None]]
  /\ file_handles = [p \in Procs |-> [s \in Slots |-> None]]
  /\ handles = [h \in Handles |-> FreeHandle]
  /\ tree = [q \in Paths |-> IF q = <<>> THEN Dir ELSE None]
  /\ content = [i \in Inos |-> <<>>]
  /\ cwd = [p \in Procs |-> <<>>]
  /\ halted = FALSE

----------------------------------------------------------------------------
(* Reference counts: a handle, and a file's data, live while an Arc does.  *)

HeldHandles(fh) == {fh[p][s] : p \in Procs, s \in Slots} \ {None}
Kept(fh, hs) == [h \in Handles |-> IF h \in HeldHandles(fh) THEN hs[h] ELSE FreeHandle]
HeldInos(t, hs) == ({t[q] : q \in Paths} \cup {hs[h].ino : h \in Handles}) \ {None, Dir}
KeptData(t, hs, c) == [i \in Inos |-> IF i \in HeldInos(t, hs) THEN c[i] ELSE <<>>]

Lowest(S) == CHOOSE x \in S : \A y \in S : x <= y
FreeInos == Inos \ HeldInos(tree, handles)
FreeHandles == Handles \ HeldHandles(file_handles)
FreeFds(p) == {f \in Fds : fd_types[p][f] = None}
FreeSlots(p) == {s \in Slots : file_handles[p][s] = None}

----------------------------------------------------------------------------
(* Paths *)

UnderMount(q) == Len(MountPath) <= Len(q) /\ SubSeq(q, 1, Len(MountPath)) = MountPath
BelowMount(q) == SubSeq(q, Len(MountPath) + 1, Len(q))
Parents(q) == {SubSeq(q, 1, k) : k \in 1..(Len(q) - 1)}

\* RamFs: lookup, one component after the other, from the root.
RamNode(q) == IF \A a \in Parents(q) : tree[a] = Dir THEN tree[q] ELSE None

\* The names below a directory, in order.
Listing(q) == SelectSeq(NameOrder, LAMBDA n : Append(q, n) \in Paths /\ tree[Append(q, n)] # None)
DiskListing(q) == SelectSeq(NameOrder, LAMBDA n : Append(q, n) \in DiskDirs \cup DOMAIN DiskFiles)

\* Vfs::resolve and is_dir: the mount first, then the root filesystem.
ResolvesToDir(q) == IF UnderMount(q) THEN BelowMount(q) \in DiskDirs ELSE RamNode(q) = Dir
Resolves(q) == IF UnderMount(q) THEN BelowMount(q) \in DiskDirs \cup DOMAIN DiskFiles
                                ELSE RamNode(q) # None

\* normalize_path and resolve_cwd: "." is skipped, ".." pops, at the root too.
Walk(path, part) == CASE part = "." -> path
                      [] part = ".." -> IF path = <<>> THEN <<>> ELSE SubSeq(path, 1, Len(path) - 1)
                      [] OTHER -> Append(path, part)
WalkAll(base, parts) ==
  LET w[k \in 0..Len(parts)] == IF k = 0 THEN base ELSE Walk(w[k - 1], parts[k])
  IN w[Len(parts)]
normalize_path(parts) == WalkAll(<<>>, parts)
resolve_cwd(base, arg) == IF arg.abs THEN normalize_path(arg.parts) ELSE WalkAll(base, arg.parts)

----------------------------------------------------------------------------
(* Vfs::create_file and Vfs::create_dir walk the root filesystem only, and *)
(* make the directories that are missing on the way.                       *)

ParentsOk(q) == \A a \in Parents(q) : tree[a] \in {None, Dir}
WithParents(q) == [a \in Paths |-> IF a \in Parents(q) THEN Dir ELSE tree[a]]

\* Allowed(q): neither the mount point itself nor a directory, no file on the way.
CreateAllowed(q) == /\ q # <<>>
                    /\ ~ (Len(q) = 1 /\ q = MountPath)
                    /\ ParentsOk(q)
                    /\ tree[q] # Dir
create_file(q, i) ==
  [WithParents(q) EXCEPT ![q] = IF tree[q] = None THEN i ELSE tree[q]]

CreateDirAllowed(q) == q # <<>> /\ ParentsOk(q) /\ tree[q] = None
create_dir(q) == [WithParents(q) EXCEPT ![q] = Dir]

----------------------------------------------------------------------------
(* Reading and writing through a handle *)

MinOf(a, b) == IF a < b THEN a ELSE b

\* Bytes of the entries after the first k, packed as "name NUL name NUL".
Packed(es, k) ==
  LET sum[j \in 0..Len(es)] == IF j <= k THEN 0 ELSE sum[j - 1] + NameBytes[es[j]]
  IN sum[Len(es)]
\* RamDirHandle::read advances over the entries that were copied in full.
Consumed(es, k, n) ==
  CHOOSE j \in k..Len(es) : /\ Packed(es, k) - Packed(es, j) <= n
                            /\ \A i \in (j + 1)..Len(es) : Packed(es, k) - Packed(es, i) > n

Available(h) ==
  CASE h.kind = "file" -> Len(content[h.ino]) - h.pos
    [] h.kind = "dir" -> Packed(h.entries, h.pos)
    [] h.kind = "fatdir" -> Packed(h.entries, 0) - h.pos

\* File::read: how many bytes it returns and where it leaves the position.
ReadStep(h, n) ==
  LET got == IF Available(h) <= 0 THEN 0 ELSE MinOf(n, Available(h))
  IN [got |-> got,
      pos |-> IF h.kind = "dir" THEN Consumed(h.entries, h.pos, got) ELSE h.pos + got]

\* RamDirHandle::read slices entries[pos..]: past the end the kernel panics.
Panics(h) == h.kind = "dir" /\ h.pos > Len(h.entries)

\* The loop of sys_readdir: TMP bytes at a time until count are copied out.
ReaddirLoop(h, count) ==
  LET r[k \in 0..count] ==
        IF k = 0 THEN [total |-> 0, pos |-> h.pos]
        ELSE LET s == r[k - 1]
                 step == ReadStep([h EXCEPT !.pos = s.pos], TMP)
             IN IF s.total >= count THEN s
                ELSE [total |-> s.total + MinOf(step.got, count - s.total), pos |-> step.pos]
  IN r[count]

\* Mutant: a write cuts the file behind it.
WrittenTruncates(bytes, c, pos) ==
  [k \in 1..(pos + Len(bytes)) |-> IF k > pos THEN bytes[k - pos] ELSE IF k <= Len(c) THEN c[k] ELSE 0]
\* RamFileHandle::write: the gap before the position is filled with zeros.
Written(bytes, c, pos) ==
  [k \in 1..(IF pos + Len(bytes) > Len(c) THEN pos + Len(bytes) ELSE Len(c)) |->
     IF k > pos /\ k <= pos + Len(bytes) THEN bytes[k - pos]
     ELSE IF k <= Len(c) THEN c[k] ELSE 0]

----------------------------------------------------------------------------
(* System calls *)

IsFile(p, f) == fd_types[p][f] \in Slots /\ file_handles[p][fd_types[p][f]] # None
HandleOf(p, f) == file_handles[p][fd_types[p][f]]

Call(p, name, arg) == ~halted /\ p \in live /\ arg \in programs[p][name]

\* What open hands out for a path that resolves; i is a new identity.
Opened(q, i) ==
  IF UnderMount(q)
  THEN IF BelowMount(q) \in DiskDirs THEN DirHandle("fatdir", DiskListing(BelowMount(q))) ELSE FileHandle(i)
  ELSE IF tree[q] = Dir THEN DirHandle("dir", Listing(q)) ELSE FileHandle(tree[q])
Loaded(q, i) ==
  IF UnderMount(q) /\ BelowMount(q) \in DOMAIN DiskFiles
  THEN [content EXCEPT ![i] = DiskFiles[BelowMount(q)]] ELSE content

\* The handle goes to the first free slot, the descriptor to the first free fd.
Install(p, new) ==
  LET h == Lowest(FreeHandles)
      s == Lowest(FreeSlots(p))
  IN /\ FreeFds(p) # {} /\ FreeSlots(p) # {} /\ FreeHandles # {}
     /\ fd_types' = [fd_types EXCEPT ![p][Lowest(FreeFds(p))] = s]
     /\ file_handles' = [file_handles EXCEPT ![p][s] = h]
     /\ handles' = [handles EXCEPT ![h] = new]

\* Vfs::open succeeds.
sys_open(p, q) ==
  /\ Call(p, "open", q)
  /\ Resolves(q)
  /\ FreeInos # {}
  /\ LET i == Lowest(FreeInos)
     IN Install(p, Opened(q, i)) /\ content' = Loaded(q, i)
  /\ UNCHANGED <<programs, live, tree, cwd, halted>>

\* Vfs::open fails and O_CREAT is set; the file stays when no fd is free.
sys_open_creat(p, q) ==
  /\ Call(p, "creat", q)
  /\ ~ Resolves(q) /\ CreateAllowed(q)
  /\ FreeInos # {}
  /\ LET i == Lowest(FreeInos)
         t == create_file(q, i)
     IN /\ tree' = t
        /\ IF FreeFds(p) # {} /\ FreeSlots(p) # {}
           THEN Install(p, FileHandle(t[q]))
           ELSE UNCHANGED <<fd_types, file_handles, handles>>
  /\ UNCHANGED <<programs, live, content, cwd, halted>>

sys_read(p, f, n) ==
  /\ Call(p, "read", n) /\ IsFile(p, f)
  /\ LET h == HandleOf(p, f)
         r == ReadStep(handles[h], n)
     IN IF Panics(handles[h])
        THEN halted' = TRUE /\ UNCHANGED handles
        ELSE handles' = [handles EXCEPT ![h].pos = r.pos] /\ UNCHANGED halted
  /\ UNCHANGED <<programs, live, fd_types, file_handles, tree, content, cwd>>

sys_readdir(p, f, count) ==
  /\ Call(p, "readdir", count) /\ IsFile(p, f)
  /\ LET h == HandleOf(p, f)
     IN IF Panics(handles[h])
        THEN halted' = TRUE /\ UNCHANGED handles
        ELSE /\ handles' = [handles EXCEPT ![h].pos = ReaddirLoop(handles[h], count).pos]
             /\ UNCHANGED halted
  /\ UNCHANGED <<programs, live, fd_types, file_handles, tree, content, cwd>>

\* A directory handle refuses the write.
sys_write(p, f, bytes) ==
  /\ Call(p, "write", bytes) /\ IsFile(p, f)
  /\ LET h == HandleOf(p, f)
         i == handles[h].ino
     IN /\ handles[h].kind = "file"
        /\ handles[h].pos + Len(bytes) <= MaxLen
        /\ content' = [content EXCEPT ![i] = Written(bytes, @, handles[h].pos)]
        /\ handles' = [handles EXCEPT ![h].pos = @ + Len(bytes)]
  /\ UNCHANGED <<programs, live, fd_types, file_handles, tree, cwd, halted>>

sys_lseek(p, f, off) ==
  /\ Call(p, "lseek", off) /\ IsFile(p, f)
  /\ handles' = [handles EXCEPT ![HandleOf(p, f)].pos = off]
  /\ UNCHANGED <<programs, live, fd_types, file_handles, tree, content, cwd, halted>>

\* sys_close collects the index in fs_close_indices and leaves the handle in
\* its slot: only the descriptor goes.
sys_close(p, f) ==
  /\ Call(p, "close", f) /\ fd_types[p][f] # None
  /\ fd_types' = [fd_types EXCEPT ![p][f] = None]
  /\ UNCHANGED <<programs, live, file_handles, handles, tree, content, cwd, halted>>

sys_dup(p, f) ==
  /\ Call(p, "dup", f) /\ fd_types[p][f] # None
  /\ fd_types[p][f] \in Slots => IsFile(p, f)
  /\ FreeFds(p) # {}
  /\ fd_types' = [fd_types EXCEPT ![p][Lowest(FreeFds(p))] = fd_types[p][f]]
  /\ UNCHANGED <<programs, live, file_handles, handles, tree, content, cwd, halted>>

\* Mutant: sys_dup2 takes the handle away without looking for other descriptors.
NeverReferenced(p, f, s) == FALSE
StillReferenced(p, f, s) == \E g \in Fds \ {f} : fd_types[p][g] = s
Released(p, f) ==
  LET s == fd_types[p][f]
  IN IF s \in Slots /\ ~ StillReferenced(p, f, s) THEN [file_handles EXCEPT ![p][s] = None] ELSE file_handles

sys_dup2(p, oldfd, newfd) ==
  /\ Call(p, "dup2", newfd) /\ fd_types[p][oldfd] # None /\ oldfd # newfd
  /\ file_handles' = Released(p, newfd)
  /\ handles' = Kept(file_handles', handles)
  /\ content' = KeptData(tree, handles', content)
  /\ fd_types' = [fd_types EXCEPT ![p][newfd] = fd_types[p][oldfd]]
  /\ UNCHANGED <<programs, live, tree, cwd, halted>>

\* The child has the parent's descriptors and handles, and "/" for its cwd.
sys_fork(p, c) ==
  /\ Call(p, "fork", c) /\ c \notin live
  /\ live' = live \cup {c}
  /\ fd_types' = [fd_types EXCEPT ![c] = fd_types[p]]
  /\ file_handles' = [file_handles EXCEPT ![c] = file_handles[p]]
  /\ cwd' = [cwd EXCEPT ![c] = <<>>]
  /\ UNCHANGED <<programs, handles, tree, content, halted>>

\* Drop for Process, when a zombie is reaped.
drop(p) ==
  /\ ~halted /\ p \in live /\ p # Root
  /\ live' = live \ {p}
  /\ fd_types' = [fd_types EXCEPT ![p] = [f \in Fds |-> None]]
  /\ file_handles' = [file_handles EXCEPT ![p] = [s \in Slots |-> None]]
  /\ handles' = Kept(file_handles', handles)
  /\ content' = KeptData(tree, handles', content)
  /\ cwd' = [cwd EXCEPT ![p] = <<>>]
  /\ UNCHANGED <<programs, tree, halted>>

\* Vfs::delete_file looks in the root filesystem only; a directory is refused.
sys_unlink(p, q) ==
  /\ Call(p, "unlink", q)
  /\ q # <<>> /\ RamNode(q) \in Inos
  /\ tree' = [tree EXCEPT ![q] = None]
  /\ content' = KeptData(tree', handles, content)
  /\ UNCHANGED <<programs, live, fd_types, file_handles, handles, cwd, halted>>

sys_mkdir(p, q) ==
  /\ Call(p, "mkdir", q)
  /\ CreateDirAllowed(q)
  /\ tree' = create_dir(q)
  /\ UNCHANGED <<programs, live, fd_types, file_handles, handles, content, cwd, halted>>

\* Process::set_cwd keeps CwdBytes bytes of the path, here of ASCII names: the
\* names that fit with the "/" before each, and what fits of the next one.
PathBytes(q) ==
  LET sum[k \in 0..Len(q)] == IF k = 0 THEN 0 ELSE sum[k - 1] + NameBytes[q[k]]
  IN sum
set_cwd(q) ==
  LET k == CHOOSE j \in 0..Len(q) : /\ PathBytes(q)[j] <= CwdBytes
                                   /\ \A i \in (j + 1)..Len(q) : PathBytes(q)[i] > CwdBytes
      rest == CwdBytes - PathBytes(q)[k] - 1
  IN IF k = Len(q) \/ rest <= 0 THEN SubSeq(q, 1, k)
     ELSE Append(SubSeq(q, 1, k), CutName[q[k + 1]][rest])

\* The path is checked as a whole and stored cut.
sys_chdir(p, arg) ==
  /\ Call(p, "chdir", arg)
  /\ LET q == resolve_cwd(cwd[p], arg)
     IN /\ q \in Paths /\ ResolvesToDir(q)
        /\ cwd' = [cwd EXCEPT ![p] = set_cwd(q)]
  /\ UNCHANGED <<programs, live, fd_types, file_handles, handles, tree, content, halted>>

----------------------------------------------------------------------------
Next ==
  \E p \in Procs :
    \/ \E q \in Paths : sys_open(p, q) \/ sys_open_creat(p, q) \/ sys_unlink(p, q) \/ sys_mkdir(p, q)
    \/ \E arg \in programs[p].chdir : sys_chdir(p, arg)
    \/ \E c \in Procs : sys_fork(p, c)
    \/ drop(p)
    \/ \E f \in Fds :
         \/ sys_close(p, f) \/ sys_dup(p, f)
         \/ \E n \in programs[p].read : sys_read(p, f, n)
         \/ \E n \in programs[p].readdir : sys_readdir(p, f, n)
         \/ \E bytes \in programs[p].write : sys_write(p, f, bytes)
         \/ \E off \in programs[p].lseek : sys_lseek(p, f, off)
         \/ \E g \in Fds : sys_dup2(p, f, g)

Spec == Init /\ [][Next]_vars

----------------------------------------------------------------------------
(* Properties *)

\* No descriptor dangles: the slot an FsFile descriptor names holds a handle
\* that exists, whatever sequence of close, dup, dup2 and fork led there
\* (sys_dup2 clears the slot of the descriptor it replaces).
FdHasHandle ==
  \A p \in live, f \in Fds :
    fd_types[p][f] \in Slots => /\ file_handles[p][fd_types[p][f]] \in Handles
                                /\ handles[HandleOf(p, f)].kind # "free"

\* The description a descriptor leads to.
DescOf(p, f) ==
  IF ~ IsFile(p, f) THEN IF fd_types[p][f] = None THEN None ELSE Std
  ELSE IF handles[HandleOf(p, f)].kind = "file" THEN HandleOf(p, f) ELSE Std
DescTable == [p \in Procs |-> [f \in Fds |-> DescOf(p, f)]]
Descriptions == [h \in Handles |-> [ino |-> handles[h].ino, pos |-> handles[h].pos]]
CallCounts == UNION {UNION {w[p].read \cup w[p].lseek : p \in Procs} : w \in Programs}
CallTexts == UNION {UNION {w[p].write : p \in Procs} : w \in Programs}
Open == INSTANCE OpenFiles WITH
  Descs <- Handles, NoDesc <- None, Other <- Std, Counts <- CallCounts, Texts <- CallTexts,
  desc <- DescTable, ofd <- Descriptions, data <- content

\* The descriptor tables implement shared open file descriptions: through
\* fd, slot and Arc every descriptor reaches the description it was given,
\* close, dup2 and the death of another process take none away, and only the
\* description a call names moves or has its data changed.
SharedDescriptions == Open!Spec
============================================================================

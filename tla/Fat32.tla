------------------------------- MODULE Fat32 -------------------------------
(***************************************************************************)
(* The FAT driver (fat32.rs) over a block device.  One volume, one of its  *)
(* directories, the file handles opened in it.  A sector write is a step:  *)
(* the machine may stop, or the device may refuse, before any of them.     *)
(*                                                                         *)
(* A cluster is one sector of BytesPerCluster bytes.  The directory is a   *)
(* table of entries, each written back by one sector write.  An operation  *)
(* runs to its end before the next one starts (a system call is not        *)
(* preempted); op is where it is.  The code that no caller can reach is    *)
(* left out: a handle's data never shrinks, so close never frees a chain,  *)
(* and create_child_dir fails before append_dir_entry.                     *)
(***************************************************************************)
EXTENDS Integers, Sequences, FiniteSets

CONSTANTS
  Names,              \* file names
  Volume,             \* the volume at mount: [names in use -> [first, size]]
  FirstFat,           \* its FAT: [Clusters -> value]
  FirstData,          \* its data: [DataClusters -> [0..BytesPerCluster-1 -> byte]]
  LastCluster,        \* the last cluster of the data area
  MaxCluster,         \* FatBpb::max_cluster: the last FAT entry that is looked at
  NumFats, BytesPerCluster,
  Locations,          \* where the directory may be: TRUE is the FAT16 root, FALSE a cluster chain
  DeleteOpenFiles,    \* callers delete files that are open
  Handles, Texts, Offsets,
  MaxLen, MaxFaults, MaxOps   \* bounds: bytes of a file, failures, operations

Clusters == 2..MaxCluster
DataClusters == 2..LastCluster
EOC == MaxCluster + 1
Copies == 0..(NumFats - 1)

ASSUME FatAssumption ==
  /\ LastCluster \in Nat \ {0, 1} /\ MaxCluster \in Nat /\ LastCluster <= MaxCluster
  /\ NumFats \in Nat \ {0} /\ BytesPerCluster \in Nat \ {0}
  /\ DOMAIN Volume \subseteq Names
  /\ FirstFat \in [Clusters -> {0, EOC} \cup Clusters]
  /\ {DeleteOpenFiles} \cup Locations \subseteq BOOLEAN

VARIABLES
  fat16_root,  \* DirLocation of the directory
  fat,       \* [Copies -> [Clusters -> next cluster, 0 or EOC]]
  dirents,   \* [Names -> entry], NoEntry when the name is not in the directory
  sectors,   \* [DataClusters -> its bytes]
  handles,   \* [Handles -> FatFileHandle]
  op,        \* the operation in progress
  errors, crashes,   \* I/O errors and power losses so far
  ops,       \* operations that wrote to the disk so far
  torn,      \* a delete was cut short after it began to free the chain
  misgrown   \* the names whose entry got a size without a first cluster, or
             \* whose chain close cut behind its first cluster

vars == <<fat16_root, fat, dirents, sectors, handles, op, errors, crashes, ops, torn, misgrown>>

NoEntry == [first |-> -1, size |-> 0]
Closed == [open |-> FALSE, name |-> "", data |-> <<>>, pos |-> 0, first |-> 0, linked |-> FALSE, dirty |-> FALSE]
Idle == [kind |-> "idle", phase |-> "return", h |-> 0, name |-> "", chain |-> <<>>, last |-> 0, new |-> 0,
         copy |-> 0, i |-> 0, drop |-> FALSE]

Init ==
  /\ fat16_root \in Locations
  /\ fat = [k \in Copies |-> FirstFat]
  /\ dirents = [n \in Names |-> IF n \in DOMAIN Volume THEN Volume[n] ELSE NoEntry]
  /\ sectors = FirstData
  /\ handles = [h \in Handles |-> Closed]
  /\ op = Idle
  /\ errors = 0 /\ crashes = 0 /\ ops = 0 /\ torn = FALSE /\ misgrown = {}

Exists(n) == dirents[n] # NoEntry

----------------------------------------------------------------------------
(* Reading the volume *)

\* Only copy 0 of the FAT is read.
read_fat_entry(c) == fat[0][c]

\* read_cluster_chain stops at a value that is no cluster; Limit stands for
\* its cut-off of a chain that never ends.
Limit == Cardinality(Clusters) + 1
RECURSIVE Follow(_, _)
Follow(c, left) ==
  IF left = 0 \/ c \notin Clusters THEN <<>> ELSE <<c>> \o Follow(read_fat_entry(c), left - 1)
read_cluster_chain(start) == Follow(start, Limit)

\* read_file_data into a zeroed buffer of the size of the entry.
ByteAt(chain, k) ==
  LET c == (k - 1) \div BytesPerCluster + 1
  IN IF c <= Len(chain) /\ chain[c] \in DataClusters
     THEN sectors[chain[c]][(k - 1) % BytesPerCluster] ELSE 0
Content(n) ==
  LET chain == read_cluster_chain(dirents[n].first)
  IN [k \in 1..dirents[n].size |-> ByteAt(chain, k)]

\* The scan of allocate_cluster: from the hint to the end, then from 2.
FreeClusters == {c \in Clusters : read_fat_entry(c) = 0}
\* Mutant: the cluster at the hint is taken without a look at its entry.
FirstFromHint(hint) == IF hint \in Clusters THEN hint ELSE 2
FirstFree(hint) ==
  LET from == {c \in FreeClusters : c >= hint}
      S == IF from # {} THEN from ELSE FreeClusters
  IN CHOOSE c \in S : \A d \in S : c <= d

----------------------------------------------------------------------------
(* File handles *)

\* FatDirInode::create_child_file: a handle that can be flushed, for an
\* existing entry or for a name that gets no entry.
create_child_file(h, n) ==
  /\ op = Idle /\ ~ handles[h].open
  /\ handles' = [handles EXCEPT ![h] =
       [open |-> TRUE, name |-> n, data |-> IF Exists(n) THEN Content(n) ELSE <<>>, pos |-> 0,
        first |-> IF Exists(n) THEN dirents[n].first ELSE 0, linked |-> TRUE, dirty |-> FALSE]]
  /\ UNCHANGED <<fat16_root, fat, dirents, sectors, op, errors, crashes, ops, torn, misgrown>>

\* FatDirInode::lookup and FatFileInode::open: no way back to the directory.
open(h, n) ==
  /\ op = Idle /\ ~ handles[h].open /\ Exists(n)
  /\ handles' = [handles EXCEPT ![h] =
       [open |-> TRUE, name |-> n, data |-> Content(n), pos |-> 0, first |-> dirents[n].first,
        linked |-> FALSE, dirty |-> FALSE]]
  /\ UNCHANGED <<fat16_root, fat, dirents, sectors, op, errors, crashes, ops, torn, misgrown>>

\* A handle grows: more clusters than its first chain has.
\* Mutant: a last partial cluster is not counted.
NeededRoundsDown(d) == Len(d) \div BytesPerCluster
Needed(d) == (Len(d) + BytesPerCluster - 1) \div BytesPerCluster

write(h, bytes) ==
  /\ op = Idle /\ handles[h].open
  /\ LET d == handles[h].data
         pos == handles[h].pos
         end == pos + Len(bytes)
     IN /\ end <= MaxLen
        /\ handles' = [handles EXCEPT ![h].data =
               [k \in 1..(IF end > Len(d) THEN end ELSE Len(d)) |->
                  IF k > pos /\ k <= end THEN bytes[k - pos] ELSE IF k <= Len(d) THEN d[k] ELSE 0],
             ![h].pos = end, ![h].dirty = TRUE]
  /\ UNCHANGED <<fat16_root, fat, dirents, sectors, op, errors, crashes, ops, torn, misgrown>>

seek(h, off) ==
  /\ op = Idle /\ handles[h].open
  /\ handles' = [handles EXCEPT ![h].pos = off]
  /\ UNCHANGED <<fat16_root, fat, dirents, sectors, op, errors, crashes, ops, torn, misgrown>>

\* Drop for a clean handle, and for one that close cannot flush.
drop(h) ==
  /\ op = Idle /\ handles[h].open
  /\ handles[h].dirty => ~ handles[h].linked
  /\ handles' = [handles EXCEPT ![h] = Closed]
  /\ UNCHANGED <<fat16_root, fat, dirents, sectors, op, errors, crashes, ops, torn, misgrown>>

----------------------------------------------------------------------------
(* FatFileHandle::close, sector write by sector write *)

\* The next operation that writes to the disk.
Begin == op = Idle /\ ops < MaxOps /\ ops' = ops + 1

Return == [op EXCEPT !.phase = "return"]
Error == errors + crashes < MaxFaults /\ errors' = errors + 1

\* It starts, by hand or from Drop; a chain that cannot be read is taken for
\* an empty one (unwrap_or_default).
close(h, dropping) ==
  /\ Begin /\ handles[h].open /\ handles[h].dirty /\ handles[h].linked
  /\ \E readable \in BOOLEAN :
       /\ readable => UNCHANGED errors
       /\ ~readable => Error /\ handles[h].first # 0
       /\ op' = [Idle EXCEPT !.kind = "close", !.phase = "grow", !.h = h, !.name = handles[h].name,
                             !.chain = IF readable THEN read_cluster_chain(handles[h].first) ELSE <<>>,
                             !.last = handles[h].first, !.drop = dropping]
  /\ UNCHANGED <<fat16_root, fat, dirents, sectors, handles, crashes, torn, misgrown>>

\* The loop of close: allocate_cluster scans for the next cluster.
Pushed == [op EXCEPT !.phase = "grow", !.chain = Append(@, op.new), !.last = op.new]
grow ==
  /\ op.kind = "close" /\ op.phase = "grow"
  /\ IF Len(op.chain) >= Needed(handles[op.h].data)
     THEN op' = [op EXCEPT !.phase = "data", !.i = 0] /\ UNCHANGED errors
     ELSE \/ /\ op' = IF FreeClusters = {} THEN Return
                      ELSE [op EXCEPT !.phase = "alloc", !.copy = 0,
                                      !.new = FirstFree(IF op.last >= 2 THEN op.last + 1 ELSE 2)]
             /\ UNCHANGED errors
          \/ Error /\ op' = Return
  /\ UNCHANGED <<fat16_root, fat, dirents, sectors, handles, crashes, ops, torn, misgrown>>

\* write_fat_entry: one copy after the other; after an error the rest of the
\* copies keep the old value.
write_fat_entry(c, v, done, failed) ==
  \/ /\ fat' = [fat EXCEPT ![op.copy][c] = v]
     /\ op' = IF op.copy + 1 < NumFats THEN [op EXCEPT !.copy = @ + 1] ELSE [done EXCEPT !.copy = 0]
     /\ UNCHANGED errors
  \/ Error /\ op' = [failed EXCEPT !.copy = 0] /\ UNCHANGED fat

allocate_cluster ==
  /\ op.kind = "close" /\ op.phase = "alloc"
  /\ write_fat_entry(op.new, EOC, [op EXCEPT !.phase = IF op.last >= 2 THEN "link" ELSE "first"], Return)
  /\ UNCHANGED <<fat16_root, dirents, sectors, handles, crashes, ops, torn, misgrown>>

\* extend_chain; on an error close leaves the loop and goes on.  The loop
\* starts at the first cluster of the handle, not at the last of its chain.
extend_chain ==
  /\ op.phase \in {"link", "eoc"}
  /\ LET broken == [op EXCEPT !.phase = "data", !.i = 0]
     IN IF op.phase = "link"
        THEN write_fat_entry(op.last, op.new, [op EXCEPT !.phase = "eoc"], broken)
        ELSE write_fat_entry(op.new, EOC, Pushed, broken)
  /\ misgrown' = misgrown \cup
       {n \in {op.name} : op.phase = "link" /\ op.copy = 0 /\ read_fat_entry(op.last) \in Clusters}
  /\ UNCHANGED <<fat16_root, dirents, sectors, handles, crashes, ops, torn>>

\* The first cluster of a file: the result of the write is ignored.
first_cluster ==
  /\ op.phase = "first"
  /\ write_fat_entry(op.new, EOC, Pushed, Pushed)
  /\ UNCHANGED <<fat16_root, dirents, sectors, handles, crashes, ops, torn, misgrown>>

\* Mutant: the last byte is left out.
MergedShort(old, d, i) ==
  [b \in 0..(BytesPerCluster - 1) |->
     IF (i - 1) * BytesPerCluster + b + 1 < Len(d) THEN d[(i - 1) * BytesPerCluster + b + 1] ELSE old[b]]
\* write_file_data, a read-modify-write of each sector; first the handle
\* learns its first cluster.
Merged(old, d, i) ==
  [b \in 0..(BytesPerCluster - 1) |->
     IF (i - 1) * BytesPerCluster + b + 1 <= Len(d) THEN d[(i - 1) * BytesPerCluster + b + 1] ELSE old[b]]
write_file_data ==
  /\ op.phase = "data"
  /\ IF op.i = 0
     THEN /\ handles' = [handles EXCEPT ![op.h].first = IF @ = 0 /\ op.chain # <<>> THEN op.chain[1] ELSE @]
          /\ op' = [op EXCEPT !.i = 1]
          /\ UNCHANGED <<sectors, errors>>
     ELSE /\ UNCHANGED handles
          /\ IF op.i > Len(op.chain) \/ (op.i - 1) * BytesPerCluster >= Len(handles[op.h].data)
             THEN op' = [op EXCEPT !.phase = "dir"] /\ UNCHANGED <<sectors, errors>>
             ELSE \/ /\ op.chain[op.i] \in DataClusters
                     /\ sectors' = [sectors EXCEPT ![op.chain[op.i]] = Merged(@, handles[op.h].data, op.i)]
                     /\ op' = [op EXCEPT !.i = @ + 1]
                     /\ UNCHANGED errors
                  \/ Error /\ op' = Return /\ UNCHANGED sectors
                  \/ op.chain[op.i] \notin DataClusters /\ op' = Return /\ UNCHANGED <<sectors, errors>>
  /\ UNCHANGED <<fat16_root, fat, dirents, crashes, ops, torn, misgrown>>

\* update_dir_entry_size, its result ignored; the FAT16 root has no chain to
\* find the entry in, and a new file has no entry.  The first cluster of the
\* entry stays what it was, also when the file had none.
update_dir_entry_size ==
  /\ op.phase = "dir"
  /\ \/ /\ dirents' = IF ~ fat16_root /\ Exists(op.name)
                      THEN [dirents EXCEPT ![op.name].size = Len(handles[op.h].data)] ELSE dirents
        /\ UNCHANGED errors
     \/ ~ fat16_root /\ Error /\ UNCHANGED dirents
  /\ handles' = [handles EXCEPT ![op.h].dirty = FALSE]
  /\ op' = Return
  /\ misgrown' = misgrown \cup {n \in {op.name} : dirents'[n] # dirents[n] /\ dirents[n].first = 0}
  /\ UNCHANGED <<fat16_root, fat, sectors, crashes, ops, torn>>

\* An operation returns; Drop then gives the handle up.
return ==
  /\ op # Idle /\ op.phase = "return"
  /\ op' = Idle
  /\ handles' = IF op.drop THEN [handles EXCEPT ![op.h] = Closed] ELSE handles
  /\ UNCHANGED <<fat16_root, fat, dirents, sectors, errors, crashes, ops, torn, misgrown>>

----------------------------------------------------------------------------
(* Directories *)

\* delete_child_file: in the FAT16 root only the entry goes, elsewhere first
\* the chain and then the entry.
delete_child_file(n) ==
  /\ Begin /\ Exists(n)
  /\ DeleteOpenFiles \/ \A h \in Handles : handles[h].name # n
  /\ LET chain == read_cluster_chain(dirents[n].first)
     IN op' = [Idle EXCEPT !.kind = "delete", !.name = n, !.chain = chain, !.i = 1,
                           !.phase = IF fat16_root \/ chain = <<>> THEN "mark" ELSE "free"]
  /\ UNCHANGED <<fat16_root, fat, dirents, sectors, handles, errors, crashes, torn, misgrown>>

\* Part of the chain is free and the entry still there.
Started ==
  \/ op.phase = "mark" /\ ~ fat16_root /\ op.chain # <<>>
  \/ op.phase = "free" /\ op.i + op.copy > 1

free_cluster_chain ==
  /\ op.phase = "free"
  /\ write_fat_entry(op.chain[op.i], 0,
                     IF op.i < Len(op.chain) THEN [op EXCEPT !.i = @ + 1] ELSE [op EXCEPT !.phase = "mark"], Return)
  /\ torn' = (torn \/ (errors' > errors /\ Started))
  /\ UNCHANGED <<fat16_root, dirents, sectors, handles, crashes, ops, misgrown>>

delete_dir_entry ==
  /\ op.phase = "mark"
  /\ \/ dirents' = [dirents EXCEPT ![op.name] = NoEntry] /\ UNCHANGED <<errors, torn>>
     \/ Error /\ torn' = (torn \/ Started) /\ UNCHANGED dirents
  /\ op' = Return
  /\ UNCHANGED <<fat16_root, fat, sectors, handles, crashes, ops, misgrown>>

\* create_child_dir allocates a cluster and then fails: "." is no 8.3 name.
create_child_dir(n) ==
  /\ Begin /\ ~ Exists(n) /\ FreeClusters # {}
  /\ op' = [Idle EXCEPT !.kind = "mkdir", !.name = n, !.phase = "alloc", !.new = FirstFree(2)]
  /\ UNCHANGED <<fat16_root, fat, dirents, sectors, handles, errors, crashes, torn, misgrown>>
create_child_dir_alloc ==
  /\ op.kind = "mkdir" /\ op.phase = "alloc"
  /\ write_fat_entry(op.new, EOC, Return, Return)
  /\ UNCHANGED <<fat16_root, dirents, sectors, handles, crashes, ops, torn, misgrown>>

----------------------------------------------------------------------------
\* The power goes: the disk stays as it is, everything else is gone.
crash ==
  /\ errors + crashes < MaxFaults
  /\ crashes' = crashes + 1
  /\ torn' = (torn \/ (op.kind = "delete" /\ Started))
  /\ op' = Idle
  /\ handles' = [h \in Handles |-> Closed]
  /\ UNCHANGED <<fat16_root, fat, dirents, sectors, errors, ops, misgrown>>

OpStep ==
  \/ grow \/ allocate_cluster \/ extend_chain \/ first_cluster \/ write_file_data \/ update_dir_entry_size
  \/ return \/ free_cluster_chain \/ delete_dir_entry \/ create_child_dir_alloc

Next ==
  \/ \E h \in Handles :
       \/ \E n \in Names : create_child_file(h, n) \/ open(h, n)
       \/ \E bytes \in Texts : write(h, bytes)
       \/ \E off \in Offsets : seek(h, off)
       \/ drop(h)
       \/ \E dropping \in BOOLEAN : close(h, dropping)
  \/ \E n \in Names : delete_child_file(n) \/ create_child_dir(n)
  \/ OpStep
  \/ crash

Spec == Init /\ [][Next]_vars /\ WF_vars(OpStep)

----------------------------------------------------------------------------
(* Properties *)

ChainOf(n) == read_cluster_chain(dirents[n].first)
ClustersOf(n) == {ChainOf(n)[k] : k \in DOMAIN ChainOf(n)}

\* Whatever was interrupted or refused, the chain of every file ends at an
\* end mark and no two files share a cluster.  With one handle only a delete
\* that was cut short between free_cluster_chain and delete_dir_entry can
\* break this.
ChainsAreSound ==
  ~torn /\ op.kind # "delete" =>
    /\ \A n \in Names : Exists(n) /\ ChainOf(n) # <<>> => fat[0][ChainOf(n)[Len(ChainOf(n))]] = EOC
    /\ \A n, m \in Names : Exists(n) /\ Exists(m) /\ n # m => ClustersOf(n) \cap ClustersOf(m) = {}

\* The size of an entry never promises more than its chain holds, at any
\* moment the power may go (close updates the size last).  Two kinds of file
\* are another matter, and become misgrown: one that had no cluster, whose
\* entry gets a size and no first cluster, and one of two clusters or more
\* that grows, whose chain is cut.  So is an I/O error: close goes on after
\* extend_chain failed.
SizeIsCovered ==
  ~torn /\ errors = 0 /\ op.kind # "delete" =>
    \A n \in Names \ misgrown : Exists(n) => dirents[n].size <= Len(ChainOf(n)) * BytesPerCluster

\* What one file reads is not changed by an operation on another file.  This
\* is checked with one handle: of two, one may outlive the file it was opened
\* for and find its clusters in another one.
OthersUntouched ==
  [][\A n \in Names : ~torn' /\ n # op.name => Content(n)' = Content(n)]_vars

\* A close that met no error leaves on the disk what the handle holds: all of
\* it, or in the FAT16 root, where the size stays, as much as the file had.
ReadBack ==
  [][op.phase = "dir" /\ errors' = 0 /\ ~torn /\ op' # Idle /\ Exists(op.name) /\ op.name \notin misgrown'
       => /\ Content(op.name)' = SubSeq(handles[op.h].data, 1, dirents'[op.name].size)
          /\ fat16_root \/ dirents'[op.name].size = Len(handles[op.h].data)]_vars

============================================================================

------------------------------- MODULE Initrd -------------------------------
(***************************************************************************)
(* The initrd: the archive tools/make_initrd.py writes and the parser of   *)
(* indo-kernel/src/initrd.rs, byte for byte in their lengths and           *)
(* alignment.  A byte is a record [k, ...]: k = "hdr" for a byte of a      *)
(* header (the first one carries its fields), "name", "data" or "zero".    *)
(* HEADER stands for the 110 bytes of a newc header; like 110 it is 2      *)
(* modulo 4, so the name starts unaligned.                                 *)
(*                                                                         *)
(* An entry is [name, namelen, parent, dir, data, datalen, fault, pad]:    *)
(* parent is the directory its name mentions, fault "none" or what is      *)
(* wrong with it, pad the zero bytes in front of it.                       *)
(***************************************************************************)
EXTENDS Integers, Sequences, FiniteSets, SequencesExt

CONSTANTS HEADER, MAX_NAME

Align4(n) == ((n + 3) \div 4) * 4

ZeroByte == [k |-> "zero", of |-> "zero"]

Zeros(n) == [i \in 1 .. n |-> ZeroByte]

TRAILER == [name |-> "TRAILER!!!", namelen |-> 10, parent |-> "", dir |-> FALSE, data |-> "", datalen |-> 0,
            fault |-> "none", pad |-> 0]

-----------------------------------------------------------------------------
(* The builder. *)

(* cpio_newc_entry: the header, the name and its NUL padded to 4, the data *)
(* padded to 4.  A directory's name ends in "/", which namelen counts.     *)
cpio_newc_entry(e) ==
    LET namesize == e.namelen + 1
        head == [k |-> "hdr", of |-> "hdr", magic |-> e.fault # "magic", namesize |-> namesize,
                 filesize |-> e.datalen]
        name == [k |-> "name", of |-> "name", name |-> e.name, utf8 |-> e.fault # "utf8",
                 dotdot |-> e.fault = "dotdot", parent |-> e.parent, dir |-> e.dir]
        nul  == IF e.fault = "nul" THEN [k |-> "data", of |-> e.name, i |-> 0] ELSE ZeroByte
    IN  Zeros(e.pad)
        \o [i \in 1 .. HEADER |-> IF i = 1 THEN head ELSE [k |-> "hdr", of |-> "hdr", magic |-> FALSE]]
        \o [i \in 1 .. e.namelen |-> name] \o <<nul>>
        \o Zeros(Align4(namesize) - namesize)
        \o [i \in 1 .. e.datalen |-> [k |-> "data", of |-> e.data, i |-> i]]
        \o Zeros(Align4(e.datalen) - e.datalen)

build_initrd(entries) ==
    FlattenSeq([i \in 1 .. Len(entries) |-> cpio_newc_entry(entries[i])]) \o cpio_newc_entry(TRAILER)

-----------------------------------------------------------------------------
(* The parser; offsets count from 0, as in the code. *)

At(d, off) == d[off + 1]

(* A parser that aligns the end of the name in the archive, as cpio does,  *)
(* and not the length of the name, as the builder does.                    *)
DataStart_Archive(off, namesize) == Align4(off + HEADER + namesize)

DataStart(off, namesize) == off + HEADER + Align4(namesize)

BadHeader == [ok |-> FALSE]

(* parse_header: everything that makes the rest of the archive unreadable. *)
parse_header(d, off) ==
    IF \/ off + HEADER > Len(d)
       \/ At(d, off).k # "hdr"
       \/ ~At(d, off).magic
    THEN BadHeader
    ELSE LET h == At(d, off)
             name_start == off + HEADER
             data_start == DataStart(off, h.namesize)
         IN  IF \/ h.namesize = 0 \/ h.namesize > MAX_NAME
                \/ name_start + h.namesize > Len(d)
                \/ data_start + h.filesize > Len(d)
                \/ At(d, name_start + h.namesize - 1).k # "zero"
             THEN BadHeader
             ELSE [ok |-> TRUE, namesize |-> h.namesize, filesize |-> h.filesize,
                   name |-> At(d, name_start), data |-> SubSeq(d, data_start + 1, data_start + h.filesize),
                   next |-> data_start + Align4(h.filesize)]

(* The test for padding looks at the six bytes of a magic. *)
IsPadding(d, off) == \A i \in 0 .. 5 : At(d, off + i).k = "zero"
=============================================================================

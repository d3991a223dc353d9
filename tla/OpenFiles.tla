----------------------------- MODULE OpenFiles -----------------------------
(***************************************************************************)
(* What the file descriptors of the kernel promise.  A descriptor names an *)
(* open file description (a position in the data of a file); dup, dup2 and *)
(* fork make further descriptors of the same description, open makes a new *)
(* one.  Only the description a call names moves or has its data written,  *)
(* and neither the descriptors of other processes nor the removal of a     *)
(* file's name takes a description or its data away.                       *)
(***************************************************************************)
EXTENDS Integers, Sequences

CONSTANTS Procs, Fds, Descs, NoDesc, Other,
          Counts, Texts      \* the sizes and offsets, and the bytes, of the calls

VARIABLES
  desc,      \* [Procs -> [Fds -> Descs \cup {NoDesc, Other}]]
  ofd,       \* [Descs -> [ino, pos]], arbitrary for a description nobody names
  data       \* [Inos -> Seq(bytes)], arbitrary for data nobody can reach

vars == <<desc, ofd, data>>

Named(d) == {h \in Descs : \E p \in Procs, f \in Fds : d[p][f] = h}
Held(d, o) == {o[h].ino : h \in Named(d)}

\* What a descriptor could observe before the step, and one still can, is as
\* it was.  The data goes with its last description when it has no name.
Keep ==
  /\ \A h \in Named(desc) \cap Named(desc') : ofd'[h] = ofd[h]
  /\ \A i \in Held(desc, ofd) \cap Held(desc', ofd') : data'[i] = data[i]

Init == \A p \in Procs, f \in Fds : desc[p][f] \in {NoDesc, Other}

Assign(p, f, h) == desc' = [desc EXCEPT ![p][f] = h]

Open(p, f, h) ==
  /\ desc[p][f] = NoDesc
  /\ h \notin Named(desc)
  /\ Assign(p, f, h)
  /\ ofd'[h].pos = 0
  /\ Keep

\* A descriptor of something that is not a file's data: a directory.
OpenOther(p, f) ==
  /\ desc[p][f] = NoDesc
  /\ Assign(p, f, Other)
  /\ Keep

Copy(p, f, g) ==
  /\ desc[p][f] # NoDesc
  /\ Assign(p, g, desc[p][f])
  /\ Keep

Close(p, f) ==
  /\ Assign(p, f, NoDesc)
  /\ Keep

Fork(p, c) ==
  /\ \A f \in Fds : desc[c][f] = NoDesc
  /\ desc' = [desc EXCEPT ![c] = desc[p]]
  /\ Keep

Drop(p) ==
  /\ desc' = [desc EXCEPT ![p] = [f \in Fds |-> NoDesc]]
  /\ Keep

\* A read moves past the bytes it returns: those from the position to the
\* end of the data, and no more than were asked for.
Read(h, n) ==
  /\ h \in Named(desc)
  /\ LET from == ofd[h].pos
         len == Len(data[ofd[h].ino])
         k == IF from >= len THEN 0 ELSE IF n < len - from THEN n ELSE len - from
     IN ofd'[h] = [ofd[h] EXCEPT !.pos = from + k]
  /\ \A g \in Named(desc) \ {h} : ofd'[g] = ofd[g]
  /\ \A i \in Held(desc, ofd) : data'[i] = data[i]
  /\ UNCHANGED desc

\* Listing a file as if it were a directory reads on in chunks of the kernel's
\* own size: the position moves forward, at most to the end of the data.
Skim(h) ==
  /\ h \in Named(desc)
  /\ LET from == ofd[h].pos
         len == Len(data[ofd[h].ino])
     IN \E to \in from..(IF from >= len THEN from ELSE len) :
          ofd'[h] = [ofd[h] EXCEPT !.pos = to]
  /\ \A g \in Named(desc) \ {h} : ofd'[g] = ofd[g]
  /\ \A i \in Held(desc, ofd) : data'[i] = data[i]
  /\ UNCHANGED desc

\* A write puts its bytes at the position, zeros in any gap before it, and
\* changes no other byte and no other file.
Write(h, bytes) ==
  /\ h \in Named(desc)
  /\ LET i == ofd[h].ino
         from == ofd[h].pos
         to == from + Len(bytes)
     IN /\ Len(data'[i]) = IF to > Len(data[i]) THEN to ELSE Len(data[i])
        /\ \A k \in 1..Len(data'[i]) :
             data'[i][k] = IF k > from /\ k <= to THEN bytes[k - from]
                           ELSE IF k <= Len(data[i]) THEN data[i][k] ELSE 0
        /\ ofd'[h] = [ofd[h] EXCEPT !.pos = to]
        /\ \A j \in Held(desc, ofd) \ {i} : data'[j] = data[j]
  /\ \A g \in Named(desc) \ {h} : ofd'[g] = ofd[g]
  /\ UNCHANGED desc

Seek(h, n) ==
  /\ h \in Named(desc)
  /\ ofd'[h] = [ofd[h] EXCEPT !.pos = n]
  /\ \A g \in Named(desc) \ {h} : ofd'[g] = ofd[g]
  /\ \A i \in Held(desc, ofd) : data'[i] = data[i]
  /\ UNCHANGED desc

\* Names are created and removed without a descriptor noticing.
Namespace ==
  /\ Keep
  /\ UNCHANGED desc

Next ==
  \/ \E p \in Procs, f \in Fds : OpenOther(p, f) \/ Close(p, f)
  \/ \E p \in Procs, f \in Fds, h \in Descs : Open(p, f, h)
  \/ \E p \in Procs, f, g \in Fds : Copy(p, f, g)
  \/ \E p, c \in Procs : Fork(p, c)
  \/ \E p \in Procs : Drop(p)
  \/ \E h \in Descs : \/ \E n \in Counts : Read(h, n) \/ Seek(h, n)
                      \/ \E bytes \in Texts : Write(h, bytes)
                      \/ Skim(h)
  \/ Namespace

Spec == Init /\ [][Next]_vars
============================================================================

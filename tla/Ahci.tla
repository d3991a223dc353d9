------------------------------- MODULE Ahci -------------------------------
(***************************************************************************)
(* The AHCI driver (ahci/mod.rs): bringing a port up, IDENTIFY DEVICE, and *)
(* one-sector reads and writes through command slot 0 and one DMA buffer,  *)
(* with the retry and recovery of issue_command.  The port's registers are *)
(* shared with the device, which is external: it fetches the command       *)
(* table, moves the sector, and answers when it likes, or not at all.      *)
(*                                                                         *)
(* todo is what the driver still does before the function returns, one     *)
(* register access or polling loop after the other.  The port lock is held *)
(* from the request to the answer, so requests do not interleave.          *)
(***************************************************************************)
EXTENDS Integers, Sequences

CONSTANTS
  Present,            \* numbers of the ports with SSTS.DET = 3 when the scan looks
  Geometry,           \* [Present -> total_sectors as IDENTIFY reports it]
  MAX_SECTORS,        \* 0xFFFFFFFF
  Frames,             \* how many frames the PMM may have for DMA pages
  CMD_MAX_ATTEMPTS,
  Lbas, Values,       \* sectors that are asked for, contents
  Probe,              \* DMA_PROBE_PAT, a value of its own
  MaxErrors, MaxRequests      \* bounds: errors of the device, requests

ASSUME AhciAssumption ==
  /\ Present \subseteq Nat \ {0} /\ Geometry \in [Present -> Nat] /\ MAX_SECTORS \in Nat
  /\ Frames \subseteq Nat /\ CMD_MAX_ATTEMPTS \in Nat \ {0} /\ Lbas \subseteq Nat
  /\ Probe \notin Values

VARIABLES
  port,      \* the port being brought up, then the one in use
  active,    \* AhciDisk::init returned the disk
  frames,    \* frames left in the PMM
  sectors,   \* total_sectors of the port
  regs,      \* PxCMD, PxCI, PxIS.TFES and PxTFD of the port
  table,     \* the command table: what slot 0 asks for
  dma,       \* the DMA buffer
  req,       \* the request being served
  attempt, last_was_tfes,
  todo,      \* what is left to do
  disk,      \* the sectors of the device
  inflight,  \* the command the device has fetched
  engine,    \* "ok", or "stopped" after a task file error
  errors, requests,  \* so far
  clean,     \* history: the driver found the engine running and the slot free, and no poll ran out since
  left       \* history: the requests given up with their command still in the slot

vars == <<port, active, frames, sectors, regs, table, dma, req, attempt, last_was_tfes, todo, disk, inflight,
          engine, errors, requests, clean, left>>
device == <<disk, inflight, engine, errors>>
driver == <<port, active, frames, sectors, table, req, attempt, last_was_tfes, requests, clean, left>>

Nothing == [kind |-> "none", lba |-> 0, data |-> Probe]
Identify == [Nothing EXCEPT !.kind = "identify"]

\* init_port up to the wait for the IDENTIFY, and one attempt of issue_command.
Restart == <<"fre", "fr1", "st", "cr1">>
InitPort == <<"stop", "cr0", "clear", "alloc">> \o Restart \o <<"ready", "clear", "issue", "wait">>
Recover == <<"stop", "cr0", "fre0", "fr0", "ready">> \o Restart
\* Mutant: the next attempt does not recover.
AttemptAgain(tfes) == <<"clear", "ready", "stamp", "issue", "wait">>
Attempt(tfes) == <<"clear", "ready">> \o (IF tfes THEN Recover ELSE <<>>) \o <<"stamp", "issue", "wait">>

Init ==
  /\ port = 0 /\ active = FALSE /\ frames \in Frames /\ sectors = 0
  /\ regs = [ST |-> FALSE, CR |-> FALSE, FRE |-> FALSE, FR |-> FALSE, CI |-> FALSE, TFES |-> FALSE,
             BSY |-> FALSE, ERR |-> FALSE]
  /\ table = Nothing /\ dma = Probe /\ req = Nothing
  /\ attempt = 0 /\ last_was_tfes = FALSE /\ todo = <<>>
  /\ disk \in [Lbas -> Values] /\ inflight = Nothing /\ engine = "ok"
  /\ errors = 0 /\ requests = 0
  /\ clean = TRUE /\ left = {}

----------------------------------------------------------------------------
(* Bringing a port up *)

\* AhciDisk::init: the next port with a device; the HBA was reset.
init ==
  /\ todo = <<>> /\ ~active
  /\ \E p \in Present : /\ p > port /\ \A q \in Present : q > port => p <= q
                        /\ port' = p
  /\ todo' = InitPort /\ table' = Identify
  /\ regs' = [regs EXCEPT !.BSY = FALSE, !.CI = FALSE, !.TFES = FALSE, !.ST = FALSE, !.FRE = FALSE,
                          !.CR = FALSE, !.FR = FALSE, !.ERR = FALSE]
  /\ inflight' = Nothing /\ engine' = "ok" /\ clean' = TRUE /\ left' = {}
  /\ UNCHANGED <<active, frames, sectors, dma, req, attempt, last_was_tfes, disk, errors, requests>>

Step == todo[1]
Rest == Tail(todo)

\* alloc_dma_page, four times; the pages of a port that fails are not freed.
alloc_dma_page ==
  /\ todo # <<>> /\ Step = "alloc"
  /\ frames' = IF frames >= 4 THEN frames - 4 ELSE 0
  /\ todo' = IF frames >= 4 THEN Rest ELSE <<>>
  /\ UNCHANGED <<port, active, sectors, regs, table, dma, req, attempt, last_was_tfes, requests, clean, left>>
  /\ UNCHANGED device

\* identify_device and the end of init_port; an IDENTIFY that reports no
\* sectors counts as 0xFFFFFFFF of them, and so does one that ends with an
\* error in its status: the buffer is still the zeroed page.
TotalSectors(n) == IF n = 0 THEN MAX_SECTORS ELSE n
identify_device ==
  /\ todo # <<>> /\ Step = "wait" /\ ~active
  /\ ~ regs.CI \/ regs.TFES
  /\ todo' = <<>>
  /\ regs' = [regs EXCEPT !.TFES = FALSE]
  /\ sectors' = IF regs.CI THEN 0 ELSE TotalSectors(IF regs.ERR THEN 0 ELSE Geometry[port])
  /\ active' = ~ regs.CI
  /\ UNCHANGED <<port, frames, table, dma, req, attempt, last_was_tfes, requests, clean, left>> /\ UNCHANGED device

----------------------------------------------------------------------------
(* Requests *)

\* The engine is running and the slot is free.
Free == regs.ST /\ regs.CR /\ engine = "ok" /\ ~ regs.CI /\ inflight = Nothing

\* read_sector and write_sector: the command header, table and, for a write,
\* the buffer are set up once for all the attempts.  last_was_tfes starts as FALSE
\* in every call, although the one before may have left the engine stopped or
\* its command in the slot.
issue_command(r) ==
  /\ todo = <<>> /\ active /\ req = Nothing /\ requests < MaxRequests
  /\ r.lba < sectors
  /\ requests' = requests + 1
  /\ req' = r /\ table' = r
  /\ dma' = IF r.kind = "write" THEN r.data ELSE dma
  /\ attempt' = 1 /\ last_was_tfes' = FALSE
  /\ todo' = Attempt(FALSE)
  /\ clean' = Free
  /\ UNCHANGED <<port, active, frames, sectors, regs, left>> /\ UNCHANGED device

\* Register writes; clearing ST clears PxCI.
Write(step) ==
  CASE step = "stop" -> [regs EXCEPT !.ST = FALSE, !.CI = FALSE]
    [] step = "fre0" -> [regs EXCEPT !.FRE = FALSE]
    [] step = "fre" -> [regs EXCEPT !.FRE = TRUE]
    [] step = "st" -> [regs EXCEPT !.ST = TRUE]
    [] step = "clear" -> [regs EXCEPT !.TFES = FALSE]
    [] step = "issue" -> [regs EXCEPT !.CI = TRUE]
write_reg ==
  /\ todo # <<>> /\ Step \in {"stop", "fre0", "fre", "st", "clear", "issue"}
  /\ regs' = Write(Step)
  /\ todo' = Rest
  /\ UNCHANGED dma /\ UNCHANGED driver /\ UNCHANGED device

\* Mutant: a write stamps the buffer too.
stamp_always ==
  /\ todo # <<>> /\ Step = "stamp"
  /\ dma' = Probe
  /\ todo' = Rest
  /\ UNCHANGED regs /\ UNCHANGED driver /\ UNCHANGED device

\* Step 4: a read stamps the buffer.
stamp ==
  /\ todo # <<>> /\ Step = "stamp"
  /\ dma' = IF req.kind = "read" THEN Probe ELSE dma
  /\ todo' = Rest
  /\ UNCHANGED regs /\ UNCHANGED driver /\ UNCHANGED device

\* A polling loop on PxCMD or PxTFD ends when it sees what it waits for.
Seen(step) ==
  CASE step = "cr0" -> ~regs.CR [] step = "cr1" -> regs.CR
    [] step = "fr0" -> ~regs.FR [] step = "fr1" -> regs.FR
    [] step = "ready" -> ~regs.BSY
poll ==
  /\ todo # <<>> /\ Step \in {"cr0", "cr1", "fr0", "fr1", "ready"}
  /\ Seen(Step)
  /\ todo' = Rest
  /\ UNCHANGED <<regs, dma>> /\ UNCHANGED driver /\ UNCHANGED device

\* ... or when ATA_TIMEOUT polls are over: the code goes on all the same.
poll_timeout ==
  /\ todo # <<>> /\ Step \in {"cr0", "cr1", "fr0", "fr1", "ready"}
  /\ ~ Seen(Step)
  /\ todo' = Rest /\ clean' = FALSE
  /\ UNCHANGED <<port, active, frames, sectors, regs, table, dma, req, attempt, last_was_tfes, requests, left>>
  /\ UNCHANGED device

\* Step 8: the command is done and the status is good.
Answered == todo # <<>> /\ Step = "wait" /\ active /\ ~ regs.CI
complete ==
  /\ Answered /\ ~ regs.ERR
  /\ regs' = [regs EXCEPT !.TFES = FALSE]
  /\ todo' = <<>> /\ req' = Nothing
  /\ UNCHANGED <<port, active, frames, sectors, table, dma, attempt, last_was_tfes, requests, clean, left>>
  /\ UNCHANGED device

\* Steps 8 and 9: an error; recover and try again, or give up.
retry ==
  /\ todo # <<>> /\ Step = "wait" /\ active
  /\ IF regs.CI THEN regs.TFES ELSE regs.ERR
  /\ regs' = [regs EXCEPT !.TFES = FALSE]
  /\ last_was_tfes' = TRUE
  /\ IF attempt < CMD_MAX_ATTEMPTS
     THEN attempt' = attempt + 1 /\ todo' = Attempt(TRUE) /\ UNCHANGED <<req, left>>
     ELSE /\ todo' = <<>> /\ req' = Nothing /\ UNCHANGED attempt
          /\ left' = IF regs.CI THEN left \cup {req} ELSE left
  /\ UNCHANGED <<port, active, frames, sectors, table, dma, requests, clean>> /\ UNCHANGED device

\* Step 7: the command is left in the slot, and the device may still take it.
timeout ==
  /\ todo # <<>> /\ Step = "wait" /\ regs.CI /\ ~ regs.TFES
  /\ regs' = [regs EXCEPT !.TFES = FALSE]
  /\ todo' = <<>> /\ req' = Nothing /\ left' = left \cup {req}
  /\ UNCHANGED <<port, active, frames, sectors, table, dma, attempt, last_was_tfes, requests, clean>> /\ UNCHANGED device

Driver == alloc_dma_page \/ identify_device \/ write_reg \/ stamp \/ poll \/ poll_timeout \/ complete \/ retry \/ timeout

----------------------------------------------------------------------------
(* The device: external *)

\* CR follows ST, FR follows FRE; a restart of the engine ends the stop.
Follow ==
  /\ regs.CR # regs.ST \/ regs.FR # regs.FRE
  /\ regs' = [regs EXCEPT !.CR = regs.ST, !.FR = regs.FRE]
  /\ engine' = IF regs.ST /\ ~regs.CR THEN "ok" ELSE engine
  /\ inflight' = IF regs.ST THEN inflight ELSE Nothing
  /\ UNCHANGED <<dma, disk, errors, todo>> /\ UNCHANGED driver

Fetch ==
  /\ engine = "ok" /\ regs.CI /\ regs.CR /\ regs.ST /\ inflight = Nothing
  /\ inflight' = table
  /\ regs' = [regs EXCEPT !.BSY = TRUE]
  /\ UNCHANGED <<dma, disk, engine, errors, todo>> /\ UNCHANGED driver

\* The sector moves between the disk and the buffer and slot 0 is done.
Transfer ==
  /\ engine = "ok" /\ inflight # Nothing
  /\ dma' = IF inflight.kind = "read" THEN disk[inflight.lba] ELSE dma
  /\ disk' = IF inflight.kind = "write" THEN [disk EXCEPT ![inflight.lba] = dma] ELSE disk
  /\ inflight' = Nothing
  /\ regs' = [regs EXCEPT !.CI = FALSE, !.BSY = FALSE, !.ERR = FALSE]
  /\ UNCHANGED <<engine, errors, todo>> /\ UNCHANGED driver

\* A task file error stops the engine with slot 0 outstanding, or the command
\* ends with the error in its status.
Fail ==
  /\ engine = "ok" /\ inflight # Nothing /\ errors < MaxErrors
  /\ errors' = errors + 1
  /\ \E tfes \in BOOLEAN :
       /\ regs' = [regs EXCEPT !.TFES = tfes, !.CI = tfes /\ regs.CI, !.BSY = FALSE, !.ERR = TRUE]
       /\ engine' = IF tfes THEN "stopped" ELSE engine
  /\ inflight' = Nothing
  /\ UNCHANGED <<dma, disk, todo>> /\ UNCHANGED driver

\* A stopped engine takes the command and moves nothing.
Ignore ==
  /\ engine = "stopped" /\ regs.CI /\ ~ regs.TFES
  /\ regs' = [regs EXCEPT !.CI = FALSE, !.ERR = FALSE]
  /\ UNCHANGED <<dma, todo>> /\ UNCHANGED device /\ UNCHANGED driver

Device == Follow \/ Fetch \/ Transfer \/ Fail \/ Ignore

Requests == {[kind |-> "read", lba |-> l, data |-> Probe] : l \in Lbas}
              \cup {[kind |-> "write", lba |-> l, data |-> v] : l \in Lbas, v \in Values}

Next == init \/ (\E r \in Requests : issue_command(r)) \/ Driver \/ Device

Spec == Init /\ [][Next]_vars

----------------------------------------------------------------------------
(* Properties *)

\* A request that returns Ok was carried out, through every retry and recovery:
\* a read found the sector in the buffer (the driver trusts the buffer and never
\* looks at the probe), a write reached its sector.  This is claimed for requests
\* that find the engine running and the slot free and see no poll of PxCMD or
\* PxTFD run out; issue_command checks neither, and a request that follows a
\* timeout, or an exhausted recovery, can be answered Ok by what was left behind.
AnswerIsTrue ==
  [][Answered /\ ~regs.ERR /\ req' = Nothing /\ clean =>
       /\ req.kind = "read" => dma = disk[req.lba]
       /\ req.kind = "write" => disk[req.lba] = req.data]_vars

\* While a request that started on a free slot is served, a sector changes only
\* if it is the write's own, and to its data.  Otherwise a command that was left in
\* the slot may still be carried out, or the one being served: on the sector of
\* that write and no other, with whatever the shared buffer then holds.
SectorsChangeByRequest ==
  [][\A l \in Lbas : disk'[l] # disk[l] =>
       IF clean /\ req # Nothing THEN req = [kind |-> "write", lba |-> l, data |-> disk'[l]]
       ELSE \E r \in left \cup {req} : r.kind = "write" /\ r.lba = l]_vars

============================================================================

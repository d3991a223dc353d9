----------------------------- MODULE AhciProofs -----------------------------
(***************************************************************************)
(* What the AHCI driver's answers and the disk's changes are worth, proved *)
(* for any disk, any number of attempts and requests, and a device that    *)
(* may fail, answer late or not at all at every step.                      *)
(*                                                                         *)
(* The inductive invariant has two parts.  One holds always: whatever the  *)
(* device may carry out is the request being served or one that was given  *)
(* up.  The other is about a request that started on a free slot and saw   *)
(* no poll run out: for every place of the driver in its sequence of       *)
(* register accesses it says what the port may be doing meanwhile.         *)
(***************************************************************************)
EXTENDS Ahci, SequenceTheorems, TLAPS

----------------------------------------------------------------------------
(* Where the driver is *)

\* The steps of the driver
Words == {"stop", "cr0", "clear", "alloc", "fre", "fr1", "st", "cr1", "ready", "issue", "wait",
          "fre0", "fr0", "stamp"}

\* The ends of an attempt
Wait == <<"wait">>
Issue == <<"issue", "wait">>
Stamp == <<"stamp", "issue", "wait">>

\* What is left of init_port before its issue
Init1 == <<"stop", "cr0", "clear", "alloc", "fre", "fr1", "st", "cr1", "ready", "clear", "issue", "wait">>
Init2 == <<"cr0", "clear", "alloc", "fre", "fr1", "st", "cr1", "ready", "clear", "issue", "wait">>
Init3 == <<"clear", "alloc", "fre", "fr1", "st", "cr1", "ready", "clear", "issue", "wait">>
Init4 == <<"alloc", "fre", "fr1", "st", "cr1", "ready", "clear", "issue", "wait">>
Init5 == <<"fre", "fr1", "st", "cr1", "ready", "clear", "issue", "wait">>
Init6 == <<"fr1", "st", "cr1", "ready", "clear", "issue", "wait">>
Init7 == <<"st", "cr1", "ready", "clear", "issue", "wait">>
Init8 == <<"cr1", "ready", "clear", "issue", "wait">>
Init9 == <<"ready", "clear", "issue", "wait">>
Init10 == <<"clear", "issue", "wait">>

\* What is left of a first attempt, and of one after an error, before its stamp
First1 == <<"clear", "ready", "stamp", "issue", "wait">>
First2 == <<"ready", "stamp", "issue", "wait">>
Again1 == <<"clear", "ready", "stop", "cr0", "fre0", "fr0", "ready", "fre", "fr1", "st", "cr1", "stamp", "issue", "wait">>
Again2 == <<"ready", "stop", "cr0", "fre0", "fr0", "ready", "fre", "fr1", "st", "cr1", "stamp", "issue", "wait">>
Again3 == <<"stop", "cr0", "fre0", "fr0", "ready", "fre", "fr1", "st", "cr1", "stamp", "issue", "wait">>
Again4 == <<"cr0", "fre0", "fr0", "ready", "fre", "fr1", "st", "cr1", "stamp", "issue", "wait">>
Again5 == <<"fre0", "fr0", "ready", "fre", "fr1", "st", "cr1", "stamp", "issue", "wait">>
Again6 == <<"fr0", "ready", "fre", "fr1", "st", "cr1", "stamp", "issue", "wait">>
Again7 == <<"ready", "fre", "fr1", "st", "cr1", "stamp", "issue", "wait">>
Again8 == <<"fre", "fr1", "st", "cr1", "stamp", "issue", "wait">>
Again9 == <<"fr1", "st", "cr1", "stamp", "issue", "wait">>
Again10 == <<"st", "cr1", "stamp", "issue", "wait">>
Again11 == <<"cr1", "stamp", "issue", "wait">>

\* ... by what the driver has made of the engine: still as the error left it,
\* told to stop, stopped, told to start, running.
Erring == {Again1, Again2, Again3}
Stopping == {Init2, Again4}
Stopped == {Init1, Init3, Init4, Init5, Init6, Init7, Again5, Again6, Again7, Again8, Again9, Again10}
Starting == {Init8, Again11}
Live == {Init9, Init10, First1, First2, Stamp, Issue}
\* The places of a request: after the port has been brought up
Calling == {<<>>, Wait, Issue, Stamp, First1, First2, Again1, Again2, Again3, Again4, Again5, Again6, Again7,
            Again8, Again9, Again10, Again11}
Places == {<<>>, Wait} \cup Erring \cup Stopping \cup Stopped \cup Starting \cup Live

----------------------------------------------------------------------------
(* The inductive invariant *)

\* Types of the registers and of the request
Regs == [ST : BOOLEAN, CR : BOOLEAN, FRE : BOOLEAN, FR : BOOLEAN, CI : BOOLEAN, TFES : BOOLEAN,
         BSY : BOOLEAN, ERR : BOOLEAN]
Bytes == Values \cup {Probe}
Commands == Requests \cup {Nothing, Identify}
Shape ==
  /\ todo \in Places /\ regs \in Regs /\ active \in BOOLEAN /\ clean \in BOOLEAN
  /\ engine \in {"ok", "stopped"} /\ disk \in [Lbas -> Bytes] /\ dma \in Bytes
  /\ inflight \in Commands /\ left \in SUBSET Commands

\* The command table holds the request being served.
Serving ==
  /\ req = Nothing \/ req \in Requests
  /\ todo = <<>> \/ ~active => req = Nothing
  /\ todo # <<>> => table = IF active THEN req ELSE Identify
  /\ todo # <<>> /\ active => req \in Requests
  /\ active => todo \in Calling

\* What the device has fetched, or will find in the slot, is the request being
\* served or one that was given up; an answered command is not in flight.
Known(c) == c = Identify \/ c = req \/ c \in left
Slot ==
  /\ inflight # Nothing => Known(inflight)
  /\ regs.CI => Known(table)
  /\ todo = Wait /\ ~regs.CI => inflight = Nothing
  /\ engine = "stopped" => inflight = Nothing

\* The command in the table has been carried out.
CarriedOut ==
  /\ table.kind = "read" => dma = disk[table.lba]
  /\ table.kind = "write" => disk[table.lba] = table.data

\* For a request that started on a free slot: outside the wait nothing is in
\* flight, and a command is in the slot only if the engine is stopped.
Quiet == todo # Wait => inflight = Nothing /\ (todo # First1 => ~regs.TFES)
Phases ==
  /\ todo \in Erring => regs.ST /\ regs.CR /\ (engine = "ok" => ~regs.CI)
  /\ todo \in Stopping => ~regs.ST /\ ~regs.CI
  /\ todo \in Stopped => ~regs.ST /\ ~regs.CR /\ ~regs.CI
  /\ todo \in Starting => regs.ST /\ ~regs.CI /\ (regs.CR => engine = "ok")
  /\ todo \in Live => regs.ST /\ regs.CR /\ ~regs.CI /\ engine = "ok"
Waiting ==
  todo = Wait =>
    /\ regs.ST /\ regs.CR
    /\ engine = "stopped" => regs.CI /\ regs.TFES /\ inflight = Nothing
    /\ engine = "ok" => ~regs.TFES
    /\ inflight # Nothing => inflight = table /\ regs.CI
    /\ ~regs.CI /\ ~regs.ERR => CarriedOut
Buffer == req.kind = "write" => dma = req.data
Orderly == Quiet /\ Phases /\ Waiting /\ Buffer

\* The inductive invariant: what the port can be at each place of the driver
PortInv ==
  /\ Shape /\ Serving /\ Slot
  /\ clean /\ todo # <<>> => Orderly

----------------------------------------------------------------------------
(* The sequences of steps *)

\* u is s followed by t.
Joins(s, t, u) ==
  /\ s \in Seq(Words) /\ t \in Seq(Words) /\ u \in Seq(Words)
  /\ Len(u) = Len(s) + Len(t)
  /\ \A i \in 1..Len(s) : u[i] = s[i]
  /\ \A i \in 1..Len(t) : u[Len(s) + i] = t[i]

\* A sequence given by its elements is the concatenation of its parts.
LEMMA Joined ==
  ASSUME NEW s, NEW t, NEW u, Joins(s, t, u)
  PROVE  s \o t = u
<1> USE DEF Joins
<1>1. s \o t \in Seq(Words) /\ Len(s \o t) = Len(u)
  BY Zenon, ConcatProperties
<1>2. \A i \in 1..Len(u) : (s \o t)[i] = IF i <= Len(s) THEN s[i] ELSE t[i - Len(s)]
  BY Zenon, ConcatProperties
<1>3. \A i \in 1..Len(u) : (s \o t)[i] = u[i]
  <2> TAKE i \in 1..Len(u)
  <2>1. CASE i <= Len(s)
    BY <1>2, <2>1
  <2>2. CASE i > Len(s)
    <3>1. i - Len(s) \in 1..Len(t) /\ Len(s) + (i - Len(s)) = i
      BY <2>2
    <3> QED
      BY <1>2, <2>2, <3>1
  <2> QED
    BY <2>1, <2>2
<1> QED
  BY Zenon, <1>1, <1>3, SeqEqual

\* init_port starts at the first of its places.
LEMMA InitPortIs == InitPort = Init1
<1>1. Joins(<<"stop", "cr0", "clear", "alloc">>, Restart,
            <<"stop", "cr0", "clear", "alloc", "fre", "fr1", "st", "cr1">>)
  BY DEF Joins, Words, Restart
<1>2. Joins(<<"stop", "cr0", "clear", "alloc", "fre", "fr1", "st", "cr1">>,
            <<"ready", "clear", "issue", "wait">>, Init1)
  BY DEF Joins, Words, Init1
<1> QED
  BY Zenon, <1>1, <1>2, Joined DEF InitPort

\* The first attempt of issue_command starts at the first of its places.
LEMMA FirstAttemptIs == Attempt(FALSE) = First1
<1>1. Joins(<<"clear", "ready">>, <<>>, <<"clear", "ready">>)
  BY DEF Joins, Words
<1>2. Joins(<<"clear", "ready">>, <<"stamp", "issue", "wait">>, First1)
  BY DEF Joins, Words, First1
<1>3. Attempt(FALSE) = (<<"clear", "ready">> \o <<>>) \o <<"stamp", "issue", "wait">>
  BY Zenon DEF Attempt
<1> QED
  BY Zenon, <1>1, <1>2, <1>3, Joined

\* An attempt after an error recovers the port first.
LEMMA NextAttemptIs == Attempt(TRUE) = Again1
<1> DEFINE recover == <<"stop", "cr0", "fre0", "fr0", "ready", "fre", "fr1", "st", "cr1">>
           before == <<"clear", "ready", "stop", "cr0", "fre0", "fr0", "ready", "fre", "fr1", "st", "cr1">>
<1>1. Joins(<<"stop", "cr0", "fre0", "fr0", "ready">>, Restart, recover)
  BY DEF Joins, Words, Restart
<1>2. Joins(<<"clear", "ready">>, recover, before)
  BY DEF Joins, Words
<1>3. Joins(before, <<"stamp", "issue", "wait">>, Again1)
  BY DEF Joins, Words, Again1
<1>4. Attempt(TRUE) = (<<"clear", "ready">> \o Recover) \o <<"stamp", "issue", "wait">>
  BY Zenon DEF Attempt
<1>5. Recover = recover
  BY Zenon, <1>1, Joined DEF Recover
<1> HIDE DEF recover, before
<1> QED
  BY Zenon, <1>2, <1>3, <1>4, <1>5, Joined

\* Names for the head, the rest and the length of a sequence of steps
First(t) == t[1]
After(t) == Tail(t)
Depth(t) == Len(t)

\* The first step of every place and what is left after it.
LEMMA Chain ==
  /\ Again1 # <<>> /\ Depth(Again1) = 14 /\ First(Again1) = "clear" /\ After(Again1) = Again2
  /\ Again2 # <<>> /\ Depth(Again2) = 13 /\ First(Again2) = "ready" /\ After(Again2) = Again3
  /\ Again3 # <<>> /\ Depth(Again3) = 12 /\ First(Again3) = "stop" /\ After(Again3) = Again4
  /\ Again4 # <<>> /\ Depth(Again4) = 11 /\ First(Again4) = "cr0" /\ After(Again4) = Again5
  /\ Again5 # <<>> /\ Depth(Again5) = 10 /\ First(Again5) = "fre0" /\ After(Again5) = Again6
  /\ Again6 # <<>> /\ Depth(Again6) = 9 /\ First(Again6) = "fr0" /\ After(Again6) = Again7
  /\ Again7 # <<>> /\ Depth(Again7) = 8 /\ First(Again7) = "ready" /\ After(Again7) = Again8
  /\ Again8 # <<>> /\ Depth(Again8) = 7 /\ First(Again8) = "fre" /\ After(Again8) = Again9
  /\ Again9 # <<>> /\ Depth(Again9) = 6 /\ First(Again9) = "fr1" /\ After(Again9) = Again10
  /\ Again10 # <<>> /\ Depth(Again10) = 5 /\ First(Again10) = "st" /\ After(Again10) = Again11
  /\ Again11 # <<>> /\ Depth(Again11) = 4 /\ First(Again11) = "cr1" /\ After(Again11) = Stamp
  /\ Init1 # <<>> /\ Depth(Init1) = 12 /\ First(Init1) = "stop" /\ After(Init1) = Init2
  /\ Init2 # <<>> /\ Depth(Init2) = 11 /\ First(Init2) = "cr0" /\ After(Init2) = Init3
  /\ Init3 # <<>> /\ Depth(Init3) = 10 /\ First(Init3) = "clear" /\ After(Init3) = Init4
  /\ Init4 # <<>> /\ Depth(Init4) = 9 /\ First(Init4) = "alloc" /\ After(Init4) = Init5
  /\ Init5 # <<>> /\ Depth(Init5) = 8 /\ First(Init5) = "fre" /\ After(Init5) = Init6
  /\ Init6 # <<>> /\ Depth(Init6) = 7 /\ First(Init6) = "fr1" /\ After(Init6) = Init7
  /\ Init7 # <<>> /\ Depth(Init7) = 6 /\ First(Init7) = "st" /\ After(Init7) = Init8
  /\ Init8 # <<>> /\ Depth(Init8) = 5 /\ First(Init8) = "cr1" /\ After(Init8) = Init9
  /\ Init9 # <<>> /\ Depth(Init9) = 4 /\ First(Init9) = "ready" /\ After(Init9) = Init10
  /\ Init10 # <<>> /\ Depth(Init10) = 3 /\ First(Init10) = "clear" /\ After(Init10) = Issue
  /\ First1 # <<>> /\ Depth(First1) = 5 /\ First(First1) = "clear" /\ After(First1) = First2
  /\ First2 # <<>> /\ Depth(First2) = 4 /\ First(First2) = "ready" /\ After(First2) = Stamp
  /\ Stamp # <<>> /\ Depth(Stamp) = 3 /\ First(Stamp) = "stamp" /\ After(Stamp) = Issue
  /\ Issue # <<>> /\ Depth(Issue) = 2 /\ First(Issue) = "issue" /\ After(Issue) = Wait
<1>1. Again1 # <<>> /\ Depth(Again1) = 14 /\ First(Again1) = "clear" /\ After(Again1) = Again2
  BY DEF First, After, Depth, Again1, Again2
<1>2. Again2 # <<>> /\ Depth(Again2) = 13 /\ First(Again2) = "ready" /\ After(Again2) = Again3
  BY DEF First, After, Depth, Again2, Again3
<1>3. Again3 # <<>> /\ Depth(Again3) = 12 /\ First(Again3) = "stop" /\ After(Again3) = Again4
  BY DEF First, After, Depth, Again3, Again4
<1>4. Again4 # <<>> /\ Depth(Again4) = 11 /\ First(Again4) = "cr0" /\ After(Again4) = Again5
  BY DEF First, After, Depth, Again4, Again5
<1>5. Again5 # <<>> /\ Depth(Again5) = 10 /\ First(Again5) = "fre0" /\ After(Again5) = Again6
  BY DEF First, After, Depth, Again5, Again6
<1>6. Again6 # <<>> /\ Depth(Again6) = 9 /\ First(Again6) = "fr0" /\ After(Again6) = Again7
  BY DEF First, After, Depth, Again6, Again7
<1>7. Again7 # <<>> /\ Depth(Again7) = 8 /\ First(Again7) = "ready" /\ After(Again7) = Again8
  BY DEF First, After, Depth, Again7, Again8
<1>8. Again8 # <<>> /\ Depth(Again8) = 7 /\ First(Again8) = "fre" /\ After(Again8) = Again9
  BY DEF First, After, Depth, Again8, Again9
<1>9. Again9 # <<>> /\ Depth(Again9) = 6 /\ First(Again9) = "fr1" /\ After(Again9) = Again10
  BY DEF First, After, Depth, Again9, Again10
<1>10. Again10 # <<>> /\ Depth(Again10) = 5 /\ First(Again10) = "st" /\ After(Again10) = Again11
  BY DEF First, After, Depth, Again10, Again11
<1>11. Again11 # <<>> /\ Depth(Again11) = 4 /\ First(Again11) = "cr1" /\ After(Again11) = Stamp
  BY DEF First, After, Depth, Again11, Stamp
<1>12. Init1 # <<>> /\ Depth(Init1) = 12 /\ First(Init1) = "stop" /\ After(Init1) = Init2
  BY DEF First, After, Depth, Init1, Init2
<1>13. Init2 # <<>> /\ Depth(Init2) = 11 /\ First(Init2) = "cr0" /\ After(Init2) = Init3
  BY DEF First, After, Depth, Init2, Init3
<1>14. Init3 # <<>> /\ Depth(Init3) = 10 /\ First(Init3) = "clear" /\ After(Init3) = Init4
  BY DEF First, After, Depth, Init3, Init4
<1>15. Init4 # <<>> /\ Depth(Init4) = 9 /\ First(Init4) = "alloc" /\ After(Init4) = Init5
  BY DEF First, After, Depth, Init4, Init5
<1>16. Init5 # <<>> /\ Depth(Init5) = 8 /\ First(Init5) = "fre" /\ After(Init5) = Init6
  BY DEF First, After, Depth, Init5, Init6
<1>17. Init6 # <<>> /\ Depth(Init6) = 7 /\ First(Init6) = "fr1" /\ After(Init6) = Init7
  BY DEF First, After, Depth, Init6, Init7
<1>18. Init7 # <<>> /\ Depth(Init7) = 6 /\ First(Init7) = "st" /\ After(Init7) = Init8
  BY DEF First, After, Depth, Init7, Init8
<1>19. Init8 # <<>> /\ Depth(Init8) = 5 /\ First(Init8) = "cr1" /\ After(Init8) = Init9
  BY DEF First, After, Depth, Init8, Init9
<1>20. Init9 # <<>> /\ Depth(Init9) = 4 /\ First(Init9) = "ready" /\ After(Init9) = Init10
  BY DEF First, After, Depth, Init9, Init10
<1>21. Init10 # <<>> /\ Depth(Init10) = 3 /\ First(Init10) = "clear" /\ After(Init10) = Issue
  BY DEF First, After, Depth, Init10, Issue
<1>22. First1 # <<>> /\ Depth(First1) = 5 /\ First(First1) = "clear" /\ After(First1) = First2
  BY DEF First, After, Depth, First1, First2
<1>23. First2 # <<>> /\ Depth(First2) = 4 /\ First(First2) = "ready" /\ After(First2) = Stamp
  BY DEF First, After, Depth, First2, Stamp
<1>24. Stamp # <<>> /\ Depth(Stamp) = 3 /\ First(Stamp) = "stamp" /\ After(Stamp) = Issue
  BY DEF First, After, Depth, Stamp, Issue
<1>25. Issue # <<>> /\ Depth(Issue) = 2 /\ First(Issue) = "issue" /\ After(Issue) = Wait
  BY DEF First, After, Depth, Issue, Wait
<1> QED
  BY Zenon, <1>1, <1>2, <1>3, <1>4, <1>5, <1>6, <1>7, <1>8, <1>9, <1>10, <1>11, <1>12, <1>13, <1>14, <1>15, <1>16, <1>17, <1>18, <1>19, <1>20, <1>21, <1>22, <1>23, <1>24, <1>25

\* Where the next step leads.
Onward(t) ==
  /\ t \in Erring => \/ First(t) \in {"clear", "ready"} /\ After(t) \in Erring
                     \/ First(t) = "stop" /\ After(t) \in Stopping
  /\ t \in Stopping => First(t) = "cr0" /\ After(t) \in Stopped
  /\ t \in Stopped => \/ First(t) \in {"clear", "alloc", "fre0", "fr0", "ready", "fre", "fr1"} /\ After(t) \in Stopped
                      \/ First(t) = "stop" /\ After(t) \in Stopping
                      \/ First(t) = "st" /\ After(t) \in Starting
  /\ t \in Starting => First(t) = "cr1" /\ After(t) \in Live
  /\ t \in Live => \/ First(t) \in {"clear", "ready", "stamp"} /\ After(t) \in Live
                   \/ First(t) = "issue" /\ After(t) = Wait

\* The driver goes on from there.
LEMMA OnwardAlways == ASSUME NEW t PROVE Onward(t)
<1>1. t \in Erring => \/ First(t) \in {"clear", "ready"} /\ After(t) \in Erring
                      \/ First(t) = "stop" /\ After(t) \in Stopping
  BY Chain DEF Erring, Stopping, Stopped, Starting, Live
<1>2. t \in Stopping => First(t) = "cr0" /\ After(t) \in Stopped
  BY Chain DEF Stopping, Stopped
<1>3. t \in Stopped => \/ First(t) \in {"clear", "alloc", "fre0", "fr0", "ready", "fre", "fr1"} /\ After(t) \in Stopped
                       \/ First(t) = "stop" /\ After(t) \in Stopping
                       \/ First(t) = "st" /\ After(t) \in Starting
  BY Chain DEF Erring, Stopping, Stopped, Starting, Live
<1>4. t \in Starting => First(t) = "cr1" /\ After(t) \in Live
  BY Chain DEF Starting, Live
<1>5. t \in Live => \/ First(t) \in {"clear", "ready", "stamp"} /\ After(t) \in Live
                    \/ First(t) = "issue" /\ After(t) = Wait
  BY Chain DEF Erring, Stopping, Stopped, Starting, Live
<1> QED
  BY Zenon, <1>1, <1>2, <1>3, <1>4, <1>5 DEF Onward

\* The places are told apart by their first step.
LEMMA PlacesApart ==
  /\ Wait # <<>> /\ First(Wait) = "wait" /\ After(Wait) = <<>>
  /\ \A t \in Erring \cup Stopping \cup Stopped \cup Starting \cup Live : t # <<>> /\ t # Wait
<1>1. Wait # <<>> /\ First(Wait) = "wait" /\ After(Wait) = <<>>
  BY DEF First, After, Wait
<1>2. ASSUME NEW t \in Erring \cup Stopping \cup Stopped \cup Starting \cup Live PROVE t # Wait
  BY Zenon, <1>1, OnwardAlways DEF Onward
<1>3. ASSUME NEW t \in Erring \cup Stopping \cup Stopped \cup Starting \cup Live PROVE t # <<>>
  BY Chain DEF Erring, Stopping, Stopped, Starting, Live
<1> QED
  BY Zenon, <1>1, <1>2, <1>3

\* A request starts with a clear.
LEMMA FirstOfFirst == First(First1) = "clear"
BY Zenon, Chain

\* A request stays at the places of requests and allocates no pages.
LEMMA CallingGoesOn ==
  ASSUME NEW t \in Calling, t # <<>>
  PROVE  After(t) \in Calling /\ First(t) # "alloc"
<1>1. CASE t \in {Wait, Issue, Stamp, First1, First2}
  BY <1>1, Chain, PlacesApart DEF Calling
<1>2. CASE t \in {Again1, Again2, Again3, Again4, Again5, Again6, Again7, Again8, Again9, Again10, Again11}
  BY <1>2, Chain DEF Calling
<1> QED
  BY Zenon, <1>1, <1>2 DEF Calling

\* No place is of two kinds.
LEMMA KindsApart ==
  /\ \A t \in Erring : t \notin Stopping /\ t \notin Stopped /\ t \notin Starting /\ t \notin Live
  /\ \A t \in Stopping : t \notin Stopped /\ t \notin Starting /\ t \notin Live
  /\ \A t \in Stopped : t \notin Starting /\ t \notin Live
  /\ \A t \in Starting : t \notin Live
<1>1. Again3 # Init1
  BY Zenon DEF Again3, Init1
<1>2. ASSUME NEW t \in Erring PROVE t \in {Again1, Again2, Again3} /\ Depth(t) \in {12, 13, 14}
  BY Chain DEF Erring
<1>3. ASSUME NEW t \in Stopped PROVE t = Init1 \/ t = Again10 \/ Depth(t) \in 6..10
  BY Chain DEF Stopped
<1>4. ASSUME NEW t \in Live PROVE Depth(t) \in 2..5 /\ First(t) # "st"
  BY Chain DEF Live
<1>5. /\ Depth(Init1) = 12 /\ Depth(Again10) = 5 /\ First(Again10) = "st"
      /\ Depth(Again1) = 14 /\ Depth(Again2) = 13
  BY Zenon, Chain
<1>6. \A t \in Erring : t \notin Stopped /\ t \notin Live
  BY <1>1, <1>2, <1>3, <1>4, <1>5
<1>7. \A t \in Stopped : t \notin Live
  BY <1>3, <1>4, <1>5
<1> QED
  BY Zenon, <1>6, <1>7, OnwardAlways DEF Onward

----------------------------------------------------------------------------
(* The device's steps *)

\* A step of the device leaves the driver's variables and its place alone.
LEMMA DeviceSteps ==
  ASSUME Device
  PROVE  /\ todo' = todo /\ active' = active /\ clean' = clean /\ req' = req /\ table' = table /\ left' = left
BY Zenon DEF Device, Follow, Fetch, Transfer, Fail, Ignore, driver

\* ... so what is served stays as it is.
LEMMA DeviceServing == ASSUME Serving, Device PROVE Serving'
BY DeviceSteps DEF Serving

\* On a free slot, only a command in flight during the wait is carried out or fails.
LEMMA InFlight ==
  ASSUME PortInv, Orderly, inflight # Nothing
  PROVE  todo = Wait /\ inflight = table /\ regs.CI /\ ~regs.TFES /\ regs.ST /\ regs.CR
BY Zenon DEF PortInv, Orderly, Quiet, Waiting, Shape

\* CR and FR follow ST and FRE: a restart finds no command in the slot.
LEMMA FollowInv == ASSUME PortInv, Follow PROVE PortInv'
<1> USE DEF PortInv
<1>1. /\ regs'.ST = regs.ST /\ regs'.CI = regs.CI /\ regs'.TFES = regs.TFES /\ regs'.ERR = regs.ERR
      /\ regs'.CR = regs.ST
  BY Zenon DEF Follow, Shape, Regs
<1>2. /\ todo' = todo /\ active' = active /\ clean' = clean /\ req' = req /\ table' = table /\ left' = left
      /\ dma' = dma /\ disk' = disk
      /\ inflight' = inflight \/ inflight' = Nothing
      /\ engine' = engine \/ (engine' = "ok" /\ regs.ST /\ ~regs.CR)
  BY Zenon DEF Follow, driver
<1>3. Shape'
  BY Zenon, <1>2 DEF Follow, Shape, Regs, Commands
<1>4. Serving'
  BY Zenon, DeviceServing DEF Device
<1>5. Slot'
  BY Zenon, <1>1, <1>2 DEF Slot, Known
<1>6. ASSUME Orderly PROVE Orderly'
  <2>1. Quiet' /\ Buffer'
    BY Zenon, <1>1, <1>2, <1>6 DEF Orderly, Quiet, Buffer
  <2>2. Phases'
    BY Zenon, <1>1, <1>2, <1>6 DEF Follow, Orderly, Phases
  <2>3. Waiting'
    BY Zenon, <1>1, <1>2, <1>6 DEF Orderly, Waiting, CarriedOut
  <2> QED
    BY Zenon, <2>1, <2>2, <2>3 DEF Orderly
<1> QED
  BY Zenon, <1>2, <1>3, <1>4, <1>5, <1>6

\* The device fetches what the command table holds.
LEMMA FetchInv == ASSUME PortInv, Fetch PROVE PortInv'
<1> USE DEF PortInv
<1>1. /\ regs'.ST = regs.ST /\ regs'.CI = regs.CI /\ regs'.TFES = regs.TFES /\ regs'.ERR = regs.ERR
      /\ regs'.CR = regs.CR
  BY Zenon DEF Fetch, Shape, Regs
<1>2. /\ todo' = todo /\ active' = active /\ clean' = clean /\ req' = req /\ table' = table /\ left' = left
      /\ dma' = dma /\ disk' = disk /\ inflight' = table /\ engine' = engine /\ engine = "ok" /\ regs.CI
  BY Zenon DEF Fetch, driver
<1>3. Serving'
  BY Zenon, DeviceServing DEF Device
<1>4. table \in Commands
  <2>1. req \in Commands
    BY Zenon DEF Serving, Commands
  <2>2. Identify \in Commands
    BY Zenon DEF Commands
  <2>3. Known(table)
    BY Zenon, <1>2 DEF Slot
  <2> QED
    BY Zenon, <2>1, <2>2, <2>3 DEF Known, Shape
<1>5. Shape'
  BY Zenon, <1>2, <1>4 DEF Fetch, Shape, Regs
<1>6. Slot'
  BY Zenon, <1>1, <1>2 DEF Slot, Known
<1>7. ASSUME Orderly, todo # <<>> PROVE Orderly'
  <2>1. todo = Wait
    BY Zenon, <1>2, <1>7 DEF Shape, Places, Orderly, Phases
  <2>2. Waiting'
    BY Zenon, <1>1, <1>2, <1>7, <2>1 DEF Waiting, Orderly
  <2> QED
    BY Zenon, <1>2, <1>7, <2>1, <2>2, PlacesApart DEF Orderly, Quiet, Phases, Buffer
<1> QED
  BY Zenon, <1>2, <1>3, <1>5, <1>6, <1>7

\* A read or a write names one of the sectors.
LEMMA CommandFields ==
  ASSUME NEW c \in Commands
  PROVE  /\ c.kind \in {"read", "write"} => c.lba \in Lbas /\ c \in Requests
         /\ c.kind = "write" => c.data \in Values
BY DEF Commands, Requests, Identify, Nothing

\* The sector moves: the command in flight is carried out.
LEMMA TransferInv == ASSUME PortInv, Transfer PROVE PortInv'
<1> USE DEF PortInv
<1>1. /\ regs'.ST = regs.ST /\ ~regs'.CI /\ regs'.TFES = regs.TFES /\ ~regs'.ERR /\ regs'.CR = regs.CR
  BY Zenon DEF Transfer, Shape, Regs
<1>2. /\ todo' = todo /\ active' = active /\ clean' = clean /\ req' = req /\ table' = table /\ left' = left
      /\ inflight' = Nothing /\ engine' = engine /\ engine = "ok" /\ inflight # Nothing
  BY Zenon DEF Transfer, driver
<1>3. Serving'
  BY Zenon, DeviceServing DEF Device
<1>4. Shape'
  <2>1. dma' \in Bytes
    BY Zenon, CommandFields DEF Transfer, Shape
  <2>2. disk' \in [Lbas -> Bytes]
    BY Zenon DEF Transfer, Shape
  <2>3. regs' \in Regs
    BY Zenon DEF Transfer, Shape, Regs
  <2> QED
    BY Zenon, <1>2, <2>1, <2>2, <2>3 DEF Shape, Commands
<1>5. Slot'
  BY Zenon, <1>1, <1>2 DEF Slot
<1>6. ASSUME Orderly, todo # <<>> PROVE Orderly'
  <2>1. todo = Wait /\ inflight = table /\ regs.CI /\ ~regs.TFES /\ regs.ST /\ regs.CR
    BY Zenon, <1>2, <1>6, InFlight
  <2>2. table = (IF active THEN req ELSE Identify) /\ (~active => req = Nothing)
    BY Zenon, <1>6 DEF Serving
  <2>3. table.kind = "write" => active /\ dma = table.data
    BY Zenon, <1>6, <2>2 DEF Orderly, Buffer, Identify, Nothing
  <2>4. /\ table.kind = "read" => table.lba \in Lbas /\ dma' = disk[table.lba] /\ disk' = disk
        /\ table.kind = "write" => table.lba \in Lbas /\ dma' = dma /\ disk' = [disk EXCEPT ![table.lba] = table.data]
    BY Zenon, <2>1, <2>3, CommandFields DEF Transfer, Shape
  <2>5. CarriedOut'
    BY Zenon, <1>2, <2>4 DEF CarriedOut, Shape
  <2>6. Waiting'
    BY Zenon, <1>1, <1>2, <2>1, <2>5 DEF Waiting
  <2>7. Buffer'
    <3>1. CASE active
      BY Zenon, <1>2, <1>6, <2>2, <2>4, <3>1 DEF Orderly, Buffer
    <3>2. CASE ~active
      <4>1. Nothing.kind # "write"
        BY DEF Nothing
      <4> QED
        BY Zenon, <1>2, <2>2, <3>2, <4>1 DEF Buffer
    <3> QED
      BY Zenon, <3>1, <3>2
  <2> QED
    BY Zenon, <1>2, <2>1, <2>6, <2>7, PlacesApart DEF Orderly, Quiet, Phases
<1> QED
  BY Zenon, <1>2, <1>3, <1>4, <1>5, <1>6

\* A failure leaves the engine stopped with the command in the slot and
\* PxIS.TFES set, or a command that is over with the error in its status.
LEMMA FailInv == ASSUME PortInv, Fail PROVE PortInv'
<1> USE DEF PortInv
<1>1. PICK tfes \in BOOLEAN :
        /\ regs' = [regs EXCEPT !.TFES = tfes, !.CI = tfes /\ regs.CI, !.BSY = FALSE, !.ERR = TRUE]
        /\ engine' = IF tfes THEN "stopped" ELSE engine
  BY Zenon DEF Fail
<1>2. /\ todo' = todo /\ active' = active /\ clean' = clean /\ req' = req /\ table' = table /\ left' = left
      /\ dma' = dma /\ disk' = disk /\ inflight' = Nothing /\ inflight # Nothing /\ engine = "ok"
  BY Zenon DEF Fail, driver
<1>3. regs'.ST = regs.ST /\ regs'.CI = (tfes /\ regs.CI) /\ regs'.TFES = tfes /\ regs'.ERR /\ regs'.CR = regs.CR
  BY Zenon, <1>1 DEF Shape, Regs
<1>4. Shape'
  BY Zenon, <1>1, <1>2 DEF Shape, Regs, Commands
<1>5. Serving'
  BY Zenon, DeviceServing DEF Device
<1>6. Slot'
  BY Zenon, <1>2, <1>3 DEF Slot, Known
<1>7. ASSUME Orderly, todo # <<>> PROVE Orderly'
  <2>1. todo = Wait /\ inflight = table /\ regs.CI /\ ~regs.TFES /\ regs.ST /\ regs.CR
    BY Zenon, <1>2, <1>7, InFlight
  <2>2. Waiting'
    BY Zenon, <1>1, <1>2, <1>3, <2>1 DEF Waiting
  <2> QED
    BY Zenon, <1>2, <1>7, <2>1, <2>2, PlacesApart DEF Orderly, Quiet, Phases, Buffer
<1> QED
  BY Zenon, <1>2, <1>4, <1>5, <1>6, <1>7

\* A stopped engine drops a command; on a free slot only where none is awaited.
LEMMA IgnoreInv == ASSUME PortInv, Ignore PROVE PortInv'
<1> USE DEF PortInv
<1>1. /\ todo' = todo /\ active' = active /\ clean' = clean /\ req' = req /\ table' = table /\ left' = left
      /\ dma' = dma /\ disk' = disk /\ inflight' = inflight /\ engine' = engine /\ engine = "stopped"
      /\ ~regs.TFES
  BY Zenon DEF Ignore, driver, device
<1>2. regs'.ST = regs.ST /\ ~regs'.CI /\ regs'.TFES = regs.TFES /\ regs'.CR = regs.CR
  BY Zenon DEF Ignore, Shape, Regs
<1>3. Shape'
  BY Zenon, <1>1 DEF Ignore, Shape, Regs
<1>4. Serving'
  BY Zenon, DeviceServing DEF Device
<1>5. Slot'
  BY Zenon, <1>1, <1>2 DEF Slot, Known
<1>6. ASSUME Orderly PROVE Orderly'
  BY Zenon, <1>1, <1>2, <1>6 DEF Orderly, Quiet, Phases, Waiting, Buffer
<1> QED
  BY Zenon, <1>1, <1>3, <1>4, <1>5, <1>6

----------------------------------------------------------------------------
(* The driver's steps *)

\* The next port starts from the reset of the HBA.
LEMMA InitInv == ASSUME PortInv, init PROVE PortInv'
<1> USE DEF PortInv
<1>1. todo' = Init1 /\ Init1 \in Stopped /\ Init1 # <<>> /\ Init1 # Wait
  BY Zenon, InitPortIs, PlacesApart DEF init, Stopped
<1>2. Init1 \notin Erring \cup Stopping \cup Starting \cup Live
  BY Zenon, <1>1, KindsApart
<1>3. Shape'
  BY Zenon, <1>1 DEF init, Shape, Regs, Places, Commands
<1>4. req' = Nothing /\ ~active' /\ table' = Identify /\ inflight' = Nothing /\ engine' = "ok"
  BY Zenon DEF init, Serving
<1>5. ~regs'.ST /\ ~regs'.CR /\ ~regs'.CI /\ ~regs'.TFES
  BY Zenon DEF init, Shape, Regs
<1>6. Serving' /\ Slot'
  BY Zenon, <1>1, <1>4, <1>5 DEF Serving, Slot
<1>7. Orderly'
  BY Zenon, <1>1, <1>2, <1>4, <1>5 DEF Orderly, Quiet, Phases, Waiting, Buffer, Nothing
<1> QED
  BY Zenon, <1>3, <1>6, <1>7

\* A request that finds the slot free and the engine running starts at its first place.
LEMMA IssueCommandInv == ASSUME PortInv, NEW r \in Requests, issue_command(r) PROVE PortInv'
<1> USE DEF PortInv
<1>1. todo' = First1 /\ First1 \in Live /\ First1 # <<>> /\ First1 # Wait
  BY Zenon, FirstAttemptIs, PlacesApart DEF issue_command, Live
<1>2. First1 \notin Erring \cup Stopping \cup Stopped \cup Starting
  BY Zenon, <1>1, KindsApart
<1>3. /\ engine' = engine /\ inflight' = inflight /\ regs' = regs /\ disk' = disk /\ left' = left /\ active' = active
      /\ todo = <<>> /\ active /\ req = Nothing /\ req' = r /\ table' = r /\ clean' = Free
      /\ dma' = IF r.kind = "write" THEN r.data ELSE dma
  BY Zenon DEF issue_command, device
<1>4. r.kind = "write" => r.data \in Values
  BY Zenon, CommandFields DEF Commands
<1>5. Shape'
  <2>1. dma' \in Bytes
    BY Zenon, <1>3, <1>4 DEF Shape, Bytes
  <2>2. clean' \in BOOLEAN
    BY Zenon, <1>3 DEF Free, Shape, Regs
  <2> QED
    BY Zenon, <1>1, <1>3, <2>1, <2>2 DEF Shape, Places
<1>6. Serving'
  BY Zenon, <1>1, <1>3 DEF Serving, Calling
<1>7. Slot'
  BY Zenon, <1>1, <1>3 DEF Slot, Known
<1>8. ASSUME clean' PROVE Orderly'
  BY Zenon, <1>1, <1>2, <1>3, <1>8 DEF Orderly, Quiet, Phases, Waiting, Buffer, Free
<1> QED
  BY Zenon, <1>5, <1>6, <1>7, <1>8

\* alloc_dma_page runs on a stopped engine.
LEMMA AllocInv == ASSUME PortInv, alloc_dma_page PROVE PortInv'
<1> USE DEF PortInv
<1>1. First(todo) = "alloc" /\ Rest = After(todo) /\ todo # <<>>
  BY Zenon DEF alloc_dma_page, Step, Rest, First, After
<1>2. todo \in Stopped /\ After(todo) \in Stopped
  BY Zenon, <1>1, OnwardAlways, PlacesApart DEF Onward, Shape, Places
<1>3. todo' = After(todo) \/ todo' = <<>>
  BY Zenon, <1>1 DEF alloc_dma_page
<1>4. engine' = engine /\ inflight' = inflight /\ regs' = regs /\ active' = active /\ table' = table
      /\ req' = req /\ dma' = dma /\ disk' = disk /\ clean' = clean /\ left' = left
  BY Zenon DEF alloc_dma_page, device
<1>5. After(todo) # <<>> /\ After(todo) # Wait /\ todo # Wait /\ todo # First1
  BY Zenon, <1>1, <1>2, PlacesApart, FirstOfFirst
<1>6. Shape'
  BY Zenon, <1>2, <1>3, <1>4 DEF Shape, Places
<1>7. ~active
  BY Zenon, <1>1, CallingGoesOn DEF Serving
<1>8. Serving'
  BY Zenon, <1>1, <1>3, <1>4, <1>5, <1>7 DEF Serving
<1>9. Slot'
  BY Zenon, <1>3, <1>4, <1>5, PlacesApart DEF Slot, Known
<1>10. ASSUME Orderly, todo' # <<>> PROVE Orderly'
  <2>1. inflight = Nothing /\ ~regs.TFES /\ ~regs.ST /\ ~regs.CR /\ ~regs.CI
    BY Zenon, <1>2, <1>5, <1>10 DEF Orderly, Quiet, Phases
  <2>2. todo' \in Stopped /\ todo' # Wait
    BY Zenon, <1>2, <1>3, <1>5, <1>10
  <2>3. Phases'
    BY Zenon, <1>4, <2>1, <2>2, KindsApart DEF Phases
  <2> QED
    BY Zenon, <1>4, <1>10, <2>1, <2>2, <2>3 DEF Orderly, Quiet, Waiting, Buffer
<1> QED
  BY Zenon, <1>1, <1>4, <1>6, <1>8, <1>9, <1>10

\* The driver waits for the answer where its next step says so.
LEMMA WaitIs == ASSUME Shape, todo # <<>>, Step = "wait" PROVE todo = Wait
<1>1. First(todo) = "wait"
  BY Zenon DEF Step, First
<1> QED
  BY Zenon, <1>1, OnwardAlways DEF Onward, Shape, Places

\* The end of init_port: a port that comes up has nothing in flight.
LEMMA IdentifyInv == ASSUME PortInv, identify_device PROVE PortInv'
<1> USE DEF PortInv
<1>1. todo = Wait /\ ~active
  BY Zenon, WaitIs DEF identify_device
<1>2. todo' = <<>> /\ req' = req /\ req = Nothing /\ dma' = dma /\ engine' = engine /\ inflight' = inflight
      /\ disk' = disk /\ table' = table /\ clean' = clean /\ left' = left
  BY Zenon, <1>1 DEF identify_device, device, Serving
<1>3. regs' \in Regs /\ regs'.CI = regs.CI /\ active' = ~regs.CI
  BY Zenon DEF identify_device, Shape, Regs
<1>4. Shape'
  BY Zenon, <1>2, <1>3 DEF Shape, Regs, Places
<1>5. Serving'
  BY Zenon, <1>2 DEF Serving, Calling
<1>6. Slot'
  BY Zenon, <1>2, <1>3, PlacesApart DEF Slot, Known
<1> QED
  BY Zenon, <1>2, <1>4, <1>5, <1>6

\* The request that ends leaves nothing in flight.
LEMMA CompleteInv == ASSUME PortInv, complete PROVE PortInv'
<1> USE DEF PortInv
<1>1. todo = Wait /\ ~regs.CI
  BY Zenon, WaitIs DEF complete, Answered
<1>2. todo' = <<>> /\ req' = Nothing /\ dma' = dma /\ engine' = engine /\ inflight' = inflight
      /\ disk' = disk /\ table' = table /\ clean' = clean /\ left' = left /\ active' = active
  BY Zenon DEF complete, device
<1>3. regs' \in Regs /\ regs'.CI = regs.CI
  BY Zenon DEF complete, Shape, Regs
<1>4. Shape'
  BY Zenon, <1>2, <1>3 DEF Shape, Places
<1>5. Serving'
  BY Zenon, <1>2 DEF Serving, Calling
<1>6. Slot'
  BY Zenon, <1>1, <1>2, <1>3, PlacesApart DEF Slot
<1> QED
  BY Zenon, <1>2, <1>4, <1>5, <1>6

\* A request that is given up is remembered if its command is still in the slot.
LEMMA LeftBehind ==
  ASSUME PortInv, todo = Wait, todo' = <<>>, req' = Nothing, inflight' = inflight, table' = table, engine' = engine,
         regs'.CI = regs.CI,
         regs.CI => left' = left \cup {req}, ~regs.CI => left' = left
  PROVE  Slot'
<1>1. CASE regs.CI
  BY Zenon, <1>1, PlacesApart DEF PortInv, Slot, Known
<1>2. CASE ~regs.CI
  BY Zenon, <1>2, PlacesApart DEF PortInv, Slot
<1> QED
  BY Zenon, <1>1, <1>2

\* An error ends the attempt; on a free slot with nothing in flight.
LEMMA RetryInv == ASSUME PortInv, retry PROVE PortInv'
<1> USE DEF PortInv
<1>1. todo = Wait /\ active /\ todo # <<>>
  BY Zenon, WaitIs DEF retry
<1>2. \/ todo' = Again1 /\ req' = req /\ left' = left
      \/ todo' = <<>> /\ req' = Nothing /\ left' = IF regs.CI THEN left \cup {req} ELSE left
  BY Zenon, NextAttemptIs DEF retry
<1>3. Again1 \in Erring /\ Again1 # <<>> /\ Again1 # Wait /\ Again1 \in Calling
  BY Zenon, PlacesApart DEF Erring, Calling
<1>4. engine' = engine /\ inflight' = inflight /\ active' = active /\ table' = table /\ dma' = dma
      /\ disk' = disk /\ clean' = clean
  BY Zenon DEF retry, device
<1>5. regs' \in Regs /\ regs'.ST = regs.ST /\ regs'.CR = regs.CR /\ regs'.CI = regs.CI /\ ~regs'.TFES
  BY Zenon DEF retry, Shape, Regs
<1>6. Shape'
  <2>1. left' \in SUBSET Commands
    BY Zenon, <1>2 DEF Shape, Serving, Commands
  <2> QED
    BY Zenon, <1>2, <1>3, <1>4, <1>5, <2>1 DEF Shape, Places
<1>7. Serving'
  BY Zenon, <1>1, <1>2, <1>3, <1>4 DEF Serving, Calling
<1>8. Slot'
  <2>1. CASE todo' = <<>> /\ req' = Nothing /\ left' = IF regs.CI THEN left \cup {req} ELSE left
    BY Zenon, <1>1, <1>4, <1>5, <2>1, LeftBehind
  <2>2. CASE todo' = Again1 /\ req' = req /\ left' = left
    BY Zenon, <1>3, <1>4, <1>5, <2>2 DEF Slot, Known
  <2> QED
    BY Zenon, <1>2, <2>1, <2>2
<1>9. ASSUME Orderly, todo' # <<>> PROVE Orderly'
  <2>1. inflight = Nothing /\ regs.ST /\ regs.CR /\ (engine = "ok" => ~regs.CI)
    BY Zenon, <1>1, <1>9 DEF retry, Orderly, Waiting, Shape
  <2>2. todo' = Again1 /\ req' = req
    BY Zenon, <1>2, <1>9
  <2>3. Phases'
    BY Zenon, <1>3, <1>4, <1>5, <2>1, <2>2, KindsApart DEF Phases
  <2> QED
    BY Zenon, <1>3, <1>4, <1>5, <1>9, <2>1, <2>2, <2>3 DEF Orderly, Quiet, Waiting, Buffer
<1> QED
  BY Zenon, <1>1, <1>4, <1>6, <1>7, <1>8, <1>9

\* A device that does not answer in time keeps the command.
LEMMA TimeoutInv == ASSUME PortInv, timeout PROVE PortInv'
<1> USE DEF PortInv
<1>1. todo = Wait /\ regs.CI
  BY Zenon, WaitIs DEF timeout
<1>2. todo' = <<>> /\ req' = Nothing /\ dma' = dma /\ engine' = engine /\ inflight' = inflight
      /\ disk' = disk /\ table' = table /\ clean' = clean /\ left' = left \cup {req} /\ active' = active
  BY Zenon DEF timeout, device
<1>3. regs' \in Regs /\ regs'.CI = regs.CI
  BY Zenon DEF timeout, Shape, Regs
<1>4. Shape'
  <2>1. left' \in SUBSET Commands
    BY Zenon, <1>2 DEF Shape, Serving, Commands
  <2> QED
    BY Zenon, <1>2, <1>3, <2>1 DEF Shape, Places
<1>5. Serving'
  BY Zenon, <1>2 DEF Serving, Calling
<1>6. Slot'
  BY Zenon, <1>1, <1>2, <1>3, LeftBehind
<1> QED
  BY Zenon, <1>2, <1>4, <1>5, <1>6

\* Before the wait a step of the driver leads to another place.
LEMMA MovesOn ==
  ASSUME PortInv, todo # <<>>, First(todo) # "wait"
  PROVE  /\ todo \in Erring \cup Stopping \cup Stopped \cup Starting \cup Live
         /\ todo # Wait
         /\ After(todo) \in Places /\ After(todo) # <<>>
         /\ active => After(todo) \in Calling
<1> USE DEF PortInv
<1>1. todo \in Erring \cup Stopping \cup Stopped \cup Starting \cup Live
  BY Zenon, PlacesApart DEF Shape, Places
<1>2. After(todo) \in Places /\ After(todo) # <<>>
  BY Zenon, <1>1, OnwardAlways, PlacesApart DEF Onward, Places
<1>3. active => After(todo) \in Calling
  BY Zenon, CallingGoesOn DEF Serving
<1> QED
  BY Zenon, <1>1, <1>2, <1>3, PlacesApart

\* Such a step keeps what is served.
LEMMA ServingOn ==
  ASSUME PortInv, todo # <<>>, First(todo) # "wait", todo' = After(todo),
         active' = active, table' = table, req' = req
  PROVE  Serving'
<1>1. After(todo) # <<>> /\ (active => After(todo) \in Calling)
  BY Zenon, MovesOn
<1> QED
  BY Zenon, <1>1 DEF PortInv, Serving

\* Only the write to PxCI leads to the wait.
LEMMA NotYetWaiting ==
  ASSUME PortInv, todo # <<>>, First(todo) \notin {"wait", "issue"}
  PROVE  After(todo) # Wait
BY Zenon, MovesOn, OnwardAlways, PlacesApart DEF Onward

\* What the driver writes to the port's registers.
LEMMA WriteRegInv == ASSUME PortInv, write_reg PROVE PortInv'
<1> USE DEF PortInv
<1> DEFINE s == First(todo)
<1>1. /\ s = Step /\ Rest = After(todo) /\ todo # <<>>
      /\ s \in {"stop", "fre0", "fre", "st", "clear", "issue"}
  BY Zenon DEF write_reg, Step, Rest, First, After
<1>2. /\ todo \in Erring \cup Stopping \cup Stopped \cup Starting \cup Live
      /\ todo # Wait
      /\ After(todo) \in Places /\ After(todo) # <<>>
  BY Zenon, <1>1, MovesOn
<1>3. /\ todo' = After(todo) /\ engine' = engine /\ inflight' = inflight /\ active' = active
      /\ dma' = dma /\ disk' = disk /\ req' = req /\ table' = table /\ clean' = clean /\ left' = left
  BY Zenon, <1>1 DEF write_reg, device, driver
<1>4. Serving'
  BY Zenon, <1>1, <1>3, ServingOn
<1>5. /\ regs' \in Regs
      /\ regs'.ST = IF s = "stop" THEN FALSE ELSE IF s = "st" THEN TRUE ELSE regs.ST
      /\ regs'.CI = IF s = "stop" THEN FALSE ELSE IF s = "issue" THEN TRUE ELSE regs.CI
      /\ regs'.TFES = IF s = "clear" THEN FALSE ELSE regs.TFES
      /\ regs'.CR = regs.CR
  <2>1. regs \in Regs /\ regs' = Write(s)
    BY Zenon, <1>1 DEF write_reg, Shape
  <2>2. CASE s = "stop"
    BY Zenon, <2>1, <2>2 DEF Write, Regs
  <2>3. CASE s = "fre0"
    BY Zenon, <2>1, <2>3 DEF Write, Regs
  <2>4. CASE s = "fre"
    BY Zenon, <2>1, <2>4 DEF Write, Regs
  <2>5. CASE s = "st"
    BY Zenon, <2>1, <2>5 DEF Write, Regs
  <2>6. CASE s = "clear"
    BY Zenon, <2>1, <2>6 DEF Write, Regs
  <2>7. CASE s = "issue"
    BY Zenon, <2>1, <2>7 DEF Write, Regs
  <2> QED
    BY Zenon, <1>1, <2>2, <2>3, <2>4, <2>5, <2>6, <2>7
<1>6. Shape'
  BY Zenon, <1>2, <1>3, <1>5 DEF Shape
<1>7. Slot'
  <2>1. CASE s = "issue"
    <3>1. regs'.CI /\ Known(table)
      BY Zenon, <1>1, <1>5, <2>1 DEF Serving, Known
    <3> QED
      BY Zenon, <1>3, <3>1 DEF Slot, Known
  <2>2. CASE s # "issue"
    <3>1. After(todo) # Wait
      BY Zenon, <1>1, <2>2, NotYetWaiting DEF s
    <3> QED
      BY Zenon, <1>1, <1>3, <1>5, <2>2, <3>1 DEF Slot, Known
  <2> QED
    BY Zenon, <2>1, <2>2
<1> HIDE DEF s
<1>8. ASSUME Orderly PROVE Orderly'
  <2>1. inflight = Nothing /\ ~regs'.TFES
    BY Zenon, <1>2, <1>5, <1>8, FirstOfFirst DEF Orderly, Quiet, s
  <2>2. CASE todo \in Erring
    <3>1. \/ s \in {"clear", "ready"} /\ After(todo) \in Erring
          \/ s = "stop" /\ After(todo) \in Stopping
      BY Zenon, <2>2, OnwardAlways DEF Onward, s
    <3> QED
      BY Zenon, <1>1, <1>3, <1>5, <1>8, <2>1, <2>2, <3>1, KindsApart, PlacesApart DEF Orderly, Quiet, Phases, Waiting, Buffer
  <2>3. CASE todo \in Stopped
    <3>1. \/ s \in {"clear", "alloc", "fre0", "fr0", "ready", "fre", "fr1"} /\ After(todo) \in Stopped
          \/ s = "stop" /\ After(todo) \in Stopping
          \/ s = "st" /\ After(todo) \in Starting
      BY Zenon, <2>3, OnwardAlways DEF Onward, s
    <3> QED
      BY Zenon, <1>1, <1>3, <1>5, <1>8, <2>1, <2>3, <3>1, KindsApart, PlacesApart DEF Orderly, Quiet, Phases, Waiting, Buffer
  <2>4. CASE todo \in Live
    <3>1. \/ s \in {"clear", "ready", "stamp"} /\ After(todo) \in Live
          \/ s = "issue" /\ After(todo) = Wait
      BY Zenon, <2>4, OnwardAlways DEF Onward, s
    <3> QED
      BY Zenon, <1>1, <1>3, <1>5, <1>8, <2>1, <2>4, <3>1, KindsApart, PlacesApart DEF Orderly, Quiet, Phases, Waiting, Buffer
  <2> QED
    BY Zenon, <1>1, <1>2, <2>2, <2>3, <2>4, OnwardAlways DEF Onward, s
<1> QED
  BY Zenon, <1>1, <1>3, <1>4, <1>6, <1>7, <1>8

\* A step that leaves the registers alone keeps what holds always.
LEMMA StayBasics ==
  ASSUME PortInv, todo # <<>>, First(todo) \in {"stamp", "cr0", "cr1", "fr0", "fr1", "ready"},
         todo' = After(todo), regs' = regs, dma' \in Bytes, clean' \in BOOLEAN,
         active' = active, table' = table, req' = req, left' = left, UNCHANGED device
  PROVE  Shape' /\ Serving' /\ Slot'
<1> USE DEF PortInv
<1>1. After(todo) \in Places /\ After(todo) # Wait
  BY Zenon, MovesOn, NotYetWaiting
<1>2. engine' = engine /\ inflight' = inflight /\ disk' = disk
  BY Zenon DEF device
<1>3. Serving'
  BY Zenon, ServingOn
<1>4. Shape'
  BY Zenon, <1>1, <1>2 DEF Shape
<1>5. Slot'
  BY Zenon, <1>1, <1>2 DEF Slot, Known
<1> QED
  BY Zenon, <1>3, <1>4, <1>5

\* ... and on a free slot the rest, when what it waits for is there.
LEMMA StayInv ==
  ASSUME PortInv, todo # <<>>, First(todo) \in {"stamp", "cr0", "cr1", "fr0", "fr1", "ready"},
         First(todo) = "cr0" => ~regs.CR,
         First(todo) = "cr1" => regs.CR,
         todo' = After(todo), regs' = regs, dma' \in Bytes, dma' = dma \/ req.kind = "read",
         UNCHANGED driver, UNCHANGED device
  PROVE  PortInv'
<1> USE DEF PortInv
<1>1. /\ todo \in Erring \cup Stopping \cup Stopped \cup Starting \cup Live
      /\ todo # Wait /\ todo # First1
  BY Zenon, MovesOn, FirstOfFirst
<1>2. engine' = engine /\ inflight' = inflight /\ active' = active /\ clean' = clean /\ req' = req
      /\ table' = table /\ left' = left
  BY Zenon DEF device, driver
<1>3. Shape' /\ Serving' /\ Slot'
  BY Zenon, <1>2, StayBasics DEF Shape
<1>4. ASSUME Orderly PROVE Orderly'
  <2>1. inflight = Nothing /\ ~regs.TFES
    BY Zenon, <1>1, <1>4 DEF Orderly, Quiet
  <2>2. \/ todo \in Erring /\ After(todo) \in Erring
        \/ todo \in Stopping /\ First(todo) = "cr0" /\ After(todo) \in Stopped
        \/ todo \in Stopped /\ After(todo) \in Stopped
        \/ todo \in Starting /\ First(todo) = "cr1" /\ After(todo) \in Live
        \/ todo \in Live /\ After(todo) \in Live
    BY Zenon, <1>1, OnwardAlways DEF Onward
  <2>3. After(todo) # Wait
    BY Zenon, <2>2, PlacesApart
  <2>4. Phases'
    BY Zenon, <1>2, <1>4, <2>2, KindsApart DEF Orderly, Phases
  <2> QED
    BY Zenon, <1>2, <1>4, <2>1, <2>3, <2>4 DEF Orderly, Quiet, Waiting, Buffer
<1> QED
  BY Zenon, <1>2, <1>3, <1>4

\* The stamp only touches the buffer of a read.
LEMMA StampInv == ASSUME PortInv, stamp PROVE PortInv'
<1>1. First(todo) = "stamp" /\ todo' = After(todo) /\ todo # <<>>
  BY Zenon DEF stamp, Step, Rest, First, After
<1>2. regs' = regs /\ (dma' = dma \/ req.kind = "read") /\ UNCHANGED driver /\ UNCHANGED device
  BY Zenon DEF stamp
<1>3. dma' \in Bytes
  BY Zenon DEF stamp, PortInv, Shape, Bytes
<1> QED
  BY Zenon, <1>1, <1>2, <1>3, StayInv

\* A polling loop that ends has seen what it waits for.
LEMMA PollInv == ASSUME PortInv, poll PROVE PortInv'
<1>1. /\ First(todo) \in {"cr0", "cr1", "fr0", "fr1", "ready"} /\ First(todo) = Step
      /\ todo' = After(todo) /\ todo # <<>>
  BY Zenon DEF poll, Step, Rest, First, After
<1>2. (First(todo) = "cr0" => ~regs.CR) /\ (First(todo) = "cr1" => regs.CR)
  BY Zenon, <1>1 DEF poll, Seen
<1>3. regs' = regs /\ dma' = dma /\ UNCHANGED driver /\ UNCHANGED device
  BY Zenon DEF poll
<1>4. dma' \in Bytes
  BY Zenon, <1>3 DEF PortInv, Shape
<1> QED
  BY Zenon, <1>1, <1>2, <1>3, <1>4, StayInv

\* A polling loop that runs out ends what is claimed of the request.
LEMMA PollTimeoutInv == ASSUME PortInv, poll_timeout PROVE PortInv'
<1>1. /\ First(todo) \in {"cr0", "cr1", "fr0", "fr1", "ready"}
      /\ todo' = After(todo) /\ todo # <<>>
  BY Zenon DEF poll_timeout, Step, Rest, First, After
<1>2. /\ regs' = regs /\ dma' = dma /\ clean' = FALSE /\ active' = active /\ table' = table /\ req' = req
      /\ left' = left /\ UNCHANGED device
  BY Zenon DEF poll_timeout
<1>3. Shape' /\ Serving' /\ Slot'
  BY Zenon, <1>1, <1>2, StayBasics DEF PortInv, Shape
<1> QED
  BY Zenon, <1>2, <1>3 DEF PortInv

----------------------------------------------------------------------------
(* The theorems *)

\* Before the first port nothing has been asked of the device.
LEMMA InitPortInv == Init => PortInv
<1> SUFFICES ASSUME Init PROVE PortInv
  BY Zenon
<1> USE DEF Init
<1>1. Shape
  BY Zenon DEF Shape, Places, Regs, Bytes, Commands
<1>2. Serving
  BY Zenon DEF Serving
<1>3. Slot
  BY Zenon, PlacesApart DEF Slot
<1> QED
  BY Zenon, <1>1, <1>2, <1>3 DEF PortInv

\* The invariant is inductive.
LEMMA NextPortInv == PortInv /\ [Next]_vars => PortInv'
<1> SUFFICES ASSUME PortInv, [Next]_vars PROVE PortInv'
  BY Zenon
<1>1. CASE init
  BY Zenon, <1>1, InitInv
<1>2. CASE \E r \in Requests : issue_command(r)
  BY Zenon, <1>2, IssueCommandInv
<1>3. CASE Driver
  BY Zenon, <1>3, AllocInv, IdentifyInv, WriteRegInv, StampInv, PollInv, PollTimeoutInv, CompleteInv, RetryInv, TimeoutInv
     DEF Driver
<1>4. CASE Device
  BY Zenon, <1>4, FollowInv, FetchInv, TransferInv, FailInv, IgnoreInv DEF Device
<1>5. CASE UNCHANGED vars
  <2> USE DEF vars
  <2>1. Shape'
    BY Zenon, <1>5 DEF PortInv, Shape
  <2>2. Serving'
    BY <1>5 DEF PortInv, Serving
  <2>3. Slot'
    BY Zenon, <1>5 DEF PortInv, Slot, Known
  <2>4. Orderly => Orderly'
    BY Zenon, <1>5 DEF Orderly, Quiet, Phases, Waiting, Buffer, CarriedOut
  <2> QED
    BY Zenon, <1>5, <2>1, <2>2, <2>3, <2>4 DEF PortInv
<1> QED
  BY Zenon, <1>1, <1>2, <1>3, <1>4, <1>5 DEF Next

\* A request that found the slot free and returns Ok was carried out, whatever
\* errors, retries and recoveries came before, and whatever became of the requests
\* before it: the read's sector is in the buffer, the write's data is on the disk.
THEOREM OkIsTrue == Spec => AnswerIsTrue
<1> DEFINE A == Answered /\ ~regs.ERR /\ req' = Nothing /\ clean =>
                  /\ req.kind = "read" => dma = disk[req.lba]
                  /\ req.kind = "write" => disk[req.lba] = req.data
<1>1. PortInv /\ [Next]_vars => [A]_vars
  <2> SUFFICES ASSUME PortInv, Answered, ~regs.ERR, clean
               PROVE  /\ req.kind = "read" => dma = disk[req.lba]
                      /\ req.kind = "write" => disk[req.lba] = req.data
    BY Zenon
  <2>1. todo = Wait /\ todo # <<>>
    BY Zenon, WaitIs DEF PortInv, Answered
  <2>2. CarriedOut
    BY Zenon, <2>1 DEF PortInv, Answered, Orderly, Waiting
  <2>3. table = req
    BY Zenon, <2>1 DEF PortInv, Serving, Answered
  <2> QED
    BY Zenon, <2>2, <2>3 DEF CarriedOut
<1>2. Init => PortInv
  BY Zenon, InitPortInv
<1>3. PortInv /\ [Next]_vars => PortInv'
  BY Zenon, NextPortInv
<1> QED
  BY <1>1, <1>2, <1>3, PTL DEF Spec, AnswerIsTrue

\* Only a command in flight changes a sector.
LEMMA OnlyTransfers ==
  ASSUME [Next]_vars, disk' # disk
  PROVE  Transfer /\ inflight.kind = "write" /\ disk' = [disk EXCEPT ![inflight.lba] = dma]
<1>1. CASE init \/ \E r \in Requests : issue_command(r)
  BY Zenon, <1>1 DEF init, issue_command, device
<1>2. CASE Driver
  BY Zenon, <1>2 DEF Driver, alloc_dma_page, identify_device, write_reg, stamp, poll, poll_timeout, complete, retry,
                     timeout, device
<1>3. CASE Follow \/ Fetch \/ Fail \/ Ignore
  BY Zenon, <1>3 DEF Follow, Fetch, Fail, Ignore, device
<1>4. CASE UNCHANGED vars
  BY Zenon, <1>4 DEF vars
<1>5. CASE Transfer
  BY Zenon, <1>5 DEF Transfer
<1> QED
  BY Zenon, <1>1, <1>2, <1>3, <1>4, <1>5 DEF Next, Device

\* A sector changes only for the write being served, and to its data, if that
\* request found the slot free; otherwise for a write that is being served or was
\* given up, and only the sector of that write.
THEOREM SectorsAsAsked == Spec => SectorsChangeByRequest
<1> DEFINE A == \A l \in Lbas : disk'[l] # disk[l] =>
                  IF clean /\ req # Nothing THEN req = [kind |-> "write", lba |-> l, data |-> disk'[l]]
                  ELSE \E r \in left \cup {req} : r.kind = "write" /\ r.lba = l
<1>1. PortInv /\ [Next]_vars => [A]_vars
  <2> SUFFICES ASSUME PortInv, [Next]_vars, NEW l \in Lbas, disk'[l] # disk[l]
               PROVE  IF clean /\ req # Nothing THEN req = [kind |-> "write", lba |-> l, data |-> disk'[l]]
                      ELSE \E r \in left \cup {req} : r.kind = "write" /\ r.lba = l
    BY Zenon
  <2>1. Transfer /\ inflight.kind = "write" /\ disk' = [disk EXCEPT ![inflight.lba] = dma]
    BY Zenon, OnlyTransfers
  <2>2. inflight # Nothing /\ inflight # Identify
    BY <2>1 DEF Identify, Nothing
  <2>3. inflight.lba = l /\ disk'[l] = dma
    BY Zenon, <2>1 DEF PortInv, Shape
  <2>4. inflight = req \/ inflight \in left
    BY Zenon, <2>2 DEF PortInv, Slot, Known
  <2>5. ASSUME clean, req # Nothing PROVE req = [kind |-> "write", lba |-> l, data |-> disk'[l]]
    <3>1. todo # <<>> /\ active
      BY Zenon, <2>5 DEF PortInv, Serving
    <3>2. Orderly
      BY Zenon, <2>5, <3>1 DEF PortInv
    <3>3. inflight = req
      BY Zenon, <2>2, <3>1, <3>2, InFlight DEF PortInv, Serving
    <3>4. dma = req.data /\ req \in Requests
      BY Zenon, <2>1, <3>1, <3>2, <3>3 DEF Orderly, Buffer, PortInv, Serving
    <3>5. PICK k \in Lbas, v \in Values : req = [kind |-> "write", lba |-> k, data |-> v]
      BY <2>1, <3>3, <3>4 DEF Requests
    <3> QED
      BY Zenon, <2>3, <3>3, <3>4, <3>5
  <2> QED
    BY Zenon, <2>1, <2>3, <2>4, <2>5
<1>2. Init => PortInv
  BY Zenon, InitPortInv
<1>3. PortInv /\ [Next]_vars => PortInv'
  BY Zenon, NextPortInv
<1> QED
  BY <1>1, <1>2, <1>3, PTL DEF Spec, SectorsChangeByRequest
=============================================================================

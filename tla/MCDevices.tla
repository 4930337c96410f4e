----------------------------- MODULE MCDevices ------------------------------
(***************************************************************************)
(* The devices and the files on them, side by side: `part' says which of   *)
(* them a behaviour is about, and only that one moves.  Files stand on     *)
(* sectors that are read and written at one instant, as the driver is      *)
(* shown to promise.                                                       *)
(***************************************************************************)
EXTENDS Ide, Block, Fileio, Delay, Rtc, Vga, Keyboard, TLC

CONSTANTS t1, t2

VARIABLE part

\* Two disks on channel 0; channel 1 has none, but its interrupt may come.
MCAttached == {0, 1}

\* A good disk, and units in every state that check_device_type() and
\* identify_ata_device() tell apart.
Good == [error |-> 1, ready |-> TRUE, signature |-> "ata", answers |-> TRUE,
         capacity |-> 6, signed |-> FALSE, table |-> <<>>]
Absent == [Good EXCEPT !.error = 255, !.ready = FALSE]
Odd == [error : {0, 1, 129}, ready : BOOLEAN, signature : {"ata"},
        answers : {TRUE}, capacity : {6}, signed : {FALSE}, table : {<<>>}]
       \cup {[Good EXCEPT !.signature = "atapi"], [Good EXCEPT !.answers = FALSE],
             [Good EXCEPT !.capacity = 8], [Good EXCEPT !.capacity = 0],
             [Good EXCEPT !.capacity = 0, !.signed = TRUE]}

\* Entries that fit, overlap, start or end past the end of the disk, or wrap
\* around.
Entry == [type : {"filesys"}, offset : {0, 2, 6}, size : {2}]
         \cup [type : {"filesys"}, offset : {2}, size : {14}]
         \cup [type : {"extended"}, offset : {2, 3}, size : {2}]
         \cup {[type |-> "scratch", offset |-> 4, size |-> 2],
               [type |-> "scratch", offset |-> 1, size |-> 0],
               [type |-> "empty", offset |-> 2, size |-> 2]}

Partitioned == {[Good EXCEPT !.signed = TRUE, !.table = t] : t \in [1..3 -> Entry]}

MCMachine ==
  {(0 :> u) @@ (1 :> v) @@ (2 :> Good) @@ (3 :> Absent) : u, v \in Odd}
  \cup {(0 :> Absent) @@ (1 :> Good) @@ (2 :> Absent) @@ (3 :> u) : u \in Partitioned}

MCBdevName == {<<3, 2>>}

\* Seconds before the ends of a minute, a month, a February and a century.
MCInstants == {<<58, 0, 12, 1, 1, 70>>, <<59, 59, 23, 31, 12, 99>>,
               <<58, 59, 23, 28, 2, 0>>, <<59, 59, 23, 29, 2, 4>>, <<0, 59, 23, 30, 6, 69>>}
MCDelays == {<<n, m>> : n \in {0, 1, 7, 40}, m \in {10, 100, 1000}}
MCFrequencies == {1, 18, 19, 20, 100, 440, 1000, 19000, 500000, 795453, 1193180, 1193181}
MCOldRows == {<<" ", " ", " ">>, <<"b", "b", "b">>}

vars == <<part, ideVars, blockVars, fileioVars, delayVars, rtcVars, vgaVars, kbdVars>>

IdeRest == IdeInit /\ content = [k \in Attached |-> [s \in Sector |-> anyData]]
BlockRest ==
  /\ unit = <<>> /\ boot = "check" /\ dev = 0 /\ is_ata = {}
  /\ all_blocks = <<>> /\ part_nr = 0 /\ calls = <<>> /\ role = <<>>
  /\ bdev_name = <<>>
DelayRest == DelayInit /\ speed = 0
RtcRest == RtcInit /\ clock = in_bcd(<<58, 0, 12, 1, 1, 70>>)
VgaRest == VgaInit /\ fb = empty_fb /\ cursor = <<0, 0>>

Init ==
  /\ part \in {"ide", "block", "fileio", "delay", "rtc", "vga", "kbd"}
  /\ IF part = "ide" THEN IdeInit ELSE IdeRest
  /\ IF part = "block" THEN BlockInit ELSE BlockRest
  /\ IF part = "delay" THEN DelayInit ELSE DelayRest
  /\ IF part = "rtc" THEN RtcInit ELSE RtcRest
  /\ IF part = "vga" THEN VgaInit ELSE VgaRest
  /\ FileioInit /\ KbdInit

Others(p) ==
  /\ part = p /\ UNCHANGED part
  /\ p # "ide" => UNCHANGED ideVars
  /\ p # "block" => UNCHANGED blockVars
  /\ p # "fileio" => UNCHANGED fileioVars
  /\ p # "delay" => UNCHANGED delayVars
  /\ p # "rtc" => UNCHANGED rtcVars
  /\ p # "vga" => UNCHANGED vgaVars
  /\ p # "kbd" => UNCHANGED kbdVars

Next ==
  \/ Others("ide") /\ IdeNext
  \/ Others("block") /\ BlockNext
  \/ Others("fileio") /\ FileioNext
  \/ Others("delay") /\ DelayNext
  \/ Others("rtc") /\ RtcNext
  \/ Others("vga") /\ VgaNext
  \/ Others("kbd") /\ KbdNext

\* Nothing but the clock.
RtcSpec == Init /\ part = "rtc" /\ [][Next]_vars

Spec ==
  /\ Init /\ [][Next]_vars
  /\ part = "ide" => IdeFairness

-----------------------------------------------------------------------------
(* What takes two modules to say.                                          *)

\* timer.c, pit.c and rtc.c: a delay is as long as its loops, the period of
\* the timer is the nearest one, and the time of day is read at one instant.
ClocksCorrect == CalibrationExact /\ DelayExact /\ DivisorNearest /\ TimeIsOne
=============================================================================

----------------------------- MODULE IdeProofs ------------------------------
(***************************************************************************)
(* Proofs about the IDE driver: IdeInv is an inductive invariant, the      *)
(* registers belong to the caller and nothing is outstanding when a call   *)
(* returns, and the driver implements module Device, for every number of   *)
(* threads, channels, disks and sectors.                                   *)
(***************************************************************************)
EXTENDS Ide, TLAPS

\* The values that stand for no call are of the right types.
LEMMA Defaults == anySector \in Sector /\ anyData \in Data
  BY IdeAssumption, Zenon DEF anySector, anyData

\* A unit is on one of the channels, and its channel and its number name it.
LEMMA Units ==
  \A k \in Attached \cup {0} :
    /\ k \in Nat /\ channel_of(k) \in Channel /\ dev_no_of(k) \in {0, 1}
    /\ k = 2 * channel_of(k) + dev_no_of(k)
<1> SUFFICES ASSUME NEW k \in Attached \cup {0}
             PROVE  /\ k \in Nat /\ channel_of(k) \in Channel
                    /\ dev_no_of(k) \in {0, 1}
                    /\ k = 2 * channel_of(k) + dev_no_of(k)
  BY Zenon
<1>1. k \in 0..2 * CHANNEL_CNT - 1
  BY IdeAssumption
<1>. QED  BY <1>1, IdeAssumption DEF channel_of, dev_no_of, Channel

\* IdeInit establishes the types.
LEMMA InitType == IdeInit => IdeTypeOK
<1> SUFFICES ASSUME IdeInit PROVE IdeTypeOK
  BY Zenon
<1>1. /\ expecting_interrupt \in [Channel -> BOOLEAN]
      /\ intrq \in [Channel -> BOOLEAN] /\ panic \in BOOLEAN
  BY Zenon DEF IdeInit
<1>2. content \in [Attached -> [Sector -> Data]]
  BY Zenon DEF IdeInit
<1>. QED  BY <1>1, <1>2, Defaults, IdeAssumption, Zenon DEF IdeInit, IdeTypeOK, Op,
Label

\* A thread that is inside a channel is there alone.
LEMMA Alone ==
  ASSUME IdeTypeOK, Users, NEW t \in Thread, NEW u \in Thread,
         u # t, pc[t] \notin {"idle", "lock"}, chan(u) = chan(t)
  PROVE  pc[u] \in {"idle", "lock"}
  BY DEF IdeTypeOK, Users, User, Op

\* A drive that works on a command has selected one of the disks.
LEMMA Selected ==
  ASSUME IdeInv, NEW c \in Channel, status[c] \in {"busy", "drq"}
  PROVE  /\ selected(c) \in Attached
         /\ \E t \in Thread : chan(t) = c /\ waiting(t) /\ selected(c) = disk[t]
<1>1. PICK t \in Thread : chan(t) = c /\ waiting(t)
  BY Zenon DEF IdeInv, DriveFollows, Worked
<1>2. disk[t] \in Attached
  BY <1>1, Zenon DEF IdeInv, IdeTypeOK, Users, User, waiting, Op
<1>3. dev_no[c] = dev_no_of(disk[t])
  BY <1>1, Zenon DEF IdeInv, RegistersOwned, waiting
<1>4. selected(c) = disk[t]
  BY <1>1, <1>2, <1>3, Units, Zenon DEF selected, chan
<1>. QED  BY <1>1, <1>2, <1>4, Zenon

\* Every action keeps the types.
LEMMA StepType == IdeInv /\ [IdeNext]_ideVars => IdeTypeOK'
<1> SUFFICES ASSUME IdeInv, [IdeNext]_ideVars PROVE IdeTypeOK'
  BY Zenon
<1>t. IdeTypeOK
  BY Zenon DEF IdeInv
<1> USE <1>t
<1> USE Defaults, IdeAssumption DEF channelVars, registers, args, rest, Op, Label
<1>c. \A t \in Thread : disk[t] \in Attached \cup {0} /\ chan(t) \in Channel
                         /\ dev_no_of(disk[t]) \in {0, 1}
  BY Units, Zenon DEF IdeTypeOK, chan
<1>1. CASE UNCHANGED ideVars
  BY <1>1, Zenon DEF ideVars, IdeTypeOK
<1>2. CASE identify_ata_device
  BY <1>2 DEF identify_ata_device, IdeTypeOK, goto
<1>3. CASE identified
  <2>1. usable' \subseteq Attached
    <3>1. disk[Main] \in Attached
      BY <1>3, Zenon DEF IdeInv, Users, User, IdeTypeOK, identified, goto
    <3>2. usable' = usable \cup {disk[Main]} \/ usable' = usable
      BY <1>3, Zenon DEF identified
    <3>3. usable \subseteq Attached
      BY Zenon DEF IdeTypeOK
    <3>4. CASE usable' = usable
      BY <3>3, <3>4, Zenon
    <3>5. CASE usable' = usable \cup {disk[Main]}
      BY <3>1, <3>3, <3>5, Zenon
    <3>. QED  BY <3>2, <3>4, <3>5, Zenon
  <2>2. /\ status' = [status EXCEPT ![chan(Main)] = "idle"]
        /\ unknown' = unknown \ {disk[Main]}
        /\ disk' = [disk EXCEPT ![Main] = 0]
        /\ pc' = [pc EXCEPT ![Main] = "idle"]
        /\ UNCHANGED <<lock, expecting_interrupt, completion_wait, cmd, dev_no,
                       sector, data, intrq, content, op, sec_no, buffer,
                       spurious,
                       panic>>
    BY <1>3, Zenon DEF identified, goto
  <2>. QED  BY <1>c, <2>1, <2>2, Zenon DEF IdeTypeOK
<1>4. ASSUME NEW t \in Thread, ide_access(t) PROVE IdeTypeOK'
  BY <1>4, <1>c DEF ide_access, IdeTypeOK, goto
<1>5. ASSUME NEW t \in Thread, lock_acquire(t) PROVE IdeTypeOK'
  BY <1>5, <1>c, Zenon DEF lock_acquire, IdeTypeOK, goto
<1>6. ASSUME NEW t \in Thread, select_sector(t) PROVE IdeTypeOK'
  <2>1. intrq' \in [Channel -> BOOLEAN]
    <3>1. PICK i \in {FALSE, intrq[chan(t)]} :
            intrq' = [intrq EXCEPT ![chan(t)] = i]
      BY <1>6, Zenon DEF select_sector
    <3>2. i \in BOOLEAN
      BY <1>c, Zenon DEF IdeTypeOK
    <3>. QED  BY <3>1, <3>2, Zenon DEF IdeTypeOK
  <2>. QED  BY <1>6, <1>c, <2>1, Zenon DEF select_sector, IdeTypeOK, goto
<1>7. ASSUME NEW t \in Thread, expect(t) PROVE IdeTypeOK'
  BY <1>7, <1>c, Zenon DEF expect, IdeTypeOK, goto
<1>8. ASSUME NEW t \in Thread, command(t) PROVE IdeTypeOK'
  BY <1>8, <1>c, Zenon DEF command, IdeTypeOK, goto
<1>9. ASSUME NEW t \in Thread, sema_down(t) PROVE IdeTypeOK'
  BY <1>9, <1>c DEF sema_down, IdeTypeOK, goto
<1>10. ASSUME NEW t \in Thread, PANIC(t) PROVE IdeTypeOK'
  BY <1>10, <1>c, Zenon DEF PANIC, IdeTypeOK, goto
<1>11. ASSUME NEW t \in Thread, input_sector(t) PROVE IdeTypeOK'
  BY <1>11, <1>c, Zenon DEF input_sector, IdeTypeOK, goto
<1>12. ASSUME NEW t \in Thread, output_sector(t) PROVE IdeTypeOK'
  BY <1>12, <1>c, Zenon DEF output_sector, IdeTypeOK, goto
<1>13. ASSUME NEW t \in Thread, lock_release(t) PROVE IdeTypeOK'
  BY <1>13, <1>c, Zenon DEF lock_release, IdeTypeOK, goto
<1>14. ASSUME NEW c \in Channel, interrupt_handler(c) PROVE IdeTypeOK'
  BY <1>14 DEF interrupt_handler, IdeTypeOK
<1>15. ASSUME NEW c \in Channel, ready(c) PROVE IdeTypeOK'
  <2>1. content[selected(c)][sector[c]] \in Data
    <3>1. selected(c) \in Attached
      BY <1>15, Selected, Zenon DEF ready
    <3>2. content[selected(c)] \in [Sector -> Data]
      BY <3>1, Zenon DEF IdeTypeOK
    <3>3. sector[c] \in Sector
      BY Zenon DEF IdeTypeOK
    <3>. QED  BY <3>2, <3>3, Zenon
  <2>2. data' \in [Channel -> Data]
    BY <1>15, <2>1, Zenon DEF ready, IdeTypeOK
  <2>3. intrq' \in [Channel -> BOOLEAN]
    <3>1. (intrq[c] \/ cmd[c] # "write") \in BOOLEAN
      BY Zenon
    <3>. QED  BY <1>15, <3>1, Zenon DEF ready, IdeTypeOK
  <2>. QED  BY <1>15, <2>2, <2>3, Zenon DEF ready, IdeTypeOK
<1>16. ASSUME NEW c \in Channel, fail(c) PROVE IdeTypeOK'
  BY <1>16, Zenon DEF fail, IdeTypeOK
<1>17. ASSUME NEW c \in Channel, store(c) PROVE IdeTypeOK'
  BY <1>17, Zenon DEF store, IdeTypeOK
<1>18. ASSUME NEW c \in Channel, unasked(c) PROVE IdeTypeOK'
  BY <1>18 DEF unasked, IdeTypeOK
<1>. QED
  BY <1>1, <1>2, <1>3, <1>4, <1>5, <1>6, <1>7, <1>8, <1>9, <1>10, <1>11, Zenon,
     <1>12, <1>13, <1>14, <1>15, <1>16, <1>17, <1>18 DEF IdeNext, Step

\* Who may be inside a channel stays so.
LEMMA StepUsers == IdeInv /\ [IdeNext]_ideVars => Users'
<1> SUFFICES ASSUME IdeInv, [IdeNext]_ideVars PROVE Users'
  BY Zenon
<1> USE IdeAssumption DEF channelVars, registers, args, rest, chan, goto
<1>t. IdeTypeOK /\ Users
  BY Zenon DEF IdeInv
<1>1. CASE UNCHANGED ideVars
  BY <1>1, <1>t, Zenon DEF ideVars, Users, User, Op
<1>2. CASE identify_ata_device
  BY <1>2, <1>t, Alone DEF identify_ata_device, IdeTypeOK, Users, User, Op
<1>3. CASE identified
  BY <1>3, <1>t, Alone DEF identified, IdeTypeOK, Users, User, Op
<1>4. ASSUME NEW t \in Thread, ide_access(t) PROVE Users'
  <2>1. PICK k \in usable, o \in {"read", "write"} :
          /\ unknown = {} \/ t = Main
          /\ op' = [op EXCEPT ![t] = o] /\ disk' = [disk EXCEPT ![t] = k]
    BY <1>4, Zenon DEF ide_access
  <2>2. pc[t] = "idle" /\ pc' = [pc EXCEPT ![t] = "lock"]
    BY <1>4, Zenon DEF ide_access
  <2>3. UNCHANGED <<lock, unknown, usable>>
    BY <1>4, Zenon DEF ide_access
  <2>4. User(t)'
    <3>1. op'[t] = o /\ disk'[t] = k /\ pc'[t] = "lock"
      BY <1>t, <2>1, <2>2, Zenon DEF IdeTypeOK
    <3>. QED  BY <2>1, <2>3, <3>1 DEF User
  <2>5. ASSUME NEW u \in Thread, u # t PROVE User(u)'
    BY <1>t, <2>1, <2>2, <2>3, <2>5 DEF IdeTypeOK, Users, User
  <2>. QED  BY <2>4, <2>5, Zenon DEF Users
<1>5. ASSUME NEW t \in Thread, lock_acquire(t) PROVE Users'
  <2>1. op[t] # "identify"
    BY <1>5, <1>t, Zenon DEF lock_acquire, Users, User
  <2>2. ASSUME NEW u \in Thread, op[u] # "identify", pc[u] # "lock"
        PROVE  channel_of(disk[u]) # channel_of(disk[t])
    BY <1>5, <1>t, <2>2 DEF lock_acquire, Users, User
  <2>3. User(t)'
    <3>1. User(t) /\ channel_of(disk[t]) \in Channel
      BY <1>t, Units, Zenon DEF Users, IdeTypeOK
    <3>2. pc[t] = "lock" /\ pc'[t] = "select" /\ lock'[channel_of(disk[t])] = t
      BY <1>5, <1>t, <3>1, Zenon DEF lock_acquire, IdeTypeOK
    <3>. QED  BY <1>5, <2>1, <3>1, <3>2, Zenon DEF lock_acquire, User
  <2>4. ASSUME NEW u \in Thread, u # t PROVE User(u)'
    BY <1>5, <1>t, <2>2, <2>4, Units DEF lock_acquire, IdeTypeOK, Users, User
  <2>. QED  BY <2>3, <2>4, Zenon DEF Users
<1>6. ASSUME NEW t \in Thread, select_sector(t) PROVE Users'
  BY <1>6, <1>t, Alone DEF select_sector, IdeTypeOK, Users, User, Op
<1>7. ASSUME NEW t \in Thread, expect(t) PROVE Users'
  BY <1>7, <1>t, Alone DEF expect, IdeTypeOK, Users, User, Op
<1>8. ASSUME NEW t \in Thread, command(t) PROVE Users'
  BY <1>8, <1>t, Alone DEF command, IdeTypeOK, Users, User, Op
<1>9. ASSUME NEW t \in Thread, sema_down(t) PROVE Users'
  BY <1>9, <1>t, Alone DEF sema_down, IdeTypeOK, Users, User, Op
<1>10. ASSUME NEW t \in Thread, PANIC(t) PROVE Users'
  BY <1>10, <1>t, Alone, Zenon DEF PANIC, IdeTypeOK, Users, User, Op
<1>11. ASSUME NEW t \in Thread, input_sector(t) PROVE Users'
  BY <1>11, <1>t, Alone DEF input_sector, IdeTypeOK, Users, User, Op
<1>12. ASSUME NEW t \in Thread, output_sector(t) PROVE Users'
  BY <1>12, <1>t, Alone DEF output_sector, IdeTypeOK, Users, User, Op
<1>13. ASSUME NEW t \in Thread, lock_release(t) PROVE Users'
  BY <1>13, <1>t, Alone DEF lock_release, IdeTypeOK, Users, User, Op
<1>14. ASSUME NEW c \in Channel, interrupt_handler(c) PROVE Users'
  BY <1>14, <1>t, Zenon DEF interrupt_handler, IdeTypeOK, Users, User, Op
<1>15. ASSUME NEW c \in Channel, ready(c) PROVE Users'
  BY <1>15, <1>t, Zenon DEF ready, IdeTypeOK, Users, User, Op
<1>16. ASSUME NEW c \in Channel, fail(c) PROVE Users'
  BY <1>16, <1>t, Zenon DEF fail, IdeTypeOK, Users, User, Op
<1>17. ASSUME NEW c \in Channel, store(c) PROVE Users'
  BY <1>17, <1>t, Zenon DEF store, IdeTypeOK, Users, User, Op
<1>18. ASSUME NEW c \in Channel, unasked(c) PROVE Users'
  BY <1>18, <1>t, Zenon DEF unasked, IdeTypeOK, Users, User, Op
<1>. QED
  BY <1>1, <1>2, <1>3, <1>4, <1>5, <1>6, <1>7, <1>8, <1>9, <1>10, <1>11, Zenon,
     <1>12, <1>13, <1>14, <1>15, <1>16, <1>17, <1>18 DEF IdeNext, Step

\* The registers stay the caller's.
LEMMA StepRegisters == IdeInv /\ [IdeNext]_ideVars => RegistersOwned'
<1> SUFFICES ASSUME IdeInv, [IdeNext]_ideVars PROVE RegistersOwned'
  BY Zenon
<1> USE IdeAssumption DEF channelVars, registers, args, rest, chan, goto
<1>t. IdeTypeOK /\ Users /\ RegistersOwned
  BY Zenon DEF IdeInv
<1>1. CASE UNCHANGED ideVars
  BY <1>1, <1>t, Zenon DEF ideVars, RegistersOwned, Op
<1>2. CASE identify_ata_device
  BY <1>2, <1>t, Alone DEF identify_ata_device, IdeTypeOK, Users, User,
     RegistersOwned, Op
<1>3. CASE identified
  BY <1>3, <1>t, Alone DEF identified, IdeTypeOK, Users, User, RegistersOwned,
     Op
<1>4. ASSUME NEW t \in Thread, ide_access(t) PROVE RegistersOwned'
  BY <1>4, <1>t, Alone DEF ide_access, IdeTypeOK, Users, User, RegistersOwned,
     Op
<1>5. ASSUME NEW t \in Thread, lock_acquire(t) PROVE RegistersOwned'
  BY <1>5, <1>t, Alone DEF lock_acquire, IdeTypeOK, Users, User,
     RegistersOwned, Op
<1>6. ASSUME NEW t \in Thread, select_sector(t) PROVE RegistersOwned'
  <2>1. /\ pc[t] = "select" /\ pc' = [pc EXCEPT ![t] = "expect"]
        /\ dev_no' = [dev_no EXCEPT ![chan(t)] = dev_no_of(disk[t])]
        /\ sector' = [sector EXCEPT ![chan(t)] = sec_no[t]]
        /\ UNCHANGED <<lock, op, disk, sec_no>>
    BY <1>6, Zenon DEF select_sector
  <2>2. op[t] # "identify" => lock[chan(t)] = t
    BY <1>t, <2>1, Zenon DEF Users, User
  <2>3. chan(t) \in Channel
    BY <1>t, Units, Zenon DEF IdeTypeOK
  <2>4. /\ dev_no'[chan(t)] = dev_no_of(disk[t]) /\ sector'[chan(t)] = sec_no[t]
        /\ \A d \in Channel : d # chan(t) =>
             dev_no'[d] = dev_no[d] /\ sector'[d] = sector[d]
    BY <1>t, <2>1, <2>3, Zenon DEF IdeTypeOK
  <2>5. ASSUME NEW u \in Thread, u # t, pc[u] \notin {"idle", "lock"}
        PROVE  chan(u) # chan(t) /\ chan(u) \in Channel
    BY <1>t, <2>1, <2>5, Alone, Units, Zenon DEF IdeTypeOK
  <2>6. \A u \in Thread : u # t => pc'[u] = pc[u]
    BY <1>t, <2>1, Zenon DEF IdeTypeOK
  <2>. QED  BY <1>t, <2>1, <2>2, <2>4, <2>5, <2>6 DEF RegistersOwned
<1>7. ASSUME NEW t \in Thread, expect(t) PROVE RegistersOwned'
  BY <1>7, <1>t, Alone DEF expect, IdeTypeOK, Users, User, RegistersOwned, Op
<1>8. ASSUME NEW t \in Thread, command(t) PROVE RegistersOwned'
  BY <1>8, <1>t, Alone DEF command, IdeTypeOK, Users, User, RegistersOwned, Op
<1>9. ASSUME NEW t \in Thread, sema_down(t) PROVE RegistersOwned'
  BY <1>9, <1>t, Alone DEF sema_down, IdeTypeOK, Users, User, RegistersOwned, Op
<1>10. ASSUME NEW t \in Thread, PANIC(t) PROVE RegistersOwned'
  BY <1>10, <1>t, Alone, Zenon DEF PANIC, IdeTypeOK, Users, User, RegistersOwned, Op
<1>11. ASSUME NEW t \in Thread, input_sector(t) PROVE RegistersOwned'
  BY <1>11, <1>t, Alone DEF input_sector, IdeTypeOK, Users, User,
     RegistersOwned, Op
<1>12. ASSUME NEW t \in Thread, output_sector(t) PROVE RegistersOwned'
  BY <1>12, <1>t, Alone DEF output_sector, IdeTypeOK, Users, User,
     RegistersOwned, Op
<1>13. ASSUME NEW t \in Thread, lock_release(t) PROVE RegistersOwned'
  BY <1>13, <1>t, Alone DEF lock_release, IdeTypeOK, Users, User,
     RegistersOwned, Op
<1>14. ASSUME NEW c \in Channel, interrupt_handler(c) PROVE RegistersOwned'
  BY <1>14, <1>t, Zenon DEF interrupt_handler, IdeTypeOK, Users, User,
     RegistersOwned, Op
<1>15. ASSUME NEW c \in Channel, ready(c) PROVE RegistersOwned'
  BY <1>15, <1>t, Zenon DEF ready, IdeTypeOK, Users, User, RegistersOwned, Op
<1>16. ASSUME NEW c \in Channel, fail(c) PROVE RegistersOwned'
  BY <1>16, <1>t, Zenon DEF fail, IdeTypeOK, Users, User, RegistersOwned, Op
<1>17. ASSUME NEW c \in Channel, store(c) PROVE RegistersOwned'
  BY <1>17, <1>t, Zenon DEF store, IdeTypeOK, Users, User, RegistersOwned, Op
<1>18. ASSUME NEW c \in Channel, unasked(c) PROVE RegistersOwned'
  BY <1>18, <1>t, Zenon DEF unasked, IdeTypeOK, Users, User, RegistersOwned, Op
<1>. QED
  BY <1>1, <1>2, <1>3, <1>4, <1>5, <1>6, <1>7, <1>8, <1>9, <1>10, <1>11, Zenon,
     <1>12, <1>13, <1>14, <1>15, <1>16, <1>17, <1>18 DEF IdeNext, Step

-----------------------------------------------------------------------------
(* The drive.                                                              *)

\* What the drive is doing follows from where its user is.
LEMMA StepDrive == IdeInv /\ [IdeNext]_ideVars => DriveFollows'
<1> SUFFICES ASSUME IdeInv, [IdeNext]_ideVars PROVE DriveFollows'
  BY Zenon
<1> USE IdeAssumption DEF channelVars, registers, args, rest, chan, goto
<1>t. IdeTypeOK /\ Users /\ DriveFollows
  BY Zenon DEF IdeInv
<1>1. CASE UNCHANGED ideVars
  BY <1>1, <1>t, Zenon DEF ideVars, DriveFollows, Follows, Worked, waiting
<1>2. CASE identify_ata_device
  BY <1>2, <1>t, Alone, SMTT(30) DEF identify_ata_device, IdeTypeOK, Users, User,
     DriveFollows, Follows, Worked, waiting
<1>3. CASE identified
  BY <1>3, <1>t, Alone, SMTT(30) DEF identified, IdeTypeOK, Users, User, DriveFollows,
     Follows, Worked, waiting
<1>4. ASSUME NEW t \in Thread, ide_access(t) PROVE DriveFollows'
  BY <1>4, <1>t, Alone, SMTT(30) DEF ide_access, IdeTypeOK, Users, User, DriveFollows,
     Follows, Worked, waiting
<1>5. ASSUME NEW t \in Thread, lock_acquire(t) PROVE DriveFollows'
  BY <1>5, <1>t, Alone DEF lock_acquire, IdeTypeOK, Users, User, DriveFollows,
     Follows, Worked, waiting
<1>6. ASSUME NEW t \in Thread, select_sector(t) PROVE DriveFollows'
  <2>1. /\ pc[t] = "select" /\ pc' = [pc EXCEPT ![t] = "expect"]
        /\ status[chan(t)] = "idle"
        /\ UNCHANGED <<expecting_interrupt, status, cmd, data, content, op, disk,
                       sec_no>>
    BY <1>6, Zenon DEF select_sector, wait_until_idle
  <2>2. Follows(t)'
    BY <1>t, <2>1, Zenon DEF IdeTypeOK, Follows, waiting
  <2>3. ASSUME NEW u \in Thread, u # t PROVE Follows(u)'
    BY <1>t, <2>1, <2>3, Zenon DEF IdeTypeOK, DriveFollows, Follows, waiting
  <2>4. \A c \in Channel : Worked(c)'
    BY <1>t, <2>1, Zenon DEF IdeTypeOK, DriveFollows, Worked, waiting
  <2>. QED  BY <2>2, <2>3, <2>4, Zenon DEF DriveFollows
<1>7. ASSUME NEW t \in Thread, expect(t) PROVE DriveFollows'
  <2>1. /\ pc[t] = "expect" /\ pc' = [pc EXCEPT ![t] = "command"]
        /\ expecting_interrupt' = [expecting_interrupt EXCEPT ![chan(t)] = TRUE]
        /\ UNCHANGED <<status, cmd, data, content, op, disk, sec_no>>
    BY <1>7, Zenon DEF expect
  <2>2. Follows(t)'
    BY <1>t, <2>1, Units, Zenon DEF IdeTypeOK, DriveFollows, Follows, waiting
  <2>3. ASSUME NEW u \in Thread, u # t PROVE Follows(u)'
    <3>1. pc'[u] = pc[u] /\ Follows(u)
      BY <1>t, <2>1, <2>3, Zenon DEF IdeTypeOK, DriveFollows
    <3>2. CASE chan(u) = chan(t)
      BY <1>t, <2>1, <2>3, <3>1, <3>2, Alone, Zenon DEF Follows, waiting
    <3>3. CASE chan(u) # chan(t)
      <4>1. expecting_interrupt'[chan(u)] = expecting_interrupt[chan(u)]
        BY <1>t, <2>1, <3>3, Units, Zenon DEF IdeTypeOK
      <4>. QED  BY <2>1, <3>1, <4>1, Zenon DEF Follows, waiting
    <3>. QED  BY <3>2, <3>3, Zenon
  <2>4. \A c \in Channel : Worked(c)'
    BY <1>t, <2>1, Zenon DEF IdeTypeOK, DriveFollows, Worked, waiting
  <2>. QED  BY <2>2, <2>3, <2>4, Zenon DEF DriveFollows
<1>8. ASSUME NEW t \in Thread, command(t) PROVE DriveFollows'
  <2>1. /\ pc[t] = "command"
        /\ pc' = [pc EXCEPT ![t] = IF op[t] = "write" THEN "wait" ELSE "down"]
        /\ status' = [status EXCEPT ![chan(t)] = "busy"]
        /\ cmd' = [cmd EXCEPT ![chan(t)] = op[t]]
        /\ UNCHANGED <<expecting_interrupt, data, content, op, disk, sec_no>>
    BY <1>8, Zenon DEF command
  <2>2. chan(t) \in Channel
    BY <1>t, Units, Zenon DEF IdeTypeOK
  <2>3. Follows(t)' /\ waiting(t)'
    <3>1. expecting_interrupt[chan(t)]
      BY <1>t, <2>1, Zenon DEF DriveFollows, Follows
    <3>2. pc'[t] = IF op[t] = "write" THEN "wait" ELSE "down"
      BY <1>t, <2>1, Zenon DEF IdeTypeOK
    <3>3. status'[chan(t)] = "busy" /\ cmd'[chan(t)] = op[t]
      BY <1>t, <2>1, <2>2, Zenon DEF IdeTypeOK
    <3>. QED  BY <2>1, <3>1, <3>2, <3>3 DEF Follows, waiting
  <2>4. ASSUME NEW u \in Thread,
     u # t PROVE Follows(u)' /\ waiting(u)' = waiting(u)
    <3>1. pc'[u] = pc[u] /\ Follows(u)
      BY <1>t, <2>1, <2>4, Zenon DEF IdeTypeOK, DriveFollows
    <3>2. CASE chan(u) = chan(t)
      BY <1>t, <2>1, <2>4, <3>1, <3>2, Alone, Zenon DEF Follows, waiting
    <3>3. CASE chan(u) # chan(t)
      <4>1. status'[chan(u)] = status[chan(u)] /\ cmd'[chan(u)] = cmd[chan(u)]
        BY <1>t, <2>1, <3>3, Units, Zenon DEF IdeTypeOK
      <4>. QED  BY <2>1, <3>1, <4>1, Zenon DEF Follows, waiting
    <3>. QED  BY <3>2, <3>3, Zenon
  <2>5. ASSUME NEW c \in Channel PROVE Worked(c)'
    <3>1. CASE c = chan(t)
      BY <2>1, <2>3, <3>1, Zenon DEF Worked
    <3>2. CASE c # chan(t)
      <4>1. status'[c] = status[c]
        BY <1>t, <2>1, <3>2, Zenon DEF IdeTypeOK
      <4>. QED  BY <1>t, <2>1, <2>4, <3>2, <4>1, Zenon DEF DriveFollows, Worked
    <3>. QED  BY <3>1, <3>2, Zenon
  <2>. QED  BY <2>3, <2>4, <2>5, Zenon DEF DriveFollows
<1>9. ASSUME NEW t \in Thread, sema_down(t) PROVE DriveFollows'
  BY <1>9, <1>t, Alone, SMTT(30) DEF sema_down, IdeTypeOK, Users, User, DriveFollows,
     Follows, Worked, waiting
<1>10. ASSUME NEW t \in Thread, PANIC(t) PROVE DriveFollows'
  BY <1>10, <1>t, Alone, SMTT(30) DEF PANIC, IdeTypeOK, Users, User, DriveFollows,
     Follows, Worked, waiting
<1>11. ASSUME NEW t \in Thread, input_sector(t) PROVE DriveFollows'
  BY <1>11, <1>t, Alone, SMTT(30) DEF input_sector, IdeTypeOK, Users, User,
     DriveFollows, Follows, Worked, waiting
<1>12. ASSUME NEW t \in Thread, output_sector(t) PROVE DriveFollows'
  BY <1>12, <1>t, Alone, SMTT(30) DEF output_sector, IdeTypeOK, Users, User,
     DriveFollows, Follows, Worked, waiting
<1>13. ASSUME NEW t \in Thread, lock_release(t) PROVE DriveFollows'
  BY <1>13, <1>t, Alone, SMTT(30) DEF lock_release, IdeTypeOK, Users, User,
     DriveFollows, Follows, Worked, waiting
<1>14. ASSUME NEW c \in Channel, interrupt_handler(c) PROVE DriveFollows'
  BY <1>14, <1>t DEF interrupt_handler, IdeTypeOK, Users, User, DriveFollows,
     Follows, Worked, waiting
<1>15. ASSUME NEW c \in Channel, ready(c) PROVE DriveFollows'
  <2>1. /\ status[c] = "busy" /\ status' = [status EXCEPT ![c] = "drq"]
        /\ data' = [data EXCEPT ![c] = IF cmd[c] = "read"
                      THEN content[selected(c)][sector[c]] ELSE data[c]]
        /\ UNCHANGED <<expecting_interrupt, cmd, content, pc, op, disk, sec_no>>
    BY <1>15, Zenon DEF ready
  <2>2. ASSUME NEW u \in Thread PROVE Follows(u)'
    <3>1. CASE chan(u) = c
      <4>1. /\ status'[c] = "drq"
            /\ cmd[c] = "read" => data'[c] = content[selected(c)][sector[c]]
        BY <1>t, <2>1, Zenon DEF IdeTypeOK
      <4>2. waiting(u) => selected(c) = disk[u] /\ sector[c] = sec_no[u]
        BY <1>t, <3>1, Units, ZenonT(60) DEF IdeInv, RegistersOwned, waiting,
           selected, IdeTypeOK
      <4>. QED  BY <1>t, <2>1, <3>1, <4>1, <4>2, ZenonT(60) DEF DriveFollows, Follows,
         waiting
    <3>2. CASE chan(u) # c
      <4>1. status'[chan(u)] = status[chan(u)] /\ data'[chan(u)] = data[chan(u)]
        BY <1>t, <2>1, <3>2, Units, Zenon DEF IdeTypeOK
      <4>. QED  BY <1>t, <2>1, <4>1 DEF DriveFollows, Follows, waiting
    <3>. QED  BY <3>1, <3>2, Zenon
  <2>3. \A d \in Channel : Worked(d)'
    BY <1>t, <2>1, Zenon DEF IdeTypeOK, DriveFollows, Worked, waiting
  <2>. QED  BY <2>2, <2>3, Zenon DEF DriveFollows
<1>16. ASSUME NEW c \in Channel, fail(c) PROVE DriveFollows'
  BY <1>16, <1>t DEF fail, IdeTypeOK, Users, User, DriveFollows, Follows,
     Worked, waiting
<1>17. ASSUME NEW c \in Channel, store(c) PROVE DriveFollows'
  <2>1. /\ status[c] = "storing" /\ status' = [status EXCEPT ![c] = "idle"]
        /\ content' = [content EXCEPT ![selected(c)][sector[c]] = data[c]]
        /\ UNCHANGED <<expecting_interrupt, cmd, data, pc, op, disk, sec_no>>
    BY <1>17, Zenon DEF store
  <2>2. ASSUME NEW u \in Thread PROVE Follows(u)'
    <3>1. CASE chan(u) = c
      <4>1. status'[c] = "idle"
        BY <1>t, <2>1, Zenon DEF IdeTypeOK
      <4>. QED  BY <1>t, <2>1, <3>1, <4>1, Zenon DEF DriveFollows, Follows, waiting
    <3>2. CASE chan(u) # c
      <4>1. status'[chan(u)] = status[chan(u)]
        BY <1>t, <2>1, <3>2, Units, Zenon DEF IdeTypeOK
      <4>2. disk[u] # selected(c)
        <5>1. /\ disk[u] = 2 * chan(u) + dev_no_of(disk[u])
              /\ dev_no_of(disk[u]) \in {0, 1} /\ chan(u) \in Nat
          <6>1. disk[u] \in Attached \cup {0}
            BY <1>t, Zenon DEF IdeTypeOK
          <6>2. chan(u) \in Channel
            BY <6>1, Units, Zenon
          <6>3. chan(u) \in Nat
            BY <6>2 DEF Channel
          <6>. QED  BY <6>1, <6>3, Units, Zenon
        <5>2. dev_no[c] \in {0, 1} /\ c \in Nat
          BY <1>t DEF IdeTypeOK, Channel
        <5>. QED  BY <3>2, <5>1, <5>2 DEF selected
      <4>3. content'[disk[u]] = content[disk[u]]
        BY <1>t, <2>1, <4>2 DEF IdeTypeOK
      <4>. QED  BY <1>t, <2>1, <4>1, <4>3 DEF DriveFollows, Follows, waiting
    <3>. QED  BY <3>1, <3>2, Zenon
  <2>3. \A d \in Channel : Worked(d)'
    BY <1>t, <2>1, Zenon DEF IdeTypeOK, DriveFollows, Worked, waiting
  <2>. QED  BY <2>2, <2>3, Zenon DEF DriveFollows
<1>18. ASSUME NEW c \in Channel, unasked(c) PROVE DriveFollows'
  BY <1>18, <1>t DEF unasked, IdeTypeOK, Users, User, DriveFollows, Follows,
     Worked, waiting
<1>. QED
  BY <1>1, <1>2, <1>3, <1>4, <1>5, <1>6, <1>7, <1>8, <1>9, <1>10, <1>11, Zenon,
     <1>12, <1>13, <1>14, <1>15, <1>16, <1>17, <1>18 DEF IdeNext, Step

-----------------------------------------------------------------------------

\* A channel's completions and what its drive is doing are as before.
Same(d) == /\ status'[d] = status[d] /\ intrq'[d] = intrq[d]
           /\ completion_wait'[d] = completion_wait[d]

\* A step of a thread with its channel does not concern the others, and while
\* the thread is inside, nobody has to find the channel unused.
LEMMA OneThread ==
  ASSUME IdeTypeOK, Completions, spurious = 0, NEW t \in Thread,
         UNCHANGED <<op, disk>>,
         \A u \in Thread : u # t => pc'[u] = pc[u],
         \A u \in Thread : u # t /\ chan(u) = chan(t) =>
               pc[u] \in {"idle", "lock"},
         \A d \in Channel : d # chan(t) => Same(d),
         pc'[t] \notin {"idle", "lock"}, Completes(t)'
  PROVE  Completions'
<1>1. (\A u \in Thread : Completes(u)) /\ (\A d \in Channel : Unused(d))
  BY Zenon DEF Completions
<1>2. ASSUME NEW u \in Thread, u # t PROVE Completes(u)'
  <2>1. pc'[u] = pc[u] /\ chan(u)' = chan(u) /\ chan(u) \in Channel
    BY <1>2, Units, Zenon DEF chan, IdeTypeOK
  <2>2. CASE chan(u) = chan(t)
    BY <1>2, <2>1, <2>2, Zenon DEF Completes
  <2>3. CASE chan(u) # chan(t)
    <3>1. Same(chan(u)) /\ Completes(u)
      BY <1>1, <2>1, <2>3, Zenon
    <3>. QED  BY <2>1, <3>1 DEF Same, Completes, none, one
  <2>. QED  BY <2>2, <2>3, Zenon
<1>3. ASSUME NEW d \in Channel PROVE Unused(d)'
  <2>1. CASE d = chan(t)
    <3>1. inside(t, d)'
      BY <2>1, Zenon DEF inside, chan
    <3>. QED  BY <3>1, Zenon DEF Unused
  <2>2. CASE d # chan(t)
    <3>1. Same(d) /\ Unused(d)
      BY <1>1, <2>2, Zenon
    <3>2. \A u \in Thread : inside(u, d) => inside(u, d)'
      BY <2>2, Zenon DEF inside, chan
    <3>. QED  BY <3>1, <3>2, Zenon DEF Same, Unused, none
  <2>. QED  BY <2>1, <2>2, Zenon
<1>. QED  BY <1>2, <1>3, Zenon DEF Completions

\* A step of a drive or of its interrupt concerns the users of that channel.
LEMMA OneChannel ==
  ASSUME IdeTypeOK, Completions, spurious = 0, NEW c \in Channel,
         UNCHANGED <<pc, op, disk>>,
         \A d \in Channel : d # c => Same(d),
         ~(none(c) /\ status[c] = "idle"),
         \A u \in Thread : chan(u) = c /\ Completes(u) => Completes(u)'
  PROVE  Completions'
<1>1. (\A u \in Thread : Completes(u)) /\ (\A d \in Channel : Unused(d))
  BY Zenon DEF Completions
<1>2. ASSUME NEW u \in Thread PROVE Completes(u)'
  <2>1. CASE chan(u) = c
    BY <1>1, <2>1, Zenon
  <2>2. CASE chan(u) # c
    <3>1. chan(u) \in Channel
      BY Units, Zenon DEF IdeTypeOK, chan
    <3>2. Same(chan(u)) /\ Completes(u)
      BY <1>1, <2>2, <3>1, Zenon
    <3>. QED  BY <3>2 DEF Same, Completes, none, one, chan
  <2>. QED  BY <2>1, <2>2, Zenon
<1>3. ASSUME NEW d \in Channel PROVE Unused(d)'
  <2>1. \A u \in Thread : inside(u, d)' <=> inside(u, d)
    BY Zenon DEF inside, chan
  <2>2. CASE d = c
    BY <1>1, <2>1, <2>2, Zenon DEF Unused
  <2>3. CASE d # c
    BY <1>1, <2>1, <2>3, Zenon DEF Same, Unused, none
  <2>. QED  BY <2>2, <2>3, Zenon
<1>. QED  BY <1>2, <1>3, Zenon DEF Completions

\* What the threads do.
ThreadStep ==
  \/ UNCHANGED ideVars \/ identify_ata_device \/ identified
  \/ \E t \in Thread : ide_access(t) \/ Step(t)

\* The completions stay accounted for when a thread runs.
LEMMA ThreadCompletions == IdeInv /\ ThreadStep => Completions'
<1> SUFFICES ASSUME IdeInv, ThreadStep, spurious' = 0 PROVE Completions'
  BY Zenon DEF Completions
<1> USE DEF channelVars, registers, args, rest, goto
<1>t. IdeTypeOK /\ Users /\ DriveFollows /\ Completions
  BY Zenon DEF IdeInv
<1>m. Main \in Thread /\ NoThread \notin Thread
  BY IdeAssumption, Zenon
<1>c. \A t \in Thread : chan(t) \in Channel
  BY <1>t, Units, Zenon DEF IdeTypeOK, chan
<1>s. spurious = 0 =>
        (\A u \in Thread : Completes(u)) /\ (\A d \in Channel : Unused(d))
  BY <1>t, Zenon DEF Completions
<1>a. ASSUME NEW t \in Thread, pc[t] \notin {"idle", "lock"}
      PROVE  \A u \in Thread : u # t /\ chan(u) = chan(t) =>
               pc[u] \in {"idle", "lock"}
  BY <1>a, <1>t, Alone, Zenon
<1>1. CASE UNCHANGED ideVars
  BY <1>1, <1>t DEF ideVars, Completions, Unused, Completes, none, one,
     inside, chan
<1>2. CASE identify_ata_device
  <2>1. /\ pc[Main] = "idle" /\ pc' = [pc EXCEPT ![Main] = "select"]
        /\ \E k \in unknown : disk' = [disk EXCEPT ![Main] = k]
        /\ UNCHANGED <<completion_wait, intrq, status, spurious>>
    BY <1>2, Zenon DEF identify_ata_device
  <2>2. \A u \in Thread : pc[u] = "idle"
    BY <1>t, <2>1, Zenon DEF Users, User
  <2>3. \A d \in Channel : none(d) /\ status[d] = "idle"
    BY <1>s, <2>1, <2>2, Zenon DEF Unused, inside
  <2>4. \A u \in Thread : u # Main => pc'[u] = "idle"
    BY <1>t, <2>1, <2>2, Zenon DEF IdeTypeOK
  <2>5. pc'[Main] = "select" /\ chan(Main)' \in Channel
    BY <1>t, <1>m, <2>1, Units DEF IdeTypeOK, chan
  <2>6. \A u \in Thread : Completes(u)'
    BY <2>1, <2>3, <2>4, <2>5, Zenon DEF Completes, none
  <2>7. \A d \in Channel : Unused(d)'
    BY <2>1, <2>3, Zenon DEF Unused, none
  <2>. QED  BY <2>6, <2>7, Zenon DEF Completions
<1>3. CASE identified
  <2>1. /\ pc[Main] = "wait" /\ pc' = [pc EXCEPT ![Main] = "idle"]
        /\ op[Main] = "identify" /\ disk' = [disk EXCEPT ![Main] = 0]
        /\ status' = [status EXCEPT ![chan(Main)] = "idle"]
        /\ UNCHANGED <<completion_wait, intrq, op, spurious>>
    BY <1>3, Zenon DEF identified
  <2>2. \A u \in Thread : u # Main => pc[u] = "idle"
    BY <1>t, <1>m, <2>1, Zenon DEF Users, User
  <2>3. \A u \in Thread : pc'[u] = "idle"
    BY <1>t, <2>1, <2>2, Zenon DEF IdeTypeOK
  <2>4. ASSUME NEW d \in Channel PROVE none(d) /\ status'[d] = "idle"
    <3>1. CASE d = chan(Main)
      BY <1>s, <1>t, <1>m, <2>1, <3>1, Zenon DEF Completes, IdeTypeOK
    <3>2. CASE d # chan(Main)
      <4>1. \A u \in Thread : ~inside(u, d)
        BY <2>2, <3>2, Zenon DEF inside
      <4>. QED  BY <1>s, <1>t, <2>1, <3>2, <4>1, Zenon DEF Unused, IdeTypeOK
    <3>. QED  BY <3>1, <3>2, Zenon
  <2>5. \A u \in Thread : Completes(u)'
    BY <2>3, Zenon DEF Completes
  <2>6. \A d \in Channel : Unused(d)'
    BY <2>1, <2>4, Zenon DEF Unused, none
  <2>. QED  BY <2>5, <2>6, Zenon DEF Completions
<1>4. ASSUME NEW t \in Thread, ide_access(t) PROVE Completions'
  <2>1. /\ pc[t] = "idle" /\ pc' = [pc EXCEPT ![t] = "lock"]
        /\ \E o, k : op' = [op EXCEPT ![t] = o] /\ disk' = [disk EXCEPT ![t] = k]
        /\ UNCHANGED <<completion_wait, intrq, status, spurious>>
    BY <1>4, Zenon DEF ide_access
  <2>2. ASSUME NEW u \in Thread, u # t
        PROVE  pc'[u] = pc[u] /\ op'[u] = op[u] /\ chan(u)' = chan(u)
    BY <1>t, <2>1, <2>2, Zenon DEF IdeTypeOK, chan
  <2>3. pc'[t] = "lock"
    BY <1>t, <2>1, Zenon DEF IdeTypeOK
  <2>4. ASSUME NEW u \in Thread PROVE Completes(u)'
    <3>1. CASE u = t
      BY <2>3, <3>1, Zenon DEF Completes
    <3>2. CASE u # t
      BY <1>s, <2>1, <2>2, <3>2 DEF Completes, none, one
    <3>. QED  BY <3>1, <3>2, Zenon
  <2>5. ASSUME NEW d \in Channel PROVE Unused(d)'
    <3>1. \A u \in Thread : inside(u, d) => inside(u, d)'
      BY <2>1, <2>2, Zenon DEF inside
    <3>. QED  BY <1>s, <2>1, <3>1, Zenon DEF Unused, none
  <2>. QED  BY <2>4, <2>5, Zenon DEF Completions
<1>5. ASSUME NEW t \in Thread, lock_acquire(t) PROVE Completions'
  <2>1. /\ pc[t] = "lock" /\ lock[chan(t)] = NoThread
        /\ pc' = [pc EXCEPT ![t] = "select"]
        /\ UNCHANGED <<completion_wait, intrq, status, op, disk, spurious>>
    BY <1>5, Zenon DEF lock_acquire
  <2>2. spurious = 0 /\ Completes(t)
    BY <1>s, <2>1, Zenon
  <2>6. \A u \in Thread : ~inside(u, chan(t))
    BY <1>t, <1>m, <2>1 DEF IdeTypeOK, Users, User, inside, Op
  <2>7. \A u \in Thread : u # t /\ chan(u) = chan(t) =>
               pc[u] \in {"idle", "lock"}
    BY <2>6, Zenon DEF inside
  <2>3. Completes(t)' /\ pc'[t] \notin {"idle", "lock"}
    <3>1. none(chan(t)) /\ status[chan(t)] = "idle"
      BY <1>s, <1>c, <2>2, <2>6, Zenon DEF Unused
    <3>2. pc'[t] = "select"
      BY <1>t, <2>1, Zenon DEF IdeTypeOK
    <3>. QED  BY <2>1, <3>1, <3>2, Zenon DEF Completes, none, chan
  <2>4. \A u \in Thread : u # t => pc'[u] = pc[u]
    BY <1>t, <2>1, Zenon DEF IdeTypeOK
  <2>5. \A d \in Channel : d # chan(t) => Same(d)
    BY <1>t, <2>1, Zenon DEF IdeTypeOK, Same
  <2>. QED  BY <1>t, <2>1, <2>2, <2>3, <2>4, <2>5, <2>7, OneThread, Zenon
<1>6. ASSUME NEW t \in Thread, select_sector(t) PROVE Completions'
  <2>1. /\ pc[t] = "select"
        /\ pc' = [pc EXCEPT ![t] = "expect"]
        /\ \E i \in {FALSE, intrq[chan(t)]} :
             intrq' = [intrq EXCEPT ![chan(t)] = i]
        /\ UNCHANGED <<completion_wait, status, op, disk, spurious>>
    BY <1>6, Zenon DEF select_sector
  <2>2. spurious = 0 /\ Completes(t)
    BY <1>s, <2>1, Zenon
  <2>3. Completes(t)' /\ pc'[t] \notin {"idle", "lock"}
    <3>1. none(chan(t)) /\ status[chan(t)] = "idle"
      BY <2>1, <2>2, Zenon DEF Completes
    <3>2. pc'[t] = "expect" /\ ~intrq'[chan(t)]
      BY <1>t, <1>c, <2>1, <3>1, Zenon DEF IdeTypeOK, none
    <3>. QED  BY <2>1, <3>1, <3>2, Zenon DEF Completes, none, chan
  <2>4. \A u \in Thread : u # t => pc'[u] = pc[u]
    BY <1>t, <2>1, Zenon DEF IdeTypeOK
  <2>5. \A d \in Channel : d # chan(t) => Same(d)
    BY <1>t, <2>1, Zenon DEF IdeTypeOK, Same
  <2>. QED  BY <1>t, <1>a, <2>1, <2>2, <2>3, <2>4, <2>5, OneThread, Zenon
<1>7. ASSUME NEW t \in Thread, expect(t) PROVE Completions'
  <2>1. /\ pc[t] = "expect"
        /\ pc' = [pc EXCEPT ![t] = "command"]
        /\ UNCHANGED <<completion_wait, intrq, status, op, disk, spurious>>
    BY <1>7, Zenon DEF expect
  <2>2. spurious = 0 /\ Completes(t)
    BY <1>s, <2>1, Zenon
  <2>3. Completes(t)' /\ pc'[t] \notin {"idle", "lock"}
    <3>1. none(chan(t)) /\ status[chan(t)] = "idle"
      BY <2>1, <2>2, Zenon DEF Completes
    <3>2. pc'[t] = "command"
      BY <1>t, <2>1, Zenon DEF IdeTypeOK
    <3>. QED  BY <2>1, <3>1, <3>2, Zenon DEF Completes, none, chan
  <2>4. \A u \in Thread : u # t => pc'[u] = pc[u]
    BY <1>t, <2>1, Zenon DEF IdeTypeOK
  <2>5. \A d \in Channel : d # chan(t) => Same(d)
    BY <1>t, <2>1, Zenon DEF IdeTypeOK, Same
  <2>. QED  BY <1>t, <1>a, <2>1, <2>2, <2>3, <2>4, <2>5, OneThread, Zenon
<1>8. ASSUME NEW t \in Thread, command(t) PROVE Completions'
  <2>1. /\ pc[t] = "command"
        /\ pc' = [pc EXCEPT ![t] = IF op[t] = "write" THEN "wait" ELSE "down"]
        /\ status' = [status EXCEPT ![chan(t)] = "busy"]
        /\ UNCHANGED <<completion_wait, intrq, op, disk, spurious>>
    BY <1>8, Zenon DEF command
  <2>2. spurious = 0 /\ Completes(t)
    BY <1>s, <2>1, Zenon
  <2>3. Completes(t)' /\ pc'[t] \notin {"idle", "lock"}
    <3>1. none(chan(t))
      BY <2>1, <2>2, Zenon DEF Completes
    <3>2. /\ pc'[t] = IF op[t] = "write" THEN "wait" ELSE "down"
          /\ status'[chan(t)] = "busy"
      BY <1>t, <1>c, <2>1, Zenon DEF IdeTypeOK
    <3>. QED  BY <2>1, <3>1, <3>2 DEF Completes, none, chan
  <2>4. \A u \in Thread : u # t => pc'[u] = pc[u]
    BY <1>t, <2>1, Zenon DEF IdeTypeOK
  <2>5. \A d \in Channel : d # chan(t) => Same(d)
    BY <1>t, <2>1, Zenon DEF IdeTypeOK, Same
  <2>. QED  BY <1>t, <1>a, <2>1, <2>2, <2>3, <2>4, <2>5, OneThread, Zenon
<1>9. ASSUME NEW t \in Thread, sema_down(t) PROVE Completions'
  <2>1. /\ pc[t] = "down" /\ completion_wait[chan(t)] > 0
        /\ pc' = [pc EXCEPT ![t] = IF op[t] = "write" THEN "release" ELSE "wait"]
        /\ completion_wait' = [completion_wait EXCEPT
                                 ![chan(t)] = completion_wait[chan(t)] - 1]
        /\ UNCHANGED <<status, intrq, op, disk, spurious>>
    BY <1>9, Zenon DEF sema_down
  <2>2. spurious = 0 /\ Completes(t)
    BY <1>s, <2>1, Zenon
  <2>3. Completes(t)' /\ pc'[t] \notin {"idle", "lock"}
    <3>1. /\ pc'[t] = IF op[t] = "write" THEN "release" ELSE "wait"
          /\ completion_wait'[chan(t)] = completion_wait[chan(t)] - 1
          /\ completion_wait[chan(t)] \in Nat
      BY <1>t, <1>c, <2>1, Zenon DEF IdeTypeOK
    <3>2. ~none(chan(t))
      BY <2>1 DEF none
    <3>3. /\ one(chan(t)) /\ status[chan(t)] # "busy"
          /\ op[t] = "write" => status[chan(t)] = "idle"
      BY <2>1, <2>2, <3>2, Zenon DEF Completes
    <3>4. ~intrq'[chan(t)] /\ completion_wait'[chan(t)] = 0
      BY <2>1, <3>1, <3>3 DEF one
    <3>. QED  BY <2>1, <3>1, <3>3, <3>4 DEF Completes, none, chan
  <2>4. \A u \in Thread : u # t => pc'[u] = pc[u]
    BY <1>t, <2>1, Zenon DEF IdeTypeOK
  <2>5. \A d \in Channel : d # chan(t) => Same(d)
    BY <1>t, <2>1, Zenon DEF IdeTypeOK, Same
  <2>. QED  BY <1>t, <1>a, <2>1, <2>2, <2>3, <2>4, <2>5, OneThread, Zenon
<1>10. ASSUME NEW t \in Thread, PANIC(t) PROVE Completions'
  <2>1. UNCHANGED <<completion_wait, intrq, status, pc, op, disk, spurious>>
    BY <1>10, Zenon DEF PANIC
  <2>. QED  BY <1>t, <2>1 DEF Completions, Unused, Completes, none, one,
     inside, chan
<1>11. ASSUME NEW t \in Thread, input_sector(t) PROVE Completions'
  <2>1. /\ pc[t] = "wait" /\ op[t] = "read"
        /\ pc' = [pc EXCEPT ![t] = "release"]
        /\ status' = [status EXCEPT ![chan(t)] = "idle"]
        /\ UNCHANGED <<completion_wait, intrq, op, disk, spurious>>
    BY <1>11, Zenon DEF input_sector
  <2>2. spurious = 0 /\ Completes(t)
    BY <1>s, <2>1, Zenon
  <2>3. Completes(t)' /\ pc'[t] \notin {"idle", "lock"}
    <3>1. none(chan(t))
      BY <2>1, <2>2, Zenon DEF Completes
    <3>2. pc'[t] = "release" /\ status'[chan(t)] = "idle"
      BY <1>t, <1>c, <2>1, Zenon DEF IdeTypeOK
    <3>. QED  BY <2>1, <3>1, <3>2, Zenon DEF Completes, none, chan
  <2>4. \A u \in Thread : u # t => pc'[u] = pc[u]
    BY <1>t, <2>1, Zenon DEF IdeTypeOK
  <2>5. \A d \in Channel : d # chan(t) => Same(d)
    BY <1>t, <2>1, Zenon DEF IdeTypeOK, Same
  <2>. QED  BY <1>t, <1>a, <2>1, <2>2, <2>3, <2>4, <2>5, OneThread, Zenon
<1>12. ASSUME NEW t \in Thread, output_sector(t) PROVE Completions'
  <2>1. /\ pc[t] = "wait" /\ op[t] = "write" /\ status[chan(t)] = "drq"
        /\ pc' = [pc EXCEPT ![t] = "down"]
        /\ status' = [status EXCEPT ![chan(t)] = "storing"]
        /\ UNCHANGED <<completion_wait, intrq, op, disk, spurious>>
    BY <1>12, Zenon DEF output_sector
  <2>2. spurious = 0 /\ Completes(t)
    BY <1>s, <2>1, Zenon
  <2>3. Completes(t)' /\ pc'[t] \notin {"idle", "lock"}
    <3>1. none(chan(t))
      BY <2>1, <2>2, Zenon DEF Completes
    <3>2. pc'[t] = "down" /\ status'[chan(t)] = "storing"
      BY <1>t, <1>c, <2>1, Zenon DEF IdeTypeOK
    <3>. QED  BY <2>1, <3>1, <3>2, Zenon DEF Completes, none, chan
  <2>4. \A u \in Thread : u # t => pc'[u] = pc[u]
    BY <1>t, <2>1, Zenon DEF IdeTypeOK
  <2>5. \A d \in Channel : d # chan(t) => Same(d)
    BY <1>t, <2>1, Zenon DEF IdeTypeOK, Same
  <2>. QED  BY <1>t, <1>a, <2>1, <2>2, <2>3, <2>4, <2>5, OneThread, Zenon
<1>13. ASSUME NEW t \in Thread, lock_release(t) PROVE Completions'
  <2>1. /\ pc[t] = "release" /\ pc' = [pc EXCEPT ![t] = "idle"]
        /\ op' = [op EXCEPT ![t] = "identify"] /\ disk' = [disk EXCEPT ![t] = 0]
        /\ UNCHANGED <<completion_wait, intrq, status, spurious>>
    BY <1>13, Zenon DEF lock_release
  <2>2. ASSUME NEW u \in Thread, u # t
        PROVE  pc'[u] = pc[u] /\ op'[u] = op[u] /\ chan(u)' = chan(u)
    BY <1>t, <2>1, <2>2, Zenon DEF IdeTypeOK, chan
  <2>3. pc'[t] = "idle"
    BY <1>t, <2>1, Zenon DEF IdeTypeOK
  <2>4. ASSUME NEW u \in Thread PROVE Completes(u)'
    <3>1. CASE u = t
      BY <2>3, <3>1, Zenon DEF Completes
    <3>2. CASE u # t
      BY <1>s, <2>1, <2>2, <3>2 DEF Completes, none, one
    <3>. QED  BY <3>1, <3>2, Zenon
  <2>5. ASSUME NEW d \in Channel PROVE Unused(d)'
    <3>1. CASE d = chan(t)
      BY <1>s, <2>1, <3>1, Zenon DEF Completes, Unused, none
    <3>2. CASE d # chan(t)
      <4>1. \A u \in Thread : inside(u, d) => inside(u, d)'
        BY <2>2, <3>2, Zenon DEF inside
      <4>. QED  BY <1>s, <2>1, <4>1, Zenon DEF Unused, none
    <3>. QED  BY <3>1, <3>2, Zenon
  <2>. QED  BY <2>4, <2>5, Zenon DEF Completions
<1>. QED
  BY <1>1, <1>2, <1>3, <1>4, <1>5, <1>6, <1>7, <1>8, <1>9, <1>10, <1>11, <1>12, Zenon,
     <1>13 DEF ThreadStep, Step

-----------------------------------------------------------------------------
IdeSpec == IdeInit /\ [][IdeNext]_ideVars

\* What the drives and their interrupts do.
DriveStep ==
  \E c \in Channel :
    interrupt_handler(c) \/ ready(c) \/ fail(c) \/ store(c) \/ unasked(c)

\* The completions stay accounted for when a drive or an interrupt comes.
LEMMA DriveCompletions == IdeInv /\ DriveStep => Completions'
<1> SUFFICES ASSUME IdeInv, DriveStep, spurious' = 0 PROVE Completions'
  BY Zenon DEF Completions
<1> USE DEF channelVars, registers, args, rest
<1>t. IdeTypeOK /\ DriveFollows /\ Completions
  BY Zenon DEF IdeInv
<1>1. ASSUME NEW c \in Channel, interrupt_handler(c) PROVE Completions'
  <2>1. /\ intrq[c] /\ intrq' = [intrq EXCEPT ![c] = FALSE]
        /\ completion_wait' = [completion_wait EXCEPT ![c] =
             IF expecting_interrupt[c] THEN completion_wait[c] + 1
             ELSE completion_wait[c]]
        /\ UNCHANGED <<status, pc, op, disk, spurious>>
    BY <1>1, Zenon DEF interrupt_handler
  <2>2. \A d \in Channel : d # c => Same(d)
    BY <1>t, <2>1, Zenon DEF IdeTypeOK, Same
  <2>3. ~none(c)
    BY <2>1, Zenon DEF none
  <2>4. /\ ~intrq'[c]
        /\ expecting_interrupt[c] => completion_wait'[c] = completion_wait[c] + 1
    BY <1>t, <2>1, Zenon DEF IdeTypeOK
  <2>5. ASSUME NEW u \in Thread, chan(u) = c, Completes(u) PROVE Completes(u)'
    <3>1. pc[u] \in {"down", "wait"} => expecting_interrupt[c]
      BY <1>t, <2>5, ZenonT(60) DEF DriveFollows, Follows
    <3>2. pc[u] = "down" /\ one(c) => one(c)'
      BY <2>1, <2>4, <3>1 DEF one
    <3>. QED  BY <2>1, <2>3, <2>5, <3>2, Zenon DEF Completes, chan
  <2>. QED  BY <1>t, <2>1, <2>2, <2>3, <2>5, OneChannel, Zenon
<1>2. ASSUME NEW c \in Channel, ready(c) PROVE Completions'
  <2>1. /\ status[c] = "busy" /\ status' = [status EXCEPT ![c] = "drq"]
        /\ intrq' = [intrq EXCEPT ![c] = intrq[c] \/ cmd[c] # "write"]
        /\ UNCHANGED <<completion_wait, pc, op, disk, spurious>>
    BY <1>2, Zenon DEF ready
  <2>2. \A d \in Channel : d # c => Same(d)
    BY <1>t, <2>1, Zenon DEF IdeTypeOK, Same
  <2>3. ASSUME NEW u \in Thread, chan(u) = c, Completes(u) PROVE Completes(u)'
    <3>1. status'[c] = "drq" /\ (intrq'[c] <=> intrq[c] \/ cmd[c] # "write")
      BY <1>t, <2>1, ZenonT(60) DEF IdeTypeOK
    <3>2. waiting(u) => cmd[c] = op[u]
      BY <1>t, <2>3, Zenon DEF DriveFollows, Follows
    <3>3. pc[u] = "down" /\ op[u] # "write" => none(c) /\ one(c)'
      BY <2>1, <2>3, <3>1, <3>2, ZenonT(60) DEF Completes, none, one, waiting
    <3>4. pc[u] = "wait" => op[u] = "write" /\ none(c) /\ none(c)'
      BY <2>1, <2>3, <3>1, <3>2, Zenon DEF Completes, none, waiting
    <3>. QED  BY <2>1, <2>3, <3>1, <3>3, <3>4, Zenon DEF Completes, chan
  <2>. QED  BY <1>t, <2>1, <2>2, <2>3, OneChannel, Zenon
<1>3. ASSUME NEW c \in Channel, fail(c) PROVE Completions'
  <2>1. /\ status[c] = "busy" /\ status' = [status EXCEPT ![c] = "idle"]
        /\ intrq' = [intrq EXCEPT ![c] = TRUE]
        /\ UNCHANGED <<completion_wait, pc, op, disk, spurious>>
    BY <1>3, Zenon DEF fail
  <2>2. \A d \in Channel : d # c => Same(d)
    BY <1>t, <2>1, Zenon DEF IdeTypeOK, Same
  <2>3. ASSUME NEW u \in Thread, chan(u) = c, Completes(u) PROVE Completes(u)'
    <3>1. status'[c] = "idle" /\ intrq'[c]
      BY <1>t, <2>1, Zenon DEF IdeTypeOK
    <3>2. pc[u] = "down" /\ op[u] # "write" => one(c)'
      BY <2>1, <2>3, <3>1, Zenon DEF Completes, none, one
    <3>. QED  BY <2>1, <2>3, <3>1, <3>2, Zenon DEF Completes, chan
  <2>. QED  BY <1>t, <2>1, <2>2, <2>3, OneChannel, Zenon
<1>4. ASSUME NEW c \in Channel, store(c) PROVE Completions'
  <2>1. /\ status[c] = "storing" /\ status' = [status EXCEPT ![c] = "idle"]
        /\ intrq' = [intrq EXCEPT ![c] = TRUE]
        /\ UNCHANGED <<completion_wait, pc, op, disk, spurious>>
    BY <1>4, Zenon DEF store
  <2>2. \A d \in Channel : d # c => Same(d)
    BY <1>t, <2>1, Zenon DEF IdeTypeOK, Same
  <2>3. ASSUME NEW u \in Thread, chan(u) = c, Completes(u) PROVE Completes(u)'
    <3>1. status'[c] = "idle" /\ intrq'[c]
      BY <1>t, <2>1, Zenon DEF IdeTypeOK
    <3>2. ~waiting(u)
      BY <1>t, <2>1, <2>3, ZenonT(60) DEF DriveFollows, Follows
    <3>3. pc[u] = "down" /\ op[u] = "write" => one(c)'
      BY <2>1, <2>3, <3>1, Zenon DEF Completes, none, one
    <3>. QED  BY <2>1, <2>3, <3>1, <3>2, <3>3, Zenon
       DEF Completes, waiting, chan
  <2>. QED  BY <1>t, <2>1, <2>2, <2>3, OneChannel, Zenon
<1>5. ASSUME NEW c \in Channel, unasked(c) PROVE Completions'
  <2>1. spurious' = spurious + 1 /\ spurious \in Nat
    BY <1>5, <1>t, Zenon DEF unasked, IdeTypeOK
  <2>. QED  BY <2>1
<1>. QED  BY <1>1, <1>2, <1>3, <1>4, <1>5, Zenon DEF DriveStep

\* The completions are accounted for.
LEMMA StepCompletions == IdeInv /\ [IdeNext]_ideVars => Completions'
  BY ThreadCompletions, DriveCompletions, Zenon DEF IdeNext, ThreadStep, DriveStep

\* IdeInit establishes the invariant.
LEMMA InitInv == IdeInit => IdeInv
<1> SUFFICES ASSUME IdeInit PROVE IdeInv
  BY Zenon
<1>1. Users
  BY Zenon DEF IdeInit, Users, User
<1>2. RegistersOwned
  BY Zenon DEF IdeInit, RegistersOwned
<1>3. DriveFollows
  BY Zenon DEF IdeInit, DriveFollows, Follows, Worked, waiting
<1>4. Completions
  BY Zenon DEF IdeInit, Completions, Unused, Completes, none
<1>. QED  BY <1>1, <1>2, <1>3, <1>4, InitType, Zenon DEF IdeInv

\* The invariant of the driver: whoever calls ide_read() and ide_write(), and
\* whenever the interrupts come, a channel has one user, the drive does what
\* this user told it, and there is one completion for each command.
THEOREM DriverInvariant == IdeSpec => []IdeInv
<1>1. IdeInv /\ [IdeNext]_ideVars => IdeInv'
  BY StepType, StepUsers, StepRegisters, StepDrive, StepCompletions, Zenon DEF IdeInv
<1>. QED  BY <1>1, InitInv, PTL DEF IdeSpec

\* ide_read() and ide_write() keep out of each other's way: from
\* select_sector() until the lock is released the registers belong to the
\* caller, and when a call returns the drive has stored its data and no
\* completion is left for the next call, unless an interrupt came unasked.
THEOREM CallsStayExclusive == IdeSpec => []CallsExclusive
<1>1. IdeInv => CallsExclusive
  BY Zenon DEF IdeInv, Completions, Completes, none, NothingOutstanding,
         CallsExclusive
<1>. QED  BY <1>1, DriverInvariant, PTL

-----------------------------------------------------------------------------
(* The driver implements the device of module Device: a read takes effect  *)
(* in input_sector(), a write in output_sector(), and every other step but *)
(* the call and the return is invisible.                                   *)

\* What identifies the access of a thread, and whether it has taken effect.
LEMMA Invisible ==
  ASSUME NEW t \in Thread, op'[t] = op[t], op[t] # "identify" =>
           /\ done(t)' = done(t) /\ disk'[t] = disk[t]
           /\ sec_no'[t] = sec_no[t] /\ buffer'[t] = buffer[t]
  PROVE  Accessed(t)' = Accessed(t)
  BY Zenon DEF Accessed

\* A step that stores nothing, starts nothing to be stored and leaves a drive
\* that is storing alone does not change what the disks will hold.
LEMMA SettledSame ==
  ASSUME IdeTypeOK, UNCHANGED content,
         \A c \in Channel : status[c] = "storing" \/ status'[c] = "storing" =>
           /\ status'[c] = status[c] /\ dev_no'[c] = dev_no[c]
           /\ sector'[c] = sector[c] /\ data'[c] = data[c]
  PROVE  Settled' = Settled
<1>1. ASSUME NEW k \in Attached, NEW s \in Sector PROVE After(k, s)' = After(k, s)
  <2>1. channel_of(k) \in Channel
    BY Units, Zenon
  <2>. QED  BY <2>1, Zenon DEF After
<1>. QED  BY <1>1, Zenon DEF Settled

\* Nothing is visible of a step that changes neither.
LEMMA Stutter ==
  ASSUME Settled' = Settled, \A t \in Thread : Accessed(t)' = Accessed(t)
  PROVE  UNCHANGED Abstract!vars
  BY Zenon DEF Abstract!vars

\* The initial states are initial states of the device.
LEMMA InitRefines == IdeInit => Abstract!Init
<1> SUFFICES ASSUME IdeInit PROVE Abstract!Init
  BY Zenon
<1>1. Settled = content
  <2>1. ASSUME NEW k \in Attached, NEW s \in Sector PROVE After(k,
     s) = content[k][s]
    BY Units, Zenon DEF IdeInit, After
  <2>2. content \in [Attached -> [Sector -> Data]]
    BY Zenon DEF IdeInit
  <2>3. Settled = [k \in Attached |-> [s \in Sector |-> content[k][s]]]
    BY <2>1, Zenon DEF Settled
  <2>. QED  BY <2>2, <2>3, Zenon
<1>2. [t \in Thread |-> Accessed(t)] = [t \in Thread |-> NoAccess]
  BY Zenon DEF IdeInit, Accessed
<1>3. content \in [Attached -> [Sector -> Data]]
  BY Zenon DEF IdeInit
<1>. QED  BY <1>1, <1>2, <1>3, Zenon DEF Abstract!Init

\* Every step is a step of the device, or nothing is visible of it.
LEMMA StepRefines == IdeInv /\ [IdeNext]_ideVars => [Abstract!Next]_(Abstract!vars)
<1> SUFFICES ASSUME IdeInv, [IdeNext]_ideVars PROVE [Abstract!Next]_(Abstract!vars)
  BY Zenon
<1> USE DEF channelVars, registers, args, rest, goto, done
<1>t. IdeTypeOK /\ Users /\ RegistersOwned /\ DriveFollows
  BY Zenon DEF IdeInv
<1>m. Main \in Thread
  BY IdeAssumption, Zenon
<1>c. \A t \in Thread : chan(t) \in Channel
  BY <1>t, Units, Zenon DEF IdeTypeOK, chan
<1>1. CASE UNCHANGED ideVars
  BY <1>1, Stutter, SettledSame, Invisible, <1>t, Zenon DEF ideVars
<1>2. CASE identify_ata_device
  <2>1. Settled' = Settled
    BY <1>2, <1>t, SettledSame, Zenon DEF identify_ata_device
  <2>2. \A t \in Thread : Accessed(t)' = Accessed(t)
    BY <1>2, <1>t, <1>m, Invisible DEF identify_ata_device, IdeTypeOK, Users,
       User
  <2>. QED  BY <2>1, <2>2, Stutter, Zenon
<1>3. CASE identified
  <2>1. /\ status[chan(Main)] # "storing"
        /\ status' = [status EXCEPT ![chan(Main)] = "idle"]
        /\ pc[Main] = "wait" /\ pc' = [pc EXCEPT ![Main] = "idle"]
        /\ op[Main] = "identify" /\ disk' = [disk EXCEPT ![Main] = 0]
        /\ UNCHANGED <<dev_no, sector, data, content, op, sec_no, buffer>>
    BY <1>3, Zenon DEF identified, wait_while_busy
  <2>2. Settled' = Settled
    BY <1>t, <1>c, <1>m, <2>1, SettledSame, Zenon DEF IdeTypeOK
  <2>3. \A t \in Thread : Accessed(t)' = Accessed(t)
    BY <1>t, <1>m, <2>1, Invisible, Zenon DEF IdeTypeOK
  <2>. QED  BY <2>2, <2>3, Stutter, Zenon
<1>4. ASSUME NEW t \in Thread, lock_acquire(t) PROVE UNCHANGED Abstract!vars
  <2>1. Settled' = Settled
    BY <1>4, <1>t, <1>c, SettledSame, Zenon DEF lock_acquire, IdeTypeOK
  <2>2. \A u \in Thread : Accessed(u)' = Accessed(u)
    BY <1>4, <1>t, Invisible, Zenon DEF lock_acquire, IdeTypeOK
  <2>. QED  BY <2>1, <2>2, Stutter, Zenon
<1>5. ASSUME NEW t \in Thread, select_sector(t) PROVE UNCHANGED Abstract!vars
  <2>1. Settled' = Settled
    BY <1>5, <1>t, <1>c, SettledSame, Zenon DEF select_sector, IdeTypeOK,
       wait_until_idle
  <2>2. \A u \in Thread : Accessed(u)' = Accessed(u)
    BY <1>5, <1>t, Invisible, Zenon DEF select_sector, IdeTypeOK
  <2>. QED  BY <2>1, <2>2, Stutter, Zenon
<1>6. ASSUME NEW t \in Thread, expect(t) PROVE UNCHANGED Abstract!vars
  <2>1. Settled' = Settled
    BY <1>6, <1>t, <1>c, SettledSame, Zenon DEF expect, IdeTypeOK
  <2>2. \A u \in Thread : Accessed(u)' = Accessed(u)
    BY <1>6, <1>t, Invisible, Zenon DEF expect, IdeTypeOK
  <2>. QED  BY <2>1, <2>2, Stutter, Zenon
<1>7. ASSUME NEW t \in Thread, command(t) PROVE UNCHANGED Abstract!vars
  <2>1. Settled' = Settled
    BY <1>7, <1>t, <1>c, SettledSame, Zenon DEF command, IdeTypeOK, DriveFollows,
       Follows
  <2>2. \A u \in Thread : Accessed(u)' = Accessed(u)
    BY <1>7, <1>t, Invisible, Zenon DEF command, IdeTypeOK
  <2>. QED  BY <2>1, <2>2, Stutter, Zenon
<1>8. ASSUME NEW t \in Thread, sema_down(t) PROVE UNCHANGED Abstract!vars
  <2>1. Settled' = Settled
    BY <1>8, <1>t, <1>c, SettledSame, Zenon DEF sema_down, IdeTypeOK
  <2>2. \A u \in Thread : Accessed(u)' = Accessed(u)
    BY <1>8, <1>t, Invisible, Zenon DEF sema_down, IdeTypeOK
  <2>. QED  BY <2>1, <2>2, Stutter, Zenon
<1>9. ASSUME NEW t \in Thread, PANIC(t) PROVE UNCHANGED Abstract!vars
  <2>1. Settled' = Settled
    BY <1>9, <1>t, <1>c, SettledSame, Zenon DEF PANIC, IdeTypeOK
  <2>2. \A u \in Thread : Accessed(u)' = Accessed(u)
    BY <1>9, <1>t, Invisible, Zenon DEF PANIC, IdeTypeOK
  <2>. QED  BY <2>1, <2>2, Stutter, Zenon
<1>10. ASSUME NEW c \in Channel, interrupt_handler(c) PROVE UNCHANGED Abstract!vars
  <2>1. Settled' = Settled
    BY <1>10, <1>t, SettledSame, Zenon DEF interrupt_handler, IdeTypeOK
  <2>2. \A u \in Thread : Accessed(u)' = Accessed(u)
    BY <1>10, Invisible, Zenon DEF interrupt_handler
  <2>. QED  BY <2>1, <2>2, Stutter, Zenon
<1>11. ASSUME NEW c \in Channel, ready(c) PROVE UNCHANGED Abstract!vars
  <2>1. Settled' = Settled
    BY <1>11, <1>t, SettledSame, Zenon DEF ready, IdeTypeOK
  <2>2. \A u \in Thread : Accessed(u)' = Accessed(u)
    BY <1>11, Invisible, Zenon DEF ready
  <2>. QED  BY <2>1, <2>2, Stutter, Zenon
<1>12. ASSUME NEW c \in Channel, fail(c) PROVE UNCHANGED Abstract!vars
  <2>1. Settled' = Settled
    BY <1>12, <1>t, SettledSame, Zenon DEF fail, IdeTypeOK
  <2>2. \A u \in Thread : Accessed(u)' = Accessed(u)
    BY <1>12, Invisible, Zenon DEF fail
  <2>. QED  BY <2>1, <2>2, Stutter, Zenon
<1>13. ASSUME NEW c \in Channel, unasked(c) PROVE UNCHANGED Abstract!vars
  <2>1. Settled' = Settled
    BY <1>13, <1>t, SettledSame, Zenon DEF unasked, IdeTypeOK
  <2>2. \A u \in Thread : Accessed(u)' = Accessed(u)
    BY <1>13, Invisible, Zenon DEF unasked
  <2>. QED  BY <2>1, <2>2, Stutter, Zenon
<1>14. ASSUME NEW c \in Channel, store(c) PROVE UNCHANGED Abstract!vars
  <2>1. /\ status[c] = "storing" /\ status' = [status EXCEPT ![c] = "idle"]
        /\ content' = [content EXCEPT ![selected(c)][sector[c]] = data[c]]
        /\ UNCHANGED <<dev_no, sector, data, pc, op, disk, sec_no, buffer>>
    BY <1>14, Zenon DEF store
  <2>2. ASSUME NEW k \in Attached, NEW s \in Sector PROVE After(k,
     s)' = After(k, s)
    <3>1. channel_of(k) \in Channel /\ k = 2 * channel_of(k) + dev_no_of(k)
      BY Units, Zenon
    <3>2. CASE channel_of(k) = c /\ dev_no[c] = dev_no_of(k)
      <4>1. selected(c) = k
        BY <3>1, <3>2, Zenon DEF selected
      <4>2. content'[k][s] = IF s = sector[c] THEN data[c] ELSE content[k][s]
        BY <1>t, <2>1, <4>1, Zenon DEF IdeTypeOK
      <4>3. status'[c] = "idle"
        BY <1>t, <2>1, Zenon DEF IdeTypeOK
      <4>. QED  BY <2>1, <3>2, <4>2, <4>3, Zenon DEF After
    <3>3. CASE ~(channel_of(k) = c /\ dev_no[c] = dev_no_of(k))
      <4>1. selected(c) # k
        <5>1. /\ c \in Nat /\ channel_of(k) \in Nat
              /\ dev_no[c] \in {0, 1} /\ dev_no_of(k) \in {0, 1}
          <6>1. c \in Nat /\ channel_of(k) \in Nat
            BY <3>1 DEF Channel
          <6>2. dev_no[c] \in {0, 1}
            BY <1>t, Zenon DEF IdeTypeOK
          <6>. QED  BY <6>1, <6>2, Units, Zenon
        <5>. QED  BY <3>1, <3>3, <5>1 DEF selected
      <4>2. content'[k] = content[k]
        BY <1>t, <2>1, <4>1, Zenon DEF IdeTypeOK
      <4>3. channel_of(k) # c => status'[channel_of(k)] = status[channel_of(k)]
        BY <1>t, <2>1, <3>1, Zenon DEF IdeTypeOK
      <4>. QED  BY <2>1, <3>3, <4>2, <4>3 DEF After
    <3>. QED  BY <3>2, <3>3, Zenon
  <2>3. Settled' = Settled
    BY <2>2, Zenon DEF Settled
  <2>4. \A u \in Thread : Accessed(u)' = Accessed(u)
    BY <2>1, Invisible, Zenon
  <2>. QED  BY <2>3, <2>4, Stutter, Zenon
<1>15. ASSUME NEW t \in Thread, ide_access(t) PROVE Abstract!Ask(t)
  <2>1. PICK k \in usable, n \in Sector, d \in Data, o \in {"read", "write"} :
          /\ unknown = {} \/ (t = Main /\ o = "read")
          /\ o = "read" => d = anyData
          /\ op' = [op EXCEPT ![t] = o]
          /\ disk' = [disk EXCEPT ![t] = k]
          /\ sec_no' = [sec_no EXCEPT ![t] = n]
          /\ buffer' = [buffer EXCEPT ![t] = d]
    BY <1>15, Zenon DEF ide_access
  <2>2. pc[t] = "idle" /\ pc' = [pc EXCEPT ![t] = "lock"]
    BY <1>15, Zenon DEF ide_access
  <2>3. Settled' = Settled
    BY <1>15, <1>t, SettledSame, ZenonT(60) DEF ide_access
  <2>4. Accessed(t) = NoAccess
    BY <1>t, <2>2, ZenonT(60) DEF Users, User, Accessed
  <2>5. Accessed(t)' = [state |-> "asked", op |-> o, disk |-> k, sector |-> n,
     data |-> d]
    BY <1>t, <2>1, <2>2, Zenon DEF IdeTypeOK, Accessed
  <2>6. ASSUME NEW u \in Thread, u # t PROVE Accessed(u)' = Accessed(u)
    BY <1>t, <2>1, <2>2, <2>6, Invisible, Zenon DEF IdeTypeOK
  <2>7. [state |-> "asked", op |-> o, disk |-> k, sector |-> n,
     data |-> d] \in Abstract!Access
    BY <1>t, Zenon DEF IdeTypeOK, Abstract!Access
  <2>8. [u \in Thread |-> Accessed(u)]' =
          [[u \in Thread |-> Accessed(u)] EXCEPT ![t] =
             [state |-> "asked", op |-> o, disk |-> k, sector |-> n,
             data |-> d]]
    BY <2>5, <2>6, Zenon
  <2>. QED  BY <2>3, <2>4, <2>7, <2>8, Zenon DEF Abstract!Ask
<1>16. ASSUME NEW t \in Thread, input_sector(t) PROVE Abstract!Read(t)
  <2>1. /\ pc[t] = "wait" /\ op[t] = "read" /\ status[chan(t)] = "drq"
        /\ pc' = [pc EXCEPT ![t] = "release"]
        /\ buffer' = [buffer EXCEPT ![t] = data[chan(t)]]
        /\ status' = [status EXCEPT ![chan(t)] = "idle"]
        /\ UNCHANGED <<dev_no, sector, data, content, op, disk, sec_no>>
    BY <1>16, Zenon DEF input_sector
  <2>2. Settled' = Settled
    BY <1>t, <1>c, <2>1, SettledSame, Zenon DEF IdeTypeOK
  <2>3. disk[t] \in Attached /\ sec_no[t] \in Sector /\ buffer[t] \in Data
    BY <1>t, <2>1, Zenon DEF IdeTypeOK, Users, User
  <2>4. data[chan(t)] = Settled[disk[t]][sec_no[t]]
    <3>1. data[chan(t)] = content[disk[t]][sec_no[t]]
      BY <1>t, <2>1, Zenon DEF DriveFollows, Follows, waiting
    <3>2. After(disk[t], sec_no[t]) = content[disk[t]][sec_no[t]]
      BY <2>1, Zenon DEF After, chan
    <3>. QED  BY <2>3, <3>1, <3>2, Zenon DEF Settled
  <2>5. Accessed(t) = [state |-> "asked", op |-> "read", disk |-> disk[t],
                       sector |-> sec_no[t], data |-> buffer[t]]
    BY <2>1, Zenon DEF Accessed
  <2>6. Accessed(t)' = [state |-> "done", op |-> "read", disk |-> disk[t],
                        sector |-> sec_no[t],
                        data |-> Settled[disk[t]][sec_no[t]]]
    BY <1>t, <2>1, <2>4, Zenon DEF IdeTypeOK, Accessed
  <2>7. ASSUME NEW u \in Thread, u # t PROVE Accessed(u)' = Accessed(u)
    BY <1>t, <2>1, <2>7, Invisible, Zenon DEF IdeTypeOK
  <2>8. Accessed(t) # NoAccess
    BY <2>3, <2>5, NoAccessAssumption
  <2>9. [u \in Thread |-> Accessed(u)]' =
          [[u \in Thread |-> Accessed(u)] EXCEPT ![t] =
             [state |-> "done", op |-> "read", disk |-> disk[t],
              sector |-> sec_no[t], data |-> Settled[disk[t]][sec_no[t]]]]
    BY <2>6, <2>7, ZenonT(60)
  <2> DEFINE a == [u \in Thread |-> Accessed(u)][t]
  <2>10. /\ a # NoAccess /\ a.state = "asked" /\ a.op = "read"
         /\ a.disk = disk[t] /\ a.sector = sec_no[t]
    BY <2>5, <2>8
  <2>11. [u \in Thread |-> Accessed(u)]' =
           [[u \in Thread |-> Accessed(u)] EXCEPT ![t] =
              [state |-> "done", op |-> "read", disk |-> a.disk,
               sector |-> a.sector, data |-> Settled[a.disk][a.sector]]]
    BY <2>9, <2>10, Zenon
  <2>. QED  BY <2>2, <2>10, <2>11, Zenon DEF Abstract!Read
<1>17. ASSUME NEW t \in Thread, output_sector(t) PROVE Abstract!Write(t)
  <2>1. /\ pc[t] = "wait" /\ op[t] = "write" /\ status[chan(t)] = "drq"
        /\ pc' = [pc EXCEPT ![t] = "down"]
        /\ data' = [data EXCEPT ![chan(t)] = buffer[t]]
        /\ status' = [status EXCEPT ![chan(t)] = "storing"]
        /\ UNCHANGED <<dev_no, sector, content, op, disk, sec_no, buffer>>
    BY <1>17, Zenon DEF output_sector
  <2>2. disk[t] \in Attached /\ sec_no[t] \in Sector /\ buffer[t] \in Data
    BY <1>t, <2>1, Zenon DEF IdeTypeOK, Users, User
  <2>3. dev_no[chan(t)] = dev_no_of(disk[t]) /\ sector[chan(t)] = sec_no[t]
    BY <1>t, <2>1, ZenonT(60) DEF RegistersOwned
  <2>4. ASSUME NEW k \in Attached, NEW n \in Sector
        PROVE  After(k, n)' = IF k = disk[t] /\ n = sec_no[t] THEN buffer[t]
                              ELSE After(k, n)
    <3>1. channel_of(k) \in Channel
      BY Units, Zenon
    <3>2. CASE channel_of(k) = chan(t)
      <4>1. dev_no[chan(t)] = dev_no_of(k) <=> k = disk[t]
        BY <2>2, <2>3, <3>2, Units DEF chan
      <4>2. status'[chan(t)] = "storing" /\ data'[chan(t)] = buffer[t]
        BY <1>t, <1>c, <2>1, Zenon DEF IdeTypeOK
      <4>. QED  BY <2>1, <2>3, <3>2, <4>1, <4>2, Zenon DEF After
    <3>3. CASE channel_of(k) # chan(t)
      <4>1. /\ status'[channel_of(k)] = status[channel_of(k)]
            /\ data'[channel_of(k)] = data[channel_of(k)]
        BY <1>t, <2>1, <3>1, <3>3, Zenon DEF IdeTypeOK
      <4>. QED  BY <2>1, <3>3, <4>1, Zenon DEF After, chan
    <3>. QED  BY <3>2, <3>3, Zenon
  <2>5. Settled' = [Settled EXCEPT ![disk[t]][sec_no[t]] = buffer[t]]
    <3>1. Settled' = [k \in Attached |-> [n \in Sector |->
                        IF k = disk[t] /\ n = sec_no[t] THEN buffer[t]
                        ELSE After(k, n)]]
      BY <2>4, Zenon DEF Settled
    <3>. QED  BY <2>2, <3>1, ZenonT(60) DEF Settled
  <2>6. Accessed(t) = [state |-> "asked", op |-> "write", disk |-> disk[t],
                       sector |-> sec_no[t], data |-> buffer[t]]
    BY <2>1, Zenon DEF Accessed
  <2>7. Accessed(t)' = [state |-> "done", op |-> "write", disk |-> disk[t],
                        sector |-> sec_no[t], data |-> buffer[t]]
    BY <1>t, <2>1, Zenon DEF IdeTypeOK, Accessed
  <2>8. ASSUME NEW u \in Thread, u # t PROVE Accessed(u)' = Accessed(u)
    BY <1>t, <2>1, <2>8, Invisible, Zenon DEF IdeTypeOK
  <2>9. Accessed(t) # NoAccess
    BY <2>2, <2>6, NoAccessAssumption
  <2>10. [u \in Thread |-> Accessed(u)]' =
           [[u \in Thread |-> Accessed(u)] EXCEPT ![t] =
              [state |-> "done", op |-> "write", disk |-> disk[t],
               sector |-> sec_no[t], data |-> buffer[t]]]
    BY <2>7, <2>8, ZenonT(60)
  <2> DEFINE a == [u \in Thread |-> Accessed(u)][t]
  <2>11. /\ a # NoAccess /\ a.state = "asked" /\ a.op = "write"
         /\ a.disk = disk[t] /\ a.sector = sec_no[t] /\ a.data = buffer[t]
    BY <2>6, <2>9
  <2>12. [u \in Thread |-> Accessed(u)]' =
           [[u \in Thread |-> Accessed(u)] EXCEPT ![t] =
              [state |-> "done", op |-> "write", disk |-> a.disk,
               sector |-> a.sector, data |-> a.data]]
    BY <2>10, <2>11, Zenon
  <2>13. Settled' = [Settled EXCEPT ![a.disk][a.sector] = a.data]
    BY <2>5, <2>11, ZenonT(60)
  <2>. QED  BY <2>11, <2>12, <2>13, ZenonT(60) DEF Abstract!Write
<1>18. ASSUME NEW t \in Thread, lock_release(t) PROVE Abstract!Return(t)
  <2>1. /\ pc[t] = "release" /\ pc' = [pc EXCEPT ![t] = "idle"]
        /\ op' = [op EXCEPT ![t] = "identify"] /\ disk' = [disk EXCEPT ![t] = 0]
        /\ sec_no' = [sec_no EXCEPT ![t] = anySector]
        /\ buffer' = [buffer EXCEPT ![t] = anyData]
        /\ UNCHANGED <<status, dev_no, sector, data, content>>
    BY <1>18, Zenon DEF lock_release
  <2>2. Settled' = Settled
    BY <1>t, <2>1, SettledSame, Zenon
  <2>3. /\ op[t] \in {"read", "write"} /\ disk[t] \in Attached
        /\ sec_no[t] \in Sector /\ buffer[t] \in Data
    BY <1>t, <2>1 DEF IdeTypeOK, Op, Users, User
  <2>4. Accessed(t) = [state |-> "done", op |-> op[t], disk |-> disk[t],
                       sector |-> sec_no[t], data |-> buffer[t]]
    BY <2>1, <2>3, Zenon DEF Accessed
  <2>5. Accessed(t)' = NoAccess
    BY <1>t, <2>1, Zenon DEF IdeTypeOK, Accessed
  <2>6. ASSUME NEW u \in Thread, u # t PROVE Accessed(u)' = Accessed(u)
    BY <1>t, <2>1, <2>6, Invisible, Zenon DEF IdeTypeOK
  <2>7. Accessed(t) # NoAccess
    BY <2>3, <2>4, NoAccessAssumption
  <2>8. [u \in Thread |-> Accessed(u)]' =
          [[u \in Thread |-> Accessed(u)] EXCEPT ![t] = NoAccess]
    BY <2>5, <2>6, Zenon
  <2>. QED  BY <2>2, <2>4, <2>7, <2>8 DEF Abstract!Return
<1>. QED
  BY <1>1, <1>2, <1>3, <1>4, <1>5, <1>6, <1>7, <1>8, <1>9, <1>10, <1>11, <1>12, Zenon,
     <1>13, <1>14, <1>15, <1>16, <1>17, <1>18 DEF IdeNext, Step, Abstract!Next

\* "Internally synchronizes accesses to disks" (ide.c): every behaviour of
\* the driver is one of a device that reads and writes each sector at one
\* instant between the call and the return.
THEOREM DriverImplementsDevice == IdeSpec => AccessesAtomic
<1>. QED  BY InitRefines, StepRefines, DriverInvariant, PTL
             DEF IdeSpec, AccessesAtomic, Abstract!Spec
=============================================================================

-------------------------------- MODULE Ide ---------------------------------
(***************************************************************************)
(* The IDE driver (devices/ide.c): the main thread identifies the disks,   *)
(* then threads read and write sectors in PIO mode, and the interrupt      *)
(* handler wakes them.  The drives, the interrupt line and the lock and    *)
(* semaphore of a channel are modelled by what the driver uses of them.    *)
(***************************************************************************)
EXTENDS Integers

CONSTANTS
  Thread, Main,    \* Main runs ide_init()
  CHANNEL_CNT,
  Attached,        \* the units that check_device_type() takes for disks
  Sector, Data,    \* the sector numbers of a disk, and what a sector holds
  NoThread, NoAccess,
  MaxSpurious      \* how many interrupts come that nobody asked for

Channel == 0..CHANNEL_CNT - 1

\* hda is unit 0: each channel has a master and a slave.
channel_of(k) == k \div 2
dev_no_of(k) == k % 2

ASSUME IdeAssumption ==
  /\ Main \in Thread /\ NoThread \notin Thread
  /\ CHANNEL_CNT \in Nat \ {0}
  /\ Attached \subseteq 0..2 * CHANNEL_CNT - 1
  /\ Sector # {} /\ Data # {}
  /\ MaxSpurious \in Nat

ASSUME NoAccessAssumption ==
  NoAccess \notin [state : {"asked", "done"}, op : {"read", "write"},
                   disk : Attached, sector : Sector, data : Data]

VARIABLES
  lock, expecting_interrupt, completion_wait,  \* struct channel
  status, cmd, dev_no, sector, data,           \* the registers
  intrq,                                       \* the interrupt is pending
  content,                                     \* what the disks hold
  pc, op, disk, sec_no, buffer,                \* each thread's call
  unknown, usable,  \* the disks not identified yet, and those registered
  spurious,         \* how many interrupts came unasked
  panic

channelVars == <<expecting_interrupt, completion_wait>>
registers == <<status, cmd, dev_no, sector, data>>
args == <<op, disk, sec_no, buffer>>
rest == <<unknown, usable, spurious, panic>>
ideVars == <<lock, channelVars, registers, intrq, content, pc, args, rest>>

Op == {"read", "write", "identify"}
Label == {"idle", "lock", "select", "expect", "command", "down", "wait",
          "release"}

anySector == CHOOSE s \in Sector : TRUE
anyData == CHOOSE d \in Data : TRUE

IdeInit ==
  /\ lock = [c \in Channel |-> NoThread]
  /\ expecting_interrupt = [c \in Channel |-> FALSE]
  /\ completion_wait = [c \in Channel |-> 0]
  /\ status = [c \in Channel |-> "idle"]
  /\ cmd = [c \in Channel |-> "identify"]
  /\ dev_no = [c \in Channel |-> 0]
  /\ sector = [c \in Channel |-> anySector]
  /\ data = [c \in Channel |-> anyData]
  /\ intrq = [c \in Channel |-> FALSE]
  /\ content \in [Attached -> [Sector -> Data]]
  /\ pc = [t \in Thread |-> "idle"]
  /\ op = [t \in Thread |-> "identify"]
  /\ disk = [t \in Thread |-> 0]
  /\ sec_no = [t \in Thread |-> anySector]
  /\ buffer = [t \in Thread |-> anyData]
  /\ unknown = Attached /\ usable = {}
  /\ spurious = 0
  /\ panic = FALSE

chan(t) == channel_of(disk[t])
goto(t, from, to) == pc[t] = from /\ pc' = [pc EXCEPT ![t] = to]

\* identify_ata_device() is called, for the disks in the order of their
\* names.  Nothing else uses the disks yet, and it does not take the lock.
identify_ata_device ==
  /\ goto(Main, "idle", "select")
  /\ \E k \in unknown :
       /\ \A j \in unknown : k <= j
       /\ disk' = [disk EXCEPT ![Main] = k]
  /\ op' = [op EXCEPT ![Main] = "identify"]
  /\ UNCHANGED <<lock, channelVars, registers, intrq, content, sec_no, buffer,
                 rest>>

\* ide_read() or ide_write() is called; at first by partition_scan() only.
ide_access(t) ==
  /\ goto(t, "idle", "lock")
  /\ \E k \in usable, s \in Sector, d \in Data, o \in {"read", "write"} :
       /\ unknown = {} \/ (t = Main /\ o = "read")
       /\ o = "read" => d = anyData
       /\ op' = [op EXCEPT ![t] = o]
       /\ disk' = [disk EXCEPT ![t] = k]
       /\ sec_no' = [sec_no EXCEPT ![t] = s]
       /\ buffer' = [buffer EXCEPT ![t] = d]
  /\ UNCHANGED <<lock, channelVars, registers, intrq, content, rest>>

lock_acquire(t) ==
  /\ goto(t, "lock", "select")
  /\ lock[chan(t)] = NoThread
  /\ lock' = [lock EXCEPT ![chan(t)] = t]
  /\ UNCHANGED <<channelVars, registers, intrq, content, args, rest>>

\* wait_until_idle() waits until BSY and DRQ are clear.  It gives up after
\* 1000 polls, which is taken to be later than any drive needs.
wait_until_idle(c) == status[c] = "idle"

\* wait_while_busy() waits until BSY is clear, and then looks at DRQ.  A
\* drive that stays busy for 30 s is a drive that fails.
wait_while_busy(c) == status[c] \notin {"busy", "storing"}

\* select_device_wait() polls the status register, which may clear a pending
\* interrupt.  (identify has no use for the sector.)
select_sector(t) ==
  /\ goto(t, "select", "expect")
  /\ wait_until_idle(chan(t))
  /\ dev_no' = [dev_no EXCEPT ![chan(t)] = dev_no_of(disk[t])]
  /\ sector' = [sector EXCEPT ![chan(t)] = sec_no[t]]
  /\ \E i \in {FALSE, intrq[chan(t)]} : intrq' = [intrq EXCEPT ![chan(t)] = i]
  /\ UNCHANGED <<lock, channelVars, status, cmd, data, content, args, rest>>

\* issue_pio_command(): the flag, and then the command.
expect(t) ==
  /\ goto(t, "expect", "command")
  /\ expecting_interrupt' = [expecting_interrupt EXCEPT ![chan(t)] = TRUE]
  /\ UNCHANGED <<lock, completion_wait, registers, intrq, content, args, rest>>

command(t) ==
  /\ goto(t, "command", IF op[t] = "write" THEN "wait" ELSE "down")
  /\ status' = [status EXCEPT ![chan(t)] = "busy"]
  /\ cmd' = [cmd EXCEPT ![chan(t)] = op[t]]
  /\ UNCHANGED <<lock, channelVars, dev_no, sector, data, intrq, content, args,
                 rest>>

\* Bug variant: the semaphore must be above 1.
sema_down_Two(t) ==
  /\ goto(t, "down", IF op[t] = "write" THEN "release" ELSE "wait")
  /\ completion_wait[chan(t)] > 1
  /\ completion_wait' = [completion_wait EXCEPT ![chan(t)] = @ - 1]
  /\ UNCHANGED <<lock, expecting_interrupt, registers, intrq, content, args,
                 rest>>

\* sema_down (&c->completion_wait)
sema_down(t) ==
  /\ goto(t, "down", IF op[t] = "write" THEN "release" ELSE "wait")
  /\ completion_wait[chan(t)] > 0
  /\ completion_wait' = [completion_wait EXCEPT ![chan(t)] = @ - 1]
  /\ UNCHANGED <<lock, expecting_interrupt, registers, intrq, content, args,
                 rest>>

\* The drive has no data, and wants none.
PANIC(t) ==
  /\ pc[t] = "wait" /\ op[t] # "identify"
  /\ wait_while_busy(chan(t)) /\ status[chan(t)] # "drq"
  /\ panic' = TRUE
  /\ UNCHANGED <<lock, channelVars, registers, intrq, content, pc, args,
                 unknown, usable, spurious>>

\* Bug variant: a read does not poll BSY after the interrupt.
input_sector_NoWait(t) ==
  /\ goto(t, "wait", "release") /\ op[t] = "read"
  /\ buffer' = [buffer EXCEPT ![t] = data[chan(t)]]
  /\ status' = [status EXCEPT ![chan(t)] = "idle"]
  /\ UNCHANGED <<lock, channelVars, cmd, dev_no, sector, data, intrq, content,
                 op, disk, sec_no, rest>>

input_sector(t) ==
  /\ goto(t, "wait", "release") /\ op[t] = "read"
  /\ wait_while_busy(chan(t)) /\ status[chan(t)] = "drq"
  /\ buffer' = [buffer EXCEPT ![t] = data[chan(t)]]
  /\ status' = [status EXCEPT ![chan(t)] = "idle"]
  /\ UNCHANGED <<lock, channelVars, cmd, dev_no, sector, data, intrq, content,
                 op, disk, sec_no, rest>>

\* The end of identify_ata_device(): a disk that answers, and is not too
\* large, is registered.
identified ==
  LET c == chan(Main)
  IN  /\ goto(Main, "wait", "idle") /\ op[Main] = "identify"
      /\ wait_while_busy(c)
      /\ \E good \in {status[c] = "drq", FALSE} :
           usable' = IF good THEN usable \cup {disk[Main]} ELSE usable
      /\ unknown' = unknown \ {disk[Main]}
      /\ status' = [status EXCEPT ![c] = "idle"]
      /\ disk' = [disk EXCEPT ![Main] = 0]
      /\ UNCHANGED <<lock, channelVars, cmd, dev_no, sector, data, intrq,
                     content, op, sec_no, buffer, spurious, panic>>

\* Bug variant: ide_write() does not wait for the completion.
output_sector_Return(t) ==
  /\ goto(t, "wait", "release") /\ op[t] = "write"
  /\ wait_while_busy(chan(t)) /\ status[chan(t)] = "drq"
  /\ status' = [status EXCEPT ![chan(t)] = "storing"]
  /\ data' = [data EXCEPT ![chan(t)] = buffer[t]]
  /\ UNCHANGED <<lock, channelVars, cmd, dev_no, sector, intrq, content, args,
                 rest>>

output_sector(t) ==
  /\ goto(t, "wait", "down") /\ op[t] = "write"
  /\ wait_while_busy(chan(t)) /\ status[chan(t)] = "drq"
  /\ status' = [status EXCEPT ![chan(t)] = "storing"]
  /\ data' = [data EXCEPT ![chan(t)] = buffer[t]]
  /\ UNCHANGED <<lock, channelVars, cmd, dev_no, sector, intrq, content, args,
                 rest>>

\* The call returns and its arguments are forgotten.
lock_release(t) ==
  /\ goto(t, "release", "idle")
  /\ lock' = [lock EXCEPT ![chan(t)] = NoThread]
  /\ op' = [op EXCEPT ![t] = "identify"]
  /\ disk' = [disk EXCEPT ![t] = 0]
  /\ sec_no' = [sec_no EXCEPT ![t] = anySector]
  /\ buffer' = [buffer EXCEPT ![t] = anyData]
  /\ UNCHANGED <<channelVars, registers, intrq, content, rest>>

\* What a thread does inside a call.
Step(t) ==
  \/ lock_acquire(t) \/ select_sector(t) \/ expect(t) \/ command(t)
  \/ sema_down(t) \/ PANIC(t) \/ input_sector(t) \/ output_sector(t)
  \/ lock_release(t)

interrupt_handler(c) ==
  /\ intrq[c]
  /\ intrq' = [intrq EXCEPT ![c] = FALSE]
  /\ completion_wait' = [completion_wait EXCEPT
                           ![c] = IF expecting_interrupt[c] THEN @ + 1 ELSE @]
  /\ UNCHANGED <<lock, expecting_interrupt, registers, content, pc, args, rest>>

\* The disk that is selected on a channel.
selected(c) == 2 * c + dev_no[c]

\* The drive has the data of a read, or asks for the data of a write.
ready(c) ==
  /\ status[c] = "busy"
  /\ status' = [status EXCEPT ![c] = "drq"]
  /\ data' = [data EXCEPT ![c] = IF cmd[c] = "read"
                                 THEN content[selected(c)][sector[c]] ELSE @]
  /\ intrq' = [intrq EXCEPT ![c] = @ \/ cmd[c] # "write"]
  /\ UNCHANGED <<lock, channelVars, cmd, dev_no, sector, content, pc, args, rest>>

\* The drive gives the command up.
fail(c) ==
  /\ status[c] = "busy"
  /\ status' = [status EXCEPT ![c] = "idle"]
  /\ intrq' = [intrq EXCEPT ![c] = TRUE]
  /\ UNCHANGED <<lock, channelVars, cmd, dev_no, sector, data, content, pc,
                 args, rest>>

\* The drive has stored the data of a write.
store(c) ==
  /\ status[c] = "storing"
  /\ status' = [status EXCEPT ![c] = "idle"]
  /\ content' = [content EXCEPT ![selected(c)][sector[c]] = data[c]]
  /\ intrq' = [intrq EXCEPT ![c] = TRUE]
  /\ UNCHANGED <<lock, channelVars, cmd, dev_no, sector, data, pc, args, rest>>

\* An interrupt that no command of ours has caused.
unasked(c) ==
  /\ spurious < MaxSpurious
  /\ ~intrq[c]
  /\ intrq' = [intrq EXCEPT ![c] = TRUE]
  /\ spurious' = spurious + 1
  /\ UNCHANGED <<lock, channelVars, registers, content, pc, args, unknown,
                 usable, panic>>

IdeNext ==
  /\ ~panic
  /\ \/ identify_ata_device \/ identified
     \/ \E t \in Thread : ide_access(t) \/ Step(t)
     \/ \E c \in Channel :
          interrupt_handler(c) \/ ready(c) \/ fail(c) \/ store(c) \/ unasked(c)

\* Threads inside a call run on, interrupts are delivered and the drives
\* answer; nobody has to make a call.
IdeFairness ==
  /\ WF_ideVars(~panic /\ identified)
  /\ \A t \in Thread : WF_ideVars(~panic /\ Step(t))
  /\ \A c \in Channel :
       /\ WF_ideVars(~panic /\ interrupt_handler(c))
       /\ WF_ideVars(~panic /\ (ready(c) \/ fail(c) \/ store(c)))

-----------------------------------------------------------------------------

IdeTypeOK ==
  /\ lock \in [Channel -> Thread \cup {NoThread}]
  /\ expecting_interrupt \in [Channel -> BOOLEAN]
  /\ completion_wait \in [Channel -> Nat]
  /\ status \in [Channel -> {"idle", "busy", "drq", "storing"}]
  /\ cmd \in [Channel -> Op] /\ dev_no \in [Channel -> {0, 1}]
  /\ sector \in [Channel -> Sector] /\ data \in [Channel -> Data]
  /\ intrq \in [Channel -> BOOLEAN]
  /\ content \in [Attached -> [Sector -> Data]]
  /\ pc \in [Thread -> Label] /\ op \in [Thread -> Op]
  /\ disk \in [Thread -> Attached \cup {0}]
  /\ sec_no \in [Thread -> Sector] /\ buffer \in [Thread -> Data]
  /\ unknown \subseteq Attached /\ usable \subseteq Attached
  /\ spurious \in Nat /\ panic \in BOOLEAN

\* What the disks hold once the drives have stored what they were given.
After(k, s) ==
  LET c == channel_of(k)
  IN  IF status[c] = "storing" /\ dev_no[c] = dev_no_of(k) /\ sector[c] = s
      THEN data[c] ELSE content[k][s]
Settled == [k \in Attached |-> [s \in Sector |-> After(k, s)]]

\* A read takes effect when the data register is read, a write when it is
\* written.
done(t) == pc[t] = "release" \/ (pc[t] = "down" /\ op[t] = "write")
Accessed(t) ==
  IF op[t] = "identify" THEN NoAccess
  ELSE [state |-> IF done(t) THEN "done" ELSE "asked", op |-> op[t],
        disk |-> disk[t], sector |-> sec_no[t], data |-> buffer[t]]

Abstract == INSTANCE Device
              WITH Disk <- Attached, content <- Settled,
                   access <- [t \in Thread |-> Accessed(t)]

\* "Internally synchronizes accesses to disks, so external per-disk locking
\* is unneeded" (ide.c): whatever the threads of one channel or of two do,
\* and even if interrupts that nobody asked for release the semaphore too
\* early, each sector is read and written as if at one instant.
AccessesAtomic == Abstract!Spec

\* The thread works with the channel; the drive works on its command.
inside(t, c) == pc[t] \notin {"idle", "lock"} /\ chan(t) = c
waiting(t) == pc[t] = "wait" \/ (pc[t] = "down" /\ op[t] # "write")

\* Who may be inside: the main thread alone while it identifies the disks,
\* then the holder of the lock.
User(t) ==
  /\ unknown # {} /\ t # Main => pc[t] = "idle"
  /\ pc[t] = "idle" => op[t] = "identify"
  /\ op[t] = "identify" /\ pc[t] # "idle" =>
       t = Main /\ disk[t] \in unknown /\ pc[t] \notin {"lock", "release"}
  /\ op[t] # "identify" =>
       /\ disk[t] \in usable
       /\ pc[t] # "lock" => lock[chan(t)] = t
Users == \A t \in Thread : User(t)

\* The registers are the caller's: from select_sector() until it releases
\* the lock, the drive works for its disk and its sector.
RegistersOwned ==
  \A t \in Thread :
    pc[t] \in {"expect", "command", "down", "wait",
          "release"} =>
      /\ op[t] # "identify" => lock[chan(t)] = t
      /\ dev_no[chan(t)] = dev_no_of(disk[t])
      /\ sector[chan(t)] = sec_no[t]

\* What the drive is doing follows from where its user is.
Follows(t) ==
  LET c == chan(t)
  IN  /\ pc[t] \in {"expect", "command"} => status[c] = "idle"
      /\ pc[t] \in {"command", "down", "wait"} => expecting_interrupt[c]
      /\ waiting(t) =>
           /\ cmd[c] = op[t] /\ status[c] # "storing"
           /\ status[c] = "drq" /\ op[t] = "read" =>
                data[c] = content[disk[t]][sec_no[t]]
Worked(c) ==
  status[c] \in {"busy", "drq"} => \E t \in Thread : chan(t) = c /\ waiting(t)
DriveFollows == (\A t \in Thread : Follows(t)) /\ (\A c \in Channel : Worked(c))

\* The completions of a channel, unless an interrupt came unasked: one for
\* each command, and none when nobody uses it.
none(c) == ~intrq[c] /\ completion_wait[c] = 0
one(c) == completion_wait[c] = IF intrq[c] THEN 0 ELSE 1
Unused(c) ==
  (\A t \in Thread : ~inside(t, c)) => none(c) /\ status[c] = "idle"
Completes(t) ==
  LET c == chan(t)
  IN  /\ pc[t] \in {"select", "expect", "command", "release"} =>
           none(c) /\ status[c] = "idle"
      /\ pc[t] = "down" /\ op[t] # "write" =>
           IF status[c] = "busy" THEN none(c) ELSE one(c)
      /\ pc[t] = "wait" /\ op[t] # "write" => none(c) /\ status[c] # "busy"
      /\ pc[t] = "wait" /\ op[t] = "write" /\ status[c] # "idle" => none(c)
      /\ pc[t] = "down" /\ op[t] = "write" =>
           IF status[c] = "storing" THEN none(c) ELSE one(c) /\ status[c] = "idle"
Completions ==
  spurious = 0 =>
    (\A c \in Channel : Unused(c)) /\ (\A t \in Thread : Completes(t))

\* The inductive invariant of the driver: its types, who may use a channel,
\* what the drive is doing then, and which completions are outstanding.
IdeInv == IdeTypeOK /\ Users /\ RegistersOwned /\ DriveFollows /\ Completions

\* ide_write() "returns after the disk has acknowledged receiving the data":
\* unless an interrupt came unasked, the drive has stored the data when a
\* call returns, and no completion is left for the next one.
NothingOutstanding ==
  \A t \in Thread :
    spurious = 0 /\ pc[t] = "release" =>
      /\ status[chan(t)] = "idle"
      /\ ~intrq[chan(t)]
      /\ completion_wait[chan(t)] = 0

\* No completion is lost, not even the one of the first command: a thread
\* that waits for the disk gets on, or the drive has failed and the machine
\* stops.
WaitsEnd ==
  \A t \in Thread : pc[t] = "down" ~> pc[t] # "down" \/ panic

\* From select_sector() to lock_release() the drive is the caller's, and it
\* has nothing left to do when the call returns.
CallsExclusive == RegistersOwned /\ NothingOutstanding
=============================================================================

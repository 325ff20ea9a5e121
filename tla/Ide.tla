-------------------------------- MODULE Ide --------------------------------
(***************************************************************************)
(* The path of a sector to the disk: block devices (devices/block.c), the  *)
(* partitions they may stand for (devices/partition.c) and one ATA channel *)
(* with two disks (devices/ide.c).                                         *)
(*                                                                         *)
(* Only the holder of the channel's lock touches its registers, so its     *)
(* code is divided where it waits: for the lock, for the disk to be idle,  *)
(* for the completion interrupt, for BSY to clear.  The disk is external:  *)
(* it may fail a command, and may interrupt when nothing was asked of it.  *)
(***************************************************************************)
EXTENDS Integers, Sequences

CONSTANTS
  Threads,
  initial_thread,   \* runs ide_init before the others use the disks
  Blocks,           \* [name -> [disk, start, size]], as partitions are found
  Capacity,         \* sectors of a disk
  Values,
  Zero,
  MaxSpurious,      \* bound on unasked interrupts
  NULL,
  NoRequest

Disks == {0, 1}     \* master and slave

VARIABLES
  lock,             \* c->lock
  expecting_interrupt,
  completion_wait,  \* value of the semaphore
  is_ata,           \* [disk -> was it found to be an ATA disk]
  pc, req, buffer,  \* [thread -> where it is, its call, what it read]
  selected,         \* registers of the channel: device and sector
  status,           \* what the selected device is doing
  data,             \* its sector buffer
  media,            \* [<<disk, sector>> -> value], for the sectors of Blocks
  intrq,            \* the channel's interrupt is pending
  spurious,         \* unasked interrupts so far
  panicked

driverVars == <<lock, expecting_interrupt, completion_wait, is_ata>>
deviceVars == <<selected, status, data, media, intrq, spurious>>
vars == <<driverVars, pc, req, buffer, deviceVars, panicked>>

\* Sectors of block devices, as callers name them.
BlockSectors == {bs \in (DOMAIN Blocks) \X (0 .. Capacity - 1) :
                   bs[2] < Blocks[bs[1]].size}

\* partition_read and partition_write: the disk and sector behind a block.
Location(bs) == <<Blocks[bs[1]].disk, Blocks[bs[1]].start + bs[2]>>

\* The data the device has taken counts as stored.
Store ==
  [bs \in BlockSectors |->
     [i \in {0} |-> IF status = "writing" /\ selected = Location(bs) THEN data
                    ELSE media[Location(bs)]]]

\* A call is carried out when its data has been moved.
Pending ==
  [t \in Threads |->
     IF pc[t] \in {"ack", "unlock"} \/ req[t] = NoRequest \/ req[t].op = "identify"
     THEN NoRequest ELSE req[t]]

Abstract ==
  INSTANCE BlockStore WITH store <- Store, req <- Pending, BLOCK_SECTOR_SIZE <- 1,
                           Sectors <- BlockSectors

Identify(disk) == [op |-> "identify", disk |-> disk]

\* The disk a thread's call goes to, and the sector.
Target(t) ==
  IF req[t].op = "identify" THEN <<req[t].disk, 0>> ELSE Location(req[t].sector)

\* The blocks in use are apart: a sector is part of one of them.
IdeAssumption ==
  /\ initial_thread \in Threads
  /\ NULL \notin Threads
  /\ Zero \in Values
  /\ NoRequest \notin Abstract!Requests \cup {Identify(d) : d \in Disks}
  /\ \A x, y \in BlockSectors : Location(x) = Location(y) => x = y

Init ==
  /\ lock = NULL
  /\ expecting_interrupt = FALSE
  /\ completion_wait = 0
  /\ is_ata = [d \in Disks |-> FALSE]
  /\ pc = [t \in Threads |-> IF t = initial_thread THEN "detect" ELSE "boot"]
  /\ req = [t \in Threads |-> NoRequest]
  /\ buffer = [t \in Threads |-> Abstract!Zeros]
  /\ selected = <<0, 0>>
  /\ status = "idle"
  /\ data = Zero
  /\ media \in [{Location(bs) : bs \in BlockSectors} -> Values]
  /\ intrq = FALSE
  /\ spurious = 0
  /\ panicked = FALSE

Goto(t, p) == pc' = [pc EXCEPT ![t] = p]

-----------------------------------------------------------------------------
(* ide_init                                                                *)

\* reset_channel and check_device_type: which of the devices are ATA disks.
\* A slave is only looked for when the master may have one.
Detect(t) ==
  /\ pc[t] = "detect"
  /\ is_ata' \in {f \in [Disks -> BOOLEAN] : f[0] \/ ~f[1]}
  /\ Goto(t, "scan")
  /\ UNCHANGED <<lock, expecting_interrupt, completion_wait, req, buffer,
                 deviceVars, panicked>>

\* identify_ata_device for each disk in turn, without the lock: nobody else
\* knows of the channel yet.  The blocks are then in use.
Scan(t) ==
  /\ pc[t] = "scan"
  /\ LET done == IF req[t] = NoRequest THEN {} ELSE 0 .. req[t].disk
         todo == {d \in Disks \ done : is_ata[d]}
     IN  IF todo = {}
         THEN /\ req' = [req EXCEPT ![t] = NoRequest]
              /\ pc' = [u \in Threads |-> "idle"]
         ELSE /\ req' = [req EXCEPT ![t] =
                           Identify(CHOOSE d \in todo : \A e \in todo : d <= e)]
              /\ Goto(t, "select")
  /\ UNCHANGED <<driverVars, buffer, deviceVars, panicked>>

-----------------------------------------------------------------------------
(* block_read, block_write, ide_read, ide_write                            *)

Call(t, r) ==
  /\ pc[t] = "idle"
  /\ is_ata[Location(r.sector)[1]]
  /\ req' = [req EXCEPT ![t] = r]
  /\ buffer' = [buffer EXCEPT ![t] = Abstract!Zeros]
  /\ Goto(t, "lock")
  /\ UNCHANGED <<driverVars, deviceVars, panicked>>

\* check_sector stops the kernel.
CallPastEnd(t) ==
  /\ pc[t] = "idle"
  /\ panicked' = TRUE
  /\ UNCHANGED <<driverVars, pc, req, buffer, deviceVars>>

Acquire(t) ==
  /\ pc[t] = "lock"
  /\ lock = NULL
  /\ lock' = t
  /\ Goto(t, "select")
  /\ UNCHANGED <<expecting_interrupt, completion_wait, is_ata, req, buffer,
                 deviceVars, panicked>>

\* Fault: the device bit is left out of the register.
select_sector_master(t) == selected' = <<0, Target(t)[2]>>

select_sector(t) == selected' = Target(t)

\* select_device_wait and the registers.  Reading the status of an idle
\* device clears its interrupt.
Select(t) ==
  /\ pc[t] = "select"
  /\ status = "idle"
  /\ intrq' = FALSE
  /\ select_sector(t)
  /\ Goto(t, "issue")
  /\ UNCHANGED <<driverVars, req, buffer, status, data, media, spurious,
                 panicked>>

\* Fault: the interrupt is not announced.
issue_pio_command_unexpected(t) ==
  /\ status' = IF req[t].op = "write" THEN "accepting" ELSE "reading"
  /\ UNCHANGED expecting_interrupt

issue_pio_command(t) ==
  /\ status' = IF req[t].op = "write" THEN "accepting" ELSE "reading"
  /\ expecting_interrupt' = TRUE

Issue(t) ==
  /\ pc[t] = "issue"
  /\ issue_pio_command(t)
  /\ Goto(t, IF req[t].op = "write" THEN "busy" ELSE "wait")
  /\ UNCHANGED <<lock, completion_wait, is_ata, req, buffer, selected, data,
                 media, intrq, spurious, panicked>>

\* sema_down before the data of a read, and after the data of a write.
Completed(t) ==
  /\ pc[t] \in {"wait", "ack"}
  /\ completion_wait > 0
  /\ completion_wait' = completion_wait - 1
  /\ Goto(t, IF pc[t] = "wait" THEN "busy" ELSE "unlock")
  /\ UNCHANGED <<lock, expecting_interrupt, is_ata, req, buffer, deviceVars,
                 panicked>>

\* wait_while_busy: BSY is clear.
wait_while_busy == status \in {"idle", "drq_in", "drq_out"}

\* wait_while_busy returns DRQ; then input_sector or output_sector.
Transfer(t) ==
  /\ pc[t] = "busy"
  /\ wait_while_busy
  /\ status # "idle"
  /\ CASE req[t].op = "read" ->
            /\ buffer' = [buffer EXCEPT ![t] = [i \in {0} |-> data]]
            /\ status' = "idle"
            /\ Goto(t, "unlock")
            /\ UNCHANGED data
       [] req[t].op = "identify" ->
            /\ status' = "idle"
            /\ Goto(t, "scan")
            /\ UNCHANGED <<buffer, data>>
       [] OTHER ->
            /\ data' = req[t].byte
            /\ status' = "writing"
            /\ Goto(t, "ack")
            /\ UNCHANGED buffer
  /\ UNCHANGED <<driverVars, req, selected, media, intrq, spurious, panicked>>

\* Without DRQ a read or a write stops the kernel; a disk that does not
\* answer IDENTIFY is no disk.
TransferFailed(t) ==
  /\ pc[t] = "busy"
  /\ status = "idle"
  /\ IF req[t].op = "identify"
     THEN /\ is_ata' = [is_ata EXCEPT ![req[t].disk] = FALSE]
          /\ Goto(t, "scan")
          /\ UNCHANGED panicked
     ELSE panicked' = TRUE /\ UNCHANGED <<is_ata, pc>>
  /\ UNCHANGED <<lock, expecting_interrupt, completion_wait, req, buffer,
                 deviceVars>>

Release(t) ==
  /\ pc[t] = "unlock"
  /\ lock' = NULL
  /\ req' = [req EXCEPT ![t] = NoRequest]
  /\ Goto(t, "idle")
  /\ UNCHANGED <<expecting_interrupt, completion_wait, is_ata, buffer,
                 deviceVars, panicked>>

-----------------------------------------------------------------------------
(* The disk and its interrupt                                              *)

\* interrupt_handler: an interrupt nobody expects is only reported.
interrupt_handler ==
  /\ intrq
  /\ intrq' = FALSE
  /\ completion_wait' = completion_wait + (IF expecting_interrupt THEN 1 ELSE 0)
  /\ UNCHANGED <<lock, expecting_interrupt, is_ata, pc, req, buffer, selected,
                 status, data, media, spurious, panicked>>

\* The device has the sector ready, is ready for the sector, or has stored it.
Device ==
  /\ \/ /\ status = "reading"
        /\ status' = "drq_in"
        /\ data' = IF selected \in DOMAIN media THEN media[selected] ELSE Zero
        /\ intrq' = TRUE
        /\ UNCHANGED media
     \/ /\ status = "accepting"
        /\ status' = "drq_out"
        /\ UNCHANGED <<data, media, intrq>>
     \/ /\ status = "writing"
        /\ status' = "idle"
        /\ media' = [media EXCEPT ![selected] = data]
        /\ intrq' = TRUE
        /\ UNCHANGED data
  /\ UNCHANGED <<driverVars, pc, req, buffer, selected, spurious, panicked>>

DeviceFails ==
  /\ status \in {"reading", "accepting"}
  /\ status' = "idle"
  /\ intrq' = TRUE
  /\ UNCHANGED <<driverVars, pc, req, buffer, selected, data, media, spurious,
                 panicked>>

Spurious ==
  /\ spurious < MaxSpurious
  /\ ~intrq
  /\ spurious' = spurious + 1
  /\ intrq' = TRUE
  /\ UNCHANGED <<driverVars, pc, req, buffer, selected, status, data, media,
                 panicked>>

-----------------------------------------------------------------------------
Step(t) ==
  \/ Detect(t) \/ Scan(t) \/ Acquire(t) \/ Select(t) \/ Issue(t)
  \/ Completed(t) \/ Transfer(t) \/ TransferFailed(t) \/ Release(t)

Next ==
  /\ ~panicked
  /\ \/ \E t \in Threads :
          Step(t) \/ CallPastEnd(t) \/ \E r \in Abstract!Requests : Call(t, r)
     \/ interrupt_handler \/ Device \/ DeviceFails \/ Spurious

Spec == Init /\ [][Next]_vars

-----------------------------------------------------------------------------
\* Reads and writes of the sectors of all blocks take effect one at a time,
\* each within its call, also when the disk interrupts at the wrong time:
\* ide_read and ide_write implement the store the buffer cache relies on.
SectorsAtomic == Abstract!StoreSpec

\* A thread that waits for the completion of its command will be woken: the
\* semaphore has been raised, or an interrupt that the handler will take for
\* a completion is pending or will follow what the disk is doing.
CompletionComing ==
  \A t \in Threads :
    pc[t] \in {"wait", "ack"} =>
      \/ completion_wait > 0
      \/ expecting_interrupt /\ (intrq \/ status \in {"reading", "writing"})
=============================================================================

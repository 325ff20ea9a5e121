----------------------------- MODULE IdeProofs -----------------------------
(***************************************************************************)
(* Proofs about Ide, for any threads, disks and blocks that do not overlap *)
(* and any number of interrupts nobody asked for: a waiting thread will be *)
(* woken, and the channel implements the store of BlockStore.              *)
(***************************************************************************)
EXTENDS Ide, TLAPS

Sites == {Location(bs) : bs \in BlockSectors}

Statuses == {"idle", "reading", "accepting", "drq_in", "drq_out", "writing"}

TypeOK ==
  /\ completion_wait \in Nat
  /\ expecting_interrupt \in BOOLEAN
  /\ intrq \in BOOLEAN
  /\ is_ata \in [Disks -> BOOLEAN]
  /\ DOMAIN pc = Threads
  /\ DOMAIN req = Threads
  /\ DOMAIN buffer = Threads
  /\ \A t \in Threads : buffer[t] \in Abstract!Contents
  /\ status \in Statuses
  /\ data \in Values
  /\ media \in [Sites -> Values]

\* ide_init still runs, in the initial thread.
Booting ==
  \/ pc[initial_thread] \in {"detect", "scan"}
  \/ req[initial_thread] \in {Identify(d) : d \in Disks}

\* The initial thread alone uses the channel, without the lock.
BootAlone ==
  /\ lock = NULL
  /\ \A t \in Threads \ {initial_thread} : pc[t] = "boot" /\ req[t] = NoRequest
  /\ pc[initial_thread] \in {"detect", "scan", "select", "issue", "wait", "busy"}
  /\ pc[initial_thread] = "detect" => req[initial_thread] = NoRequest
  /\ pc[initial_thread] = "scan" =>
       req[initial_thread] \in {NoRequest} \cup {Identify(d) : d \in Disks}

\* Where a thread uses the registers of the channel.
OnChannel(t) == pc[t] \in {"select", "issue", "wait", "busy", "ack", "unlock"}

\* The threads use the channel with the lock held, each for a proper request.
Locked ==
  /\ lock \in Threads \cup {NULL}
  /\ \A t \in Threads :
       /\ pc[t] \in {"idle", "lock"} \/ OnChannel(t)
       /\ OnChannel(t) <=> lock = t
       /\ IF pc[t] = "idle" THEN req[t] = NoRequest ELSE req[t] \in Abstract!Requests

\* What a thread that uses the channel can rely on: its command is the one the
\* device works on, in the phase that its place allows.
CommandsMatch ==
  \A t \in Threads :
    /\ pc[t] \in {"issue", "wait", "busy", "ack"} => selected = Target(t)
    /\ pc[t] \in {"wait", "busy", "ack"} => expecting_interrupt
    /\ pc[t] = "issue" => status = "idle"
    /\ pc[t] = "wait" => req[t].op # "write" /\ status \in {"reading", "drq_in", "idle"}
    /\ pc[t] = "busy" => IF req[t].op = "write"
                         THEN status \in {"accepting", "drq_out", "idle"}
                         ELSE status \in {"reading", "drq_in", "idle"}
    /\ pc[t] = "ack" => req[t].op = "write" /\ status \in {"writing", "idle"}

\* A write may outlast its call, nothing else does, and it goes to a block.
DeviceSettles ==
  /\ (\A t \in Threads : pc[t] \notin {"wait", "busy", "ack"}) => status \in {"idle", "writing"}
  /\ status = "writing" => selected \in Sites
  /\ status = "drq_in" /\ selected \in Sites => data = media[selected]

\* The inductive invariant.
Inv ==
  /\ TypeOK
  /\ IF Booting THEN BootAlone ELSE Locked
  /\ CommandsMatch
  /\ DeviceSettles
  /\ CompletionComing

-----------------------------------------------------------------------------
\* A request reads or writes a sector of a block; IDENTIFY does neither.
LEMMA RequestType ==
  ASSUME IdeAssumption
  PROVE  /\ \A r \in Abstract!Requests :
              /\ r.op \in {"read", "write"}
              /\ r.sector \in BlockSectors
              /\ Location(r.sector) \in Sites
              /\ r.op = "write" => r.byte \in Values
              /\ r # NoRequest
         /\ \A d \in Disks : Identify(d).op = "identify" /\ Identify(d).disk = d
         /\ NoRequest \notin {Identify(d) : d \in Disks}
BY Zenon DEF Abstract!Requests, Abstract!ReadRequests, Abstract!WriteRequests, Sites,
       IdeAssumption, Identify

\* One thread at a time uses the channel, for a request or for IDENTIFY.
LEMMA OneCommand ==
  ASSUME IdeAssumption, Inv, NEW t \in Threads, OnChannel(t)
  PROVE  /\ \A u \in Threads \ {t} : ~OnChannel(u)
         /\ \/ req[t] \in Abstract!Requests /\ ~Booting
            \/ req[t] \in {Identify(d) : d \in Disks} /\ t = initial_thread /\ Booting
         /\ pc[t] \in {"ack", "unlock"} => ~Booting
BY Zenon DEF Inv, Booting, BootAlone, Locked, OnChannel, IdeAssumption

\* Buffers of one byte.
LEMMA BufferType ==
  ASSUME IdeAssumption
  PROVE  /\ Abstract!Zeros \in Abstract!Contents
         /\ \A v \in Values : [i \in {0} |-> v] \in Abstract!Contents
BY DEF IdeAssumption, Abstract!Zeros, Abstract!Contents, Abstract!Offsets

\* The driver starts with ide_init in the initial thread and an idle device.
LEMMA InitInv == ASSUME IdeAssumption PROVE Init => Inv
<1> SUFFICES ASSUME Init PROVE Inv
  BY Zenon
<1>1. TypeOK
  BY Zenon, BufferType DEF Init, TypeOK, Statuses, Sites, IdeAssumption
<1>2. Booting /\ BootAlone
  BY Zenon DEF Init, Booting, BootAlone, IdeAssumption
<1>3. CommandsMatch /\ DeviceSettles /\ CompletionComing
  BY Zenon DEF Init, CommandsMatch, DeviceSettles, CompletionComing, IdeAssumption
<1>4. QED
  BY Zenon, <1>1, <1>2, <1>3 DEF Inv

-----------------------------------------------------------------------------
(* Each step keeps the invariant. *)

\* reset_channel and check_device_type touch no register of a command.
LEMMA DetectKeeps ==
  ASSUME IdeAssumption, Inv, NEW t \in Threads, Detect(t)
  PROVE  Inv'
<1> USE RequestType, BufferType, OneCommand DEF Detect, Goto, driverVars, deviceVars
<1>1. TypeOK'
  BY Zenon DEF Inv, TypeOK, Statuses, Disks, OnChannel
<1>2. (IF Booting THEN BootAlone ELSE Locked)'
  BY ZenonT(30) DEF Inv, TypeOK, Booting, BootAlone, Locked, OnChannel, IdeAssumption
<1>3. CommandsMatch'
  BY ZenonT(30) DEF Inv, TypeOK, CommandsMatch, Target, OnChannel, Booting, BootAlone, Locked
<1>4. DeviceSettles'
  BY Zenon DEF Inv, TypeOK, CommandsMatch, DeviceSettles, Target, OnChannel, Booting, BootAlone, Locked
<1>5. CompletionComing'
  BY Zenon DEF Inv, TypeOK, CommandsMatch, CompletionComing, OnChannel
<1>6. QED
  BY Zenon, <1>1, <1>2, <1>3, <1>4, <1>5 DEF Inv

\* ide_init goes on to the next disk, or lets the others use them.
LEMMA ScanKeeps ==
  ASSUME IdeAssumption, Inv, NEW t \in Threads, Scan(t)
  PROVE  Inv'
<1> DEFINE done == IF req[t] = NoRequest THEN {} ELSE 0 .. req[t].disk
           todo == {d \in Disks \ done : is_ata[d]}
<1>1. /\ pc[t] = "scan" /\ t = initial_thread /\ Booting /\ BootAlone
      /\ UNCHANGED <<driverVars, buffer, deviceVars>>
  BY Zenon DEF Scan, Inv, Booting, BootAlone, Locked, OnChannel
<1>2. \/ req' = [req EXCEPT ![t] = NoRequest] /\ pc' = [u \in Threads |-> "idle"]
      \/ \E d \in Disks : req' = [req EXCEPT ![t] = Identify(d)] /\ Goto(t, "select")
  <2>1. todo # {} => \E d \in todo : \A e \in todo : d <= e
    BY DEF Disks
  <2>2. todo # {} => (CHOOSE d \in todo : \A e \in todo : d <= e) \in Disks
    BY Zenon, <2>1
  <2>3. QED
    BY Zenon, <2>2 DEF Scan
<1> USE <1>1, <1>2, RequestType DEF Goto, driverVars, deviceVars
<1>3. TypeOK'
  BY Zenon DEF Inv, TypeOK
<1>4. (IF Booting THEN BootAlone ELSE Locked)'
  BY DEF Inv, TypeOK, Booting, BootAlone, Locked, OnChannel, IdeAssumption
<1>5. CommandsMatch'
  BY DEF Inv, TypeOK, CommandsMatch, BootAlone
<1>6. DeviceSettles'
  BY Zenon DEF Inv, TypeOK, DeviceSettles, BootAlone
<1>7. CompletionComing'
  BY ZenonT(90) DEF Inv, TypeOK, CompletionComing, BootAlone
<1>8. QED
  BY Zenon, <1>3, <1>4, <1>5, <1>6, <1>7 DEF Inv

\* A call waits for the lock with its request.
LEMMA CallKeeps ==
  ASSUME IdeAssumption, Inv, NEW t \in Threads, NEW r \in Abstract!Requests, Call(t, r)
  PROVE  Inv'
<1> USE RequestType, BufferType, OneCommand DEF Call, Goto, driverVars, deviceVars
<1>1. TypeOK'
  BY Zenon DEF Inv, TypeOK, Statuses, Disks, OnChannel
<1>2. (IF Booting THEN BootAlone ELSE Locked)'
  BY SMTT(30) DEF Inv, TypeOK, Booting, BootAlone, Locked, OnChannel, IdeAssumption
<1>3. CommandsMatch'
  BY SMTT(30) DEF Inv, TypeOK, CommandsMatch, Target, OnChannel, Booting, BootAlone, Locked
<1>4. DeviceSettles'
  BY Zenon DEF Inv, TypeOK, CommandsMatch, DeviceSettles, Target, OnChannel, Booting, BootAlone, Locked
<1>5. CompletionComing'
  BY Zenon DEF Inv, TypeOK, CommandsMatch, CompletionComing, OnChannel
<1>6. QED
  BY Zenon, <1>1, <1>2, <1>3, <1>4, <1>5 DEF Inv

\* The lock goes to one thread, and nobody used the channel.
LEMMA AcquireKeeps ==
  ASSUME IdeAssumption, Inv, NEW t \in Threads, Acquire(t)
  PROVE  Inv'
<1> USE RequestType, BufferType, OneCommand DEF Acquire, Goto, driverVars, deviceVars
<1>1. TypeOK'
  BY ZenonT(30) DEF Inv, TypeOK, Statuses, Disks, OnChannel
<1>2. (IF Booting THEN BootAlone ELSE Locked)'
  BY SMTT(30) DEF Inv, TypeOK, Booting, BootAlone, Locked, OnChannel, IdeAssumption
<1>3. CommandsMatch'
  BY SMTT(30) DEF Inv, TypeOK, CommandsMatch, Target, OnChannel, Booting, BootAlone, Locked
<1>4. DeviceSettles'
  BY Zenon DEF Inv, TypeOK, CommandsMatch, DeviceSettles, Target, OnChannel, Booting, BootAlone, Locked
<1>5. CompletionComing'
  BY Zenon DEF Inv, TypeOK, CommandsMatch, CompletionComing, OnChannel
<1>6. QED
  BY Zenon, <1>1, <1>2, <1>3, <1>4, <1>5 DEF Inv

\* select_sector waits for a write that outlasted its call.
LEMMA SelectKeeps ==
  ASSUME IdeAssumption, Inv, NEW t \in Threads, Select(t)
  PROVE  Inv'
<1> USE RequestType, BufferType, OneCommand DEF Select, select_sector, Goto, driverVars, deviceVars
<1>1. TypeOK'
  BY Zenon DEF Inv, TypeOK, Statuses, Disks, OnChannel
<1>2. (IF Booting THEN BootAlone ELSE Locked)'
  BY ZenonT(30) DEF Inv, TypeOK, Booting, BootAlone, Locked, OnChannel, IdeAssumption
<1>3. CommandsMatch'
  BY SMTT(30) DEF Inv, TypeOK, CommandsMatch, Target, OnChannel, Booting, BootAlone, Locked
<1>4. DeviceSettles'
  BY Zenon DEF Inv, TypeOK, CommandsMatch, DeviceSettles, Target, OnChannel, Booting, BootAlone, Locked
<1>5. CompletionComing'
  BY DEF Inv, TypeOK, CommandsMatch, CompletionComing, OnChannel
<1>6. QED
  BY Zenon, <1>1, <1>2, <1>3, <1>4, <1>5 DEF Inv

\* A command is issued to an idle device, which was told the sector.
LEMMA IssueKeeps ==
  ASSUME IdeAssumption, Inv, NEW t \in Threads, Issue(t)
  PROVE  Inv'
<1> USE RequestType, BufferType, OneCommand DEF Issue, issue_pio_command, Goto, driverVars, deviceVars
<1>1. TypeOK'
  BY Zenon DEF Inv, TypeOK, Statuses, Disks, OnChannel
<1>2. (IF Booting THEN BootAlone ELSE Locked)'
  BY ZenonT(30) DEF Inv, TypeOK, Booting, BootAlone, Locked, OnChannel, IdeAssumption
<1>3. CommandsMatch'
  BY SMTT(30) DEF Inv, TypeOK, CommandsMatch, Target, OnChannel, Booting, BootAlone, Locked
<1>4. DeviceSettles'
  BY ZenonT(30) DEF Inv, TypeOK, CommandsMatch, DeviceSettles, Target, OnChannel, Booting, BootAlone, Locked
<1>5. CompletionComing'
  BY ZenonT(30) DEF Inv, TypeOK, CommandsMatch, CompletionComing, OnChannel
<1>6. QED
  BY Zenon, <1>1, <1>2, <1>3, <1>4, <1>5 DEF Inv

\* A completion, even one that belongs to nobody, lets the thread go on.
LEMMA CompletedKeeps ==
  ASSUME IdeAssumption, Inv, NEW t \in Threads, Completed(t)
  PROVE  Inv'
<1> USE RequestType, BufferType, OneCommand DEF Completed, Goto, driverVars, deviceVars
<1>1. TypeOK'
  BY DEF Inv, TypeOK, Statuses, Disks, OnChannel
<1>2. (IF Booting THEN BootAlone ELSE Locked)'
  BY ZenonT(90) DEF Inv, TypeOK, Booting, BootAlone, Locked, OnChannel, IdeAssumption
<1>3. CommandsMatch'
  BY SMTT(30) DEF Inv, TypeOK, CommandsMatch, Target, OnChannel, Booting, BootAlone, Locked
<1>4. DeviceSettles'
  BY Zenon DEF Inv, TypeOK, CommandsMatch, DeviceSettles, Target, OnChannel, Booting, BootAlone, Locked
<1>5. CompletionComing'
  BY SMTT(30) DEF Inv, TypeOK, CommandsMatch, CompletionComing, OnChannel
<1>6. QED
  BY Zenon, <1>1, <1>2, <1>3, <1>4, <1>5 DEF Inv

\* The sector moves between the device and the buffer.
LEMMA TransferKeeps ==
  ASSUME IdeAssumption, Inv, NEW t \in Threads, Transfer(t)
  PROVE  Inv'
<1> USE DEF Transfer, wait_while_busy, Goto, driverVars, deviceVars
<1>1. TypeOK'
  <2>1. req[t].op \in {"read", "write", "identify"} /\ (req[t].op = "write" => req[t].byte \in Values)
    BY RequestType, OneCommand DEF OnChannel
  <2>2. status' \in Statuses /\ data' \in Values /\ DOMAIN pc' = Threads
    BY Zenon, <2>1 DEF Inv, TypeOK, Statuses
  <2>3. \/ UNCHANGED buffer
        \/ buffer' = [buffer EXCEPT ![t] = [i \in {0} |-> data]]
    BY Zenon, <2>1
  <2>4. DOMAIN buffer' = Threads /\ \A u \in Threads : buffer'[u] \in Abstract!Contents
    BY ZenonT(30), <2>3, BufferType DEF Inv, TypeOK
  <2>5. QED
    BY Zenon, <2>2, <2>4 DEF Inv, TypeOK
<1> USE RequestType, OneCommand
<1>2. (IF Booting THEN BootAlone ELSE Locked)'
  BY SMTT(30) DEF Inv, TypeOK, Booting, BootAlone, Locked, OnChannel, IdeAssumption
<1>3. CommandsMatch'
  BY SMTT(30) DEF Inv, TypeOK, CommandsMatch, Target, OnChannel, Booting, BootAlone, Locked
<1>4. DeviceSettles'
  BY DEF Inv, TypeOK, CommandsMatch, DeviceSettles, Target, OnChannel, Booting, BootAlone, Locked
<1>5. CompletionComing'
  BY DEF Inv, TypeOK, CommandsMatch, CompletionComing, OnChannel
<1>6. QED
  BY Zenon, <1>1, <1>2, <1>3, <1>4, <1>5 DEF Inv

\* A disk that does not answer is no disk; another failure stops the kernel.
LEMMA TransferFailedKeeps ==
  ASSUME IdeAssumption, Inv, NEW t \in Threads, TransferFailed(t)
  PROVE  Inv'
<1> USE DEF TransferFailed, Goto, driverVars, deviceVars
<1>1. TypeOK'
  <2>1. is_ata' \in [Disks -> BOOLEAN] /\ DOMAIN pc' = Threads
    BY ZenonT(30) DEF Inv, TypeOK
  <2>2. QED
    BY Zenon, <2>1 DEF Inv, TypeOK
<1> USE RequestType, OneCommand
<1>2. (IF Booting THEN BootAlone ELSE Locked)'
  BY SMTT(30) DEF Inv, TypeOK, Booting, BootAlone, Locked, OnChannel, IdeAssumption
<1>3. CommandsMatch'
  BY SMTT(30) DEF Inv, TypeOK, CommandsMatch, Target, OnChannel, Booting, BootAlone, Locked
<1>4. DeviceSettles'
  BY Zenon DEF Inv, TypeOK, CommandsMatch, DeviceSettles, Target, OnChannel, Booting, BootAlone, Locked
<1>5. CompletionComing'
  BY SMTT(30) DEF Inv, TypeOK, CommandsMatch, CompletionComing, OnChannel
<1>6. QED
  BY Zenon, <1>1, <1>2, <1>3, <1>4, <1>5 DEF Inv

\* The device may still be storing the sector when the lock is released.
LEMMA ReleaseKeeps ==
  ASSUME IdeAssumption, Inv, NEW t \in Threads, Release(t)
  PROVE  Inv'
<1> USE RequestType, BufferType, OneCommand DEF Release, Goto, driverVars, deviceVars
<1>1. TypeOK'
  BY ZenonT(30) DEF Inv, TypeOK, Statuses, Disks, OnChannel
<1>2. (IF Booting THEN BootAlone ELSE Locked)'
  BY SMTT(30) DEF Inv, TypeOK, Booting, BootAlone, Locked, OnChannel, IdeAssumption
<1>3. CommandsMatch'
  BY SMTT(30) DEF Inv, TypeOK, CommandsMatch, Target, OnChannel, Booting, BootAlone, Locked
<1>4. DeviceSettles'
  BY Zenon DEF Inv, TypeOK, CommandsMatch, DeviceSettles, Target, OnChannel, Booting, BootAlone, Locked
<1>5. CompletionComing'
  BY ZenonT(30) DEF Inv, TypeOK, CommandsMatch, CompletionComing, OnChannel
<1>6. QED
  BY Zenon, <1>1, <1>2, <1>3, <1>4, <1>5 DEF Inv

\* The device goes on with the command, or stores what it has taken.
LEMMA DeviceKeeps == ASSUME IdeAssumption, Inv, Device PROVE Inv'
<1> USE DEF Device, driverVars
<1>1. status' \in Statuses /\ data' \in Values /\ media' \in [Sites -> Values]
  BY SMTT(30) DEF Inv, TypeOK, Statuses, DeviceSettles, IdeAssumption
<1>2. TypeOK'
  <2>1. intrq' \in BOOLEAN
    BY Zenon DEF Inv, TypeOK
  <2>2. QED
    BY Zenon, <1>1, <2>1 DEF Inv, TypeOK
<1>3. (IF Booting THEN BootAlone ELSE Locked)'
  BY Zenon DEF Inv, Booting, BootAlone, Locked, OnChannel
<1>4. CommandsMatch'
  BY Zenon DEF Inv, CommandsMatch, Target
<1>5. DeviceSettles'
  BY Zenon DEF Inv, TypeOK, Statuses, DeviceSettles, Sites
<1>6. CompletionComing'
  BY Zenon DEF Inv, CommandsMatch, CompletionComing
<1>7. QED
  BY Zenon, <1>2, <1>3, <1>4, <1>5, <1>6 DEF Inv

\* A command that fails, an interrupt nobody asked for, and the handler.
LEMMA InterruptKeeps ==
  ASSUME IdeAssumption, Inv, DeviceFails \/ Spurious \/ interrupt_handler
  PROVE  Inv'
<1> USE DEF DeviceFails, Spurious, interrupt_handler, driverVars
<1>1. TypeOK'
  <2>1. intrq' \in BOOLEAN /\ expecting_interrupt' \in BOOLEAN
    BY Zenon DEF Inv, TypeOK
  <2>2. completion_wait' \in Nat /\ status' \in Statuses
    BY DEF Inv, TypeOK, Statuses
  <2>3. QED
    BY Zenon, <2>1, <2>2 DEF Inv, TypeOK
<1>2. (IF Booting THEN BootAlone ELSE Locked)'
  BY Zenon DEF Inv, Booting, BootAlone, Locked, OnChannel
<1>3. CommandsMatch'
  BY DEF Inv, CommandsMatch, Target
<1>4. DeviceSettles'
  BY Zenon DEF Inv, TypeOK, DeviceSettles
<1>5. CompletionComing'
  BY DEF Inv, TypeOK, CommandsMatch, CompletionComing
<1>6. QED
  BY Zenon, <1>1, <1>2, <1>3, <1>4, <1>5 DEF Inv

\* Every step keeps the invariant.
LEMMA NextInv == ASSUME IdeAssumption PROVE Inv /\ [Next]_vars => Inv'
<1> SUFFICES ASSUME Inv, [Next]_vars PROVE Inv'
  BY Zenon
<1>1. CASE UNCHANGED vars \/ \E t \in Threads : CallPastEnd(t)
  <2>1. UNCHANGED <<driverVars, pc, req, buffer, deviceVars>>
    BY Zenon, <1>1 DEF vars, CallPastEnd
  <2>2. QED
    BY ZenonT(30), <2>1 DEF driverVars, deviceVars, Inv, TypeOK, Booting, BootAlone, Locked, OnChannel,
                CommandsMatch, Target, DeviceSettles, CompletionComing
<1>2. ASSUME NEW t \in Threads, Step(t) PROVE Inv'
  BY Zenon, <1>2, DetectKeeps, ScanKeeps, AcquireKeeps, SelectKeeps, IssueKeeps, CompletedKeeps,
     TransferKeeps, TransferFailedKeeps, ReleaseKeeps DEF Step
<1>3. QED
  BY Zenon, <1>1, <1>2, CallKeeps, DeviceKeeps, InterruptKeeps DEF Next

\* A thread that waits in sema_down for its command will be woken, whatever
\* unasked interrupts came before: ide.c never loses a completion.
THEOREM CompletionNeverLost == ASSUME IdeAssumption PROVE Spec => []CompletionComing
<1>1. Init => Inv
  BY Zenon, InitInv
<1>2. Inv /\ [Next]_vars => Inv'
  BY Zenon, NextInv
<1>3. Inv => CompletionComing
  BY Zenon DEF Inv
<1>4. QED
  BY <1>1, <1>2, <1>3, PTL DEF Spec

-----------------------------------------------------------------------------
(* The channel implements the store of BlockStore. *)

\* A sector of a block is a site of the disk, and no other sector's.
LEMMA SiteOf ==
  ASSUME IdeAssumption, NEW bs \in BlockSectors
  PROVE  /\ Location(bs) \in Sites
         /\ \A x \in BlockSectors : Location(x) = Location(bs) => x = bs
BY Zenon DEF Sites, IdeAssumption

\* What a sector holds, given by the device and the medium.
Held(bs) ==
  IF status = "writing" /\ selected = Location(bs) THEN data ELSE media[Location(bs)]

\* The store holds it for the sector.
LEMMA StoreIs ==
  ASSUME NEW bs \in BlockSectors
  PROVE  Store[bs] = [i \in {0} |-> Held(bs)] /\ Store[bs][0] = Held(bs)
BY Zenon DEF Store, Held

\* The same of the state after a step.
LEMMA StoreIsNext ==
  ASSUME NEW bs \in BlockSectors
  PROVE  Store'[bs] = [i \in {0} |-> Held(bs)']
BY Zenon DEF Store, Held

\* A step that leaves what every sector holds leaves the store.
LEMMA SameStore ==
  ASSUME \A bs \in BlockSectors : Held(bs)' = Held(bs)
  PROVE  UNCHANGED Store
BY Zenon DEF Store, Held

\* A thread that has moved its data has no call pending any more.
LEMMA PendingDone ==
  ASSUME IdeAssumption, Inv, NEW t \in Threads, NEW p \in {"ack", "unlock"},
         pc[t] = "busy", req[t] \in Abstract!Requests, Goto(t, p), UNCHANGED req
  PROVE  Pending[t] = req[t] /\ Pending' = [Pending EXCEPT ![t] = NoRequest]
<1>1. Pending[t] = req[t]
  BY Zenon, RequestType DEF Pending
<1>2. \A u \in Threads : Pending'[u] = IF u = t THEN NoRequest ELSE Pending[u]
  BY Zenon DEF Pending, Goto, Inv, TypeOK
<1>3. QED
  BY Zenon, <1>1, <1>2 DEF Pending

\* The disks hold what they are found with.
LEMMA InitRefines == ASSUME IdeAssumption PROVE Init => Abstract!StoreInit
<1> SUFFICES ASSUME Init PROVE Abstract!StoreInit
  BY Zenon
<1>1. ASSUME NEW bs \in BlockSectors PROVE Store[bs] \in Abstract!Contents
  <2>1. media[Location(bs)] \in Values /\ status # "writing"
    BY Zenon, SiteOf DEF Init, Sites
  <2>2. QED
    BY Zenon, <2>1, StoreIs, BufferType DEF Held
<1>2. Store \in [BlockSectors -> Abstract!Contents]
  BY Zenon, <1>1 DEF Store
<1>3. Pending = [t \in Threads |-> NoRequest]
  BY Zenon DEF Init, Pending
<1>4. QED
  BY Zenon, <1>2, <1>3 DEF Init, Abstract!StoreInit

\* A request covers the only byte of its sector.
LEMMA WholeSector ==
  ASSUME NEW r \in Abstract!Requests, NEW c, NEW b
  PROVE  /\ Abstract!Offsets = {0}
         /\ Abstract!Copied(b, c, r) = [i \in {0} |-> c[0]]
         /\ Abstract!Patched(c, r) = [i \in {0} |-> r.byte]
<1>1. Abstract!Offsets = {0}
  BY DEF Abstract!Offsets
<1>2. r.span \in Abstract!Spans
  BY Zenon DEF Abstract!Requests, Abstract!ReadRequests, Abstract!WriteRequests
<1>3. r.span.offset = 0 /\ r.span.length = 1
  BY <1>1, <1>2 DEF Abstract!Spans
<1>4. Abstract!Span(r) = {0}
  BY <1>3 DEF Abstract!Span
<1>5. QED
  BY Zenon, <1>1, <1>4 DEF Abstract!Copied, Abstract!Patched

\* A call of block_read or block_write is one of the store.
LEMMA CallRefines ==
  ASSUME IdeAssumption, Inv, NEW t \in Threads, NEW r \in Abstract!Requests, Call(t, r)
  PROVE  Abstract!StoreCall(t, r)
<1> USE DEF Call, driverVars, deviceVars
<1>1. UNCHANGED Store
  BY Zenon, SameStore DEF Held
<1>2. req[t] = NoRequest /\ Pending[t] = NoRequest
  BY Zenon DEF Inv, Booting, BootAlone, Locked, Pending
<1>3. Pending' = [Pending EXCEPT ![t] = r]
  BY Zenon, RequestType DEF Inv, TypeOK, Pending, Goto
<1>4. QED
  BY Zenon, <1>1, <1>2, <1>3 DEF Abstract!StoreCall

\* A read takes effect when its data is moved, and gets what the sector holds.
LEMMA ReadRefines ==
  ASSUME IdeAssumption, Inv, NEW t \in Threads, Transfer(t), req[t].op = "read"
  PROVE  Abstract!StoreApply(t)
<1> DEFINE r == req[t]
<1>1. r \in Abstract!Requests /\ OnChannel(t)
  BY OneCommand, RequestType DEF Transfer, OnChannel
<1>2. /\ status = "drq_in" /\ status' = "idle" /\ UNCHANGED <<media, selected, data, req>>
      /\ buffer' = [buffer EXCEPT ![t] = [i \in {0} |-> data]]
      /\ Goto(t, "unlock")
  BY Zenon DEF Transfer, wait_while_busy, Inv, CommandsMatch
<1>3. UNCHANGED Store
  BY Zenon, <1>2, SameStore DEF Held
<1>4. Pending[t] = r /\ Pending' = [Pending EXCEPT ![t] = NoRequest]
  BY Zenon, <1>1, <1>2, PendingDone DEF Transfer
<1>5. data = Store[r.sector][0]
  <2>1. selected = Location(r.sector) /\ Location(r.sector) \in Sites
    BY Zenon, <1>1, RequestType DEF Inv, CommandsMatch, Target, Transfer
  <2>2. QED
    BY Zenon, <1>1, <1>2, <2>1, RequestType, StoreIs DEF Held, Inv, DeviceSettles
<1>6. buffer' = [buffer EXCEPT ![t] = Abstract!Copied(@, Store[r.sector], r)]
  <2>1. Abstract!Copied(buffer[t], Store[r.sector], r) = [i \in {0} |-> data]
    BY <1>1, <1>5, WholeSector
  <2>2. QED
    BY Zenon, <1>2, <2>1
<1>7. QED
  BY Zenon, <1>1, <1>3, <1>4, <1>6, RequestType DEF Abstract!StoreApply

\* A write takes effect when the device has its data, not when it is stored.
LEMMA WriteRefines ==
  ASSUME IdeAssumption, Inv, NEW t \in Threads, Transfer(t), req[t].op = "write"
  PROVE  Abstract!StoreApply(t)
<1> DEFINE r == req[t]
<1>1. r \in Abstract!Requests /\ OnChannel(t)
  BY OneCommand, RequestType DEF Transfer, OnChannel
<1>2. /\ status = "drq_out" /\ status' = "writing" /\ UNCHANGED <<media, selected, buffer, req>>
      /\ data' = r.byte
      /\ Goto(t, "ack")
  BY Zenon DEF Transfer, wait_while_busy, Inv, CommandsMatch
<1>3. Pending[t] = r /\ Pending' = [Pending EXCEPT ![t] = NoRequest]
  BY Zenon, <1>1, <1>2, PendingDone DEF Transfer
<1>4. selected = Location(r.sector) /\ r.sector \in BlockSectors
  BY Zenon, <1>1, RequestType DEF Inv, CommandsMatch, Target, Transfer
<1>5. Store'[r.sector] = Abstract!Patched(Store[r.sector], r)
  BY ZenonT(30), <1>1, <1>2, <1>4, StoreIsNext, WholeSector DEF Held
<1>6. \A bs \in BlockSectors : bs # r.sector => Store'[bs] = Store[bs]
  <2> SUFFICES ASSUME NEW bs \in BlockSectors, bs # r.sector PROVE Store'[bs] = Store[bs]
    BY Zenon
  <2>1. Held(bs)' = Held(bs)
    BY Zenon, <1>2, <1>4, SiteOf DEF Held
  <2>2. QED
    BY ZenonT(90), <2>1, StoreIs, StoreIsNext
<1>7. Store' = [Store EXCEPT ![r.sector] = Abstract!Patched(@, r)]
  BY Zenon, <1>4, <1>5, <1>6 DEF Store
<1>8. QED
  BY Zenon, <1>1, <1>2, <1>3, <1>7, RequestType DEF Abstract!StoreApply

\* The rest of a command does not show: a sector holds what the device has
\* taken for it, whether or not it has reached the medium.
LEMMA StepHidden ==
  ASSUME IdeAssumption, Inv, NEW t \in Threads, Step(t),
         ~(Transfer(t) /\ req[t].op \in {"read", "write"})
  PROVE  UNCHANGED <<Store, Pending, buffer>>
<1>1. CASE Detect(t) \/ Acquire(t) \/ Select(t) \/ Issue(t) \/ Completed(t)
  <2> USE <1>1 DEF Detect, Acquire, Select, Issue, Completed, driverVars, deviceVars, Goto
  <2>1. UNCHANGED Store
    BY Zenon, SameStore DEF Held, select_sector, issue_pio_command, Inv, CommandsMatch
  <2>2. UNCHANGED Pending
    BY SMTT(30), OneCommand, RequestType DEF Pending, OnChannel, Inv, TypeOK, CommandsMatch
  <2>3. QED
    BY Zenon, <2>1, <2>2
<1>2. CASE Scan(t)
  <2>1. Booting /\ BootAlone /\ t = initial_thread
    BY Zenon, <1>2 DEF Scan, Inv, Booting, BootAlone, Locked, OnChannel
  <2>2. UNCHANGED <<Store, buffer>>
    BY Zenon, <1>2, SameStore DEF Held, Scan, deviceVars
  <2>3. Pending = [u \in Threads |-> NoRequest]
    BY SMTT(30), <1>2, <2>1, RequestType DEF Pending, BootAlone, Scan
  <2>4. Pending' = [u \in Threads |-> NoRequest]
    <3>1. ASSUME NEW u \in Threads
          PROVE  req'[u] = NoRequest \/ req'[u].op = "identify"
      BY SMTT(30), <1>2, <2>1 DEF Scan, BootAlone, Identify, Inv, TypeOK
    <3>2. QED
      BY Zenon, <3>1 DEF Pending
  <2>5. QED
    BY Zenon, <2>2, <2>3, <2>4
<1>3. CASE Transfer(t) /\ req[t].op = "identify"
  <2> USE <1>3 DEF Transfer, Goto, driverVars
  <2>1. UNCHANGED Store
    BY Zenon, SameStore DEF Held, Inv, CommandsMatch
  <2>2. UNCHANGED Pending
    BY Zenon DEF Pending, Inv, TypeOK
  <2>3. QED
    BY Zenon, <2>1, <2>2
<1>4. CASE TransferFailed(t) \/ Release(t)
  <2> USE <1>4 DEF TransferFailed, Release, Goto, driverVars, deviceVars
  <2>1. UNCHANGED Store
    BY Zenon, SameStore DEF Held
  <2>2. UNCHANGED Pending
    BY ZenonT(30) DEF Pending, Inv, TypeOK
  <2>3. QED
    BY Zenon, <2>1, <2>2
<1>5. QED
  <2>1. Transfer(t) => req[t].op \in {"read", "write", "identify"}
    BY OneCommand, RequestType DEF Transfer, OnChannel
  <2>2. QED
    BY Zenon, <2>1, <1>1, <1>2, <1>3, <1>4 DEF Step

\* Neither do the device's own steps nor interrupts.
LEMMA DeviceHidden ==
  ASSUME IdeAssumption, Inv, Device \/ DeviceFails \/ Spurious \/ interrupt_handler
  PROVE  UNCHANGED <<Store, Pending, buffer>>
<1> USE DEF Device, DeviceFails, Spurious, interrupt_handler, driverVars
<1>1. UNCHANGED Store
  <2>1. CASE status = "writing" /\ Device
    BY Zenon, <2>1, SiteOf, SameStore DEF Held, Inv, TypeOK, DeviceSettles
  <2>2. CASE ~(status = "writing" /\ Device)
    BY Zenon, <2>2, SameStore DEF Held
  <2>3. QED
    BY Zenon, <2>1, <2>2
<1>2. QED
  BY Zenon, <1>1 DEF Pending

\* Every step is one of the store, or does not show.
LEMMA NextRefines ==
  ASSUME IdeAssumption
  PROVE  Inv /\ [Next]_vars => [Abstract!StoreNext]_(Abstract!storeVars)
<1> SUFFICES ASSUME Inv, [Next]_vars
             PROVE  Abstract!StoreNext \/ UNCHANGED <<Store, Pending, buffer>>
  BY Zenon DEF Abstract!storeVars
<1>1. CASE UNCHANGED vars \/ \E t \in Threads : CallPastEnd(t)
  BY Zenon, <1>1, SameStore DEF Held, vars, CallPastEnd, deviceVars, Pending
<1>2. ASSUME NEW t \in Threads, Step(t)
      PROVE  Abstract!StoreNext \/ UNCHANGED <<Store, Pending, buffer>>
  BY Zenon, <1>2, ReadRefines, WriteRefines, StepHidden DEF Abstract!StoreNext
<1>3. ASSUME NEW t \in Threads, NEW r \in Abstract!Requests, Call(t, r)
      PROVE  Abstract!StoreNext
  BY Zenon, <1>3, CallRefines DEF Abstract!StoreNext
<1>4. QED
  BY Zenon, <1>1, <1>2, <1>3, DeviceHidden DEF Next

\* block_read and block_write of every block take effect one at a time, each
\* within its call, for any threads, blocks and unasked interrupts: ide.c gives
\* the buffer cache the store it is proved from.
THEOREM ChannelRefinement == ASSUME IdeAssumption PROVE Spec => SectorsAtomic
<1>1. Init => Inv /\ Abstract!StoreInit
  BY Zenon, InitInv, InitRefines
<1>2. Inv /\ [Next]_vars => Inv'
  BY Zenon, NextInv
<1>3. Inv /\ [Next]_vars => [Abstract!StoreNext]_(Abstract!storeVars)
  BY Zenon, NextRefines
<1>4. QED
  BY <1>1, <1>2, <1>3, PTL DEF Spec, SectorsAtomic, Abstract!StoreSpec
=============================================================================

---------------------------- MODULE FilesysDone ----------------------------
(***************************************************************************)
(* Power-off: shutdown_power_off (devices/shutdown.c) calls filesys_done   *)
(* (filesys/filesys.c), whose free_map_close closes the free map file and  *)
(* so makes inode_close write the free map's inode through the cache; the  *)
(* power goes off after that, and what is on the disk is what remains.     *)
(* Other threads run on until then.                                        *)
(***************************************************************************)
EXTENDS BufCache

CONSTANTS
  Halter,           \* the thread that calls shutdown_power_off
  FREE_MAP_SECTOR

VARIABLE power      \* "on", "closing" in filesys_done, "off"

DoneInit == Init /\ power = "on"

\* filesys_done: the last close of the free map file writes its inode.
filesys_done ==
  /\ power = "on"
  /\ power' = "closing"
  /\ \E r \in Abstract!WriteRequests :
       r.sector = FREE_MAP_SECTOR /\ r.span.length = BLOCK_SECTOR_SIZE /\ Call(Halter, r)

\* filesys_done has returned.
shutdown_power_off ==
  /\ power = "closing"
  /\ pc[Halter] = "idle"
  /\ power' = "off"
  /\ UNCHANGED vars

DoneCall(t) ==
  /\ t = Halter => power = "on"
  /\ \E r \in Abstract!Requests : Call(t, r)

DoneNext ==
  \/ filesys_done
  \/ shutdown_power_off
  \/ /\ power # "off"
     /\ UNCHANGED power
     /\ \E t \in Threads : Step(t) \/ DoneCall(t)

DoneSpec == DoneInit /\ [][DoneNext]_<<vars, power>>

\* "Shuts down the file system module, writing any unwritten data to disk"
\* (the comment on filesys_done): when the power goes off, the disk holds what
\* the file system's writes have stored.
NothingUnwritten == power = "off" => disk = Store
=============================================================================

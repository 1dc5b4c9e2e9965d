-------------------------- MODULE SharedMemoryFile --------------------------
(***************************************************************************)
(* How the shared memory between an application and the Datarouter comes   *)
(* into being.  The WriterFactory of the application creates a file, maps  *)
(* it and lays out the two blocks of the queue in it.  The Datarouter      *)
(* opens the file by its name when the connect message arrives, and the    *)
(* ReaderFactory checks what it finds there.  In between the application   *)
(* may end and be started again under the same name, may run twice, or may *)
(* already have unlinked the file.                                         *)
(*                                                                         *)
(* Every call to the operating system is a step that may fail.  A file is  *)
(* an inode, with a name for as long as it is linked.                      *)
(***************************************************************************)
EXTENDS Integers, Sequences, FiniteSets

CONSTANTS
  Processes,      \* processes of one application, by pid
  RingSizes,      \* configured sizes of the ring buffer
  SharedDataSize, \* sizeof(SharedData)
  SizeModulus,    \* number of values of std::size_t
  MaxFaults       \* bound on the failing calls to the operating system

ASSUME SharedMemoryAssumption ==
  /\ 0 \notin Processes
  /\ SharedDataSize \in Nat \ {0} /\ SizeModulus \in Nat /\ SizeModulus > SharedDataSize
  /\ RingSizes \subseteq 0 .. SizeModulus - 1
  /\ MaxFaults \in Nat

VARIABLES
  names,      \* name -> number of the inode, for the files that are linked
  inodes,     \* the inodes, in the order of their creation
  process,    \* per process: where it is, its name, its inode, its faults...
  connects,   \* connect messages under way
  opened,     \* connect message the Datarouter works on, and the inode it opened
  readers     \* readers created by the Datarouter

sharedMemoryVars == <<names, inodes, process, connects, opened, readers>>

\* A dynamic name is unique; the static one is logging.<app>.<uid>.
NameOf(p, dynamic) == IF dynamic THEN p ELSE 0

NewInode(p) == [creator |-> p, size |-> 0, producer_pid |-> 0,
                offset1 |-> 0, offset2 |-> 0, half |-> 0, constructed |-> 0]
NoInode == 0

SharedMemoryInit ==
  /\ names = <<>> /\ inodes = <<>>
  /\ process = [p \in Processes |-> [pc |-> "none"]]
  /\ connects = {}
  /\ opened = {}
  /\ readers = {}

ProcessAt(p) == process[p].pc
Name(p) == process[p].name
Dynamic(p) == process[p].dynamic
Inode(p) == process[p].inode
Linked(name) == name \in DOMAIN names
GiveName(name, i) == names' = [n \in DOMAIN names \union {name} |-> IF n = name THEN i ELSE names[n]]
RemoveName(name) == names' = [n \in DOMAIN names \ {name} |-> names[n]]

TotalFaults == Cardinality({p \in Processes : ProcessAt(p) # "none" /\ process[p].fault})

\* A call of p fails.  One is enough for a process: Create gives up, or goes on
\* after a call whose failure it only reports.
Fault(p, pc) ==
  /\ TotalFaults < MaxFaults
  /\ process' = [process EXCEPT ![p].pc = pc, ![p].fault = TRUE]
ProcessGoto(p, pc) == process' = [process EXCEPT ![p].pc = pc]

-----------------------------------------------------------------------------
(* WriterFactory.                                                          *)

\* total_size: the sum may wrap, which is reported and has no consequence.
TotalSize(ring) == (SharedDataSize + ring) % SizeModulus

Create(p, dynamic, ring) ==
  /\ ProcessAt(p) = "none"
  /\ process' = [process EXCEPT ![p] =
       [pc |-> "prepare", dynamic |-> dynamic, name |-> NameOf(p, dynamic), ring |-> ring,
        inode |-> NoInode, fault |-> FALSE, since |-> Len(inodes)]]
  /\ UNCHANGED <<names, inodes, connects, opened, readers>>

\* Dynamic names: mkstemps creates the file.  A failure is only reported.
MakeTemporary(p) ==
  /\ ProcessAt(p) = "prepare" /\ Dynamic(p)
  /\ \/ /\ inodes' = Append(inodes, NewInode(p))
        /\ GiveName(Name(p), Len(inodes) + 1)
        /\ ProcessGoto(p, "open")
     \/ Fault(p, "open") /\ UNCHANGED <<names, inodes>>
  /\ UNCHANGED <<connects, opened, readers>>

(* Mutant: the file of an earlier process is left where it is.             *)
UnlinkNothing(p) ==
  /\ ProcessAt(p) = "prepare" /\ ~Dynamic(p)
  /\ ProcessGoto(p, "open")
  /\ UNCHANGED <<names, inodes, connects, opened, readers>>

\* Static names: the file of an earlier process loses its name.
UnlinkExistingFile(p) ==
  /\ ProcessAt(p) = "prepare" /\ ~Dynamic(p)
  /\ \/ RemoveName(Name(p)) /\ ProcessGoto(p, "open")
     \/ Linked(Name(p)) /\ Fault(p, "open") /\ UNCHANGED names
  /\ UNCHANGED <<inodes, connects, opened, readers>>

(* Mutant: O_EXCL is forgotten, an existing file is opened.                *)
OpenFileShared(p) ==
  /\ ProcessAt(p) = "open"
  /\ \/ /\ ~Linked(Name(p)) /\ ~Dynamic(p)
        /\ inodes' = Append(inodes, NewInode(p))
        /\ GiveName(Name(p), Len(inodes) + 1)
        /\ process' = [process EXCEPT ![p].pc = "chmod", ![p].inode = Len(inodes) + 1]
     \/ /\ Linked(Name(p))
        /\ process' = [process EXCEPT ![p].pc = "chmod", ![p].inode = names[Name(p)]]
        /\ UNCHANGED <<names, inodes>>
     \/ Fault(p, "failed") /\ UNCHANGED <<names, inodes>>
  /\ UNCHANGED <<connects, opened, readers>>

\* Static: O_CREAT | O_EXCL, which refuses a file that exists.  Dynamic: O_EXCL
\* alone, the file must exist.
OpenFile(p) ==
  /\ ProcessAt(p) = "open"
  /\ \/ /\ ~Dynamic(p) /\ ~Linked(Name(p))
        /\ inodes' = Append(inodes, NewInode(p))
        /\ GiveName(Name(p), Len(inodes) + 1)
        /\ process' = [process EXCEPT ![p].pc = "chmod", ![p].inode = Len(inodes) + 1]
     \/ /\ Dynamic(p) /\ Linked(Name(p))
        /\ process' = [process EXCEPT ![p].pc = "chmod", ![p].inode = names[Name(p)]]
        /\ UNCHANGED <<names, inodes>>
     \/ Dynamic(p) # Linked(Name(p)) /\ ProcessGoto(p, "refused") /\ UNCHANGED <<names, inodes>>
     \/ Fault(p, "failed") /\ UNCHANGED <<names, inodes>>
  /\ UNCHANGED <<connects, opened, readers>>

\* By name; if it fails the file stays.
ChangeMode(p) ==
  /\ ProcessAt(p) = "chmod"
  /\ IF Linked(Name(p)) THEN ProcessGoto(p, "truncate") \/ Fault(p, "failed") ELSE ProcessGoto(p, "refused")
  /\ UNCHANGED <<names, inodes, connects, opened, readers>>

TruncateFile(p) ==
  /\ ProcessAt(p) = "truncate"
  /\ \/ /\ inodes' = [inodes EXCEPT ![Inode(p)].size = TotalSize(process[p].ring)]
        /\ ProcessGoto(p, "map") /\ UNCHANGED names
     \/ Fault(p, "failed") /\ RemoveName(Name(p)) /\ UNCHANGED inodes
  /\ UNCHANGED <<connects, opened, readers>>

\* A failed mmap unlinks the file; a null or misaligned address unmaps it only.
MapSharedMemory(p) ==
  /\ ProcessAt(p) = "map"
  /\ \/ ProcessGoto(p, "construct") /\ UNCHANGED names
     \/ Fault(p, "failed") /\ (RemoveName(Name(p)) \/ UNCHANGED names)
  /\ UNCHANGED <<inodes, connects, opened, readers>>

ConstructSharedData(p) ==
  /\ ProcessAt(p) = "construct"
  /\ LET half == process[p].ring \div 2 IN
     inodes' = [inodes EXCEPT
       ![Inode(p)].producer_pid = p,
       ![Inode(p)].offset1 = SharedDataSize,
       ![Inode(p)].offset2 = (SharedDataSize + half) % SizeModulus,
       ![Inode(p)].half = half,
       ![Inode(p)].constructed = @ + 1]
  /\ ProcessGoto(p, "connect")
  /\ UNCHANGED <<names, connects, opened, readers>>

\* The message client: sends the name to the Datarouter...
SendConnectMessage(p) ==
  /\ ProcessAt(p) = "connect"
  /\ connects' = connects \union {[pid |-> p, name |-> Name(p)]}
  /\ ProcessGoto(p, "connected")
  /\ UNCHANGED <<names, inodes, opened, readers>>

\* ... and unlinks the file, after the first message or without one.
UnlinkAfterConnect(p) ==
  /\ ProcessAt(p) \in {"connect", "connected"}
  /\ RemoveName(Name(p))
  /\ ProcessGoto(p, "unlinked")
  /\ UNCHANGED <<inodes, connects, opened, readers>>

Crash(p) ==
  /\ ProcessAt(p) \notin {"none", "failed", "refused", "dead"}
  /\ ProcessGoto(p, "dead")
  /\ UNCHANGED <<names, inodes, connects, opened, readers>>

-----------------------------------------------------------------------------
(* The Datarouter.                                                         *)

\* CreateMessagePassingSession opens the file by its name, if it is there.
OpenConnected ==
  /\ opened = {}
  /\ \E c \in connects :
       /\ connects' = connects \ {c}
       /\ opened' = IF Linked(c.name) THEN {[pid |-> c.pid, inode |-> names[c.name]]} ELSE {}
  /\ UNCHANGED <<names, inodes, process, readers>>

LargerOf(a, b) == IF a > b THEN a ELSE b

(* Mutant: the pid in the shared memory is not compared with the sender's. *)
AcceptsAnyPid(c, node) ==
  /\ node.size >= SharedDataSize
  /\ LargerOf(node.offset1 + node.half, node.offset2 + node.half) <= node.size

\* The checks of ReaderFactoryImpl::Create.
Accepts(c, node) ==
  /\ node.size >= SharedDataSize
  /\ LargerOf(node.offset1 + node.half, node.offset2 + node.half) <= node.size
  /\ node.producer_pid = c.pid

\* The layout is read once, the file may be changed afterwards by its writer.
CreateReader ==
  /\ \E c \in opened : LET node == inodes[c.inode] IN
       readers' = IF Accepts(c, node)
         THEN readers \union {[pid |-> c.pid, inode |-> c.inode, map_size |-> node.size,
                offset1 |-> node.offset1, offset2 |-> node.offset2, half |-> node.half]}
         ELSE readers
  /\ opened' = {}
  /\ UNCHANGED <<names, inodes, process, connects>>

-----------------------------------------------------------------------------
SharedMemoryNext ==
  \/ \E p \in Processes :
       \/ \E dynamic \in BOOLEAN, ring \in RingSizes : Create(p, dynamic, ring)
       \/ MakeTemporary(p) \/ UnlinkExistingFile(p) \/ OpenFile(p) \/ ChangeMode(p)
       \/ TruncateFile(p) \/ MapSharedMemory(p) \/ ConstructSharedData(p)
       \/ SendConnectMessage(p) \/ UnlinkAfterConnect(p) \/ Crash(p)
  \/ OpenConnected \/ CreateReader

SharedMemorySpec == SharedMemoryInit /\ [][SharedMemoryNext]_sharedMemoryVars

-----------------------------------------------------------------------------
(* A reader of the Datarouter maps a file that the process it belongs to   *)
(* has laid out completely, and both blocks it will read lie behind        *)
(* SharedData, apart from each other and inside the mapping: never the     *)
(* file of another process that took the same name, never one that is      *)
(* still being laid out, never beyond the end, even if the size of the     *)
(* ring buffer overflows.                                                  *)
ReadersAreSound ==
  \A r \in readers :
    /\ inodes[r.inode].constructed = 1
    /\ inodes[r.inode].creator = r.pid
    /\ r.offset1 >= SharedDataSize
    /\ r.offset1 + r.half <= r.offset2
    /\ r.offset2 + r.half <= r.map_size

(* A file that was laid out is never laid out again, nor truncated: "Check *)
(* and unlink the file to possibly avoid destroying the content by opening *)
(* it again.  This should allow any other processes finish their work      *)
(* uninterrupted" (writer_factory.cpp:65), also when that unlink fails.    *)
ContentsArePreserved ==
  [][\A i \in DOMAIN inodes : inodes[i].constructed > 0 => inodes'[i] = inodes[i]]_sharedMemoryVars

(* What an earlier process left behind does not keep a new one from        *)
(* logging: if no call fails, Create is refused only for a file that was   *)
(* made after Create began, by a process that starts at the same moment.   *)
LeftoversDoNotBlock ==
  [][\A p \in Processes :
       (ProcessAt(p) = "open" /\ process'[p].pc = "refused" /\ ~process[p].fault)
         => Linked(Name(p)) /\ names[Name(p)] > process[p].since]_sharedMemoryVars
=============================================================================

---------------------------- MODULE FileTransfer ----------------------------
(***************************************************************************)
(* The file transfer handler of the Datarouter: the parser thread queues   *)
(* requests, a thread of its own sends each file as a header, numbered     *)
(* data packages and an end or an error message, and then forgets the      *)
(* request.  The owners of the files go on changing them meanwhile, and    *)
(* the destructor may ask the thread to stop at any time.                  *)
(***************************************************************************)
EXTENDS Integers, FiniteSets, Sequences, Functions

CONSTANTS
  FileNames,     \* files that can be requested
  FileSizes,     \* sizes a file can have
  kBufferSize,   \* size of the data of a package
  SizeModulus,   \* 2^32: the size is cast to uint32_t
  MaxRequests,   \* bound on the requests queued
  MaxChanges     \* bound on the changes made to files, and on I/O errors

ASSUME FileAssumption ==
  /\ FileSizes \subseteq Nat /\ FileSizes # {}
  /\ kBufferSize \in Nat \ {0} /\ SizeModulus \in Nat \ {0}
  /\ MaxRequests \in Nat /\ MaxChanges \in Nat

VARIABLES
  disk,            \* size of each file, or Absent
  changes,         \* changes of files and I/O errors so far
  requested,       \* requests accepted so far, in order
  container_,      \* requests waiting, the one being served included
  exit_requested_,
  transfer,        \* what the thread is doing: step and the members it sets
  stream,          \* the FILE that LogFileData has opened
  sent             \* messages given to the output, in order

fileVars == <<disk, changes, requested, container_, exit_requested_, transfer,
              stream, sent>>

Absent == -1
Closed == [open |-> FALSE, size |-> 0, linked |-> FALSE]
FileTransferEntry == [file_name : FileNames, delete_file : BOOLEAN]

\* The entry an application traces; it reaches Handle as a log message.
TransferFile(file_name, delete_file) ==
  [file_name |-> file_name, delete_file |-> delete_file]

FileInit ==
  /\ disk \in [FileNames -> FileSizes]
  /\ changes = 0
  /\ requested = <<>>
  /\ container_ = <<>>
  /\ exit_requested_ = FALSE
  /\ transfer = [step |-> "loop", readfile |-> "none", serialno |-> <<>>, fsize |-> 0,
                 packagecount |-> 0, pkgno |-> 0, errno |-> "none", intact |-> FALSE]
  /\ stream = Closed
  /\ sent = <<>>

\* A request is dropped when the output is disabled, and queued otherwise.
Handle(entry) ==
  /\ Len(requested) < MaxRequests
  /\ ~exit_requested_
  /\ requested' = Append(requested, entry)
  /\ container_' = Append(container_, entry)
  /\ UNCHANGED <<disk, changes, exit_requested_, transfer, stream, sent>>

\* The loop: wait for a request, or leave.
ReadFromQueue ==
  /\ transfer.step = "loop" /\ ~exit_requested_ /\ container_ # <<>>
  /\ transfer' = [transfer EXCEPT !.step = "header", !.readfile = Head(container_).file_name,
                                  !.pkgno = 0, !.errno = "none"]
  /\ UNCHANGED <<disk, changes, requested, container_, exit_requested_, stream, sent>>

LeaveLoop ==
  /\ transfer.step = "loop" /\ exit_requested_
  /\ transfer' = [transfer EXCEPT !.step = "finished"]
  /\ UNCHANGED <<disk, changes, requested, container_, exit_requested_, stream, sent>>

(* Mutant: no package for the last, partly filled, part of a file.         *)
PackagesCountFloor(fsize) == IF fsize < kBufferSize THEN 1 ELSE fsize \div kBufferSize

PackagesCount(fsize) ==
  IF fsize < kBufferSize THEN 1
  ELSE (fsize \div kBufferSize) + (IF fsize % kBufferSize = 0 THEN 0 ELSE 1)

\* serialno is a hash of the file's name, size and time, here the first two.
\* intact is a history variable: neither the 32 bits of the size, nor a change
\* of the file, nor a failing read keeps the packages from holding all of it.
ReadFileHeaderInfo(t) ==
  LET size == disk[t.readfile]
  IN [t EXCEPT !.serialno = <<t.readfile, size>>, !.fsize = size % SizeModulus,
               !.packagecount = PackagesCount(size % SizeModulus),
               !.intact = size < SizeModulus]

PackageFileHeader(t) ==
  [type |-> "FLST", serialno |-> t.serialno, fsize |-> t.fsize,
   packagecount |-> t.packagecount]

\* What fread finds at the package's place.
Available(t) ==
  LET left == stream.size - (t.pkgno - 1) * kBufferSize
  IN CASE left < 0 -> 0
       [] left > kBufferSize -> kBufferSize
       [] OTHER -> left

\* What fread has returned goes into the package; nobody looks whether it is
\* all that was there.
PackageFileData(t, readbytes) ==
  [type |-> "FLDA", serialno |-> t.serialno, pkgno |-> t.pkgno, bytes |-> readbytes]

PackageFileEnd(t) == [type |-> "FLFI", serialno |-> t.serialno, intact |-> t.intact]

\* Without the file there is no more to say of it than its name.
PackageFileError(t) ==
  IF t.errno = "ENOENT"
    THEN [type |-> "FLER", name |-> t.readfile]
    ELSE [type |-> "FLER", name |-> t.readfile, serialno |-> t.serialno, fsize |-> t.fsize,
          packagecount |-> t.packagecount]

\* A system call fails: the file is gone, or something else is wrong.
Fails(errno) ==
  \/ /\ disk[transfer.readfile] = Absent
     /\ errno = "ENOENT"
     /\ UNCHANGED changes
  \/ /\ disk[transfer.readfile] # Absent
     /\ errno = "EIO"
     /\ changes < MaxChanges
     /\ changes' = changes + 1

LogFileHeader ==
  /\ transfer.step = "header"
  /\ disk[transfer.readfile] # Absent
  /\ LET t == ReadFileHeaderInfo(transfer)
     IN IF exit_requested_
          THEN transfer' = [t EXCEPT !.step = "error"] /\ UNCHANGED sent
          ELSE /\ transfer' = [t EXCEPT !.step = "open"]
               /\ sent' = Append(sent, PackageFileHeader(t))
  /\ UNCHANGED <<disk, changes, requested, container_, exit_requested_, stream>>

NoFileHeader(errno) ==
  /\ transfer.step = "header"
  /\ Fails(errno)
  /\ transfer' = [transfer EXCEPT !.step = "error", !.errno = errno]
  /\ UNCHANGED <<disk, requested, container_, exit_requested_, stream, sent>>

\* LogFileData.  The stream stays open when the exit request is only seen
\* after fopen.
OpenFile ==
  /\ transfer.step = "open"
  /\ disk[transfer.readfile] # Absent
  /\ stream' = [open |-> TRUE, size |-> disk[transfer.readfile], linked |-> TRUE]
  /\ transfer' = [transfer EXCEPT !.step = IF exit_requested_ THEN "error" ELSE "data",
                                  !.pkgno = 1]
  /\ UNCHANGED <<disk, changes, requested, container_, exit_requested_, sent>>

OpenFails(errno) ==
  /\ transfer.step = "open"
  /\ Fails(errno)
  /\ transfer' = [transfer EXCEPT !.step = "error", !.errno = errno]
  /\ UNCHANGED <<disk, requested, container_, exit_requested_, stream, sent>>

\* The loop over the packages does not look at exit_requested_.
LogFileData ==
  /\ transfer.step = "data" /\ transfer.pkgno <= transfer.packagecount
  /\ sent' = Append(sent, PackageFileData(transfer, Available(transfer)))
  /\ transfer' = [transfer EXCEPT !.pkgno = @ + 1]
  /\ UNCHANGED <<disk, changes, requested, container_, exit_requested_, stream>>

\* fread fails or stops early: the transfer goes on as if nothing had happened.
ReadFails(readbytes) ==
  /\ transfer.step = "data" /\ transfer.pkgno <= transfer.packagecount
  /\ changes < MaxChanges
  /\ readbytes < Available(transfer)
  /\ changes' = changes + 1
  /\ sent' = Append(sent, PackageFileData(transfer, readbytes))
  /\ transfer' = [transfer EXCEPT !.pkgno = @ + 1, !.intact = FALSE]
  /\ UNCHANGED <<disk, requested, container_, exit_requested_, stream>>

SeekFails ==
  /\ transfer.step = "data" /\ transfer.pkgno <= transfer.packagecount
  /\ changes < MaxChanges
  /\ changes' = changes + 1
  /\ stream' = Closed
  /\ transfer' = [transfer EXCEPT !.step = "error", !.errno = "EIO"]
  /\ UNCHANGED <<disk, requested, container_, exit_requested_, sent>>

\* fclose and LogFileEnd.  After an exit request the transfer has no end.
LogFileEnd ==
  /\ transfer.step = "data" /\ transfer.pkgno > transfer.packagecount
  /\ stream' = Closed
  /\ IF exit_requested_
       THEN transfer' = [transfer EXCEPT !.step = "loop"] /\ UNCHANGED sent
       ELSE /\ transfer' = [transfer EXCEPT !.step = "remove"]
            /\ sent' = Append(sent, PackageFileEnd(transfer))
  /\ UNCHANGED <<disk, changes, requested, container_, exit_requested_>>

(* Mutant: the thread ends with the first error.                           *)
LogFileErrorFatal ==
  /\ transfer.step = "error"
  /\ transfer' = [transfer EXCEPT !.step = "finished"]
  /\ UNCHANGED <<disk, changes, requested, container_, exit_requested_, stream, sent>>

LogFileError ==
  /\ transfer.step = "error"
  /\ IF exit_requested_
       THEN transfer' = [transfer EXCEPT !.step = "loop"] /\ UNCHANGED sent
       ELSE /\ transfer' = [transfer EXCEPT !.step = "remove"]
            /\ sent' = Append(sent, PackageFileError(transfer))
  /\ UNCHANGED <<disk, changes, requested, container_, exit_requested_, stream>>

(* Mutant: after an error the request is kept, to be tried again.          *)
RemoveFromFileQueueRetry ==
  /\ transfer.step = "remove"
  /\ container_' = IF sent[Len(sent)].type = "FLER" THEN container_ ELSE Tail(container_)
  /\ transfer' = [transfer EXCEPT !.step = "loop"]
  /\ UNCHANGED <<disk, changes, requested, exit_requested_, stream, sent>>

\* The file goes when that was asked for, after an error as well.
RemoveFromFileQueue ==
  /\ transfer.step = "remove"
  /\ disk' = IF Head(container_).delete_file
               THEN [disk EXCEPT ![transfer.readfile] = Absent] ELSE disk
  /\ container_' = Tail(container_)
  /\ transfer' = [transfer EXCEPT !.step = "loop"]
  /\ UNCHANGED <<changes, requested, exit_requested_, stream, sent>>

\* ~FileTransferStreamHandler, which then joins the thread.
RequestExit ==
  /\ ~exit_requested_
  /\ exit_requested_' = TRUE
  /\ UNCHANGED <<disk, changes, requested, container_, transfer, stream, sent>>

\* The owner of a file rewrites it in place, or removes it.
ChangeFile(f, size) ==
  /\ changes < MaxChanges
  /\ size # disk[f]
  /\ changes' = changes + 1
  /\ disk' = [disk EXCEPT ![f] = size]
  /\ LET current == f = transfer.readfile /\ transfer.step \in {"open", "data"}
     IN /\ stream' = IF current /\ stream.linked
                       THEN [stream EXCEPT !.size = IF size = Absent THEN @ ELSE size,
                                           !.linked = size # Absent]
                       ELSE stream
        /\ transfer' = IF current /\ (size # Absent \/ transfer.step = "open")
                         THEN [transfer EXCEPT !.intact = FALSE] ELSE transfer
  /\ UNCHANGED <<requested, container_, exit_requested_, sent>>

FileTransferThread ==
  \/ ReadFromQueue
  \/ LeaveLoop
  \/ LogFileHeader
  \/ \E errno \in {"ENOENT", "EIO"} : NoFileHeader(errno)
  \/ OpenFile
  \/ \E errno \in {"ENOENT", "EIO"} : OpenFails(errno)
  \/ LogFileData
  \/ \E readbytes \in 0..(kBufferSize - 1) : ReadFails(readbytes)
  \/ SeekFails
  \/ LogFileEnd
  \/ LogFileError
  \/ RemoveFromFileQueue

FileNext ==
  \/ \E f \in FileNames, delete_file \in BOOLEAN : Handle(TransferFile(f, delete_file))
  \/ FileTransferThread
  \/ RequestExit
  \/ \E f \in FileNames, size \in FileSizes \cup {Absent} : ChangeFile(f, size)

FileSpec == FileInit /\ [][FileNext]_fileVars

\* The thread runs: it sleeps only when the queue is empty.
FairFileSpec == FileSpec /\ WF_fileVars(FileTransferThread)

-----------------------------------------------------------------------------
(* The thread has at most the open file of the request it serves: one that *)
(* is open at any other place was leaked by an exit between fopen and the  *)
(* check of exit_requested_, and a package is sent from an open file only. *)
FileTypeOK ==
  /\ stream.open /\ transfer.step # "data" => exit_requested_
  /\ transfer.step = "data" => stream.open
  /\ transfer.pkgno \in 0..(transfer.packagecount + 1)
  /\ Range(container_) \subseteq FileTransferEntry
  /\ transfer.step \in {"header", "open", "data", "remove"} => container_ # <<>>

(* An end message follows a header and exactly the packages it announced,  *)
(* numbered from one, whatever happened to the file and to the reads: an   *)
(* end in the middle is never sent.  That they hold all of the file, every *)
(* package but the last full and the last one ending where the file does,  *)
(* is claimed only for a transfer during which the file was not changed,   *)
(* every fread returned what was there, and the size fits in 32 bits.      *)
EndIsComplete ==
  \A i \in DOMAIN sent :
    sent[i].type = "FLFI" =>
      \E h \in 1..(i - 1) :
        /\ sent[h].type = "FLST" /\ sent[h].packagecount = i - h - 1
        /\ \A k \in 1..(i - h - 1) :
             /\ sent[h + k].type = "FLDA" /\ sent[h + k].pkgno = k
             /\ sent[h + k].serialno = sent[h].serialno
             /\ sent[i].intact =>
                  sent[h + k].bytes
                    = IF k < i - h - 1 THEN kBufferSize
                      ELSE sent[h].serialno[2] - (k - 1) * kBufferSize

\* The places of the messages that end a transfer, how many there are up to
\* a place, and the file such a message names.
Answers == {i \in DOMAIN sent : sent[i].type \in {"FLFI", "FLER"}}
AnswersUpTo(i) == Cardinality({j \in Answers : j <= i})
AnsweredFile(m) == IF m.type = "FLER" THEN m.name ELSE m.serialno[1]

\* The requests of the queue that have no answer yet.
OpenRequests == Len(container_) - (IF transfer.step = "remove" THEN 1 ELSE 0)

(* Every accepted request is answered by exactly one end or error message, *)
(* in the order of the requests, however the queue grows meanwhile: the    *)
(* n-th answer names the file of the n-th request.                         *)
AnsweredOnceInOrder ==
  /\ Cardinality(Answers) + OpenRequests = Len(requested)
  /\ \A i \in Answers : AnsweredFile(sent[i]) = requested[AnswersUpTo(i)].file_name

(* Every request is answered unless the handler is destroyed: a file that  *)
(* is missing, unreadable or changing does not stop the ones behind it,    *)
(* and once no more requests come in the thread catches up with them.      *)
RequestsAreServed ==
  Cardinality(Answers) < Len(requested) ~>
    Cardinality(Answers) = Len(requested) \/ exit_requested_

(* The destructor's join returns.                                          *)
DestructorReturns == exit_requested_ ~> transfer.step = "finished"

=============================================================================

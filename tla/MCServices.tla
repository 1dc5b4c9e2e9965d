----------------------------- MODULE MCServices -----------------------------
(***************************************************************************)
(* The two services of the Datarouter that have a thread of their own, for *)
(* TLC: the configuration server on its unix domain socket and the file    *)
(* transfer.  They share no variable; a behaviour is one of a single       *)
(* service, chosen in the initial state, with the fairness of that service.*)
(***************************************************************************)
EXTENDS UnixDomainServer, FileTransfer

VARIABLE service

MCvars == <<service, unixVars, fileVars>>

MCInit ==
  /\ service \in {"unix", "file"}
  /\ UnixInit
  /\ FileInit
  /\ service = "unix" => \A f \in FileNames : disk[f] = 0

InUnix(A) == service = "unix" /\ A /\ UNCHANGED <<service, fileVars>>
InFile(A) == service = "file" /\ A /\ UNCHANGED <<service, unixVars>>

MCNext == InUnix(UnixNext) \/ InFile(FileNext)

MCFairness ==
  /\ WF_MCvars(InUnix(ServerStep))
  /\ SF_MCvars(InUnix(PollIdle))
  /\ \A fd \in Fds : WF_MCvars(InUnix(Expire(fd)))
  /\ WF_MCvars(InFile(FileTransferThread))

MCSpec == MCInit /\ [][MCNext]_MCvars /\ MCFairness
=============================================================================

------------------------------- MODULE MCLocks -------------------------------
(* What the processes of a user share: the locks of their sessions, and    *)
(* the files of one project, which its lock protects.  The two share no    *)
(* state; a behaviour is one of one part.                                  *)
EXTENDS MCStorageLocks, ProjectFiles

VARIABLE part

LocksInit == part \in {"locks", "files"} /\ Init /\ FilesInit

LocksNext ==
  /\ UNCHANGED part
  /\ \/ part = "locks" /\ Next /\ UNCHANGED filesVars
     \/ part = "files" /\ FilesNext /\ UNCHANGED vars
     \/ part = "files" /\ commands = MaxCommands /\ UNCHANGED <<vars, filesVars>>

(* The fairness is that of StorageLocks!FairSpec.                          *)
LocksSpec ==
  /\ LocksInit /\ [][LocksNext]_<<part, vars, filesVars>>
  /\ \A p \in Procs : WF_vars(LockStep(p)) /\ WF_vars(ReturnStep(p))

(* The properties of the files are those of ProjectFiles.                  *)
=============================================================================

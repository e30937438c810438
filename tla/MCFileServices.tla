--------------------------- MODULE MCFileServices ---------------------------
(***************************************************************************)
(* The services that share their state through JSON files (FileServices),  *)
(* beside what is shared in MCSharing, which stands still here.  Two       *)
(* commands at a time; a lock of either of two files.                      *)
(***************************************************************************)
EXTENDS MCSharing

LOCAL INSTANCE TLC

CONSTANTS Processes, Requests, Fallback, Locks, Paths, Tasks

ASSUME FilesConstants == "none" \notin Processes /\ Tasks \subseteq Nat \ {0}

VARIABLES
  service, waiting, history, asked, expired, told, locks, lock, dead, granted, tasks, created,
  proc, blank, exposed

Files == INSTANCE FileServices WITH pending <- waiting

filesVars == <<service, waiting, history, asked, expired, told, locks, lock, dead, granted,
               tasks, created, proc, blank, exposed>>

FilesInit == Files!Init /\ Init /\ Sync!Init /\ part = "files"
FilesStep ==
  /\ Files!Next
  /\ UNCHANGED <<vars, syncs, pushing, sends, remote, cleaners, requests, loads, branches,
                 received, acks, loaded, interrupted, part>>

FilesSpec == FilesInit /\ [][FilesStep]_<<filesVars, vars, syncVars, part>>

\* The properties of FileServices, where each is explained.
FilesTypesOK == Files!TypeOK
SettledOnce == Files!SettledOnce
OneHolder == Files!OneHolder

\* Request 1 waits after its deadline, request 2 is given up.
MCFallback == [r \in Requests |-> IF r = 1 THEN "wait" ELSE "cancel"]

\* Neither commands nor paths are told apart.
Symmetry == Permutations(Processes) \union Permutations(Paths)
=============================================================================

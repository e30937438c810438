----------------------------- MODULE MCSharing -----------------------------
(***************************************************************************)
(* What is shared with other machines and services: the workspace of a     *)
(* room (Workspace) and the context of a user's work (ContextSync).  The   *)
(* two share no state, so a behaviour is one of either.                    *)
(***************************************************************************)
EXTENDS Workspace

CONSTANTS MaxSyncs, Loads, MaxCalls, MaxFaults

ASSUME SharingConstants == {MaxSyncs, MaxCalls, MaxFaults} \subseteq Nat /\ Loads \subseteq Nat

VARIABLES
  syncs, pushing, sends, remote, cleaners, requests, loads, branches, received, acks, loaded,
  interrupted, faults,
  part

Sync == INSTANCE ContextSync

syncVars == <<syncs, pushing, sends, remote, cleaners, requests, loads, branches, received,
              acks, loaded, interrupted, faults>>

SharingInit == Init /\ Sync!Init /\ part \in {"sync", "workspace"}

SyncStep == part = "sync" /\ Sync!Next /\ UNCHANGED <<vars, part>>
WorkStep == part = "workspace" /\ Next /\ UNCHANGED <<syncVars, part>>

SharingSpec == SharingInit /\ [][SyncStep \/ WorkStep]_<<vars, syncVars, part>>

\* The types of both.
TypesOK == TypeOK /\ Sync!TypeOK

\* The properties of ContextSync, where each is explained: an acknowledged sync is recorded
\* by its receiver, a context is loaded once, and every ref of git is recorded for cleanup.
SyncSafe == Sync!AckedIsReceived /\ Sync!LoadedOnce /\ Sync!RefsRecorded
=============================================================================

------------------------------ MODULE Registry ------------------------------
(***************************************************************************)
(* Who is there: the participants registered with the broker, the names    *)
(* and logical ids they are addressed by, their roles, their presence, and *)
(* what an observer's inbox says of them (src/broker/service.js over       *)
(* presence.js and websocket.js).                                          *)
(*                                                                         *)
(* Everything but the roles and the inboxes is in the memory of the single *)
(* broker process, and no handler awaits, so each handler is one action.   *)
(* Clock ticks age the presence entries; an entry is stale when older than *)
(* Timeout, and an agent that is offline longer than PruneAfter is removed.*)
(*                                                                         *)
(* A participant may register, connect and report in any order, also while *)
(* it is not registered.  Its process may be gone without a word (silent); *)
(* then only its sockets still close.                                      *)
(***************************************************************************)
EXTENDS Integers, Sequences, FiniteSets

CONSTANTS
  Agents, Humans,
  Observer,      \* a human whose inbox is watched
  Wired,         \* participants that open websockets
  Names,         \* aliases
  Candidates,    \* the aliases tried for a requested one, in order
  DefaultName,   \* alias a participant asks for when it first registers
  LogicalIds,
  Roles,
  Nobody,        \* no participant, no alias, no logical id
  Timeout,       \* presenceTimeoutMs, in ticks
  PruneAfter,    \* PRUNE_THRESHOLD_MS, in ticks
  MaxSockets,    \* bound: open sockets of one participant
  MaxRestarts    \* bound: restarts of the broker

Participants == Agents \cup Humans

ASSUME KindsType == Agents \cap Humans = {} /\ Observer \in Humans
                    /\ Wired \subseteq Participants
ASSUME NamesType ==
  /\ Candidates \in [Names -> Seq(Names)]
  /\ DefaultName \in [Participants -> Names]
  /\ Nobody \notin Participants \cup Names \cup LogicalIds
ASSUME TimesType == Timeout \in Nat /\ PruneAfter \in Nat /\ Timeout < PruneAfter
ASSUME BoundsType == MaxSockets \in Nat /\ MaxRestarts \in Nat

VARIABLES
  registered,  \* keys of the participants map
  alias,       \* alias of a registered participant, else Nobody
  aliases,     \* the alias map: who owns a name
  logical,     \* logicalParticipantId of a registered participant, else Nobody
  sessions,    \* logicalParticipants: sessions under each logical id
  moved,       \* history: <<p, l>> of those that left a logical id for another or none
  roles,       \* roles in memory
  dbRoles,     \* table participant_roles
  working,     \* keys of workStates
  status,      \* stored presence: none, online, offline
  ws,          \* metadata.transport of the presence entry is "websocket"
  age,         \* ticks since lastSeen
  sockets,     \* open websockets
  heard,       \* last presence news in the observer's inbox
  silent,      \* participants whose process is gone
  restarts

nameVars     == <<registered, alias, aliases, logical, sessions, moved, working>>
roleVars     == <<roles, dbRoles>>
presenceVars == <<status, ws, age, heard>>
vars == <<nameVars, roleVars, presenceVars, sockets, silent, restarts>>

TypeOK ==
  /\ registered \subseteq Participants
  /\ alias \in [Participants -> Names \cup {Nobody}]
  /\ aliases \in [Names -> Participants \cup {Nobody}]
  /\ logical \in [Participants -> LogicalIds \cup {Nobody}]
  /\ sessions \in [LogicalIds -> SUBSET Participants]
  /\ moved \subseteq Participants \X LogicalIds
  /\ roles \in [Participants -> SUBSET Roles]
  /\ dbRoles \in [Participants -> SUBSET Roles]
  /\ working \subseteq Participants
  /\ status \in [Participants -> {"none", "online", "offline"}]
  /\ ws \in [Participants -> BOOLEAN]
  /\ age \in [Participants -> Nat]
  /\ sockets \in [Participants -> Nat]
  /\ heard \in [Participants -> {"none", "online", "offline", "removed"}]
  /\ silent \subseteq Participants
  /\ restarts \in Nat

Init ==
  /\ registered = {} /\ working = {} /\ silent = {} /\ restarts = 0
  /\ alias = [p \in Participants |-> Nobody]
  /\ aliases = [n \in Names |-> Nobody]
  /\ logical = [p \in Participants |-> Nobody]
  /\ sessions = [l \in LogicalIds |-> {}] /\ moved = {}
  /\ roles = [p \in Participants |-> {}]
  /\ dbRoles = [p \in Participants |-> {}]
  /\ status = [p \in Participants |-> "none"]
  /\ ws = [p \in Participants |-> FALSE]
  /\ age = [p \in Participants |-> 0]
  /\ sockets = [p \in Participants |-> 0]
  /\ heard = [p \in Participants |-> "none"]

-----------------------------------------------------------------------------
(* Presence *)

Stale(p) == age[p] > Timeout

\* getPresence: a stale entry reads as offline.
Effective(p) == IF status[p] = "none" \/ Stale(p) THEN "offline" ELSE status[p]

\* News about p, one of the registered participants in all, reaches the
\* observer if it is registered too.
Tell(p, all, news) ==
  heard' = IF p \in all /\ Observer \in all \ {p}
           THEN [heard EXCEPT ![p] = news] ELSE heard

\* setPresence online, told if the effective status changes.
SetOnline(p, all, websocket) ==
  /\ status' = [status EXCEPT ![p] = "online"]
  /\ ws' = [ws EXCEPT ![p] = websocket]
  /\ age' = [age EXCEPT ![p] = 0]
  /\ IF Effective(p) = "online" THEN UNCHANGED heard
     ELSE Tell(p, all, "online")

\* Mutant: the alias of a pruned participant stays taken.
KeepName(p) == aliases

\* releaseAlias
ReleaseName(p) ==
  IF alias[p] # Nobody THEN [aliases EXCEPT ![alias[p]] = Nobody] ELSE aliases

\* pruneParticipant, for a set of them: the removal is broadcast, names,
\* sessions, work state and presence entries are deleted, roles stay stored.
Forget(gone) ==
  /\ registered' = registered \ gone
  /\ aliases' = [n \in Names |-> IF \E p \in gone : ReleaseName(p)[n] # aliases[n]
                                 THEN Nobody ELSE aliases[n]]
  /\ alias' = [p \in Participants |-> IF p \in gone THEN Nobody ELSE alias[p]]
  /\ sessions' = [l \in LogicalIds |->
                    sessions[l] \ {p \in gone : logical[p] = l}]
  /\ logical' = [p \in Participants |-> IF p \in gone THEN Nobody
                                        ELSE logical[p]]
  /\ roles' = [p \in Participants |-> IF p \in gone THEN {} ELSE roles[p]]
  /\ working' = working \ gone
  /\ UNCHANGED <<dbRoles, moved>>

\* setPresence offline, without consequences for the registration.
SetOffline(p, websocket) ==
  /\ status' = [status EXCEPT ![p] = "offline"]
  /\ ws' = [ws EXCEPT ![p] = websocket]
  /\ age' = [age EXCEPT ![p] = 0]
  /\ IF status[p] # "online" THEN UNCHANGED heard
     ELSE Tell(p, registered, "offline")
  /\ UNCHANGED <<nameVars, roleVars>>

\* setPresence offline by an agent that leaves for good (parent-exit, or its
\* relay says so): it is pruned at once.
SayGoodbye(p) ==
  /\ p \in registered \cap Agents
  /\ Forget({p})
  /\ status' = [status EXCEPT ![p] = "none"]
  /\ ws' = [ws EXCEPT ![p] = FALSE]
  /\ age' = [age EXCEPT ![p] = 0]
  /\ Tell(p, registered, "removed")

\* POST /presence: nothing asks whether the participant is registered.
UpdatePresence(p, state) ==
  /\ p \notin silent
  /\ \/ /\ state = "online"
        /\ SetOnline(p, registered, FALSE)
        /\ UNCHANGED <<nameVars, roleVars>>
     \/ state = "offline" /\ SetOffline(p, FALSE)
     \/ state = "gone" /\ SayGoodbye(p)
  /\ UNCHANGED <<sockets, silent, restarts>>

\* Mutant: a stale human is treated like an agent.
AnyRegistered == registered
Prunable == registered \cap Agents

\* Mutant: an entry that is offline already is put offline again.
EveryStale == {p \in Participants : status[p] # "none" /\ Stale(p)}
Expired == {p \in Participants : status[p] = "online" /\ Stale(p)}

\* sweepStalePresence, over all entries in one go.  A stale entry goes
\* offline.  An agent with a stale entry that is not of a websocket is
\* pruned, and any agent whose entry is offline and older than PruneAfter.
Sweep ==
  LET gone == {p \in Prunable :
                 \/ p \in Expired /\ ~ws[p]
                 \/ p \in Expired /\ age[p] > PruneAfter
                 \/ status[p] = "offline" /\ age[p] > PruneAfter}
      late == Expired \ gone
  IN  /\ gone \cup late # {}
      /\ Forget(gone)
      /\ status' = [p \in Participants |-> IF p \in gone THEN "none"
                                           ELSE IF p \in late THEN "offline"
                                           ELSE status[p]]
      /\ ws' = [p \in Participants |-> ws[p] /\ p \notin gone]
      /\ age' = [p \in Participants |-> IF p \in gone \cup late THEN 0
                                        ELSE age[p]]
      /\ heard' = [p \in Participants |->
                     IF Observer \notin registered \ {p} THEN heard[p]
                     ELSE IF p \in gone THEN "removed"
                     ELSE IF p \in late \cap registered THEN "offline"
                     ELSE heard[p]]
      /\ UNCHANGED <<sockets, silent, restarts>>

-----------------------------------------------------------------------------
(* Websockets *)

WsConnect(p) ==
  /\ p \notin silent
  /\ sockets[p] < MaxSockets
  /\ sockets' = [sockets EXCEPT ![p] = @ + 1]
  /\ SetOnline(p, registered, TRUE)
  /\ UNCHANGED <<nameVars, roleVars, silent, restarts>>

\* A pong, or the turn of p in the heartbeat timer's loop, which also counts
\* sockets that it has not yet found dead.
WsHeartbeat(p) ==
  /\ sockets[p] > 0
  /\ SetOnline(p, registered, TRUE)
  /\ UNCHANGED <<nameVars, roleVars, sockets, silent, restarts>>

\* One socket closes.  The entry goes offline although others may be open.
WsDisconnect(p) ==
  /\ sockets[p] > 0
  /\ sockets' = [sockets EXCEPT ![p] = @ - 1]
  /\ SetOffline(p, TRUE)
  /\ UNCHANGED <<silent, restarts>>

-----------------------------------------------------------------------------
(* Registration *)

FreeFor(p, n) == aliases[n] \in {Nobody, p}

\* assignUniqueAlias: the first candidate nobody else has; the old name is
\* released when it differs.
AssignAlias(p, requested) ==
  \E i \in 1..Len(Candidates[requested]) :
    LET n == Candidates[requested][i] IN
    /\ FreeFor(p, n)
    /\ \A j \in 1..(i - 1) : ~FreeFor(p, Candidates[requested][j])
    /\ aliases' = [ReleaseName(p) EXCEPT ![n] = p]
    /\ alias' = [alias EXCEPT ![p] = n]

StoredRoles(p, incoming) == [dbRoles EXCEPT ![p] = @ \cup incoming]

\* A participant registers, or registers again and keeps the alias it has.
\* The logical id of an earlier registration is not taken back.
RegisterParticipant(p, incoming, l) ==
  /\ p \notin silent
  /\ AssignAlias(p, IF alias[p] # Nobody THEN alias[p] ELSE DefaultName[p])
  /\ registered' = registered \cup {p}
  /\ dbRoles' = StoredRoles(p, incoming)
  /\ roles' = [roles EXCEPT ![p] = dbRoles[p] \cup incoming]
  /\ logical' = [logical EXCEPT ![p] = l]
  /\ sessions' = IF l = Nobody THEN sessions
                 ELSE [sessions EXCEPT ![l] = @ \cup {p}]
  /\ moved' = (moved \ {<<p, l>>}) \cup {<<p, k>> : k \in {logical[p]} \ {Nobody, l}}
  /\ SetOnline(p, registered', FALSE)
  /\ UNCHANGED <<working, sockets, silent, restarts>>

UpdateParticipantAlias(p, requested) ==
  /\ p \in registered \ silent
  /\ AssignAlias(p, requested)
  /\ UNCHANGED <<registered, logical, sessions, moved, working, roleVars,
                 presenceVars, sockets, silent, restarts>>

AddParticipantRoles(p, more) ==
  /\ p \in registered
  /\ more \ roles[p] # {}
  /\ dbRoles' = [dbRoles EXCEPT ![p] = @ \cup (more \ roles[p])]
  /\ roles' = [roles EXCEPT ![p] = @ \cup more]
  /\ UNCHANGED <<nameVars, presenceVars, sockets, silent, restarts>>

RemoveParticipantRoles(p, less) ==
  /\ p \in registered
  /\ less \cap roles[p] # {}
  /\ dbRoles' = [dbRoles EXCEPT ![p] = @ \ less]
  /\ roles' = [roles EXCEPT ![p] = @ \ less]
  /\ UNCHANGED <<nameVars, presenceVars, sockets, silent, restarts>>

UpdateWorkState(p) ==
  /\ p \in registered \ silent
  /\ working' = working \cup {p}
  /\ SetOnline(p, registered, FALSE)
  /\ UNCHANGED <<registered, alias, aliases, logical, sessions, moved, roleVars,
                 sockets, silent, restarts>>

-----------------------------------------------------------------------------
(* Environment *)

\* The broker restarts: its memory and its sockets are gone, roles and
\* inboxes are in the database.
BrokerRestart ==
  /\ restarts < MaxRestarts
  /\ restarts' = restarts + 1
  /\ registered' = {} /\ working' = {} /\ moved' = {}
  /\ alias' = [p \in Participants |-> Nobody]
  /\ aliases' = [n \in Names |-> Nobody]
  /\ logical' = [p \in Participants |-> Nobody]
  /\ sessions' = [l \in LogicalIds |-> {}]
  /\ roles' = [p \in Participants |-> {}]
  /\ sockets' = [p \in Participants |-> 0]
  /\ status' = [p \in Participants |-> "none"]
  /\ ws' = [p \in Participants |-> FALSE]
  /\ age' = [p \in Participants |-> 0]
  /\ UNCHANGED <<dbRoles, heard, silent>>

\* The process of p is gone without saying goodbye.
FallSilent(p) ==
  /\ p \notin silent
  /\ silent' = silent \cup {p}
  /\ UNCHANGED <<nameVars, roleVars, presenceVars, sockets, restarts>>

\* Time passes; an entry older than PruneAfter stays so.
Tick ==
  /\ \E p \in Participants : status[p] # "none" /\ age[p] <= PruneAfter
  /\ age' = [p \in Participants |->
               IF status[p] # "none" /\ age[p] <= PruneAfter THEN age[p] + 1
               ELSE age[p]]
  /\ UNCHANGED <<nameVars, roleVars, status, ws, heard, sockets, silent,
                 restarts>>

Next ==
  \/ \E p \in Agents, r \in SUBSET Roles, l \in LogicalIds \cup {Nobody} :
        RegisterParticipant(p, r, l)
  \/ \E p \in Humans : RegisterParticipant(p, {}, Nobody)
  \/ \E p \in Participants, n \in Names : UpdateParticipantAlias(p, n)
  \/ \E p \in Agents, r \in SUBSET Roles : AddParticipantRoles(p, r)
  \/ \E p \in Agents, r \in SUBSET Roles : RemoveParticipantRoles(p, r)
  \/ \E p \in Agents : UpdateWorkState(p)
  \/ \E p \in Participants, s \in {"online", "offline", "gone"} :
        UpdatePresence(p, s)
  \/ \E p \in Wired : WsConnect(p)
  \/ \E p \in Wired : WsHeartbeat(p)
  \/ \E p \in Wired : WsDisconnect(p)
  \/ \E p \in Agents : FallSilent(p)
  \/ Sweep
  \/ BrokerRestart
  \/ Tick

Spec == Init /\ [][Next]_vars

\* The clock advances, the sweep timer runs, and the sockets of a process
\* that is gone are found dead by the heartbeat.
LiveSpec ==
  /\ Spec
  /\ WF_vars(Tick)
  /\ WF_vars(Sweep)
  /\ \A p \in Agents \cap Wired : WF_vars(p \in silent /\ WsDisconnect(p))

-----------------------------------------------------------------------------
(* Properties *)

\* Whatever registers, is renamed, expires, says goodbye or restarts in
\* whatever order: an alias leads to the registered participant that has it
\* and to nobody else, and nobody who left is listed as working.  A logical
\* id leads to the registered participants that have it, and besides to
\* nobody but those that have left it for another one or for none since the
\* broker started, and have not come back to it; whether they are registered
\* still is not asked.
AddressesReach ==
  /\ \A n \in Names, p \in Participants :
       aliases[n] = p <=> p \in registered /\ alias[p] = n
  /\ \A p \in registered : alias[p] # Nobody
  /\ \A l \in LogicalIds, p \in Participants :
       p \in sessions[l] <=> (p \in registered /\ logical[p] = l) \/ <<p, l>> \in moved
  /\ working \subseteq registered

\* Does not hold: a logical id leads to the participants that have it.
LogicalIsCurrent ==
  \A l \in LogicalIds : sessions[l] = {p \in registered : logical[p] = l}

\* The roles that route messages are the ones a restart would read back.
RolesDurable == \A p \in registered : roles[p] = dbRoles[p]

\* Whoever disappears from a running broker is an agent, and its removal is
\* the last the observer hears of it, also when the same sweep put it offline.
LeavingIsTold ==
  [][\A p \in registered \ registered' :
       restarts' = restarts =>
         /\ p \in Agents
         /\ Observer \in registered => heard'[p] = "removed"]_vars

\* An agent whose process is gone is removed in the end, whatever sockets,
\* work states and presence entries it left behind.
SilentAgentsLeave ==
  \A p \in Agents : (p \in silent) ~> (p \notin registered)
=============================================================================

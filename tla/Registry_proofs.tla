--------------------------- MODULE Registry_proofs ---------------------------
(***************************************************************************)
(* Proofs about Registry for any agents, humans, aliases, logical ids,     *)
(* roles, time limits and numbers of sockets and restarts.                 *)
(*                                                                         *)
(* AddressesReach becomes inductive with NamesOfAbsent: a participant that *)
(* is not registered holds no alias or logical id, so that registering it  *)
(* releases nobody else's, and nobody has left the logical id that it has. *)
(* Names change in two ways: some participants are forgotten (lemma        *)
(* ForgetNames), or one is given a name or registered (AssignNames).       *)
(***************************************************************************)
EXTENDS Registry, TLAPS

-----------------------------------------------------------------------------
(* Types *)

LEMMA TypeInit == Init => TypeOK
BY DEF Init, TypeOK

LEMMA ForgetType ==
  ASSUME TypeOK, NEW gone \in SUBSET Participants, Forget(gone)
  PROVE  /\ registered' \subseteq Participants
         /\ alias' \in [Participants -> Names \cup {Nobody}]
         /\ aliases' \in [Names -> Participants \cup {Nobody}]
         /\ logical' \in [Participants -> LogicalIds \cup {Nobody}]
         /\ sessions' \in [LogicalIds -> SUBSET Participants]
         /\ roles' \in [Participants -> SUBSET Roles]
         /\ dbRoles' \in [Participants -> SUBSET Roles]
         /\ working' \subseteq Participants
         /\ moved' = moved
BY DEF Forget, TypeOK

LEMMA AssignType ==
  ASSUME TypeOK, NEW p \in Participants, NEW requested \in Names,
         AssignAlias(p, requested)
  PROVE  /\ alias' \in [Participants -> Names \cup {Nobody}]
         /\ aliases' \in [Names -> Participants \cup {Nobody}]
<1>1. Candidates[requested] \in Seq(Names)
  BY NamesType
<1>2. PICK i \in 1..Len(Candidates[requested]) :
        /\ aliases' = [ReleaseName(p) EXCEPT ![Candidates[requested][i]] = p]
        /\ alias' = [alias EXCEPT ![p] = Candidates[requested][i]]
  BY DEF AssignAlias
<1>3. Candidates[requested][i] \in Names
  BY <1>1
<1>4. ReleaseName(p) \in [Names -> Participants \cup {Nobody}]
  BY DEF ReleaseName, TypeOK
<1>. QED
  BY <1>2, <1>3, <1>4 DEF TypeOK

LEMMA OnlineType ==
  ASSUME TypeOK, NEW p \in Participants, NEW all, NEW websocket \in BOOLEAN,
         SetOnline(p, all, websocket)
  PROVE  /\ status' \in [Participants -> {"none", "online", "offline"}]
         /\ ws' \in [Participants -> BOOLEAN]
         /\ age' \in [Participants -> Nat]
         /\ heard' \in [Participants -> {"none", "online", "offline", "removed"}]
BY DEF SetOnline, Tell, TypeOK

LEMMA OfflineType ==
  ASSUME TypeOK, NEW p \in Participants, NEW websocket \in BOOLEAN,
         SetOffline(p, websocket)
  PROVE  /\ status' \in [Participants -> {"none", "online", "offline"}]
         /\ ws' \in [Participants -> BOOLEAN]
         /\ age' \in [Participants -> Nat]
         /\ heard' \in [Participants -> {"none", "online", "offline", "removed"}]
         /\ UNCHANGED <<nameVars, roleVars>>
BY DEF SetOffline, Tell, TypeOK

LEMMA TypeStep == TypeOK /\ [Next]_vars => TypeOK'
<1>. SUFFICES ASSUME TypeOK, [Next]_vars PROVE TypeOK'
  OBVIOUS
<1>. USE DEF nameVars, roleVars, presenceVars
<1>1. ASSUME NEW p \in Participants, NEW r \in SUBSET Roles,
             NEW l \in LogicalIds \cup {Nobody}, RegisterParticipant(p, r, l)
      PROVE  TypeOK'
  <2>1. (IF alias[p] # Nobody THEN alias[p] ELSE DefaultName[p]) \in Names
    BY NamesType DEF TypeOK
  <2>2. /\ alias' \in [Participants -> Names \cup {Nobody}]
        /\ aliases' \in [Names -> Participants \cup {Nobody}]
    BY <1>1, <2>1, AssignType DEF RegisterParticipant
  <2>3. /\ status' \in [Participants -> {"none", "online", "offline"}]
        /\ ws' \in [Participants -> BOOLEAN]
        /\ age' \in [Participants -> Nat]
        /\ heard' \in [Participants -> {"none", "online", "offline", "removed"}]
    BY <1>1, OnlineType DEF RegisterParticipant
  <2>4. moved' \subseteq Participants \X LogicalIds
    <3>1. moved' = (moved \ {<<p, l>>}) \cup {<<p, k>> : k \in {logical[p]} \ {Nobody, l}}
      BY <1>1 DEF RegisterParticipant
    <3>2. logical[p] \in LogicalIds \cup {Nobody} /\ moved \subseteq Participants \X LogicalIds
      BY DEF TypeOK
    <3>. QED
      BY <3>1, <3>2
  <2>5. /\ registered' \subseteq Participants /\ working' = working /\ sockets' = sockets
        /\ dbRoles' \in [Participants -> SUBSET Roles] /\ roles' \in [Participants -> SUBSET Roles]
        /\ logical' \in [Participants -> LogicalIds \cup {Nobody}]
        /\ sessions' \in [LogicalIds -> SUBSET Participants]
        /\ UNCHANGED <<silent, restarts>>
    BY <1>1 DEF RegisterParticipant, StoredRoles, TypeOK
  <2>. QED
    BY <2>2, <2>3, <2>4, <2>5 DEF TypeOK
<1>2. ASSUME NEW p \in Participants, NEW n \in Names, UpdateParticipantAlias(p, n)
      PROVE  TypeOK'
  BY <1>2, AssignType DEF UpdateParticipantAlias, TypeOK
<1>3. ASSUME NEW p \in Agents, NEW r \in SUBSET Roles, AddParticipantRoles(p, r)
      PROVE  TypeOK'
  BY <1>3 DEF AddParticipantRoles, TypeOK
<1>4. ASSUME NEW p \in Agents, NEW r \in SUBSET Roles, RemoveParticipantRoles(p, r)
      PROVE  TypeOK'
  BY <1>4 DEF RemoveParticipantRoles, TypeOK
<1>5. ASSUME NEW p \in Agents, UpdateWorkState(p) PROVE TypeOK'
  <2>1. p \in Participants
    BY DEF Participants
  <2>. QED
    BY <2>1, <1>5, OnlineType DEF UpdateWorkState, TypeOK
<1>6. ASSUME NEW p \in Participants, SetOnline(p, registered, FALSE),
             UNCHANGED <<nameVars, roleVars, sockets, silent, restarts>>
      PROVE  TypeOK'
  BY <1>6, OnlineType DEF TypeOK
<1>7. ASSUME NEW p \in Participants, SetOffline(p, FALSE),
             UNCHANGED <<sockets, silent, restarts>>
      PROVE  TypeOK'
  BY <1>7, OfflineType DEF TypeOK
<1>8. ASSUME NEW p \in Participants, SayGoodbye(p),
             UNCHANGED <<sockets, silent, restarts>>
      PROVE  TypeOK'
  <2>1. Forget({p}) /\ {p} \in SUBSET Participants
    BY <1>8 DEF SayGoodbye
  <2>2. /\ status' \in [Participants -> {"none", "online", "offline"}]
        /\ ws' \in [Participants -> BOOLEAN]
        /\ age' \in [Participants -> Nat]
        /\ heard' \in [Participants -> {"none", "online", "offline", "removed"}]
    BY <1>8 DEF SayGoodbye, Tell, TypeOK
  <2>. QED
    BY <2>1, <2>2, <1>8, ForgetType DEF TypeOK
<1>9. ASSUME NEW p \in Participants, NEW s \in {"online", "offline", "gone"},
             UpdatePresence(p, s)
      PROVE  TypeOK'
  BY <1>9, <1>6, <1>7, <1>8 DEF UpdatePresence
<1>10. ASSUME NEW p \in Wired, WsConnect(p) PROVE TypeOK'
  <2>1. p \in Participants
    BY KindsType
  <2>2. sockets' \in [Participants -> Nat]
    BY <2>1, <1>10 DEF WsConnect, TypeOK
  <2>. QED
    BY <2>1, <2>2, <1>10, OnlineType DEF WsConnect, TypeOK
<1>11. ASSUME NEW p \in Wired, WsHeartbeat(p) PROVE TypeOK'
  <2>1. p \in Participants
    BY KindsType
  <2>. QED
    BY <2>1, <1>11, OnlineType DEF WsHeartbeat, TypeOK
<1>12. ASSUME NEW p \in Wired, WsDisconnect(p) PROVE TypeOK'
  <2>1. p \in Participants
    BY KindsType
  <2>2. sockets' \in [Participants -> Nat]
    BY <2>1, <1>12 DEF WsDisconnect, TypeOK
  <2>. QED
    BY <2>1, <2>2, <1>12, OfflineType DEF WsDisconnect, TypeOK
<1>13. ASSUME NEW p \in Agents, FallSilent(p) PROVE TypeOK'
  BY <1>13 DEF FallSilent, TypeOK, Participants
<1>14. CASE Sweep
  <2>1. PICK gone \in SUBSET Participants : Forget(gone)
    BY <1>14 DEF Sweep, Prunable, TypeOK
  <2>2. /\ status' \in [Participants -> {"none", "online", "offline"}]
        /\ ws' \in [Participants -> BOOLEAN]
        /\ age' \in [Participants -> Nat]
        /\ UNCHANGED <<sockets, silent, restarts>>
    BY <1>14 DEF Sweep, TypeOK
  <2>3. heard' \in [Participants -> {"none", "online", "offline", "removed"}]
    BY <1>14 DEF Sweep, TypeOK
  <2>. QED
    BY <2>1, <2>2, <2>3, ForgetType DEF TypeOK
<1>15. CASE BrokerRestart
  BY <1>15 DEF BrokerRestart, TypeOK
<1>16. CASE Tick
  BY <1>16 DEF Tick, TypeOK
<1>17. CASE UNCHANGED vars
  BY <1>17 DEF vars, TypeOK
<1>18. Agents \subseteq Participants /\ Humans \subseteq Participants
  BY DEF Participants
<1>19. ASSUME NEW p \in Agents, NEW r \in SUBSET Roles,
              NEW l \in LogicalIds \cup {Nobody}, RegisterParticipant(p, r, l)
       PROVE  TypeOK'
  BY <1>1, <1>18, <1>19
<1>20. ASSUME NEW p \in Humans, RegisterParticipant(p, {}, Nobody) PROVE TypeOK'
  BY <1>1, <1>18, <1>20
<1>. QED
  BY <1>2, <1>3, <1>4, <1>5, <1>9, <1>10, <1>11, <1>12, <1>13, <1>14, <1>15,
     <1>16, <1>17, <1>19, <1>20
  DEF Next

\* The maps of the registry keep their shapes under every sequence of calls,
\* sweeps, socket events and restarts.
THEOREM TypeCorrect == Spec => []TypeOK
BY TypeInit, TypeStep, PTL DEF Spec

-----------------------------------------------------------------------------
(* Names *)

NamesOfAbsent ==
  /\ \A p \in Participants \ registered : alias[p] = Nobody /\ logical[p] = Nobody
  /\ \A p \in Participants : logical[p] # Nobody => <<p, logical[p]>> \notin moved

NamesInv == TypeOK /\ AddressesReach /\ NamesOfAbsent

\* Whatever becomes of a participant that is not registered afterwards, it
\* leaves no name, no session and no work state behind.
LEMMA ForgetNames ==
  ASSUME NamesInv, NEW gone \in SUBSET Participants, Forget(gone)
  PROVE  AddressesReach' /\ NamesOfAbsent'
<1>1. \A n \in Names : aliases'[n] =
        IF \E p \in gone : alias[p] = n /\ aliases[n] # Nobody THEN Nobody
        ELSE aliases[n]
  <2>1. ASSUME NEW n \in Names, NEW p \in gone
        PROVE  ReleaseName(p)[n] # aliases[n] <=>
                 alias[p] = n /\ aliases[n] # Nobody
    <3>1. n # Nobody
      BY NamesType
    <3>2. CASE alias[p] = Nobody
      BY <3>1, <3>2 DEF ReleaseName
    <3>3. CASE alias[p] # Nobody
      <4>1. ReleaseName(p)[n] = IF alias[p] = n THEN Nobody ELSE aliases[n]
        BY <3>3 DEF ReleaseName, NamesInv, TypeOK
      <4>. QED
        BY <4>1
    <3>. QED
      BY <3>2, <3>3
  <2>2. \A n \in Names : aliases'[n] =
          IF \E p \in gone : ReleaseName(p)[n] # aliases[n] THEN Nobody
          ELSE aliases[n]
    BY DEF Forget
  <2>. QED
    BY <2>1, <2>2
<1>2. \A p \in Participants :
        alias'[p] = IF p \in gone THEN Nobody ELSE alias[p]
  BY DEF Forget
<1>3. registered' = registered \ gone /\ working' = working \ gone
  BY DEF Forget
<1>4. ASSUME NEW n \in Names, NEW p \in Participants
      PROVE  aliases'[n] = p <=> p \in registered' /\ alias'[p] = n
  <2>1. n # Nobody /\ p # Nobody
    BY NamesType
  <2>2. \A q \in Participants :
          aliases[n] = q <=> q \in registered /\ alias[q] = n
    BY DEF NamesInv, AddressesReach
  <2>3. \A q \in gone : alias[q] = n => aliases[n] = q
    BY <2>1, <2>2 DEF NamesInv, NamesOfAbsent
  <2>. QED
    BY <1>1, <1>2, <1>3, <2>1, <2>2, <2>3
<1>5. /\ \A p \in registered' : alias'[p] # Nobody
      /\ \A l \in LogicalIds, p \in Participants :
           p \in sessions'[l] <=> (p \in registered' /\ logical'[p] = l) \/ <<p, l>> \in moved'
  <2>1. /\ \A p \in Participants :
             logical'[p] = IF p \in gone THEN Nobody ELSE logical[p]
        /\ \A l \in LogicalIds : sessions'[l] = sessions[l] \ {p \in gone : logical[p] = l}
        /\ moved' = moved
    BY DEF Forget
  <2>2. \A p \in registered' : alias'[p] # Nobody
    BY <1>2, <1>3 DEF NamesInv, AddressesReach, TypeOK
  <2>3. ASSUME NEW l \in LogicalIds, NEW p \in Participants
        PROVE  p \in sessions'[l] <=> (p \in registered' /\ logical'[p] = l) \/ <<p, l>> \in moved'
    <3>1. l # Nobody
      BY NamesType
    <3>2. p \in sessions[l] <=> (p \in registered /\ logical[p] = l) \/ <<p, l>> \in moved
      BY DEF NamesInv, AddressesReach
    <3>3. logical[p] = l => <<p, l>> \notin moved
      BY <3>1 DEF NamesInv, NamesOfAbsent
    <3>. QED
      BY <1>3, <2>1, <3>1, <3>2, <3>3
  <2>. QED
    BY <2>2, <2>3
<1>6. working' \subseteq registered'
  BY <1>3 DEF NamesInv, AddressesReach
<1>7. NamesOfAbsent'
  BY <1>2, <1>3 DEF Forget, NamesOfAbsent, NamesInv
<1>. QED
  BY <1>4, <1>5, <1>6, <1>7 DEF AddressesReach

\* A name that is assigned was free or the participant's own, and the one it
\* had before is released.
LEMMA AssignNames ==
  ASSUME NamesInv, NEW p \in Participants, NEW requested \in Names,
         AssignAlias(p, requested), registered' = registered \cup {p}
  PROVE  /\ \A n \in Names, q \in Participants :
              aliases'[n] = q <=> q \in registered' /\ alias'[q] = n
         /\ \A q \in registered' : alias'[q] # Nobody
         /\ \A q \in Participants \ registered' : alias'[q] = Nobody
<1>1. Candidates[requested] \in Seq(Names)
  BY NamesType
<1>2. PICK i \in 1..Len(Candidates[requested]) :
        /\ FreeFor(p, Candidates[requested][i])
        /\ aliases' = [ReleaseName(p) EXCEPT ![Candidates[requested][i]] = p]
        /\ alias' = [alias EXCEPT ![p] = Candidates[requested][i]]
  BY DEF AssignAlias
<1>3. PICK m \in Names :
        /\ aliases[m] \in {Nobody, p}
        /\ aliases' = [ReleaseName(p) EXCEPT ![m] = p]
        /\ alias' = [alias EXCEPT ![p] = m]
  <2>1. Candidates[requested][i] \in Names
    BY <1>1
  <2>2. aliases[Candidates[requested][i]] \in {Nobody, p}
    BY <1>2 DEF FreeFor
  <2>. QED
    BY <1>2, <2>1, <2>2
<1>4. /\ alias'[p] = m
      /\ \A q \in Participants \ {p} : alias'[q] = alias[q]
  BY <1>3 DEF NamesInv, TypeOK
<1>5. Nobody \notin Names /\ Nobody \notin Participants
  BY NamesType
<1>6. /\ aliases'[m] = p
      /\ \A n \in Names \ {m} :
           aliases'[n] = IF alias[p] = n THEN Nobody ELSE aliases[n]
  BY <1>3, <1>5 DEF NamesInv, TypeOK, ReleaseName
<1>7. \A n \in Names, q \in Participants :
        aliases[n] = q <=> q \in registered /\ alias[q] = n
  BY DEF NamesInv, AddressesReach
<1>8. ASSUME NEW n \in Names, NEW q \in Participants
      PROVE  aliases'[n] = q <=> q \in registered' /\ alias'[q] = n
  <2>1. CASE q = p
    <3>1. n # m => aliases'[n] # p
      BY <1>5, <1>6, <1>7 DEF NamesInv, NamesOfAbsent
    <3>. QED
      BY <2>1, <3>1, <1>4, <1>6
  <2>2. CASE q # p
    <3>1. ~(q \in registered /\ alias[q] = m)
      BY <1>3, <1>5, <1>7, <2>2
    <3>2. alias[p] = n => ~(q \in registered /\ alias[q] = n)
      BY <1>5, <1>7, <2>2 DEF NamesInv, NamesOfAbsent
    <3>. QED
      BY <3>1, <3>2, <2>2, <1>4, <1>5, <1>6, <1>7
  <2>. QED
    BY <2>1, <2>2
<1>9. \A q \in registered' : alias'[q] # Nobody
  BY <1>4, <1>5 DEF NamesInv, AddressesReach, TypeOK
<1>10. \A q \in Participants \ registered' : alias'[q] = Nobody
  BY <1>4 DEF NamesOfAbsent, NamesInv, TypeOK
<1>. QED
  BY <1>8, <1>9, <1>10

LEMMA NamesStep == NamesInv /\ [Next]_vars => AddressesReach' /\ NamesOfAbsent'
<1>. SUFFICES ASSUME NamesInv, [Next]_vars
              PROVE  AddressesReach' /\ NamesOfAbsent'
  OBVIOUS
<1>. USE DEF nameVars
<1>1. ASSUME UNCHANGED nameVars PROVE AddressesReach' /\ NamesOfAbsent'
  BY <1>1 DEF NamesInv, AddressesReach, NamesOfAbsent
<1>2. ASSUME NEW p \in Participants, NEW r \in SUBSET Roles,
             NEW l \in LogicalIds \cup {Nobody}, RegisterParticipant(p, r, l)
      PROVE  AddressesReach' /\ NamesOfAbsent'
  <2>1. (IF alias[p] # Nobody THEN alias[p] ELSE DefaultName[p]) \in Names
    BY NamesType DEF NamesInv, TypeOK
  <2>2. /\ \A n \in Names, q \in Participants :
             aliases'[n] = q <=> q \in registered' /\ alias'[q] = n
        /\ \A q \in registered' : alias'[q] # Nobody
        /\ \A q \in Participants \ registered' : alias'[q] = Nobody
    BY <1>2, <2>1, AssignNames DEF RegisterParticipant
  <2>3. /\ registered' = registered \cup {p} /\ registered' \subseteq Participants
        /\ logical' = [logical EXCEPT ![p] = l]
        /\ sessions' = IF l = Nobody THEN sessions ELSE [sessions EXCEPT ![l] = @ \cup {p}]
        /\ moved' = (moved \ {<<p, l>>}) \cup {<<p, k>> : k \in {logical[p]} \ {Nobody, l}}
    BY <1>2 DEF RegisterParticipant, NamesInv, TypeOK
  <2>4. /\ logical'[p] = l /\ \A q \in Participants \ {p} : logical'[q] = logical[q]
        /\ \A k \in LogicalIds : sessions'[k] = IF k = l THEN sessions[k] \cup {p} ELSE sessions[k]
    BY <2>3, NamesType DEF NamesInv, TypeOK
  <2>5. /\ \A q \in Participants \ {p}, k \in LogicalIds : <<q, k>> \in moved' <=> <<q, k>> \in moved
        /\ \A k \in LogicalIds :
             <<p, k>> \in moved' <=> k # l /\ (<<p, k>> \in moved \/ logical[p] = k)
    BY <2>3, NamesType
  <2>6. ASSUME NEW k \in LogicalIds, NEW q \in Participants
        PROVE  q \in sessions'[k] <=> (q \in registered' /\ logical'[q] = k) \/ <<q, k>> \in moved'
    <3>1. q \in sessions[k] <=> (q \in registered /\ logical[q] = k) \/ <<q, k>> \in moved
      BY DEF NamesInv, AddressesReach
    <3>2. logical[p] = k => p \in registered
      BY NamesType DEF NamesInv, NamesOfAbsent
    <3>. QED
      BY <2>3, <2>4, <2>5, <3>1, <3>2
  <2>7. NamesOfAbsent'
    <3>1. \A q \in Participants \ registered' : logical'[q] = Nobody
      BY <2>3, <2>4 DEF NamesInv, NamesOfAbsent
    <3>2. \A q \in Participants : logical'[q] # Nobody => <<q, logical'[q]>> \notin moved'
      BY <2>3, <2>4, <2>5 DEF NamesInv, NamesOfAbsent, TypeOK
    <3>. QED
      BY <2>2, <3>1, <3>2 DEF NamesOfAbsent
  <2>8. working' \subseteq registered'
    BY <1>2 DEF RegisterParticipant, NamesInv, AddressesReach
  <2>. QED
    BY <2>2, <2>6, <2>7, <2>8 DEF AddressesReach
<1>3. ASSUME NEW p \in Participants, NEW n \in Names, UpdateParticipantAlias(p, n)
      PROVE  AddressesReach' /\ NamesOfAbsent'
  <2>1. registered' = registered \cup {p}
    BY <1>3 DEF UpdateParticipantAlias
  <2>. QED
    BY <1>3, <2>1, AssignNames
    DEF UpdateParticipantAlias, NamesInv, AddressesReach, NamesOfAbsent
<1>4. ASSUME NEW p \in Agents, UpdateWorkState(p)
      PROVE  AddressesReach' /\ NamesOfAbsent'
  BY <1>4 DEF UpdateWorkState, NamesInv, AddressesReach, NamesOfAbsent
<1>5. ASSUME NEW p \in Participants, NEW s \in {"online", "offline", "gone"},
             UpdatePresence(p, s)
      PROVE  UNCHANGED nameVars \/ (Forget({p}) /\ {p} \in SUBSET Participants)
  BY <1>5 DEF UpdatePresence, SetOffline, SayGoodbye
<1>6. ASSUME NEW p \in Wired, WsConnect(p) \/ WsHeartbeat(p) \/ WsDisconnect(p)
      PROVE  UNCHANGED nameVars
  BY <1>6 DEF WsConnect, WsHeartbeat, WsDisconnect, SetOffline
<1>7. ASSUME NEW p \in Agents, NEW r \in SUBSET Roles,
             AddParticipantRoles(p, r) \/ RemoveParticipantRoles(p, r)
      PROVE  UNCHANGED nameVars
  BY <1>7 DEF AddParticipantRoles, RemoveParticipantRoles
<1>8. CASE Sweep
  <2>1. PICK gone \in SUBSET Participants : Forget(gone)
    BY <1>8 DEF Sweep, Prunable, NamesInv, TypeOK
  <2>. QED
    BY <2>1, ForgetNames
<1>9. CASE BrokerRestart
  BY <1>9, NamesType DEF BrokerRestart, AddressesReach, NamesOfAbsent
<1>10. ASSUME NEW p \in Agents, FallSilent(p) PROVE UNCHANGED nameVars
  BY <1>10 DEF FallSilent
<1>11. CASE Tick
  BY <1>1, <1>11 DEF Tick
<1>12. CASE UNCHANGED vars
  BY <1>1, <1>12 DEF vars
<1>13. Agents \subseteq Participants /\ Humans \subseteq Participants
  BY DEF Participants
<1>14. ASSUME NEW p \in Agents, NEW r \in SUBSET Roles,
              NEW l \in LogicalIds \cup {Nobody}, RegisterParticipant(p, r, l)
       PROVE  AddressesReach' /\ NamesOfAbsent'
  BY <1>2, <1>13, <1>14
<1>15. ASSUME NEW p \in Humans, RegisterParticipant(p, {}, Nobody)
       PROVE  AddressesReach' /\ NamesOfAbsent'
  BY <1>2, <1>13, <1>15
<1>16. ASSUME NEW p \in Participants, NEW s \in {"online", "offline", "gone"},
              UpdatePresence(p, s)
       PROVE  AddressesReach' /\ NamesOfAbsent'
  BY <1>1, <1>5, <1>16, ForgetNames
<1>. QED
  BY <1>1, <1>3, <1>4, <1>6, <1>7, <1>8, <1>9, <1>10, <1>11, <1>12, <1>14,
     <1>15, <1>16
  DEF Next

\* An alias leads to the registered participant that has it and a logical id to those that
\* have it, for any number of participants that register, rename themselves, expire and
\* return in any order; besides, a logical id leads to those that have left it, registered
\* or not, until the broker restarts or they come back to it, and to nobody else.
THEOREM Addresses == Spec => []AddressesReach
<1>1. Init => AddressesReach /\ NamesOfAbsent
  BY NamesType DEF Init, AddressesReach, NamesOfAbsent
<1>2. Init => NamesInv
  BY <1>1, TypeInit DEF NamesInv
<1>3. NamesInv /\ [Next]_vars => NamesInv'
  BY TypeStep, NamesStep DEF NamesInv
<1>4. NamesInv => AddressesReach
  BY DEF NamesInv
<1>. QED
  BY <1>2, <1>3, <1>4, PTL DEF Spec

-----------------------------------------------------------------------------
(* Roles *)

LEMMA ForgetRoles ==
  ASSUME TypeOK, RolesDurable, NEW gone \in SUBSET Participants, Forget(gone)
  PROVE  RolesDurable'
BY DEF Forget, RolesDurable, TypeOK

LEMMA RolesStep == TypeOK /\ RolesDurable /\ [Next]_vars => RolesDurable'
<1>. SUFFICES ASSUME TypeOK, RolesDurable, [Next]_vars PROVE RolesDurable'
  OBVIOUS
<1>. USE DEF nameVars, roleVars
<1>1. ASSUME UNCHANGED <<registered, roleVars>> PROVE RolesDurable'
  BY <1>1 DEF RolesDurable
<1>2. ASSUME NEW p \in Participants, NEW r \in SUBSET Roles,
             NEW l \in LogicalIds \cup {Nobody}, RegisterParticipant(p, r, l)
      PROVE  RolesDurable'
  BY <1>2 DEF RegisterParticipant, StoredRoles, RolesDurable, TypeOK
<1>3. ASSUME NEW p \in Agents, NEW r \in SUBSET Roles, AddParticipantRoles(p, r)
      PROVE  RolesDurable'
  BY <1>3 DEF AddParticipantRoles, RolesDurable, TypeOK
<1>4. ASSUME NEW p \in Agents, NEW r \in SUBSET Roles, RemoveParticipantRoles(p, r)
      PROVE  RolesDurable'
  BY <1>4 DEF RemoveParticipantRoles, RolesDurable, TypeOK
<1>5. ASSUME NEW p \in Participants, NEW n \in Names, UpdateParticipantAlias(p, n)
      PROVE  UNCHANGED <<registered, roleVars>>
  BY <1>5 DEF UpdateParticipantAlias
<1>6. ASSUME NEW p \in Agents, UpdateWorkState(p) \/ FallSilent(p)
      PROVE  UNCHANGED <<registered, roleVars>>
  BY <1>6 DEF UpdateWorkState, FallSilent
<1>7. ASSUME NEW p \in Participants, NEW s \in {"online", "offline", "gone"},
             UpdatePresence(p, s)
      PROVE  RolesDurable'
  <2>1. \/ UNCHANGED <<registered, roleVars>>
        \/ Forget({p}) /\ {p} \in SUBSET Participants
    BY <1>7 DEF UpdatePresence, SetOffline, SayGoodbye
  <2>. QED
    BY <1>1, <2>1, ForgetRoles
<1>8. ASSUME NEW p \in Wired, WsConnect(p) \/ WsHeartbeat(p) \/ WsDisconnect(p)
      PROVE  UNCHANGED <<registered, roleVars>>
  BY <1>8 DEF WsConnect, WsHeartbeat, WsDisconnect, SetOffline
<1>9. CASE Sweep
  <2>1. PICK gone \in SUBSET Participants : Forget(gone)
    BY <1>9 DEF Sweep, Prunable, TypeOK
  <2>. QED
    BY <2>1, ForgetRoles
<1>10. CASE BrokerRestart
  BY <1>10 DEF BrokerRestart, RolesDurable
<1>11. CASE Tick
  BY <1>1, <1>11 DEF Tick
<1>12. CASE UNCHANGED vars
  BY <1>1, <1>12 DEF vars
<1>13. Agents \subseteq Participants /\ Humans \subseteq Participants
  BY DEF Participants
<1>14. ASSUME NEW p \in Agents, NEW r \in SUBSET Roles,
              NEW l \in LogicalIds \cup {Nobody}, RegisterParticipant(p, r, l)
       PROVE  RolesDurable'
  BY <1>2, <1>13, <1>14
<1>15. ASSUME NEW p \in Humans, RegisterParticipant(p, {}, Nobody)
       PROVE  RolesDurable'
  BY <1>2, <1>13, <1>15
<1>. QED
  BY <1>1, <1>3, <1>4, <1>5, <1>6, <1>7, <1>8, <1>9, <1>10, <1>11, <1>12,
     <1>14, <1>15
  DEF Next

\* Registration, role changes and restarts in any order leave the roles that
\* route messages equal to the stored ones.
THEOREM RolesAreDurable == Spec => []RolesDurable
<1>1. Init => RolesDurable
  BY DEF Init, RolesDurable
<1>. QED
  BY <1>1, TypeInit, TypeStep, RolesStep, PTL DEF Spec

-----------------------------------------------------------------------------
(* Leaving *)

LEMMA LeavingStep ==
  ASSUME TypeOK, [Next]_vars, NEW q \in registered \ registered',
         restarts' = restarts
  PROVE  q \in Agents /\ (Observer \in registered => heard'[q] = "removed")
<1>. USE DEF nameVars
<1>0. ASSUME q \in Agents PROVE q \in Participants /\ Observer # q
  BY <1>0, KindsType DEF Participants
<1>1. ASSUME NEW p \in Participants, NEW r \in SUBSET Roles,
             NEW l \in LogicalIds \cup {Nobody}, RegisterParticipant(p, r, l)
      PROVE  FALSE
  BY <1>1 DEF RegisterParticipant
<1>2. ASSUME NEW p \in Participants, NEW n \in Names, UpdateParticipantAlias(p, n)
      PROVE  FALSE
  BY <1>2 DEF UpdateParticipantAlias
<1>3. ASSUME NEW p \in Agents,
             \/ UpdateWorkState(p) \/ FallSilent(p)
             \/ \E r \in SUBSET Roles :
                  AddParticipantRoles(p, r) \/ RemoveParticipantRoles(p, r)
      PROVE  FALSE
  BY <1>3 DEF UpdateWorkState, FallSilent, AddParticipantRoles,
              RemoveParticipantRoles
<1>4. ASSUME NEW p \in Wired, WsConnect(p) \/ WsHeartbeat(p) \/ WsDisconnect(p)
      PROVE  FALSE
  BY <1>4 DEF WsConnect, WsHeartbeat, WsDisconnect, SetOffline
<1>5. ASSUME NEW p \in Participants, NEW s \in {"online", "offline", "gone"},
             UpdatePresence(p, s)
      PROVE  q \in Agents /\ (Observer \in registered => heard'[q] = "removed")
  <2>1. SayGoodbye(p)
    BY <1>5 DEF UpdatePresence, SetOffline
  <2>2. q = p /\ p \in registered \cap Agents
    BY <2>1 DEF SayGoodbye, Forget
  <2>3. ASSUME Observer \in registered PROVE heard'[q] = "removed"
    <3>1. p \in registered /\ Observer \in registered \ {p}
      BY <2>2, <2>3, <1>0
    <3>2. heard' = [heard EXCEPT ![p] = "removed"]
      BY <2>1, <3>1 DEF SayGoodbye, Tell
    <3>. QED
      BY <3>2, <2>2 DEF TypeOK
  <2>. QED
    BY <2>2, <2>3
<1>6. CASE Sweep
  <2>1. PICK gone \in SUBSET Prunable, late \in SUBSET Expired :
          /\ Forget(gone)
          /\ heard' = [p \in Participants |->
                         IF Observer \notin registered \ {p} THEN heard[p]
                         ELSE IF p \in gone THEN "removed"
                         ELSE IF p \in late \cap registered THEN "offline"
                         ELSE heard[p]]
    BY <1>6 DEF Sweep
  <2>2. q \in gone /\ q \in Agents
    BY <2>1 DEF Forget, Prunable
  <2>. QED
    BY <2>1, <2>2, <1>0
<1>7. ASSUME BrokerRestart PROVE FALSE
  BY <1>7 DEF BrokerRestart, TypeOK
<1>8. ASSUME Tick \/ UNCHANGED vars PROVE FALSE
  BY <1>8 DEF Tick, vars
<1>9. Agents \subseteq Participants /\ Humans \subseteq Participants
  BY DEF Participants
<1>10. ASSUME NEW p \in Agents, NEW r \in SUBSET Roles,
              NEW l \in LogicalIds \cup {Nobody}, RegisterParticipant(p, r, l)
       PROVE  FALSE
  BY <1>1, <1>9, <1>10
<1>11. ASSUME NEW p \in Humans, RegisterParticipant(p, {}, Nobody) PROVE FALSE
  BY <1>1, <1>9, <1>11
<1>. QED
  BY <1>2, <1>3, <1>4, <1>5, <1>6, <1>7, <1>8, <1>10, <1>11 DEF Next

\* Only agents disappear from a running broker, and the last that a registered
\* observer hears of one that does is its removal.
THEOREM LeavingTold == Spec => LeavingIsTold
<1>1. TypeOK /\ [Next]_vars =>
        [\A p \in registered \ registered' :
           restarts' = restarts =>
             /\ p \in Agents
             /\ Observer \in registered => heard'[p] = "removed"]_vars
  BY LeavingStep
<1>. QED
  BY <1>1, TypeInit, TypeStep, PTL DEF Spec, LeavingIsTold
=============================================================================

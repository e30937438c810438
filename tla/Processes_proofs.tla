----------------------------- MODULE Processes_proofs -----------------------------
(***************************************************************************)
(* Proofs about the processes in the background, for any number of         *)
(* brokers and commands, of sessions, hooks and processes.                 *)
(*                                                                         *)
(* Brokers: what a restart reports ready rests on what the heartbeat says, *)
(* and so on every write of it that is under way (BrokerInv).  Hooks: that *)
(* one at a time works for a participant is inductive together with what   *)
(* its lock file says (Exclusive); that a hook leaves one process needs,   *)
(* for each place where the hook may be, what it has found and done so far *)
(* (Settled).                                                              *)
(***************************************************************************)
EXTENDS MCProcesses, TLAPS

-----------------------------------------------------------------------------
(* Brokers and commands *)

BrokerPcs == {"none", "spawned", "booting", "opening", "running", "closing", "draining", "dead"}
CommandPcs == {"idle", "terminating", "waiting", "stale", "marking", "spawning", "starting",
               "probing", "over"}
Statuses == {"starting", "running", "ended"}
Heartbeats == [pid : Pids, status : Statuses]

Started(b) == b \in Pids /\ broker[b].pc # "none"
Served(b) == broker[b].pc \in {"running", "closing", "draining", "dead"}

Places == [pc : BrokerPcs, signalled : BOOLEAN]
Tasks == [pc : CommandPcs, pid : Pids \union {0}, restarts : BOOLEAN]

BrokerTypes ==
  /\ broker \in [Pids -> Places]
  /\ file \in Heartbeats \union {Missing}
  /\ save \in [Pids \union Commands -> Heartbeats \union {Missing}]
  /\ command \in [Commands -> Tasks]
  /\ ready \subseteq Pids

\* What is filed, is being written, or is waited for is a process that was started.
NamesStarted ==
  /\ file # Missing => Started(file.pid)
  /\ \A w \in Pids \union Commands : save[w] # Missing => Started(save[w].pid)
  /\ \A k \in Commands :
       command[k].pc \in {"terminating", "waiting", "starting", "probing"} => Started(command[k].pid)
  /\ \A b \in Pids : broker[b].signalled => Started(b)

\* A broker writes of itself, and stays where it is until it has written; a command writes
\* only that a broker has ended.
WritesTruth ==
  /\ \A b \in Pids : save[b] # Missing =>
       /\ save[b].pid = b
       /\ save[b].status = "starting" => broker[b].pc = "spawned"
       /\ save[b].status = "running" => broker[b].pc \in {"opening", "running"}
  /\ \A k \in Commands : save[k] # Missing => save[k].status = "ended"

OneListens == \A b, c \in Pids : Listening(b) /\ Listening(c) => b = c

\* "running" is said of a broker that serves or has served.
RunningServed ==
  /\ file.status = "running" => Served(file.pid)
  /\ \A k \in Commands : command[k].pc = "probing" => Served(command[k].pid)
  /\ \A b \in ready : Served(b)

BrokerInv == BrokerTypes /\ NamesStarted /\ WritesTruth /\ OneListens /\ RunningServed

LEMMA BrokerInit == Init => BrokerInv
<1>. SUFFICES ASSUME Init PROVE BrokerInv
  OBVIOUS
<1>1. BrokerTypes
  BY DEF Init, Idle, BrokerTypes, Places, Tasks, BrokerPcs, CommandPcs, NoSave
<1>2. NamesStarted /\ WritesTruth /\ OneListens /\ RunningServed
  BY PidsArePids
  DEF Init, Idle, NoSave, Missing, NamesStarted, WritesTruth, OneListens, Listening,
    RunningServed
<1>. QED
  BY <1>1, <1>2 DEF BrokerInv

\* What each operator that the actions are built from does to the broker, command or write
\* that it is about; the others stay as they are.
OnlyBroker(b) ==
  /\ broker' \in [Pids -> Places]
  /\ \A c \in Pids : c # b => broker'[c] = broker[c]
OnlyCommand(k) ==
  /\ command' \in [Commands -> Tasks]
  /\ \A j \in Commands : j # k => command'[j] = command[j]

LEMMA ContinuesEffect ==
  ASSUME BrokerTypes, NEW b \in Pids, NEW status \in Statuses, Continues(b, status)
  PROVE  /\ OnlyBroker(b)
         /\ broker'[b].pc = CASE status = "starting" -> "booting"
                              [] status = "running" -> "running"
                              [] OTHER -> "dead"
         /\ broker'[b].signalled => broker[b].signalled
<1>1. CASE status = "starting"
  BY <1>1 DEF BrokerTypes, Places, BrokerPcs, Continues, To, OnlyBroker
<1>2. CASE status = "running"
  BY <1>2 DEF BrokerTypes, Places, BrokerPcs, Continues, To, OnlyBroker
<1>3. CASE status = "ended"
  BY <1>3 DEF BrokerTypes, Places, BrokerPcs, Continues, To, OnlyBroker
<1>. QED
  BY <1>1, <1>2, <1>3 DEF Statuses

LEMMA SignalEffect ==
  ASSUME BrokerTypes, NEW b \in Pids, IsSignalled(b)
  PROVE  /\ OnlyBroker(b)
         /\ \/ broker'[b].pc = broker[b].pc
            \/ broker[b].pc = "spawned" /\ Free(b) /\ broker'[b].pc = "dead"
<1>1. CASE broker[b].pc = "spawned" /\ Free(b)
  BY <1>1 DEF BrokerTypes, Places, BrokerPcs, IsSignalled, To, OnlyBroker
<1>2. CASE ~(broker[b].pc = "spawned" /\ Free(b))
  <2>1. (broker[b].pc \notin {"closing", "draining"}) \in BOOLEAN
    OBVIOUS
  <2>2. broker' = [broker EXCEPT ![b].signalled = broker[b].pc \notin {"closing", "draining"}]
    BY <1>2 DEF IsSignalled
  <2>. DEFINE yes == broker[b].pc \notin {"closing", "draining"}
  <2>. HIDE DEF yes
  <2>3. yes \in BOOLEAN /\ broker' = [broker EXCEPT ![b].signalled = yes]
    BY <2>1, <2>2 DEF yes
  <2>. QED
    BY <2>3 DEF BrokerTypes, Places, OnlyBroker
<1>. QED
  BY <1>1, <1>2

LEMMA SavingEffect ==
  ASSUME BrokerTypes, NEW w \in Pids \union Commands, NEW b \in Pids, NEW status \in Statuses,
         Saving(w, b, status)
  PROVE  /\ file' = Missing
         /\ save' \in [Pids \union Commands -> Heartbeats \union {Missing}]
         /\ save'[w] = [pid |-> b, status |-> status]
         /\ \A v \in Pids \union Commands : v # w => save'[v] = save[v]
BY DEF BrokerTypes, Saving, Heartbeats

LEMMA GoesEffect ==
  ASSUME BrokerTypes, NEW k \in Commands, Goes(k)
  PROVE  OnlyCommand(k) /\ command'[k].pc \in {"over", "spawning", "stale"}
BY DEF BrokerTypes, Tasks, CommandPcs, Goes, Over, Idle, OnlyCommand

LEMMA AfterStopEffect ==
  ASSUME BrokerTypes, NEW k \in Commands, NEW restarts \in BOOLEAN, AfterStop(k, restarts)
  PROVE  OnlyCommand(k) /\ command'[k].pc \in {"over", "stale"}
BY DEF BrokerTypes, Tasks, CommandPcs, AfterStop, Over, Idle, OnlyCommand

-----------------------------------------------------------------------------
\* What the commands are about stays true as long as processes are only started, and those
\* that serve are only ended.
CommandsFollow ==
  /\ command' \in [Commands -> Tasks]
  /\ \A k \in Commands :
       /\ command'[k].pc \in {"terminating", "waiting", "starting", "probing"} =>
            Started(command'[k].pid)
       /\ command'[k].pc = "probing" => Served(command'[k].pid)

LEMMA SameCommands == ASSUME BrokerInv, UNCHANGED command PROVE CommandsFollow
BY DEF BrokerInv, BrokerTypes, NamesStarted, RunningServed, CommandsFollow

LEMMA OneCommand ==
  ASSUME BrokerInv, NEW k \in Commands, OnlyCommand(k),
         command'[k].pc \in {"terminating", "waiting", "starting", "probing"} =>
           Started(command'[k].pid),
         command'[k].pc = "probing" => Served(command'[k].pid)
  PROVE  CommandsFollow
BY DEF BrokerInv, BrokerTypes, NamesStarted, RunningServed, CommandsFollow, OnlyCommand

\* A step of a command that leaves brokers and the file alone.
LEMMA CommandInv ==
  ASSUME BrokerInv, CommandsFollow, UNCHANGED <<broker, file, save>>,
         \A b \in ready' : b \in ready \/ (Started(b) /\ Served(b))
  PROVE  BrokerInv'
<1>1. BrokerTypes'
  BY DEF BrokerInv, BrokerTypes, CommandsFollow, Started
<1>2. NamesStarted'
  BY DEF BrokerInv, NamesStarted, CommandsFollow, Started
<1>3. WritesTruth' /\ OneListens'
  BY DEF BrokerInv, WritesTruth, OneListens, Listening
<1>4. RunningServed'
  BY DEF BrokerInv, RunningServed, CommandsFollow, Served
<1>. QED
  BY <1>1, <1>2, <1>3, <1>4 DEF BrokerInv

\* The beginning of a write.
LEMMA SavingInv ==
  ASSUME BrokerInv, CommandsFollow, UNCHANGED <<broker, ready>>,
         NEW w \in Pids \union Commands, NEW b \in Pids, NEW status \in Statuses,
         Started(b), Saving(w, b, status),
         w \in Commands => status = "ended",
         w \in Pids =>
           /\ b = w
           /\ status = "starting" => broker[b].pc = "spawned"
           /\ status = "running" => broker[b].pc \in {"opening", "running"}
  PROVE  BrokerInv'
<1>. DEFINE x == [pid |-> b, status |-> status]
<1>1. /\ file' = Missing
      /\ save' \in [Pids \union Commands -> Heartbeats \union {Missing}]
      /\ save'[w] = x
      /\ \A v \in Pids \union Commands : v # w => save'[v] = save[v]
  BY SavingEffect DEF BrokerInv
<1>2. x.pid = b /\ x.status = status /\ Missing.status = "none"
  BY DEF Missing
<1>. HIDE DEF x
<1>3. BrokerTypes'
  BY <1>1 DEF BrokerInv, BrokerTypes, CommandsFollow
<1>4. NamesStarted'
  BY <1>1, <1>2 DEF BrokerInv, NamesStarted, CommandsFollow, Started
<1>5. WritesTruth'
  BY <1>1, <1>2, PidsArePids DEF BrokerInv, WritesTruth
<1>6. OneListens'
  BY DEF BrokerInv, OneListens, Listening
<1>7. RunningServed'
  BY <1>1, <1>2 DEF BrokerInv, RunningServed, CommandsFollow, Served
<1>. QED
  BY <1>3, <1>4, <1>5, <1>6, <1>7 DEF BrokerInv

\* A step of a broker that has nothing to write, or goes on with what it writes.
LEMMA MoveInv ==
  ASSUME BrokerInv, CommandsFollow, UNCHANGED <<file, save, ready>>,
         NEW b \in Pids, OnlyBroker(b), Started(b)',
         Served(b) => Served(b)',
         Listening(b)' => Listening(b) \/ ~\E c \in Pids : Listening(c),
         save[b] # Missing => broker'[b].pc = broker[b].pc
  PROVE  BrokerInv'
<1>1. BrokerTypes'
  BY DEF BrokerInv, BrokerTypes, CommandsFollow, OnlyBroker
<1>2. \A c \in Pids : (Started(c) => Started(c)') /\ (Served(c) => Served(c)')
  BY DEF OnlyBroker, Started, Served
<1>3. NamesStarted'
  BY <1>2 DEF BrokerInv, NamesStarted, CommandsFollow, OnlyBroker, Started
<1>4. WritesTruth'
  BY DEF BrokerInv, WritesTruth, OnlyBroker
<1>5. OneListens'
  BY DEF BrokerInv, OneListens, OnlyBroker, Listening
<1>6. RunningServed'
  <2>1. file.status = "running" => file.pid \in Pids
    BY DEF BrokerInv, BrokerTypes, Heartbeats, Missing
  <2>2. \A k \in Commands : command'[k].pc = "probing" => command'[k].pid \in Pids
    BY DEF CommandsFollow, Started
  <2>. QED
    BY <1>2, <2>1, <2>2 DEF BrokerInv, BrokerTypes, RunningServed, CommandsFollow
<1>. QED
  BY <1>1, <1>3, <1>4, <1>5, <1>6 DEF BrokerInv

\* The death of a broker, and of what it was about to write.
LEMMA KilledInv ==
  ASSUME BrokerInv, CommandsFollow, UNCHANGED <<file, ready>>,
         NEW b \in Pids, Started(b), IsKilled(b)
  PROVE  BrokerInv'
<1>1. /\ OnlyBroker(b) /\ broker'[b].pc = "dead"
      /\ save' = [save EXCEPT ![b] = Missing]
  BY DEF BrokerInv, BrokerTypes, Places, BrokerPcs, IsKilled, NoSave, OnlyBroker
<1>2. BrokerTypes'
  BY <1>1 DEF BrokerInv, BrokerTypes, CommandsFollow, OnlyBroker
<1>3. \A c \in Pids : (Started(c) => Started(c)') /\ (Served(c) => Served(c)')
  BY <1>1 DEF OnlyBroker, Started, Served
<1>4. NamesStarted'
  BY <1>1, <1>3 DEF BrokerInv, BrokerTypes, NamesStarted, CommandsFollow, OnlyBroker, Started
<1>5. WritesTruth'
  BY <1>1, PidsArePids DEF BrokerInv, BrokerTypes, WritesTruth, OnlyBroker
<1>6. OneListens'
  BY <1>1 DEF BrokerInv, OneListens, OnlyBroker, Listening
<1>7. RunningServed'
  <2>1. file.status = "running" => file.pid \in Pids
    BY DEF BrokerInv, BrokerTypes, Heartbeats, Missing
  <2>2. \A k \in Commands : command'[k].pc = "probing" => command'[k].pid \in Pids
    BY DEF CommandsFollow, Started
  <2>. QED
    BY <1>3, <2>1, <2>2 DEF BrokerInv, BrokerTypes, RunningServed, CommandsFollow
<1>. QED
  BY <1>2, <1>4, <1>5, <1>6, <1>7 DEF BrokerInv

\* The end of a write, by the broker or by a command.
LEMMA WritesInv ==
  ASSUME BrokerInv, NEW w \in Pids \union Commands, Writes(w)
  PROVE  BrokerInv'
<1>1. /\ file' = save[w] /\ file' \in Heartbeats /\ Started(file'.pid)
      /\ save' = [save EXCEPT ![w] = Missing] /\ UNCHANGED ready
  BY DEF Writes, Free, NoSave, BrokerInv, BrokerTypes, NamesStarted
<1>2. /\ file' \in Heartbeats \union {Missing}
      /\ save' \in [Pids \union Commands -> Heartbeats \union {Missing}]
      /\ save'[w] = Missing /\ \A v \in Pids \union Commands : v # w => save'[v] = save[v]
  BY <1>1 DEF BrokerInv, BrokerTypes
<1>3. CASE w \in Pids
  <2>1. Continues(w, file'.status) /\ file'.status \in Statuses /\ file'.pid = w /\ UNCHANGED command
    BY <1>1, <1>3 DEF Writes, Free, NoSave, Heartbeats, BrokerInv, WritesTruth
  <2>2. /\ file'.status = "starting" => broker[w].pc = "spawned"
        /\ file'.status = "running" => broker[w].pc \in {"opening", "running"}
    BY <1>1, <1>3 DEF Writes, Free, NoSave, BrokerInv, WritesTruth
  <2>3. /\ OnlyBroker(w) /\ (broker'[w].signalled => broker[w].signalled)
        /\ file'.status = "starting" => broker'[w].pc = "booting"
        /\ file'.status = "running" => broker'[w].pc = "running"
        /\ file'.status = "ended" => broker'[w].pc = "dead"
    BY <1>3, <2>1, ContinuesEffect DEF BrokerInv
  <2>4. Started(w)' /\ (Served(w) => Served(w)') /\ (Listening(w)' => Listening(w))
    BY <1>3, <2>1, <2>2, <2>3 DEF Statuses, Started, Served, Listening
  <2>5. \A c \in Pids : (Started(c) => Started(c)') /\ (Served(c) => Served(c)')
    BY <2>3, <2>4 DEF OnlyBroker, Started, Served
  <2>6. CommandsFollow
    BY <2>1, SameCommands
  <2>7. BrokerTypes'
    BY <1>1, <1>2, <2>3, <2>6 DEF BrokerInv, BrokerTypes, CommandsFollow, OnlyBroker
  <2>8. NamesStarted'
    BY <1>1, <1>2, <2>3, <2>4, <2>5, <2>6
    DEF BrokerInv, NamesStarted, CommandsFollow, OnlyBroker, Started
  <2>9. WritesTruth' /\ OneListens'
    BY <1>2, <1>3, <2>3, <2>4, PidsArePids
    DEF BrokerInv, WritesTruth, OneListens, OnlyBroker, Listening
  <2>10. RunningServed'
    <3>1. (file.status = "running" => Served(file.pid))'
      BY <2>1, <2>3 DEF Served
    <3>2. \A k \in Commands : command'[k].pc = "probing" => command'[k].pid \in Pids
      BY <2>6 DEF CommandsFollow, Started
    <3>. QED
      BY <1>1, <2>5, <2>6, <3>1, <3>2 DEF BrokerInv, BrokerTypes, RunningServed, CommandsFollow
  <2>. QED
    BY <2>7, <2>8, <2>9, <2>10 DEF BrokerInv
<1>4. CASE w \in Commands
  <2>1. Goes(w) /\ file'.status = "ended" /\ UNCHANGED broker
    BY <1>1, <1>4, PidsArePids DEF Writes, Free, NoSave, BrokerInv, WritesTruth
  <2>2. OnlyCommand(w) /\ command'[w].pc \in {"over", "spawning", "stale"}
    BY <1>4, <2>1, GoesEffect DEF BrokerInv
  <2>3. CommandsFollow
    BY <1>4, <2>2, OneCommand
  <2>4. BrokerTypes'
    BY <1>1, <1>2, <2>1, <2>3 DEF BrokerInv, BrokerTypes, CommandsFollow
  <2>5. NamesStarted'
    BY <1>1, <1>2, <2>1, <2>3 DEF BrokerInv, NamesStarted, CommandsFollow, Started
  <2>6. WritesTruth' /\ OneListens'
    BY <1>2, <2>1 DEF BrokerInv, WritesTruth, OneListens, Listening
  <2>7. RunningServed'
    BY <1>1, <2>1, <2>3 DEF BrokerInv, RunningServed, CommandsFollow, Served
  <2>. QED
    BY <2>4, <2>5, <2>6, <2>7 DEF BrokerInv
<1>. QED
  BY <1>3, <1>4

\* A test of who owns the file, by a broker that may say so of itself.
LEMMA PersistsInv ==
  ASSUME BrokerInv, NEW b \in Pids, Started(b), NEW status \in Statuses,
         status = "starting" => broker[b].pc = "spawned",
         status = "running" => broker[b].pc \in {"opening", "running"},
         Persists(b, status)
  PROVE  BrokerInv'
<1>1. CommandsFollow /\ UNCHANGED ready
  BY SameCommands DEF Persists
<1>2. CASE Owned(b, status # "ended")
  BY <1>1, <1>2, SavingInv, PidsArePids DEF Persists
<1>3. CASE ~Owned(b, status # "ended")
  <2>1. Continues(b, status) /\ save[b] = Missing /\ UNCHANGED <<file, save>>
    BY <1>3 DEF Persists, Free, NoSave
  <2>2. /\ OnlyBroker(b)
        /\ status = "starting" => broker'[b].pc = "booting"
        /\ status = "running" => broker'[b].pc = "running"
        /\ status = "ended" => broker'[b].pc = "dead"
    BY <2>1, ContinuesEffect DEF BrokerInv
  <2>3. Started(b)' /\ (Served(b) => Served(b)') /\ (Listening(b)' => Listening(b))
    BY <2>2 DEF Statuses, Started, Served, Listening
  <2>. QED
    BY <1>1, <2>1, <2>2, <2>3, MoveInv
<1>. QED
  BY <1>2, <1>3

\* A signal does nothing to where a process is, or ends one that has no handler yet.
LEMMA SignalInv ==
  ASSUME BrokerInv, CommandsFollow, UNCHANGED <<file, save, ready>>,
         NEW b \in Pids, Started(b), IsSignalled(b)
  PROVE  BrokerInv'
<1>1. /\ OnlyBroker(b)
      /\ \/ broker'[b].pc = broker[b].pc
         \/ broker[b].pc = "spawned" /\ Free(b) /\ broker'[b].pc = "dead"
  BY SignalEffect DEF BrokerInv
<1>2. /\ Started(b)' /\ (Served(b) => Served(b)') /\ (Listening(b)' => Listening(b))
      /\ (save[b] # Missing => broker'[b].pc = broker[b].pc)
  BY <1>1 DEF Started, Served, Listening, Free, NoSave
<1>. QED
  BY <1>1, <1>2, MoveInv

\* A command starts a broker, and waits for it.
LEMMA SpawnedInv ==
  ASSUME BrokerInv, UNCHANGED <<file, save, ready>>,
         NEW b \in Pids, broker[b].pc = "none", OnlyBroker(b), broker'[b].pc = "spawned",
         NEW k \in Commands, OnlyCommand(k), command'[k].pc = "starting", command'[k].pid = b
  PROVE  BrokerInv'
<1>1. BrokerTypes'
  BY DEF BrokerInv, BrokerTypes, OnlyBroker, OnlyCommand
<1>2. NamesStarted'
  BY DEF BrokerInv, NamesStarted, OnlyBroker, OnlyCommand, Started
<1>3. WritesTruth'
  BY DEF BrokerInv, NamesStarted, WritesTruth, OnlyBroker, Started
<1>4. OneListens'
  BY DEF BrokerInv, OneListens, OnlyBroker, Listening
<1>5. RunningServed'
  <2>1. file.status = "running" => file.pid \in Pids
    BY DEF BrokerInv, BrokerTypes, Heartbeats, Missing
  <2>2. \A j \in Commands : command[j].pc = "probing" => command[j].pid \in Pids
    BY DEF BrokerInv, NamesStarted, Started
  <2>3. \A c \in Pids : Served(c) => Served(c)'
    BY DEF OnlyBroker, Served
  <2>. QED
    BY <2>1, <2>2, <2>3 DEF BrokerInv, BrokerTypes, RunningServed, OnlyCommand
<1>. QED
  BY <1>1, <1>2, <1>3, <1>4, <1>5 DEF BrokerInv

LEMMA BrokerInvStep == BrokerInv /\ [Next]_vars => BrokerInv'
<1>. SUFFICES ASSUME BrokerInv, [Next]_vars PROVE BrokerInv'
  OBVIOUS
<1>0. BrokerTypes
  BY DEF BrokerInv
<1>1. ASSUME NEW w \in Pids \union Commands, Writes(w) PROVE BrokerInv'
  BY <1>1, WritesInv
<1>2. ASSUME NEW b \in Pids,
             Begins(b) \/ PortIsTaken(b) \/ Opens(b) \/ Beats(b) \/ Drained(b) \/ Fails(b)
      PROVE  BrokerInv'
  BY <1>2, PersistsInv
  DEF Begins, PortIsTaken, Opens, Beats, Drained, Fails, Started, Statuses
<1>3. ASSUME NEW b \in Pids, Launch(b) \/ Listens(b) \/ ChannelFails(b) \/ ClosesServer(b)
      PROVE  BrokerInv'
  <2>1. PICK pc \in BrokerPcs : broker' = To(b, pc) /\ pc # "none"
    BY <1>3 DEF Launch, Listens, ChannelFails, ClosesServer, BrokerPcs
  <2>2. OnlyBroker(b) /\ broker'[b].pc = pc
    BY <1>0, <2>1 DEF BrokerTypes, Places, To, OnlyBroker
  <2>3. UNCHANGED <<file, save, command, ready>>
    BY <1>3 DEF Launch, Listens, ChannelFails, ClosesServer
  <2>4. /\ Started(b)' /\ (Served(b) => Served(b)')
        /\ (Listening(b)' => Listening(b) \/ ~\E c \in Pids : Listening(c))
        /\ (save[b] # Missing => broker'[b].pc = broker[b].pc)
    <3>1. ASSUME save[b] # Missing PROVE ~Launch(b)
      BY <3>1 DEF Launch, BrokerInv, NamesStarted, WritesTruth, Started
    <3>2. CASE Launch(b)
      <4>1. broker[b].pc = "none" /\ broker'[b].pc = "spawned"
        BY <1>0, <3>2 DEF Launch, To, BrokerTypes, Places
      <4>. QED
        BY <3>1, <3>2, <4>1 DEF Started, Served, Listening
    <3>4. CASE Listens(b)
      <4>1. broker[b].pc = "booting" /\ broker'[b].pc = "opening"
        BY <1>0, <3>4 DEF Listens, To, BrokerTypes, Places
      <4>. QED
        BY <3>4, <4>1 DEF Listens, Free, NoSave, Started, Served, Listening
    <3>3. CASE ChannelFails(b) \/ ClosesServer(b)
      <4>1. broker[b].pc \in {"opening", "closing"} /\ broker'[b].pc = "draining"
        BY <1>0, <1>3, <3>3 DEF ChannelFails, ClosesServer, To, BrokerTypes, Places
      <4>. QED
        BY <3>3, <4>1 DEF ChannelFails, ClosesServer, Free, NoSave, Started, Served, Listening
    <3>. QED
      BY <1>3, <3>2, <3>3, <3>4
  <2>. QED
    BY <2>2, <2>3, <2>4, MoveInv, SameCommands
<1>4. ASSUME NEW b \in Pids, HandlesSignal(b) PROVE BrokerInv'
  <2>1. CASE broker[b].pc = "running"
    <3>1. /\ save[b] = Missing /\ UNCHANGED <<file, save, command, ready>>
          /\ broker' = [broker EXCEPT ![b] = [pc |-> "closing", signalled |-> FALSE]]
      BY <1>4, <2>1 DEF HandlesSignal, Free, NoSave
    <3>2. OnlyBroker(b) /\ broker'[b].pc = "closing"
      BY <1>0, <3>1 DEF BrokerTypes, Places, BrokerPcs, OnlyBroker
    <3>3. Started(b)' /\ Served(b)' /\ (Listening(b)' => Listening(b))
      BY <2>1, <3>2 DEF Started, Served, Listening
    <3>. QED
      BY <3>1, <3>2, <3>3, MoveInv, SameCommands
  <2>2. CASE broker[b].pc # "running"
    <3>1. Started(b)
      BY <1>4 DEF HandlesSignal, BrokerInv, NamesStarted
    <3>. QED
      BY <1>4, <2>2, <3>1, PersistsInv DEF HandlesSignal, Statuses
  <2>. QED
    BY <2>1, <2>2
<1>5. ASSUME NEW b \in Pids, Interrupt(b) PROVE BrokerInv'
  BY <1>5, SignalInv, SameCommands DEF Interrupt, Alive, Started
<1>6. ASSUME NEW b \in Pids, KilledOutside(b) PROVE BrokerInv'
  BY <1>6, KilledInv, SameCommands DEF KilledOutside, Alive, Started
<1>7. ASSUME NEW k \in Commands, NEW r \in BOOLEAN, Run(k, r) PROVE BrokerInv'
  <2>1. UNCHANGED <<broker, file, save, ready>>
    BY <1>7 DEF Run
  <2>2. CASE \E b \in Pids : Listening(b)
    <3>1. PICK b \in Pids :
            /\ Listening(b)
            /\ command' = [command EXCEPT ![k] = [pc |-> "terminating", pid |-> b, restarts |-> r]]
      BY <1>7, <2>2 DEF Run
    <3>2. /\ OnlyCommand(k) /\ command'[k].pc = "terminating" /\ command'[k].pid = b
          /\ Started(b)
      BY <1>0, <3>1 DEF BrokerTypes, Tasks, CommandPcs, OnlyCommand, Started, Listening
    <3>. QED
      BY <2>1, <3>2, OneCommand, CommandInv
  <2>3. CASE ~\E b \in Pids : Listening(b)
    <3>1. OnlyCommand(k) /\ command'[k].pc \in {"over", "stale"}
      BY <1>0, <1>7, <2>3, AfterStopEffect DEF Run
    <3>. QED
      BY <2>1, <3>1, OneCommand, CommandInv
  <2>. QED
    BY <2>2, <2>3
<1>8. ASSUME NEW k \in Commands, Terminates(k) PROVE BrokerInv'
  <2>1. /\ command[k].pc = "terminating" /\ Started(command[k].pid)
        /\ UNCHANGED <<file, save, ready>>
    BY <1>8 DEF Terminates, BrokerInv, NamesStarted
  <2>2. CASE Alive(command[k].pid)
    <3>1. IsSignalled(command[k].pid) /\ Go(k, "waiting")
      BY <1>8, <2>2 DEF Terminates
    <3>2. OnlyCommand(k) /\ command'[k].pc = "waiting" /\ command'[k].pid = command[k].pid
      BY <1>0, <3>1 DEF BrokerTypes, Tasks, CommandPcs, Go, OnlyCommand
    <3>. QED
      BY <2>1, <3>1, <3>2, OneCommand, SignalInv DEF Started
  <2>3. CASE ~Alive(command[k].pid)
    <3>1. command' = [command EXCEPT ![k] = Over] /\ UNCHANGED broker
      BY <1>8, <2>3 DEF Terminates
    <3>2. OnlyCommand(k) /\ command'[k].pc = "over"
      BY <1>0, <3>1 DEF BrokerTypes, Tasks, CommandPcs, Over, Idle, OnlyCommand
    <3>. QED
      BY <2>1, <3>1, <3>2, OneCommand, CommandInv
  <2>. QED
    BY <2>2, <2>3
<1>9. ASSUME NEW k \in Commands, Kills(k) PROVE BrokerInv'
  <2>1. Started(command[k].pid)
    BY <1>9 DEF Kills, BrokerInv, NamesStarted
  <2>. QED
    BY <1>9, <2>1, KilledInv, SameCommands DEF Kills, Started
<1>10. ASSUME NEW k \in Commands, MarksStopped(k) PROVE BrokerInv'
  <2>1. /\ Started(command[k].pid) /\ command[k].restarts \in BOOLEAN
        /\ UNCHANGED <<broker, ready>>
    BY <1>0, <1>10 DEF MarksStopped, BrokerInv, NamesStarted, BrokerTypes, Tasks
  <2>2. CASE file.pid = command[k].pid /\ ~Terminal(file)
    <3>1. Saving(k, file.pid, "ended") /\ Started(file.pid) /\ UNCHANGED command
      BY <1>10, <2>1, <2>2 DEF MarksStopped
    <3>. QED
      BY <2>1, <3>1, SavingInv, SameCommands, PidsArePids DEF Started, Statuses
  <2>3. CASE ~(file.pid = command[k].pid /\ ~Terminal(file))
    <3>1. AfterStop(k, command[k].restarts) /\ UNCHANGED <<file, save>>
      BY <1>10, <2>3 DEF MarksStopped
    <3>2. OnlyCommand(k) /\ command'[k].pc \in {"over", "stale"}
      BY <1>0, <2>1, <3>1, AfterStopEffect
    <3>. QED
      BY <2>1, <3>1, <3>2, OneCommand, CommandInv
  <2>. QED
    BY <2>2, <2>3
<1>11. ASSUME NEW k \in Commands, MarksStale(k) PROVE BrokerInv'
  <2>1. PICK pc \in {"marking", "spawning"} : Go(k, pc)
    BY <1>11 DEF MarksStale
  <2>2. OnlyCommand(k) /\ command'[k].pc \in {"marking", "spawning"}
    BY <1>0, <2>1 DEF BrokerTypes, Tasks, CommandPcs, Go, OnlyCommand
  <2>3. CommandsFollow /\ UNCHANGED <<broker, ready>>
    BY <1>11, <2>2, OneCommand DEF MarksStale
  <2>4. CASE file # Missing /\ ~Terminal(file) /\ ~Alive(file.pid)
    <3>1. Saving(k, file.pid, "ended") /\ Started(file.pid)
      BY <1>11, <2>4 DEF MarksStale, BrokerInv, NamesStarted
    <3>. QED
      BY <2>3, <3>1, SavingInv, PidsArePids DEF Started, Statuses
  <2>5. CASE ~(file # Missing /\ ~Terminal(file) /\ ~Alive(file.pid))
    <3>1. UNCHANGED <<file, save>>
      BY <1>11, <2>5 DEF MarksStale
    <3>. QED
      BY <2>3, <3>1, CommandInv
  <2>. QED
    BY <2>4, <2>5
<1>12. ASSUME NEW k \in Commands, Spawns(k) PROVE BrokerInv'
  <2>1. PICK b \in Pids :
          /\ broker[b].pc = "none" /\ broker' = To(b, "spawned")
          /\ command' = [command EXCEPT ![k].pc = "starting", ![k].pid = b]
    BY <1>12 DEF Spawns
  <2>2. UNCHANGED <<file, save, ready>>
    BY <1>12 DEF Spawns
  <2>3. OnlyBroker(b) /\ broker'[b].pc = "spawned"
    BY <1>0, <2>1 DEF BrokerTypes, Places, BrokerPcs, To, OnlyBroker
  <2>4. OnlyCommand(k) /\ command'[k].pc = "starting" /\ command'[k].pid = b
    BY <1>0, <2>1 DEF BrokerTypes, Tasks, CommandPcs, OnlyCommand
  <2>. QED
    BY <2>1, <2>2, <2>3, <2>4, SpawnedInv
<1>13. ASSUME NEW k \in Commands, Probes(k) PROVE BrokerInv'
  <2>1. /\ file.status = "running" /\ file.pid = command[k].pid /\ Go(k, "probing")
        /\ Started(command[k].pid) /\ UNCHANGED <<broker, file, save, ready>>
    BY <1>13 DEF Probes, SaysItRuns, BrokerInv, NamesStarted
  <2>2. OnlyCommand(k) /\ command'[k].pc = "probing" /\ command'[k].pid = command[k].pid
    BY <1>0, <2>1 DEF BrokerTypes, Tasks, CommandPcs, Go, OnlyCommand
  <2>3. Served(command[k].pid)
    BY <2>1 DEF BrokerInv, RunningServed
  <2>. QED
    BY <2>1, <2>2, <2>3, OneCommand, CommandInv
<1>14. ASSUME NEW k \in Commands, Answered(k) PROVE BrokerInv'
  <2>1. /\ Started(command[k].pid) /\ Served(command[k].pid)
        /\ UNCHANGED <<broker, file, save>> /\ ready' \subseteq ready \union {command[k].pid}
    BY <1>14 DEF Answered, BrokerInv, NamesStarted, RunningServed
  <2>2. CASE command' = [command EXCEPT ![k] = Over]
    <3>1. OnlyCommand(k) /\ command'[k].pc = "over"
      BY <1>0, <2>2 DEF BrokerTypes, Tasks, CommandPcs, Over, Idle, OnlyCommand
    <3>. QED
      BY <2>1, <3>1, OneCommand, CommandInv
  <2>3. CASE Go(k, "starting")
    <3>1. OnlyCommand(k) /\ command'[k].pc = "starting" /\ command'[k].pid = command[k].pid
      BY <1>0, <2>3 DEF BrokerTypes, Tasks, CommandPcs, Go, OnlyCommand
    <3>. QED
      BY <2>1, <3>1, OneCommand, CommandInv
  <2>. QED
    BY <1>14, <2>2, <2>3 DEF Answered
<1>15. ASSUME NEW k \in Commands, NotReady(k) PROVE BrokerInv'
  <2>1. OnlyCommand(k) /\ command'[k].pc = "over" /\ UNCHANGED <<broker, file, save, ready>>
    BY <1>0, <1>15 DEF NotReady, BrokerTypes, Tasks, CommandPcs, Over, Idle, OnlyCommand
  <2>. QED
    BY <2>1, OneCommand, CommandInv
<1>16. ASSUME NEW k \in Commands, CommandKilled(k) PROVE BrokerInv'
  <2>1. OnlyCommand(k) /\ command'[k].pc = "over"
    BY <1>0, <1>16 DEF CommandKilled, BrokerTypes, Tasks, CommandPcs, Over, Idle, OnlyCommand
  <2>2. save' = [save EXCEPT ![k] = Missing] /\ UNCHANGED <<broker, file, ready>>
    BY <1>16 DEF CommandKilled, NoSave
  <2>3. CommandsFollow
    BY <2>1, OneCommand
  <2>4. BrokerTypes'
    BY <2>2, <2>3 DEF BrokerInv, BrokerTypes, CommandsFollow
  <2>5. NamesStarted'
    BY <2>2, <2>3 DEF BrokerInv, BrokerTypes, NamesStarted, CommandsFollow, Started
  <2>6. WritesTruth' /\ OneListens'
    BY <2>2 DEF BrokerInv, BrokerTypes, WritesTruth, OneListens, Listening
  <2>7. RunningServed'
    BY <2>2, <2>3 DEF BrokerInv, RunningServed, CommandsFollow, Served
  <2>. QED
    BY <2>4, <2>5, <2>6, <2>7 DEF BrokerInv
<1>17. CASE UNCHANGED vars
  BY <1>17, SameCommands, CommandInv DEF vars
<1>. QED
  BY <1>1, <1>2, <1>3, <1>4, <1>5, <1>6, <1>7, <1>8, <1>9, <1>10, <1>11, <1>12, <1>13, <1>14,
    <1>15, <1>16, <1>17
  DEF Next, Proceeds, CommandSteps

LEMMA BrokerInvTypes == BrokerInv => TypeOK
BY DEF BrokerInv, BrokerTypes, Places, BrokerPcs, Heartbeats, Statuses, NamesStarted, Started,
  OneListens, TypeOK

\* The heartbeat names a process that was started, and one process listens.
THEOREM BrokersTyped == Spec => []TypeOK
<1>1. Init => BrokerInv
  BY BrokerInit
<1>2. BrokerInv /\ [Next]_vars => BrokerInv'
  BY BrokerInvStep
<1>3. BrokerInv => TypeOK
  BY BrokerInvTypes
<1>. QED
  BY <1>1, <1>2, <1>3, PTL DEF Spec

\* "broker:restart reports ready only if /health succeeds and the heartbeat is running":
\* what it reports ready is the process that it has started, and that one serves, or has
\* served and was ended since, whoever writes the heartbeat meanwhile.
THEOREM RestartReportsServing == Spec => []ReadyServes
<1>1. Init => BrokerInv
  BY BrokerInit
<1>2. BrokerInv /\ [Next]_vars => BrokerInv'
  BY BrokerInvStep
<1>3. BrokerInv => ReadyServes
  BY DEF BrokerInv, RunningServed, Served, ReadyServes
<1>. QED
  BY <1>1, <1>2, <1>3, PTL DEF Spec

-----------------------------------------------------------------------------
(* Hooks, and the processes that they start *)

HookPcs == {"idle", "locking", "stale", "locked", "pruning", "killing", "spawned", "done",
            "over"}
ChildPcs == {"none", "starting", "running", "ending", "dead"}
AnyUse == Uses \union {Sessions!NoUse}
StateFiles == [pid : Children \union {0}, use : AnyUse]
Processes == [pc : ChildPcs, use : AnyUse, mine : BOOLEAN]
HookStates == [pc : HookPcs, use : AnyUse, siblings : SUBSET Sessions!Participants,
               pid : Children \union {0}]

SessionTypes ==
  /\ lock \in [Sessions!Participants -> Hooks \union {0}]
  /\ state \in [Sessions!Participants -> StateFiles]
  /\ child \in [Children -> Processes]
  /\ hook \in [Hooks -> HookStates]
  /\ last \in Uses \union {Sessions!NoUse, Sessions!Overlap}
  /\ faults \in 0..MaxFaults

\* A process has a use, a record is of a process that was started, and a hook is about one.
Recorded ==
  /\ \A c \in Children : child[c].pc # "none" => child[c].use \in Uses
  /\ \A p \in Sessions!Participants :
       IF state[p].pid = 0 THEN state[p] = Sessions!NoState
       ELSE /\ child[state[p].pid].pc # "none" /\ state[p].use = child[state[p].pid].use
            /\ state[p].use.participant = p
  /\ \A h \in Hooks :
       /\ hook[h].pc \notin {"idle", "over"} => hook[h].use \in Uses
       /\ hook[h].pc \in {"killing", "spawned"} =>
            hook[h].pid # 0 /\ child[hook[h].pid].pc # "none"
       /\ hook[h].pc = "spawned" => child[hook[h].pid].use = hook[h].use

SessionInv == SessionTypes /\ Recorded

\* The hook that works for a participant owns its lock file, and one that has found a stale
\* lock would still remove a stale one, but for the race.
Exclusive ==
  \A h \in Hooks :
    LET p == hook[h].use.participant IN
    p \notin raced =>
      /\ Sessions!Working(h) => lock[p] = h
      /\ hook[h].pc = "stale" => lock[p] = 0 \/ hook[lock[p]].pc = "over"

LEMMA SessionInit == Sessions!Init => SessionInv /\ Exclusive
<1>. SUFFICES ASSUME Sessions!Init PROVE SessionInv /\ Exclusive
  OBVIOUS
<1>1. SessionTypes
  BY SessionsConstants
  DEF Sessions!Init, Sessions!IdleHook, Sessions!NoState, SessionTypes, AnyUse, StateFiles,
    Processes, HookStates, HookPcs, ChildPcs
<1>2. Recorded
  BY DEF Sessions!Init, Sessions!IdleHook, Sessions!NoState, Recorded
<1>3. Exclusive
  BY DEF Sessions!Init, Sessions!IdleHook, Sessions!Working, Exclusive
<1>. QED
  BY <1>1, <1>2, <1>3 DEF SessionInv

\* Records are only removed, and no hook begins to kill or to wait for a process.
LEMMA RecordedStays ==
  ASSUME SessionTypes, Recorded,
         \A c \in Children :
           child'[c].use = child[c].use /\ (child'[c].pc = "none" <=> child[c].pc = "none"),
         \A p \in Sessions!Participants : state'[p] \in {state[p], Sessions!NoState},
         \A h \in Hooks :
           \/ hook'[h] = hook[h]
           \/ /\ hook[h].use \in Uses /\ hook'[h].use = hook[h].use
              /\ hook'[h].pc \notin {"killing", "spawned"}
  PROVE  Recorded'
<1>1. \A c \in Children : child'[c].pc # "none" => child'[c].use \in Uses
  BY DEF Recorded
<1>2. ASSUME NEW p \in Sessions!Participants
      PROVE  IF state'[p].pid = 0 THEN state'[p] = Sessions!NoState
             ELSE /\ child'[state'[p].pid].pc # "none"
                  /\ state'[p].use = child'[state'[p].pid].use
                  /\ state'[p].use.participant = p
  <2>1. CASE state'[p] = Sessions!NoState
    BY <2>1 DEF Sessions!NoState
  <2>2. CASE state'[p] = state[p]
    BY <2>2 DEF SessionTypes, StateFiles, Recorded
  <2>. QED
    BY <2>1, <2>2
<1>3. \A h \in Hooks :
        /\ hook'[h].pc \notin {"idle", "over"} => hook'[h].use \in Uses
        /\ hook'[h].pc \in {"killing", "spawned"} =>
             hook'[h].pid # 0 /\ child'[hook'[h].pid].pc # "none"
        /\ hook'[h].pc = "spawned" => child'[hook'[h].pid].use = hook'[h].use
  BY DEF SessionTypes, HookStates, Recorded
<1>. QED
  BY <1>1, <1>2, <1>3 DEF Recorded

\* A process that runs is killed; one that does not is left.
LEMMA KilledEffect ==
  ASSUME SessionTypes, NEW c \in Children, child' = Sessions!Killed(c)
  PROVE  /\ child' \in [Children -> Processes]
         /\ \A d \in Children : child'[d].use = child[d].use /\ (d # c => child'[d] = child[d])
         /\ child'[c].pc = "none" <=> child[c].pc = "none"
         /\ \A d \in Children : Sessions!Alive(d)' <=> Sessions!Alive(d) /\ d # c
         /\ child'[c].pc # "ending"
<1>0. 0 \notin Children
  BY SessionsConstants
<1>1. CASE Sessions!Alive(c)
  <2>1. child' = [child EXCEPT ![c].pc = "dead", ![c].mine = FALSE]
    BY <1>1 DEF Sessions!Killed, Sessions!Kill
  <2>3. [child[c] EXCEPT !.pc = "dead", !.mine = FALSE] \in Processes
    BY DEF SessionTypes, Processes, ChildPcs
  <2>2. /\ child' \in [Children -> Processes] /\ child'[c].pc = "dead"
        /\ child'[c].use = child[c].use
        /\ \A d \in Children : d # c => child'[d] = child[d]
    BY <2>1, <2>3 DEF SessionTypes, Processes
  <2>. QED
    BY <1>0, <1>1, <2>2 DEF Sessions!Alive
<1>2. CASE ~Sessions!Alive(c)
  BY <1>0, <1>2 DEF SessionTypes, Sessions!Killed, Sessions!Alive
<1>. QED
  BY <1>1, <1>2

\* What a step that gives a hook the state x changes of hook.
LEMMA HookTakes ==
  ASSUME hook \in [Hooks -> HookStates], NEW h \in Hooks, NEW x \in HookStates,
         hook' = [hook EXCEPT ![h] = x]
  PROVE  /\ hook' \in [Hooks -> HookStates] /\ hook'[h] = x
         /\ \A g \in Hooks : g # h => hook'[g] = hook[g]
OBVIOUS

LEMMA HookSteps ==
  ASSUME SessionTypes, NEW h \in Hooks, NEW pc \in HookPcs, Sessions!Step(h, pc)
  PROVE  hook' \in [Hooks -> HookStates]
<1>1. hook \in [Hooks -> HookStates] /\ hook[h] \in HookStates
  BY DEF SessionTypes
<1>2. [hook[h] EXCEPT !.pc = pc] \in HookStates
  BY <1>1 DEF HookStates
<1>3. hook' = [hook EXCEPT ![h] = [hook[h] EXCEPT !.pc = pc]]
  BY <1>1 DEF Sessions!Step
<1>. QED
  BY <1>1, <1>2, <1>3, HookTakes

LEMMA SessionInvStep == SessionInv /\ [Sessions!Next]_(Sessions!vars) => SessionInv'
<1>. SUFFICES ASSUME SessionInv, [Sessions!Next]_(Sessions!vars) PROVE SessionInv'
  OBVIOUS
<1>. USE SessionsConstants
<1>0. SessionTypes /\ Recorded
  BY DEF SessionInv
<1>1. ASSUME NEW h \in Hooks, NEW u \in Uses, Sessions!Begins(h, u) PROVE SessionInv'
  <2>1. SessionTypes'
    BY <1>0, <1>1
    DEF Sessions!Begins, Sessions!IdleHook, SessionTypes, AnyUse, StateFiles, Processes,
      HookStates, HookPcs, ChildPcs, Sessions!Participants, Recorded, Sessions!NoState,
      Sessions!NoUse
  <2>2. Recorded'
    BY <1>0, <1>1
    DEF Sessions!Begins, Sessions!IdleHook, SessionTypes, AnyUse, StateFiles, Processes,
      HookStates, HookPcs, ChildPcs, Recorded, Sessions!NoState, Sessions!NoUse
  <2>. QED
    BY <2>1, <2>2 DEF SessionInv
<1>2. ASSUME NEW h \in Hooks, Sessions!CreateLock(h) PROVE SessionInv'
  <2>1. SessionTypes'
    BY <1>0, <1>2
    DEF Sessions!CreateLock, Sessions!Step, SessionTypes, AnyUse, StateFiles, Processes,
      HookStates, HookPcs, ChildPcs, Sessions!Participants, Recorded, Sessions!NoState,
      Sessions!NoUse
  <2>2. Recorded'
    BY <1>0, <1>2
    DEF Sessions!CreateLock, Sessions!Step, SessionTypes, AnyUse, StateFiles, Processes,
      HookStates, HookPcs, ChildPcs, Recorded, Sessions!NoState, Sessions!NoUse
  <2>. QED
    BY <2>1, <2>2 DEF SessionInv
<1>3. ASSUME NEW h \in Hooks, Sessions!FindStale(h) PROVE SessionInv'
  <2>1. SessionTypes'
    <3>1. "stale" \in HookPcs
      BY DEF HookPcs
    <3>. QED
      BY <1>0, <1>3, <3>1, HookSteps DEF Sessions!FindStale, SessionTypes
  <2>2. Recorded'
    BY <1>0, <1>3
    DEF Sessions!FindStale, Sessions!Step, Sessions!isLockFileStale, SessionTypes, AnyUse,
      StateFiles, Processes, HookStates, HookPcs, ChildPcs, Recorded, Sessions!NoState,
      Sessions!NoUse
  <2>. QED
    BY <2>1, <2>2 DEF SessionInv
<1>4. ASSUME NEW h \in Hooks, Sessions!RemoveStale(h) PROVE SessionInv'
  <2>1. SessionTypes'
    BY <1>0, <1>4
    DEF Sessions!RemoveStale, Sessions!Step, SessionTypes, AnyUse, StateFiles, Processes,
      HookStates, HookPcs, ChildPcs, Sessions!Participants, Recorded, Sessions!NoState,
      Sessions!NoUse
  <2>2. Recorded'
    BY <1>0, <1>4
    DEF Sessions!RemoveStale, Sessions!Step, SessionTypes, AnyUse, StateFiles, Processes,
      HookStates, HookPcs, ChildPcs, Recorded, Sessions!NoState, Sessions!NoUse
  <2>. QED
    BY <2>1, <2>2 DEF SessionInv
<1>5. ASSUME NEW h \in Hooks, Sessions!WaitsTooLong(h) PROVE SessionInv'
  <2>1. SessionTypes'
    BY <1>0, <1>5
    DEF Sessions!WaitsTooLong, Sessions!OverHook, Sessions!IdleHook, SessionTypes, AnyUse,
      StateFiles, Processes,
      HookStates, HookPcs, ChildPcs, Sessions!Participants, Recorded, Sessions!NoState,
      Sessions!NoUse
  <2>2. Recorded'
    BY <1>0, <1>5
    DEF Sessions!WaitsTooLong, Sessions!OverHook, Sessions!IdleHook, SessionTypes, AnyUse,
      StateFiles, Processes,
      HookStates, HookPcs, ChildPcs, Recorded, Sessions!NoState, Sessions!NoUse
  <2>. QED
    BY <2>1, <2>2 DEF SessionInv
<1>6. ASSUME NEW h \in Hooks, Sessions!Reuse(h) PROVE SessionInv'
  <2>1. SessionTypes'
    <3>1. "done" \in HookPcs
      BY DEF HookPcs
    <3>. QED
      BY <1>0, <1>6, <3>1, HookSteps DEF Sessions!Reuse, SessionTypes
  <2>2. Recorded'
    BY <1>0, <1>6
    DEF Sessions!Reuse, Sessions!Step, Sessions!Reusable, SessionTypes, AnyUse, StateFiles,
      Processes, HookStates, HookPcs, ChildPcs, Recorded, Sessions!NoState, Sessions!NoUse
  <2>. QED
    BY <2>1, <2>2 DEF SessionInv
<1>7. ASSUME NEW h \in Hooks, Sessions!Replace(h) PROVE SessionInv'
  <2>. DEFINE p == hook[h].use.participant
              existing == state[p]
  <2>1. /\ hook[h].pc = "locked" /\ hook[h].use \in Uses /\ p \in Sessions!Participants
        /\ UNCHANGED <<lock, last, faults>>
    BY <1>0, <1>7 DEF Sessions!Replace, Sessions!Participants, Recorded
  <2>2. hook' = [hook EXCEPT ![h].pc = "pruning", ![h].siblings = Sessions!Participants \ {p}]
    BY <1>7 DEF Sessions!Replace
  <2>3. /\ hook' \in [Hooks -> HookStates] /\ hook'[h].pc = "pruning" /\ hook'[h].use = hook[h].use
        /\ \A g \in Hooks : g # h => hook'[g] = hook[g]
    <3>. DEFINE x == [hook[h] EXCEPT !.pc = "pruning", !.siblings = Sessions!Participants \ {p}]
    <3>1. hook \in [Hooks -> HookStates] /\ hook[h] \in HookStates
      BY <1>0 DEF SessionTypes
    <3>2. x \in HookStates /\ x.pc = "pruning" /\ x.use = hook[h].use
      BY <3>1 DEF HookStates, HookPcs
    <3>3. hook' = [hook EXCEPT ![h] = x]
      BY <2>2, <3>1
    <3>. HIDE DEF x
    <3>. QED
      BY <3>1, <3>2, <3>3, HookTakes
  <2>4. state' = state \/ state' = [state EXCEPT ![p] = Sessions!NoState]
    BY <1>7 DEF Sessions!Replace
  <2>5. child' = child \/ (existing.pid \in Children /\ child' = Sessions!Killed(existing.pid))
    BY <1>0, <2>1, <1>7
    DEF Sessions!Replace, Sessions!Killed, Sessions!Alive, SessionTypes, StateFiles
  <2>6. /\ child' \in [Children -> Processes]
        /\ \A d \in Children :
             child'[d].use = child[d].use /\ (child'[d].pc = "none" <=> child[d].pc = "none")
    BY <1>0, <2>5, KilledEffect DEF SessionTypes
  <2>7. /\ state' \in [Sessions!Participants -> StateFiles]
        /\ \A r \in Sessions!Participants : state'[r] \in {state[r], Sessions!NoState}
    BY <1>0, <2>1, <2>4 DEF SessionTypes, StateFiles, AnyUse, Sessions!NoState
  <2>8. SessionTypes'
    BY <1>0, <2>1, <2>3, <2>6, <2>7 DEF SessionTypes
  <2>9. Recorded'
    BY <1>0, <2>1, <2>3, <2>6, <2>7, RecordedStays
  <2>. QED
    BY <2>8, <2>9 DEF SessionInv
<1>8. ASSUME NEW h \in Hooks, NEW p \in Sessions!Participants, Sessions!ReadSibling(h, p)
      PROVE  SessionInv'
  <2>1. /\ hook[h].pc = "pruning" /\ hook[h].use \in Uses
        /\ UNCHANGED <<lock, state, child, last, faults>>
    BY <1>0, <1>8 DEF Sessions!ReadSibling, Recorded
  <2>2. CASE state[p].use.parent = hook[h].use.parent
    <3>1. hook' = [hook EXCEPT ![h].pc = "killing", ![h].siblings = @ \ {p},
                               ![h].pid = state[p].pid]
      BY <1>8, <2>2 DEF Sessions!ReadSibling
    <3>2. state[p].pid \in Children /\ child[state[p].pid].pc # "none"
      BY <1>0, <2>1, <2>2
      DEF SessionTypes, StateFiles, Recorded, Sessions!NoState, Sessions!NoUse
    <3>3. /\ hook' \in [Hooks -> HookStates]
          /\ hook'[h].pc = "killing" /\ hook'[h].use = hook[h].use /\ hook'[h].pid = state[p].pid
          /\ \A g \in Hooks : g # h => hook'[g] = hook[g]
      <4>. DEFINE x == [hook[h] EXCEPT !.pc = "killing", !.siblings = @ \ {p}, !.pid = state[p].pid]
      <4>1. hook \in [Hooks -> HookStates] /\ hook[h] \in HookStates
        BY <1>0 DEF SessionTypes
      <4>2. x \in HookStates /\ x.pc = "killing" /\ x.use = hook[h].use /\ x.pid = state[p].pid
        BY <3>2, <4>1 DEF HookStates, HookPcs
      <4>3. hook' = [hook EXCEPT ![h] = x]
        BY <3>1, <4>1
      <4>. HIDE DEF x
      <4>. QED
        BY <4>1, <4>2, <4>3, HookTakes
    <3>. QED
      BY <1>0, <2>1, <3>2, <3>3 DEF SessionInv, SessionTypes, Recorded
  <2>3. CASE state[p].use.parent # hook[h].use.parent
    <3>1. hook' = [hook EXCEPT ![h].siblings = @ \ {p}]
      BY <1>8, <2>3 DEF Sessions!ReadSibling
    <3>2. /\ hook' \in [Hooks -> HookStates] /\ hook'[h].pc = "pruning" /\ hook'[h].use = hook[h].use
          /\ \A g \in Hooks : g # h => hook'[g] = hook[g]
      BY <1>0, <2>1, <3>1 DEF SessionTypes, HookStates
    <3>. QED
      BY <1>0, <2>1, <3>2 DEF SessionInv, SessionTypes, Recorded
  <2>. QED
    BY <2>2, <2>3
<1>9. ASSUME NEW h \in Hooks, Sessions!PruneSibling(h) PROVE SessionInv'
  <2>. DEFINE c == hook[h].pid
              p == child[c].use.participant
  <2>1. /\ hook[h].pc = "killing" /\ hook[h].use \in Uses /\ c \in Children
        /\ child[c].use \in Uses /\ UNCHANGED <<lock, last, faults>>
    BY <1>0, <1>9 DEF Sessions!PruneSibling, SessionTypes, HookStates, Recorded
  <2>2. /\ child' = Sessions!Killed(c) /\ state' = [state EXCEPT ![p] = Sessions!NoState]
        /\ hook' = [hook EXCEPT ![h].pc = "pruning", ![h].pid = 0]
    BY <1>9 DEF Sessions!PruneSibling
  <2>3. /\ hook' \in [Hooks -> HookStates] /\ hook'[h].pc = "pruning" /\ hook'[h].use = hook[h].use
        /\ \A g \in Hooks : g # h => hook'[g] = hook[g]
    <3>. DEFINE x == [hook[h] EXCEPT !.pc = "pruning", !.pid = 0]
    <3>1. hook \in [Hooks -> HookStates] /\ hook[h] \in HookStates
      BY <1>0 DEF SessionTypes
    <3>2. x \in HookStates /\ x.pc = "pruning" /\ x.use = hook[h].use
      BY <3>1 DEF HookStates, HookPcs
    <3>3. hook' = [hook EXCEPT ![h] = x]
      BY <2>2, <3>1
    <3>. HIDE DEF x
    <3>. QED
      BY <3>1, <3>2, <3>3, HookTakes
  <2>4. /\ child' \in [Children -> Processes]
        /\ \A d \in Children :
             child'[d].use = child[d].use /\ (child'[d].pc = "none" <=> child[d].pc = "none")
    BY <1>0, <2>1, <2>2, KilledEffect
  <2>5. /\ state' \in [Sessions!Participants -> StateFiles]
        /\ \A r \in Sessions!Participants : state'[r] \in {state[r], Sessions!NoState}
    BY <1>0, <2>2 DEF SessionTypes, StateFiles, AnyUse, Sessions!NoState
  <2>6. SessionTypes'
    BY <1>0, <2>1, <2>3, <2>4, <2>5 DEF SessionTypes
  <2>7. Recorded'
    BY <1>0, <2>1, <2>3, <2>4, <2>5, RecordedStays
  <2>. QED
    BY <2>6, <2>7 DEF SessionInv
<1>10. ASSUME NEW h \in Hooks, Sessions!Spawn(h) PROVE SessionInv'
  <2>1. PICK c \in Children :
          /\ child[c].pc = "none"
          /\ child' = [child EXCEPT ![c] = [pc |-> "starting", use |-> hook[h].use, mine |-> FALSE]]
          /\ hook' = [hook EXCEPT ![h].pc = "spawned", ![h].pid = c]
    BY <1>10 DEF Sessions!Spawn, Sessions!Unused
  <2>2. hook[h].use \in Uses /\ UNCHANGED <<lock, state, last, faults>>
    BY <1>0, <1>10 DEF Sessions!Spawn, Recorded
  <2>3. /\ child' \in [Children -> Processes] /\ child'[c].pc = "starting"
        /\ child'[c].use = hook[h].use /\ \A d \in Children : d # c => child'[d] = child[d]
    BY <1>0, <2>1, <2>2 DEF SessionTypes, Processes, AnyUse, ChildPcs
  <2>4. /\ hook' \in [Hooks -> HookStates] /\ hook'[h].pc = "spawned" /\ hook'[h].pid = c
        /\ hook'[h].use = hook[h].use /\ \A g \in Hooks : g # h => hook'[g] = hook[g]
    <3>. DEFINE x == [hook[h] EXCEPT !.pc = "spawned", !.pid = c]
    <3>1. hook \in [Hooks -> HookStates] /\ hook[h] \in HookStates
      BY <1>0 DEF SessionTypes
    <3>2. x \in HookStates /\ x.pc = "spawned" /\ x.pid = c /\ x.use = hook[h].use
      BY <3>1 DEF HookStates, HookPcs
    <3>3. hook' = [hook EXCEPT ![h] = x]
      BY <2>1, <3>1
    <3>. HIDE DEF x
    <3>. QED
      BY <3>1, <3>2, <3>3, HookTakes
  <2>5. SessionTypes'
    BY <1>0, <2>2, <2>3, <2>4 DEF SessionTypes
  <2>6. Recorded'
    BY <1>0, <2>1, <2>2, <2>3, <2>4 DEF SessionTypes, HookStates, StateFiles, Recorded
  <2>. QED
    BY <2>5, <2>6 DEF SessionInv
<1>11. ASSUME NEW h \in Hooks, Sessions!RecordSpawned(h) PROVE SessionInv'
  <2>1. SessionTypes'
    <3>. DEFINE x == [hook[h] EXCEPT !.pc = "done", !.pid = 0]
    <3>1. hook \in [Hooks -> HookStates] /\ x \in HookStates
      BY <1>0 DEF SessionTypes, HookStates, HookPcs
    <3>5. hook' = [hook EXCEPT ![h] = x]
      BY <1>0, <1>11 DEF Sessions!RecordSpawned, SessionTypes
    <3>2. hook' \in [Hooks -> HookStates]
      BY <3>1, <3>5, HookTakes
    <3>3. [pid |-> hook[h].pid, use |-> hook[h].use] \in StateFiles
      BY <1>0, <1>11 DEF SessionTypes, HookStates, StateFiles
    <3>4. state' \in [Sessions!Participants -> StateFiles]
      BY <1>0, <1>11, <3>3 DEF Sessions!RecordSpawned, SessionTypes
    <3>. QED
      BY <1>0, <1>11, <3>2, <3>4 DEF Sessions!RecordSpawned, SessionTypes
  <2>2. Recorded'
    BY <1>0, <1>11
    DEF Sessions!RecordSpawned, Sessions!Step, SessionTypes, AnyUse, StateFiles, Processes,
      HookStates, HookPcs, ChildPcs, Recorded, Sessions!NoState, Sessions!NoUse
  <2>. QED
    BY <2>1, <2>2 DEF SessionInv
<1>12. ASSUME NEW h \in Hooks, Sessions!ReleaseLock(h) PROVE SessionInv'
  <2>1. SessionTypes'
    BY <1>0, <1>12
    DEF Sessions!ReleaseLock, Sessions!OverHook, Sessions!IdleHook, SessionTypes, AnyUse,
      StateFiles, Processes,
      HookStates, HookPcs, ChildPcs, Sessions!Participants, Recorded, Sessions!NoState,
      Sessions!NoUse
  <2>2. Recorded'
    BY <1>0, <1>12
    DEF Sessions!ReleaseLock, Sessions!OverHook, Sessions!IdleHook, SessionTypes, AnyUse,
      StateFiles, Processes,
      HookStates, HookPcs, ChildPcs, Recorded, Sessions!NoState, Sessions!NoUse
  <2>. QED
    BY <2>1, <2>2 DEF SessionInv
<1>13. ASSUME NEW h \in Hooks, Sessions!HookKilled(h) PROVE SessionInv'
  <2>1. SessionTypes'
    BY <1>0, <1>13
    DEF Sessions!HookKilled, Sessions!Fault, Sessions!Runs, Sessions!OverHook, Sessions!IdleHook,
      SessionTypes, AnyUse, StateFiles,
      Processes, HookStates, HookPcs, ChildPcs, Sessions!Participants, Recorded,
      Sessions!NoState, Sessions!NoUse
  <2>2. Recorded'
    BY <1>0, <1>13
    DEF Sessions!HookKilled, Sessions!Fault, Sessions!Runs, Sessions!OverHook, Sessions!IdleHook,
      SessionTypes, AnyUse, StateFiles,
      Processes, HookStates, HookPcs, ChildPcs, Recorded, Sessions!NoState, Sessions!NoUse
  <2>. QED
    BY <2>1, <2>2 DEF SessionInv
<1>14. ASSUME NEW c \in Children, Sessions!Records(c) PROVE SessionInv'
  <2>1. SessionTypes'
    BY <1>0, <1>14
    DEF Sessions!Records, SessionTypes, AnyUse, StateFiles, Processes, HookStates, HookPcs,
      ChildPcs, Sessions!Participants, Recorded, Sessions!NoState, Sessions!NoUse
  <2>2. Recorded'
    BY <1>0, <1>14
    DEF Sessions!Records, SessionTypes, AnyUse, StateFiles, Processes, HookStates, HookPcs,
      ChildPcs, Recorded, Sessions!NoState, Sessions!NoUse
  <2>. QED
    BY <2>1, <2>2 DEF SessionInv
<1>15. ASSUME NEW c \in Children, Sessions!Ends(c) PROVE SessionInv'
  <2>. DEFINE mine == (state[child[c].use.participant].pid = c)
  <2>1. /\ child' = [child EXCEPT ![c].pc = "ending", ![c].mine = mine]
        /\ child[c].pc = "running" /\ mine \in BOOLEAN
        /\ UNCHANGED <<parents, lock, state, hook, last, faults>>
    BY <1>15 DEF Sessions!Ends
  <2>. HIDE DEF mine
  <2>2. /\ child' \in [Children -> Processes] /\ child'[c].pc = "ending"
        /\ \A d \in Children : child'[d].use = child[d].use /\ (d # c => child'[d] = child[d])
    BY <1>0, <2>1 DEF SessionTypes, Processes, ChildPcs
  <2>. QED
    BY <1>0, <2>1, <2>2 DEF SessionInv, SessionTypes, HookStates, StateFiles, Recorded
<1>16. ASSUME NEW c \in Children, Sessions!RemovesState(c) PROVE SessionInv'
  <2>1. /\ child' = Sessions!Killed(c) /\ UNCHANGED <<lock, hook, last, faults>>
        /\ \/ state' = state
           \/ state' = [state EXCEPT ![child[c].use.participant] = Sessions!NoState]
    BY <1>16, SessionsConstants DEF Sessions!RemovesState, Sessions!Killed, Sessions!Alive
  <2>2. /\ child' \in [Children -> Processes]
        /\ \A d \in Children :
             child'[d].use = child[d].use /\ (child'[d].pc = "none" <=> child[d].pc = "none")
    BY <1>0, <2>1, KilledEffect
  <2>3. /\ state' \in [Sessions!Participants -> StateFiles]
        /\ \A r \in Sessions!Participants : state'[r] \in {state[r], Sessions!NoState}
    BY <1>0, <2>1 DEF SessionTypes, StateFiles, AnyUse, Sessions!NoState
  <2>4. SessionTypes'
    BY <1>0, <2>1, <2>2, <2>3 DEF SessionTypes
  <2>5. Recorded'
    BY <1>0, <2>1, <2>2, <2>3, RecordedStays
  <2>. QED
    BY <2>4, <2>5 DEF SessionInv
<1>17. ASSUME NEW c \in Children, Sessions!Dies(c) PROVE SessionInv'
  <2>1. /\ child' = Sessions!Killed(c) /\ UNCHANGED <<lock, state, hook>>
        /\ faults' \in 0..MaxFaults /\ last' \in {Sessions!Overlap, Sessions!NoUse, last}
    BY <1>0, <1>17, SessionsConstants
    DEF Sessions!Dies, Sessions!Killed, Sessions!Fault, SessionTypes
  <2>2. /\ child' \in [Children -> Processes]
        /\ \A d \in Children :
             child'[d].use = child[d].use /\ (child'[d].pc = "none" <=> child[d].pc = "none")
    BY <1>0, <2>1, KilledEffect
  <2>3. SessionTypes'
    BY <1>0, <2>1, <2>2 DEF SessionTypes
  <2>4. Recorded'
    BY <1>0, <2>1, <2>2, RecordedStays
  <2>. QED
    BY <2>3, <2>4 DEF SessionInv
<1>18. ASSUME NEW x \in parents, Sessions!ParentExits(x) PROVE SessionInv'
  <2>1. SessionTypes'
    BY <1>0, <1>18
    DEF Sessions!ParentExits, SessionTypes, AnyUse, StateFiles, Processes, HookStates, HookPcs,
      ChildPcs, Sessions!Participants, Recorded, Sessions!NoState, Sessions!NoUse
  <2>2. Recorded'
    BY <1>0, <1>18
    DEF Sessions!ParentExits, SessionTypes, AnyUse, StateFiles, Processes, HookStates, HookPcs,
      ChildPcs, Recorded, Sessions!NoState, Sessions!NoUse
  <2>. QED
    BY <2>1, <2>2 DEF SessionInv
<1>19. CASE UNCHANGED Sessions!vars
  BY <1>0, <1>19 DEF Sessions!vars, SessionInv, SessionTypes, Recorded
<1>. QED
  BY <1>1, <1>2, <1>3, <1>4, <1>5, <1>6, <1>7, <1>8, <1>9, <1>10, <1>11, <1>12, <1>13, <1>14,
    <1>15, <1>16, <1>17, <1>18, <1>19
  DEF Sessions!Next

\* A step of the owner of a lock, but for those that make and remove it.
Works(h) ==
  \/ Sessions!Reuse(h) \/ Sessions!Replace(h) \/ Sessions!PruneSibling(h)
  \/ Sessions!Spawn(h) \/ Sessions!RecordSpawned(h)
  \/ \E p \in Sessions!Participants : Sessions!ReadSibling(h, p)

LEMMA WorksOn ==
  ASSUME hook \in [Hooks -> HookStates], NEW h \in Hooks, Works(h)
  PROVE  /\ UNCHANGED <<lock, raced>> /\ Sessions!Working(h)
         /\ \A g \in Hooks : g # h => hook'[g] = hook[g]
         /\ hook'[h].use = hook[h].use
         /\ hook'[h].pc \in {"pruning", "killing", "spawned", "done"}
<1>1. hook[h] \in HookStates
  OBVIOUS
<1>2. CASE Sessions!Reuse(h)
  BY <1>1, <1>2 DEF HookStates, Sessions!Step, Sessions!Reuse, Sessions!Working
<1>3. CASE Sessions!Replace(h)
  BY <1>1, <1>3 DEF HookStates, Sessions!Replace, Sessions!Working
<1>4. CASE Sessions!PruneSibling(h)
  BY <1>1, <1>4 DEF HookStates, Sessions!PruneSibling, Sessions!Working
<1>5. CASE Sessions!Spawn(h)
  BY <1>1, <1>5 DEF HookStates, Sessions!Spawn, Sessions!Working
<1>6. CASE Sessions!RecordSpawned(h)
  BY <1>1, <1>6 DEF HookStates, Sessions!RecordSpawned, Sessions!Working
<1>7. ASSUME NEW p \in Sessions!Participants, Sessions!ReadSibling(h, p)
      PROVE  /\ UNCHANGED <<lock, raced>> /\ Sessions!Working(h)
             /\ \A g \in Hooks : g # h => hook'[g] = hook[g]
             /\ hook'[h].use = hook[h].use
             /\ hook'[h].pc \in {"pruning", "killing"}
  BY <1>1, <1>7 DEF HookStates, Sessions!ReadSibling, Sessions!Working
<1>. QED
  BY <1>2, <1>3, <1>4, <1>5, <1>6, <1>7 DEF Works

\* A step that neither makes or removes a lock nor finds a stale one.
LEMMA ExclusiveKept ==
  ASSUME SessionInv, Exclusive, NEW h \in Hooks, UNCHANGED <<lock, raced>>,
         hook[h].pc # "over", hook'[h].pc # "stale",
         \A g \in Hooks : g # h => hook'[g] = hook[g],
         Sessions!Working(h)' => Sessions!Working(h) /\ hook'[h].use = hook[h].use
  PROVE  Exclusive'
<1>. SUFFICES ASSUME NEW g \in Hooks, hook'[g].use.participant \notin raced
              PROVE  LET p == hook'[g].use.participant IN
                     /\ Sessions!Working(g)' => lock[p] = g
                     /\ hook'[g].pc = "stale" => lock[p] = 0 \/ hook'[lock[p]].pc = "over"
  BY DEF Exclusive
<1>1. CASE g = h
  BY <1>1 DEF Exclusive
<1>2. CASE g # h
  <2>. DEFINE p == hook[g].use.participant
  <2>1. hook'[g] = hook[g] /\ (Sessions!Working(g)' <=> Sessions!Working(g))
    BY <1>2 DEF Sessions!Working
  <2>2. Sessions!Working(g) => lock[p] = g
    BY <2>1 DEF Exclusive
  <2>3. ASSUME hook[g].pc = "stale" PROVE lock[p] = 0 \/ hook'[lock[p]].pc = "over"
    <3>1. p \in Sessions!Participants /\ lock[p] \in Hooks \union {0}
      BY <2>3 DEF SessionInv, SessionTypes, Recorded, Sessions!Participants
    <3>2. lock[p] = 0 \/ hook[lock[p]].pc = "over"
      BY <2>1, <2>3 DEF Exclusive
    <3>. QED
      BY <3>1, <3>2
  <2>. QED
    BY <2>1, <2>2, <2>3
<1>. QED
  BY <1>1, <1>2

LEMMA ExclusiveStep ==
  SessionInv /\ Exclusive /\ [Sessions!Next]_(Sessions!vars) => Exclusive'
<1>. SUFFICES ASSUME SessionInv, Exclusive, [Sessions!Next]_(Sessions!vars) PROVE Exclusive'
  OBVIOUS
<1>0. SessionTypes /\ Recorded /\ 0 \notin Hooks
  BY SessionsConstants DEF SessionInv
<1>1. ASSUME NEW h \in Hooks, UNCHANGED <<lock, raced>>,
             hook[h].pc # "over", hook'[h].pc \in {"locking", "over"},
             \A g \in Hooks : g # h => hook'[g] = hook[g]
      PROVE  Exclusive'
  BY <1>1, ExclusiveKept DEF Sessions!Working
<1>7. ASSUME NEW h \in Hooks, NEW u \in Uses, Sessions!Begins(h, u) PROVE Exclusive'
  BY <1>0, <1>1, <1>7 DEF SessionTypes, Sessions!Begins, Sessions!IdleHook
<1>8. ASSUME NEW h \in Hooks, Sessions!WaitsTooLong(h) PROVE Exclusive'
  BY <1>0, <1>1, <1>8 DEF SessionTypes, Sessions!WaitsTooLong, Sessions!OverHook, Sessions!IdleHook
<1>9. ASSUME NEW h \in Hooks, Sessions!HookKilled(h) PROVE Exclusive'
  BY <1>0, <1>1, <1>9
  DEF SessionTypes, Sessions!HookKilled, Sessions!Runs, Sessions!OverHook, Sessions!IdleHook
<1>2. ASSUME NEW h \in Hooks, Works(h) PROVE Exclusive'
  BY <1>0, <1>2, WorksOn, ExclusiveKept DEF SessionTypes, Sessions!Working
<1>3. ASSUME NEW h \in Hooks, Sessions!CreateLock(h) PROVE Exclusive'
  <2>. DEFINE p == hook[h].use.participant
  <2>1. /\ lock[p] = 0 /\ lock' = [lock EXCEPT ![p] = h] /\ p \in Sessions!Participants
        /\ hook'[h].pc = "locked" /\ hook'[h].use = hook[h].use
        /\ \A g \in Hooks : g # h => hook'[g] = hook[g]
    BY <1>0, <1>3
    DEF Sessions!CreateLock, Sessions!Step, SessionTypes, HookStates, Recorded,
      Sessions!Participants
  <2>2. /\ raced \subseteq raced'
        /\ \A g \in Hooks : hook[g].pc = "stale" /\ hook[g].use.participant = p => p \in raced'
    BY <1>3 DEF Sessions!CreateLock
  <2>3. lock'[p] = h /\ \A r \in Sessions!Participants : r # p => lock'[r] = lock[r]
    BY <1>0, <2>1 DEF SessionTypes
  <2>. SUFFICES ASSUME NEW g \in Hooks, hook'[g].use.participant \notin raced', g # h
                PROVE  LET r == hook[g].use.participant IN
                       /\ Sessions!Working(g) => lock'[r] = g
                       /\ hook[g].pc = "stale" => lock'[r] = 0 \/ hook'[lock'[r]].pc = "over"
    BY <2>1, <2>3 DEF Exclusive, Sessions!Working
  <2>. DEFINE r == hook[g].use.participant
  <2>4. r \notin raced /\ (Sessions!Working(g) \/ hook[g].pc = "stale" => r \in Sessions!Participants)
    BY <1>0, <2>1, <2>2 DEF Recorded, Sessions!Participants, Sessions!Working
  <2>5. Sessions!Working(g) => lock'[r] = g
    BY <1>0, <2>1, <2>3, <2>4 DEF Exclusive
  <2>6. ASSUME hook[g].pc = "stale" PROVE lock'[r] = 0 \/ hook'[lock'[r]].pc = "over"
    <3>1. r # p /\ lock'[r] = lock[r] /\ lock[r] \in Hooks \union {0}
      BY <1>0, <2>1, <2>2, <2>3, <2>4, <2>6 DEF SessionTypes
    <3>2. lock[r] = 0 \/ hook[lock[r]].pc = "over"
      BY <2>4, <2>6 DEF Exclusive
    <3>3. hook[h].pc # "over"
      BY <1>3 DEF Sessions!CreateLock
    <3>. QED
      BY <2>1, <3>1, <3>2, <3>3
  <2>. QED
    BY <2>5, <2>6
<1>4. ASSUME NEW h \in Hooks, Sessions!FindStale(h) PROVE Exclusive'
  <2>1. /\ UNCHANGED <<lock, raced>> /\ hook[h].pc = "locking"
        /\ hook'[h].pc = "stale" /\ hook'[h].use = hook[h].use
        /\ \A g \in Hooks : g # h => hook'[g] = hook[g]
        /\ hook[lock[hook[h].use.participant]].pc = "over"
    BY <1>0, <1>4
    DEF Sessions!FindStale, Sessions!isLockFileStale, Sessions!Step, SessionTypes, HookStates
  <2>. SUFFICES ASSUME NEW g \in Hooks, hook'[g].use.participant \notin raced
                PROVE  LET p == hook[g].use.participant IN
                       /\ Sessions!Working(g)' => lock[p] = g
                       /\ hook'[g].pc = "stale" => lock[p] = 0 \/ hook'[lock[p]].pc = "over"
    BY <2>1 DEF Exclusive
  <2>. DEFINE p == hook[g].use.participant
  <2>2. p \notin raced
    BY <2>1
  <2>3. Sessions!Working(g)' => g # h /\ Sessions!Working(g)
    BY <2>1 DEF Sessions!Working
  <2>4. ASSUME hook'[g].pc = "stale" PROVE lock[p] = 0 \/ hook'[lock[p]].pc = "over"
    <3>1. p \in Sessions!Participants /\ lock[p] \in Hooks \union {0}
      BY <1>0, <2>1, <2>4 DEF SessionTypes, Recorded, Sessions!Participants
    <3>2. lock[p] = 0 \/ hook[lock[p]].pc = "over"
      BY <2>1, <2>2, <2>4 DEF Exclusive
    <3>. QED
      BY <2>1, <3>1, <3>2
  <2>. QED
    BY <2>2, <2>3, <2>4 DEF Exclusive
<1>5. ASSUME NEW h \in Hooks, Sessions!RemoveStale(h) \/ Sessions!ReleaseLock(h) PROVE Exclusive'
  <2>. DEFINE p == hook[h].use.participant
  <2>1. /\ UNCHANGED raced /\ lock' = [lock EXCEPT ![p] = 0]
        /\ hook[h].pc \in {"stale", "done"} /\ hook'[h].pc \in {"locking", "over"}
        /\ \A g \in Hooks : g # h => hook'[g] = hook[g]
    BY <1>0, <1>5
    DEF Sessions!RemoveStale, Sessions!ReleaseLock, Sessions!OverHook, Sessions!IdleHook,
      Sessions!Step, SessionTypes, HookStates
  <2>2. lock'[p] = 0 /\ \A r \in Sessions!Participants : r # p => lock'[r] = lock[r]
    BY <1>0, <2>1 DEF SessionTypes, Recorded, Sessions!Participants
  <2>. SUFFICES ASSUME NEW g \in Hooks, hook[g].use.participant \notin raced, g # h
                PROVE  LET r == hook[g].use.participant IN
                       /\ Sessions!Working(g) => lock'[r] = g
                       /\ hook[g].pc = "stale" => lock'[r] = 0 \/ hook'[lock'[r]].pc = "over"
    BY <2>1 DEF Exclusive, Sessions!Working
  <2>. DEFINE r == hook[g].use.participant
  <2>3. /\ Sessions!Working(g) => lock[r] = g /\ r \in Sessions!Participants
        /\ hook[g].pc = "stale" => /\ lock[r] = 0 \/ hook[lock[r]].pc = "over"
                                   /\ r \in Sessions!Participants
    BY <1>0 DEF Exclusive, Recorded, Sessions!Participants, Sessions!Working
  <2>4. Sessions!Working(g) => r # p
    <3>1. hook[h].pc = "stale" /\ r = p => lock[p] = 0 \/ hook[lock[p]].pc = "over"
      BY DEF Exclusive
    <3>2. hook[h].pc = "done" /\ r = p => lock[p] = h
      BY DEF Exclusive, Sessions!Working
    <3>. QED
      BY <1>0, <2>1, <2>3, <3>1, <3>2 DEF Sessions!Working
  <2>5. ASSUME hook[g].pc = "stale", r # p PROVE lock'[r] = 0 \/ hook'[lock'[r]].pc = "over"
    <3>1. lock'[r] = lock[r] /\ lock[r] \in Hooks \union {0}
      BY <1>0, <2>2, <2>3, <2>5 DEF SessionTypes
    <3>. QED
      BY <2>1, <2>3, <2>5, <3>1
  <2>. QED
    BY <2>2, <2>3, <2>4, <2>5
<1>6. ASSUME UNCHANGED <<hook, lock, raced>> PROVE Exclusive'
  BY <1>6 DEF Exclusive, Sessions!Working
<1>. QED
  BY <1>2, <1>3, <1>4, <1>5, <1>6, <1>7, <1>8, <1>9
  DEF Works, Sessions!Next, Sessions!vars, Sessions!Records, Sessions!Ends,
    Sessions!RemovesState,
    Sessions!Dies, Sessions!ParentExits

ParticipantOf(c) == child[c].use.participant
ParentOf(c) == child[c].use.parent

\* The hooks that run are of one participant, and none works but the owner of its lock.
OneAtATime ==
  /\ \A h, g \in Hooks :
       Sessions!Runs(h) /\ Sessions!Runs(g) => hook[h].use.participant = hook[g].use.participant
  /\ \A h \in Hooks :
       hook[h].pc # "stale" /\ (Sessions!Working(h) => lock[hook[h].use.participant] = h)
  /\ \A p \in Sessions!Participants : lock[p] # 0 =>
       Sessions!Working(lock[p]) /\ hook[lock[p]].use.participant = p

\* A process of a participant that no hook has found in use by another session.
Lone(c) == Sessions!Alive(c) /\ ParticipantOf(c) \notin shared

\* Each of them is on record, or has been spawned a moment ago.
AllOnRecord ==
  \A c \in Children : Lone(c) =>
    \/ state[ParticipantOf(c)].pid = c
    \/ \E h \in Hooks : hook[h].pc = "spawned" /\ hook[h].pid = c

\* No two are related.
Unrelated ==
  \A c, d \in Children :
    Lone(c) /\ Lone(d) /\ (ParticipantOf(c) = ParticipantOf(d) \/ ParentOf(c) = ParentOf(d)) => c = d

\* While a hook prunes, there is none for its participant, and those for its parent are of
\* the siblings that it has not read, or the one that it has just read of.
Cleared(h) ==
  hook[h].pc \in {"pruning", "killing"} =>
    /\ hook[h].use.participant \notin shared => state[hook[h].use.participant] = Sessions!NoState
    /\ \A c \in Children : Lone(c) =>
         /\ ParticipantOf(c) # hook[h].use.participant
         /\ ParentOf(c) = hook[h].use.parent =>
              ParticipantOf(c) \in hook[h].siblings \/ (hook[h].pc = "killing" /\ c = hook[h].pid)
         /\ hook[h].pc = "killing" /\ ParticipantOf(c) = ParticipantOf(hook[h].pid) =>
              c = hook[h].pid

\* The process that a hook has spawned lives as long as its parent does, if it is not
\* killed; it may be the first to write its record.
Spawned(h) ==
  hook[h].pc = "spawned" =>
    /\ hook[h].use.participant \notin shared =>
         state[hook[h].use.participant].pid \in {0, hook[h].pid}
    /\ hook[h].use.parent \in parents => Sessions!Alive(hook[h].pid)

Serves(use) ==
  use.participant \notin shared /\ use.parent \in parents =>
    state[use.participant].use = use /\ Sessions!Alive(state[use.participant].pid)

Settled ==
  last # Sessions!Overlap =>
    /\ OneAtATime /\ AllOnRecord /\ Unrelated
    /\ \A h \in Hooks : Cleared(h) /\ Spawned(h) /\ (hook[h].pc = "done" => Serves(hook[h].use))
    /\ (\A h \in Hooks : ~Sessions!Working(h)) /\ last # Sessions!NoUse => Serves(last)

\* A process ends only after its parent has.
Orphaned == \A c \in Children : child[c].pc = "ending" => ParentOf(c) \notin parents

LEMMA OrphanedStep == SessionInv /\ Orphaned /\ [Sessions!Next]_(Sessions!vars) => Orphaned'
<1>. SUFFICES ASSUME SessionInv, Orphaned, [Sessions!Next]_(Sessions!vars) PROVE Orphaned'
  OBVIOUS
<1>0. SessionTypes /\ Recorded
  BY DEF SessionInv
<1>1. ASSUME NEW c \in Children, child' = Sessions!Killed(c), UNCHANGED parents PROVE Orphaned'
  BY <1>0, <1>1, KilledEffect DEF Orphaned, ParentOf
<1>2. ASSUME NEW h \in Hooks, Sessions!Replace(h) PROVE Orphaned'
  <2>1. hook[h].use.participant \in Sessions!Participants
    BY <1>0, <1>2 DEF Sessions!Replace, Sessions!Participants, Recorded
  <2>2. state[hook[h].use.participant].pid \in Children \union {0}
    BY <1>0, <2>1 DEF SessionTypes, StateFiles
  <2>. QED
    BY <1>1, <1>2, <2>2 DEF Sessions!Replace, Sessions!Alive, Sessions!Killed, Orphaned, ParentOf
<1>3. ASSUME NEW h \in Hooks, Sessions!PruneSibling(h) PROVE Orphaned'
  <2>1. hook[h].pid \in Children
    BY <1>0, <1>3 DEF Sessions!PruneSibling, SessionTypes, HookStates, Recorded
  <2>. QED
    BY <1>1, <1>3, <2>1 DEF Sessions!PruneSibling
<1>4. ASSUME NEW h \in Hooks, Sessions!Spawn(h) PROVE Orphaned'
  BY <1>0, <1>4 DEF Sessions!Spawn, SessionTypes, Orphaned, ParentOf
<1>5. ASSUME NEW c \in Children, Sessions!Records(c) PROVE Orphaned'
  BY <1>0, <1>5 DEF Sessions!Records, SessionTypes, Processes, Orphaned, ParentOf
<1>6. ASSUME NEW c \in Children, Sessions!Ends(c) PROVE Orphaned'
  BY <1>0, <1>6
  DEF Sessions!Ends, Sessions!ParentExited, SessionTypes, Processes, Orphaned, ParentOf
<1>7. ASSUME NEW c \in Children, Sessions!RemovesState(c) \/ Sessions!Dies(c) PROVE Orphaned'
  BY <1>1, <1>7, SessionsConstants
  DEF Sessions!RemovesState, Sessions!Dies, Sessions!Killed, Sessions!Alive
<1>8. ASSUME UNCHANGED child, parents' \subseteq parents PROVE Orphaned'
  BY <1>8 DEF Orphaned, ParentOf
<1>. QED
  BY <1>2, <1>3, <1>4, <1>5, <1>6, <1>7, <1>8
  DEF Sessions!Next, Sessions!vars, Sessions!Begins, Sessions!CreateLock, Sessions!FindStale,
    Sessions!RemoveStale, Sessions!WaitsTooLong, Sessions!Reuse, Sessions!ReadSibling,
    Sessions!RecordSpawned, Sessions!ReleaseLock, Sessions!HookKilled, Sessions!ParentExits

\* Overlap is for good.
LEMMA OverlapStays ==
  ASSUME SessionInv, Sessions!Next, last = Sessions!Overlap
  PROVE  last' = Sessions!Overlap
<1>0. SessionTypes /\ Recorded
  BY DEF SessionInv
<1>1. ASSUME NEW c \in Children, Sessions!Dies(c) PROVE last' = Sessions!Overlap
  <2>1. child[c].use \in Uses
    BY <1>0, <1>1 DEF Sessions!Dies, Sessions!Alive, Recorded
  <2>2. child[c].use # Sessions!Overlap
    BY <2>1, SessionsConstants DEF Sessions!Overlap, Sessions!NoUse
  <2>. QED
    BY <1>1, <2>2 DEF Sessions!Dies
<1>. QED
  BY <1>1
  DEF Sessions!Next, Sessions!Begins, Sessions!CreateLock, Sessions!FindStale,
    Sessions!RemoveStale, Sessions!WaitsTooLong, Sessions!Reuse, Sessions!Replace,
    Sessions!ReadSibling, Sessions!PruneSibling, Sessions!Spawn, Sessions!RecordSpawned,
    Sessions!ReleaseLock, Sessions!HookKilled, Sessions!Records, Sessions!Ends,
    Sessions!RemovesState, Sessions!ParentExits

Waits(h) == hook[h].pc \in {"idle", "over", "locking"}

LEMMA OneAtATimeStep ==
  ASSUME SessionInv, OneAtATime, Sessions!Next, last' # Sessions!Overlap
  PROVE  OneAtATime'
<1>0. SessionTypes /\ Recorded /\ 0 \notin Hooks
  BY SessionsConstants DEF SessionInv
<1>1. ASSUME NEW h \in Hooks, UNCHANGED lock,
             \A g \in Hooks : g # h => hook'[g] = hook[g],
             Sessions!Working(h)' <=> Sessions!Working(h),
             hook'[h].pc # "stale",
             Sessions!Working(h) => hook'[h].use = hook[h].use,
             \A g \in Hooks : Sessions!Runs(h)' /\ Sessions!Runs(g) /\ g # h =>
               hook'[h].use.participant = hook[g].use.participant
      PROVE  OneAtATime'
  <2>1. \A g \in Hooks : /\ Sessions!Working(g)' <=> Sessions!Working(g)
                         /\ g # h => (Sessions!Runs(g)' <=> Sessions!Runs(g))
    BY <1>1 DEF Sessions!Working, Sessions!Runs
  <2>2. \A g, k \in Hooks : Sessions!Runs(g)' /\ Sessions!Runs(k)' =>
          hook'[g].use.participant = hook'[k].use.participant
    BY <1>1, <2>1 DEF OneAtATime
  <2>3. \A g \in Hooks : hook'[g].pc # "stale" /\
                         (Sessions!Working(g)' => lock'[hook'[g].use.participant] = g)
    BY <1>1, <2>1 DEF OneAtATime
  <2>4. \A p \in Sessions!Participants : lock'[p] # 0 =>
          Sessions!Working(lock[p])' /\ hook'[lock[p]].use.participant = p
    BY <1>0, <1>1, <2>1 DEF OneAtATime, SessionTypes
  <2>. QED
    BY <1>1, <2>2, <2>3, <2>4 DEF OneAtATime
<1>2. ASSUME NEW h \in Hooks, NEW u \in Uses, Sessions!Begins(h, u) PROVE OneAtATime'
  <2>1. /\ UNCHANGED lock /\ hook[h].pc = "idle" /\ hook'[h].pc = "locking" /\ hook'[h].use = u
        /\ \A g \in Hooks : g # h => hook'[g] = hook[g]
    BY <1>0, <1>2 DEF Sessions!Begins, Sessions!IdleHook, SessionTypes
  <2>2. \A g \in Hooks : Sessions!Runs(g) => hook[g].use.participant = u.participant
    BY <1>2 DEF Sessions!Begins
  <2>. QED
    BY <1>1, <2>1, <2>2 DEF Sessions!Working
<1>3. ASSUME NEW h \in Hooks, Sessions!WaitsTooLong(h) PROVE OneAtATime'
  <2>1. /\ UNCHANGED lock /\ hook[h].pc = "locking" /\ hook'[h].pc = "over"
        /\ \A g \in Hooks : g # h => hook'[g] = hook[g]
    BY <1>0, <1>3 DEF Sessions!WaitsTooLong, Sessions!OverHook, Sessions!IdleHook, SessionTypes
  <2>. QED
    BY <1>1, <2>1 DEF Sessions!Working, Sessions!Runs
<1>4. ASSUME NEW h \in Hooks, Works(h) PROVE OneAtATime'
  <2>1. \A g \in Hooks : Sessions!Runs(g) => hook[g].use.participant = hook[h].use.participant
    BY <1>0, <1>4, WorksOn DEF SessionTypes, OneAtATime, Sessions!Working, Sessions!Runs
  <2>. QED
    BY <1>0, <1>1, <1>4, <2>1, WorksOn DEF SessionTypes, Sessions!Working
<1>5. ASSUME NEW h \in Hooks, Sessions!CreateLock(h) PROVE OneAtATime'
  <2>. DEFINE p == hook[h].use.participant
  <2>1. /\ lock[p] = 0 /\ lock' = [lock EXCEPT ![p] = h] /\ p \in Sessions!Participants
        /\ hook[h].pc = "locking" /\ hook'[h].pc = "locked" /\ hook'[h].use = hook[h].use
        /\ \A g \in Hooks : g # h => hook'[g] = hook[g]
    BY <1>0, <1>5
    DEF Sessions!CreateLock, Sessions!Step, SessionTypes, HookStates, Recorded,
      Sessions!Participants
  <2>2. /\ lock'[p] = h /\ \A r \in Sessions!Participants : r # p => lock'[r] = lock[r]
        /\ \A r \in Sessions!Participants : lock[r] \in Hooks \union {0}
    BY <1>0, <2>1 DEF SessionTypes
  <2>3. \A g \in Hooks : Sessions!Runs(g) => hook[g].use.participant = p
    BY <2>1 DEF OneAtATime, Sessions!Runs
  <2>4. \A g \in Hooks : ~Sessions!Working(g)
    BY <1>0, <2>1, <2>3 DEF OneAtATime, Sessions!Working, Sessions!Runs
  <2>5. \A g \in Hooks : Sessions!Runs(g)' => hook'[g].use.participant = p
    BY <2>1, <2>3 DEF Sessions!Runs
  <2>6. \A g \in Hooks : hook'[g].pc # "stale" /\ (g # h => ~Sessions!Working(g)')
    BY <2>1, <2>4 DEF OneAtATime, Sessions!Working
  <2>7. \A r \in Sessions!Participants : r # p => lock'[r] = 0
    BY <2>2, <2>4 DEF OneAtATime
  <2>8. Sessions!Working(h)'
    BY <2>1 DEF Sessions!Working
  <2>. QED
    BY <2>1, <2>2, <2>5, <2>6, <2>7, <2>8 DEF OneAtATime
<1>6. ASSUME NEW h \in Hooks, Sessions!ReleaseLock(h) PROVE OneAtATime'
  <2>. DEFINE p == hook[h].use.participant
  <2>1. /\ lock' = [lock EXCEPT ![p] = 0] /\ p \in Sessions!Participants
        /\ hook[h].pc = "done" /\ hook'[h].pc = "over"
        /\ \A g \in Hooks : g # h => hook'[g] = hook[g]
    BY <1>0, <1>6
    DEF Sessions!ReleaseLock, Sessions!OverHook, Sessions!IdleHook, SessionTypes, HookStates,
      Recorded, Sessions!Participants
  <2>2. /\ lock'[p] = 0 /\ \A r \in Sessions!Participants : r # p => lock'[r] = lock[r]
        /\ \A r \in Sessions!Participants : lock[r] \in Hooks \union {0}
    BY <1>0, <2>1 DEF SessionTypes
  <2>3. \A g \in Hooks : Sessions!Runs(g) => hook[g].use.participant = p
    BY <2>1 DEF OneAtATime, Sessions!Runs
  <2>4. \A g \in Hooks : g # h => ~Sessions!Working(g)
    BY <2>1, <2>3 DEF OneAtATime, Sessions!Working, Sessions!Runs
  <2>5. \A g \in Hooks : /\ Sessions!Runs(g)' => hook'[g].use.participant = p
                         /\ hook'[g].pc # "stale" /\ ~Sessions!Working(g)'
    BY <2>1, <2>3, <2>4 DEF OneAtATime, Sessions!Runs, Sessions!Working
  <2>6. \A r \in Sessions!Participants : lock'[r] = 0
    BY <2>1, <2>2, <2>4 DEF OneAtATime
  <2>. QED
    BY <2>5, <2>6 DEF OneAtATime
<1>7. ASSUME NEW h \in Hooks, Sessions!FindStale(h) \/ Sessions!RemoveStale(h) PROVE FALSE
  <2>1. Sessions!FindStale(h)
    BY <1>7 DEF Sessions!RemoveStale, OneAtATime
  <2>2. hook[h].use.participant \in Sessions!Participants
    BY <1>0, <2>1 DEF Sessions!FindStale, Recorded, Sessions!Participants
  <2>. QED
    BY <2>1, <2>2
    DEF Sessions!FindStale, Sessions!isLockFileStale, OneAtATime, Sessions!Working
<1>8. ASSUME UNCHANGED <<hook, lock>> PROVE OneAtATime'
  BY <1>8 DEF OneAtATime, Sessions!Working, Sessions!Runs
<1>9. ASSUME NEW h \in Hooks, Sessions!HookKilled(h) PROVE FALSE
  BY <1>9 DEF Sessions!HookKilled
<1>. QED
  BY <1>2, <1>3, <1>4, <1>5, <1>6, <1>7, <1>8, <1>9
  DEF Works, Sessions!Next, Sessions!Records, Sessions!Ends, Sessions!RemovesState,
    Sessions!Dies,
    Sessions!ParentExits

\* A step of a hook that leaves processes and records alone; the others only wait.
LEMMA HookStepSettled ==
  ASSUME OneAtATime', AllOnRecord, Unrelated, NEW h \in Hooks,
         \A g \in Hooks : g # h => Waits(g) /\ hook'[g] = hook[g],
         UNCHANGED <<parents, state, child, shared>>,
         hook[h].pc # "spawned", hook'[h].pc # "spawned",
         Cleared(h)', hook'[h].pc = "done" => Serves(hook'[h].use),
         ~Sessions!Working(h)' /\ last' # Sessions!NoUse => Serves(last')
  PROVE  Settled'
<1>1. AllOnRecord' /\ Unrelated'
  BY DEF AllOnRecord, Unrelated, Lone, Sessions!Alive, ParticipantOf, ParentOf
<1>2. \A g \in Hooks : Cleared(g)' /\ Spawned(g)'
  BY DEF Cleared, Spawned, Waits
<1>3. \A use : Serves(use) => Serves(use)'
  BY DEF Serves, Sessions!Alive
<1>4. \A g \in Hooks : (hook[g].pc = "done" => Serves(hook[g].use))'
  BY <1>3 DEF Waits
<1>5. ((\A g \in Hooks : ~Sessions!Working(g)) /\ last # Sessions!NoUse => Serves(last))'
  BY <1>3
<1>. QED
  BY <1>1, <1>2, <1>4, <1>5 DEF Settled

\* A step of a hook that does not work, neither before nor after.
LEMMA WaitingSettled ==
  ASSUME OneAtATime', Settled, last # Sessions!Overlap, NEW h \in Hooks,
         \A g \in Hooks : g # h => hook'[g] = hook[g], Waits(h), Waits(h)',
         UNCHANGED <<parents, state, child, shared, last>>
  PROVE  Settled'
<1>1. AllOnRecord'
  BY DEF Settled, AllOnRecord, Lone, Sessions!Alive, ParticipantOf, Waits
<1>2. Unrelated'
  BY DEF Settled, Unrelated, Lone, Sessions!Alive, ParticipantOf, ParentOf
<1>3. ASSUME NEW g \in Hooks PROVE Cleared(g)' /\ Spawned(g)'
  <2>1. CASE g = h
    BY <2>1 DEF Cleared, Spawned, Waits
  <2>2. CASE g # h
    BY <2>2 DEF Settled, Cleared, Spawned, Lone, Sessions!Alive, ParticipantOf, ParentOf
  <2>. QED
    BY <2>1, <2>2
<1>4. \A use : Serves(use) => Serves(use)'
  BY DEF Serves, Sessions!Alive
<1>5. \A g \in Hooks : (hook[g].pc = "done" => Serves(hook[g].use))'
  BY <1>4 DEF Settled, Waits
<1>6. \A g \in Hooks : Sessions!Working(g)' <=> Sessions!Working(g)
  BY DEF Sessions!Working, Waits
<1>7. ((\A g \in Hooks : ~Sessions!Working(g)) /\ last # Sessions!NoUse => Serves(last))'
  BY <1>4, <1>6 DEF Settled
<1>. QED
  BY <1>1, <1>2, <1>3, <1>5, <1>7 DEF Settled

LEMMA SettledStep ==
  ASSUME SessionInv, Orphaned, Settled, Sessions!Next
  PROVE  Settled'
<1>. SUFFICES ASSUME last' # Sessions!Overlap PROVE Settled'
  BY DEF Settled
<1>0. /\ SessionTypes /\ Recorded /\ last # Sessions!Overlap
      /\ OneAtATime /\ AllOnRecord /\ Unrelated
      /\ \A h \in Hooks : Cleared(h) /\ Spawned(h) /\ (hook[h].pc = "done" => Serves(hook[h].use))
      /\ (\A h \in Hooks : ~Sessions!Working(h)) /\ last # Sessions!NoUse => Serves(last)
  BY OverlapStays DEF SessionInv, Settled
<1>a. 0 \notin Children /\ 0 \notin Hooks /\ OneAtATime'
  BY <1>0, SessionsConstants, OneAtATimeStep
<1>b. ASSUME NEW h \in Hooks, Sessions!Working(h), NEW g \in Hooks, g # h PROVE Waits(g)
  <2>1. ~Sessions!Working(g)
    BY <1>0, <1>b DEF OneAtATime, Sessions!Working, Sessions!Runs
  <2>. QED
    BY <1>0, <2>1 DEF OneAtATime, Sessions!Working, Waits, SessionTypes, HookStates, HookPcs
<1>1. ASSUME NEW h \in Hooks, NEW u \in Uses, Sessions!Begins(h, u) PROVE Settled'
  <2>1. /\ \A g \in Hooks : g # h => hook'[g] = hook[g]
        /\ hook[h].pc = "idle" /\ hook'[h].pc = "locking"
        /\ UNCHANGED <<parents, state, child, shared, last>>
    BY <1>0, <1>1 DEF Sessions!Begins, SessionTypes, HookStates
  <2>. QED
    BY <1>0, <1>a, <2>1, WaitingSettled DEF Waits
<1>2. ASSUME NEW h \in Hooks, Sessions!CreateLock(h) PROVE Settled'
  <2>. DEFINE p == hook[h].use.participant
  <2>1. /\ \A g \in Hooks : g # h => hook'[g] = hook[g]
        /\ hook[h].pc = "locking" /\ hook'[h].pc = "locked"
        /\ UNCHANGED <<parents, state, child, shared>>
    BY <1>0, <1>2 DEF Sessions!CreateLock, Sessions!Step, SessionTypes, HookStates
  <2>2. ASSUME NEW g \in Hooks, g # h PROVE ~Sessions!Working(g)
    BY <1>0, <1>a, <1>2, <2>2
    DEF Sessions!CreateLock, OneAtATime, Sessions!Working, Sessions!Runs
  <2>3. \A g \in Hooks : g # h => Waits(g)
    BY <1>0, <2>2 DEF OneAtATime, Sessions!Working, Waits, SessionTypes, HookStates, HookPcs
  <2>. QED
    BY <1>0, <1>a, <2>1, <2>3, HookStepSettled DEF Cleared, Sessions!Working
<1>3. ASSUME NEW h \in Hooks, Sessions!FindStale(h) \/ Sessions!RemoveStale(h) PROVE FALSE
  <2>1. Sessions!FindStale(h)
    BY <1>0, <1>3 DEF Sessions!RemoveStale, OneAtATime
  <2>2. hook[h].use.participant \in Sessions!Participants
    BY <1>0, <2>1 DEF Sessions!FindStale, Recorded, Sessions!Participants
  <2>. QED
    BY <1>0, <2>1, <2>2
    DEF Sessions!FindStale, Sessions!isLockFileStale, OneAtATime, Sessions!Working
<1>4. ASSUME NEW h \in Hooks, Sessions!WaitsTooLong(h) PROVE Settled'
  <2>1. /\ \A g \in Hooks : g # h => hook'[g] = hook[g]
        /\ hook[h].pc = "locking" /\ hook'[h].pc = "over"
        /\ UNCHANGED <<parents, state, child, shared, last>>
    BY <1>0, <1>4
    DEF Sessions!WaitsTooLong, Sessions!OverHook, Sessions!IdleHook, SessionTypes, HookStates
  <2>. QED
    BY <1>0, <1>a, <2>1, WaitingSettled DEF Waits
<1>5. ASSUME NEW h \in Hooks, Sessions!HookKilled(h) PROVE FALSE
  BY <1>5 DEF Sessions!HookKilled
<1>6. ASSUME NEW h \in Hooks, Sessions!Reuse(h) PROVE Settled'
  <2>1. /\ hook[h].pc = "locked" /\ hook'[h].pc = "done" /\ hook'[h].use = hook[h].use
        /\ \A g \in Hooks : g # h => hook'[g] = hook[g]
        /\ UNCHANGED <<parents, state, child, shared>>
    BY <1>0, <1>6 DEF Sessions!Reuse, Sessions!Step, SessionTypes, HookStates
  <2>2. \A g \in Hooks : g # h => Waits(g)
    BY <1>b, <2>1 DEF Sessions!Working
  <2>3. Serves(hook[h].use)
    BY <1>6 DEF Sessions!Reuse, Sessions!Reusable, Serves
  <2>. QED
    BY <1>0, <1>a, <2>1, <2>2, <2>3, HookStepSettled DEF Cleared, Sessions!Working
<1>7. ASSUME NEW h \in Hooks, Sessions!Replace(h) PROVE Settled'
  <2>. DEFINE u == hook[h].use
              p == u.participant
              old == state[p].pid
  <2>1. /\ hook[h].pc = "locked" /\ hook'[h].pc = "pruning" /\ hook'[h].use = u
        /\ hook'[h].siblings = Sessions!Participants \ {p} /\ UNCHANGED <<parents, last>>
        /\ \A g \in Hooks : g # h => hook'[g] = hook[g]
    BY <1>0, <1>7 DEF Sessions!Replace, SessionTypes, HookStates
  <2>0. \A g \in Hooks : g # h => Waits(g)
    BY <1>b, <2>1 DEF Sessions!Working
  <2>2. u \in Uses /\ p \in Sessions!Participants
    BY <1>0, <2>1 DEF Recorded, Sessions!Participants
  <2>3. \A d \in Children : Lone(d) /\ ParticipantOf(d) = p => d = old
    BY <1>0, <2>0, <2>1 DEF AllOnRecord, Waits
  <2>4. /\ \A d \in Children : child'[d].use = child[d].use
        /\ \A d \in Children : Lone(d)' => Lone(d) /\ ParticipantOf(d) # p
        /\ shared \subseteq shared' /\ shared' \subseteq shared \union {p}
        /\ \A q \in Sessions!Participants : q # p => state'[q] = state[q]
        /\ p \in shared' \/ state'[p] = Sessions!NoState
    <3>1. CASE Sessions!Alive(old) /\ state[p].use.session = u.session
      <4>1. old \in Children
        BY <1>0, <2>2, <3>1 DEF SessionTypes, StateFiles, Sessions!Alive
      <4>2. /\ child' = Sessions!Killed(old) /\ shared' = shared
            /\ state' = [state EXCEPT ![p] = Sessions!NoState]
        BY <1>7, <3>1 DEF Sessions!Replace, Sessions!Killed
      <4>3. /\ \A d \in Children : child'[d].use = child[d].use
            /\ \A d \in Children : Sessions!Alive(d)' <=> Sessions!Alive(d) /\ d # old
        BY <1>0, <4>1, <4>2, KilledEffect
      <4>4. \A d \in Children : Lone(d)' => Lone(d) /\ d # old
        BY <4>2, <4>3 DEF Lone, ParticipantOf
      <4>5. /\ state'[p] = Sessions!NoState
            /\ \A q \in Sessions!Participants : q # p => state'[q] = state[q]
        BY <1>0, <2>2, <4>2 DEF SessionTypes
      <4>. QED
        BY <2>3, <4>2, <4>3, <4>4, <4>5
    <3>2. CASE Sessions!Alive(old) /\ state[p].use.session # u.session
      <4>1. /\ child' = child /\ state' = state /\ shared' = shared \union {p}
        BY <1>7, <3>2 DEF Sessions!Replace
      <4>. QED
        BY <4>1 DEF Lone, Sessions!Alive, ParticipantOf
    <3>3. CASE ~Sessions!Alive(old)
      <4>1. /\ child' = child /\ shared' = shared
            /\ state' = [state EXCEPT ![p] = Sessions!NoState]
        BY <1>7, <3>3 DEF Sessions!Replace
      <4>2. \A d \in Children : Lone(d)' => Lone(d) /\ ParticipantOf(d) # p
        BY <2>3, <3>3, <4>1 DEF Lone, Sessions!Alive, ParticipantOf
      <4>3. /\ state'[p] = Sessions!NoState
            /\ \A q \in Sessions!Participants : q # p => state'[q] = state[q]
        BY <1>0, <2>2, <4>1 DEF SessionTypes
      <4>. QED
        BY <4>1, <4>2, <4>3
    <3>. QED
      BY <3>1, <3>2, <3>3
  <2>5. \A d \in Children : Lone(d) => ParticipantOf(d) \in Sessions!Participants
    BY <1>0 DEF Recorded, Lone, Sessions!Alive, ParticipantOf, Sessions!Participants
  <2>6. Unrelated'
    BY <1>0, <2>4 DEF Unrelated, ParticipantOf, ParentOf
  <2>7. AllOnRecord'
    BY <1>0, <2>0, <2>1, <2>4, <2>5 DEF AllOnRecord, ParticipantOf, Waits
  <2>8. Cleared(h)'
    BY <2>1, <2>4, <2>5 DEF Cleared, ParticipantOf
  <2>9. \A g \in Hooks : (Cleared(g) /\ Spawned(g))' /\ hook'[g].pc # "done"
    BY <2>0, <2>1, <2>8 DEF Cleared, Spawned, Waits
  <2>. QED
    BY <1>a, <2>1, <2>6, <2>7, <2>9 DEF Settled, Sessions!Working
<1>8. ASSUME NEW h \in Hooks, NEW p \in Sessions!Participants, Sessions!ReadSibling(h, p)
      PROVE  Settled'
  <2>1. /\ hook[h].pc = "pruning" /\ hook[h].use \in Uses
        /\ \A g \in Hooks : g # h => hook'[g] = hook[g]
        /\ UNCHANGED <<parents, state, child, shared>>
    BY <1>0, <1>8 DEF Sessions!ReadSibling, SessionTypes, Recorded
  <2>0. \A g \in Hooks : g # h => Waits(g)
    BY <1>b, <2>1 DEF Sessions!Working
  <2>2. \A c \in Children : Lone(c) /\ ParticipantOf(c) = p => c = state[p].pid
    BY <1>0, <2>0, <2>1 DEF AllOnRecord, Waits
  <2>3. Cleared(h) /\ \A c \in Children : Lone(c)' <=> Lone(c)
    BY <1>0, <2>1 DEF Lone, Sessions!Alive, ParticipantOf
  <2>4. CASE state[p].use.parent = hook[h].use.parent
    <3>1. /\ hook'[h].pc = "killing" /\ hook'[h].use = hook[h].use /\ hook'[h].pid = state[p].pid
          /\ hook'[h].siblings = hook[h].siblings \ {p}
      BY <1>0, <1>8, <2>4 DEF Sessions!ReadSibling, SessionTypes, HookStates
    <3>2. state[p].pid \in Children /\ ParticipantOf(state[p].pid) = p
      BY <1>0, <2>1, <2>4, SessionsConstants
      DEF SessionTypes, StateFiles, Recorded, Sessions!NoState, Sessions!NoUse, ParticipantOf
    <3>3. Cleared(h)'
      BY <2>1, <2>2, <2>3, <3>1, <3>2 DEF Cleared, ParticipantOf, ParentOf
    <3>. QED
      BY <1>0, <1>a, <2>0, <2>1, <3>1, <3>3, HookStepSettled DEF Sessions!Working
  <2>5. CASE state[p].use.parent # hook[h].use.parent
    <3>1. /\ hook'[h].pc = "pruning" /\ hook'[h].use = hook[h].use
          /\ hook'[h].siblings = hook[h].siblings \ {p}
      BY <1>0, <1>8, <2>1, <2>5 DEF Sessions!ReadSibling, SessionTypes, HookStates
    <3>2. ASSUME NEW c \in Children, Lone(c), ParticipantOf(c) = p
          PROVE  ParentOf(c) # hook[h].use.parent
      BY <1>0, <1>a, <2>2, <2>5, <3>2 DEF Recorded, ParentOf
    <3>3. Cleared(h)'
      BY <2>1, <2>3, <3>1, <3>2 DEF Cleared, ParticipantOf, ParentOf
    <3>. QED
      BY <1>0, <1>a, <2>0, <2>1, <3>1, <3>3, HookStepSettled DEF Sessions!Working
  <2>. QED
    BY <2>4, <2>5
<1>9. ASSUME NEW h \in Hooks, Sessions!PruneSibling(h) PROVE Settled'
  <2>. DEFINE c == hook[h].pid
  <2>1. /\ hook[h].pc = "killing" /\ hook'[h].pc = "pruning" /\ hook'[h].use = hook[h].use
        /\ hook'[h].siblings = hook[h].siblings /\ UNCHANGED <<parents, shared>>
        /\ \A g \in Hooks : g # h => hook'[g] = hook[g]
    BY <1>0, <1>9 DEF Sessions!PruneSibling, SessionTypes, HookStates
  <2>0. \A g \in Hooks : g # h => Waits(g)
    BY <1>b, <2>1 DEF Sessions!Working
  <2>2. c \in Children /\ hook[h].use \in Uses
    BY <1>0, <2>1 DEF SessionTypes, HookStates, Recorded
  <2>3. /\ child' = Sessions!Killed(c)
        /\ state' = [state EXCEPT ![ParticipantOf(c)] = Sessions!NoState]
    BY <1>9 DEF Sessions!PruneSibling, ParticipantOf
  <2>4. /\ \A d \in Children : child'[d].use = child[d].use
        /\ \A d \in Children : Lone(d)' <=> Lone(d) /\ d # c
    BY <1>0, <2>1, <2>2, <2>3, KilledEffect DEF Lone, ParticipantOf
  <2>5. \A q \in Sessions!Participants :
          /\ q # ParticipantOf(c) => state'[q] = state[q]
          /\ state[q] = Sessions!NoState => state'[q] = Sessions!NoState
    BY <1>0, <2>3 DEF SessionTypes
  <2>6. /\ \A d \in Children : Lone(d) => ParticipantOf(d) \in Sessions!Participants
        /\ hook[h].use.participant \in Sessions!Participants
    BY <1>0, <2>2 DEF Recorded, Lone, Sessions!Alive, ParticipantOf, Sessions!Participants
  <2>7. Cleared(h)
    BY <1>0
  <2>8. Unrelated'
    BY <1>0, <2>1, <2>4 DEF Unrelated, ParticipantOf, ParentOf
  <2>9. AllOnRecord'
    BY <1>0, <2>0, <2>1, <2>4, <2>5, <2>6, <2>7 DEF AllOnRecord, Cleared, ParticipantOf, Waits
  <2>10. Cleared(h)'
    BY <2>1, <2>4, <2>5, <2>6, <2>7 DEF Cleared, ParticipantOf, ParentOf
  <2>11. \A g \in Hooks : (Cleared(g) /\ Spawned(g))' /\ hook'[g].pc # "done"
    BY <2>0, <2>1, <2>10 DEF Cleared, Spawned, Waits
  <2>. QED
    BY <1>a, <2>1, <2>8, <2>9, <2>11 DEF Settled, Sessions!Working
<1>10. ASSUME NEW h \in Hooks, Sessions!Spawn(h) PROVE Settled'
  <2>1. /\ hook[h].pc = "pruning" /\ hook[h].siblings = {}
        /\ \A g \in Hooks : g # h => hook'[g] = hook[g]
        /\ UNCHANGED <<parents, state, shared>>
    BY <1>0, <1>10 DEF Sessions!Spawn, SessionTypes
  <2>0. \A g \in Hooks : g # h => Waits(g)
    BY <1>b, <2>1 DEF Sessions!Working
  <2>2. PICK c \in Children :
          /\ child[c].pc = "none"
          /\ child' = [child EXCEPT ![c] = [pc |-> "starting", use |-> hook[h].use, mine |-> FALSE]]
          /\ hook' = [hook EXCEPT ![h].pc = "spawned", ![h].pid = c]
    BY <1>10 DEF Sessions!Spawn, Sessions!Unused
  <2>3. hook'[h].pc = "spawned" /\ hook'[h].pid = c /\ hook'[h].use = hook[h].use
    BY <1>0, <2>2 DEF SessionTypes, HookStates
  <2>4. /\ child'[c].use = hook[h].use /\ Sessions!Alive(c)'
        /\ \A d \in Children : d # c => child'[d] = child[d]
        /\ \A d \in Children : d # c => (Lone(d)' <=> Lone(d))
    BY <1>0, <1>a, <2>1, <2>2 DEF SessionTypes, Lone, Sessions!Alive, ParticipantOf
  <2>5. Cleared(h)
    BY <1>0
  <2>6. \A d \in Children : Lone(d) =>
          ParticipantOf(d) # hook[h].use.participant /\ ParentOf(d) # hook[h].use.parent
    BY <2>1, <2>5 DEF Cleared
  <2>7. AllOnRecord'
    BY <1>0, <2>0, <2>1, <2>3, <2>4 DEF AllOnRecord, ParticipantOf, Waits
  <2>8. Unrelated'
    BY <1>0, <2>4, <2>6 DEF Unrelated, ParticipantOf, ParentOf
  <2>9. Spawned(h)'
    BY <2>1, <2>3, <2>4, <2>5 DEF Cleared, Spawned, Sessions!NoState
  <2>10. \A g \in Hooks : (Cleared(g) /\ Spawned(g))' /\ hook'[g].pc # "done"
    BY <2>0, <2>1, <2>3, <2>9 DEF Cleared, Spawned, Waits
  <2>. QED
    BY <1>a, <2>3, <2>7, <2>8, <2>10 DEF Settled, Sessions!Working
<1>11. ASSUME NEW h \in Hooks, Sessions!RecordSpawned(h) PROVE Settled'
  <2>. DEFINE c == hook[h].pid
              p == hook[h].use.participant
  <2>1. /\ hook[h].pc = "spawned" /\ hook'[h].pc = "done" /\ hook'[h].use = hook[h].use
        /\ \A g \in Hooks : g # h => hook'[g] = hook[g]
        /\ UNCHANGED <<parents, child, shared>>
    BY <1>0, <1>11 DEF Sessions!RecordSpawned, SessionTypes, HookStates
  <2>0. \A g \in Hooks : g # h => Waits(g)
    BY <1>b, <2>1 DEF Sessions!Working
  <2>2. c \in Children /\ hook[h].use \in Uses /\ ParticipantOf(c) = p /\ p \in Sessions!Participants
    BY <1>0, <2>1 DEF SessionTypes, HookStates, Recorded, ParticipantOf, Sessions!Participants
  <2>3. /\ state'[p].pid = c /\ state'[p].use = hook[h].use
        /\ \A q \in Sessions!Participants : q # p => state'[q] = state[q]
    BY <1>0, <1>11, <2>2 DEF Sessions!RecordSpawned, SessionTypes
  <2>4. Spawned(h)
    BY <1>0
  <2>5. \A d \in Children : Lone(d)' <=> Lone(d)
    BY <2>1 DEF Lone, Sessions!Alive, ParticipantOf
  <2>6. \A d \in Children : Lone(d) =>
          ParticipantOf(d) \in Sessions!Participants /\ ParticipantOf(d) \notin shared
    BY <1>0 DEF Recorded, Lone, Sessions!Alive, ParticipantOf, Sessions!Participants
  <2>7. Unrelated'
    BY <1>0, <2>1, <2>5 DEF Unrelated, ParticipantOf, ParentOf
  <2>8. AllOnRecord'
    <3>. SUFFICES ASSUME NEW d \in Children, Lone(d) PROVE state'[ParticipantOf(d)].pid = d
      BY <2>1, <2>5 DEF AllOnRecord, ParticipantOf
    <3>1. state[ParticipantOf(d)].pid = d \/ d = c
      BY <1>0, <2>0 DEF AllOnRecord, Waits
    <3>. QED
      BY <1>a, <2>1, <2>2, <2>3, <2>4, <2>6, <3>1 DEF Spawned
  <2>9. Serves(hook[h].use)'
    BY <2>1, <2>3, <2>4 DEF Spawned, Serves, Sessions!Alive
  <2>10. \A g \in Hooks : (Cleared(g) /\ Spawned(g))' /\ (hook'[g].pc = "done" => g = h)
    BY <2>0, <2>1 DEF Cleared, Spawned, Waits
  <2>. QED
    BY <1>a, <2>1, <2>7, <2>8, <2>9, <2>10 DEF Settled, Sessions!Working
<1>12. ASSUME NEW h \in Hooks, Sessions!ReleaseLock(h) PROVE Settled'
  <2>1. /\ hook[h].pc = "done" /\ hook'[h].pc = "over" /\ last' = hook[h].use
        /\ \A g \in Hooks : g # h => hook'[g] = hook[g]
        /\ UNCHANGED <<parents, state, child, shared>>
    BY <1>0, <1>12
    DEF Sessions!ReleaseLock, Sessions!OverHook, Sessions!IdleHook, SessionTypes, HookStates
  <2>2. \A g \in Hooks : g # h => Waits(g)
    BY <1>b, <2>1 DEF Sessions!Working
  <2>. QED
    BY <1>0, <1>a, <2>1, <2>2, HookStepSettled DEF Cleared
<1>13. ASSUME NEW c \in Children, Sessions!Records(c) PROVE Settled'
  <2>. DEFINE q == ParticipantOf(c)
  <2>1. /\ Sessions!Alive(c) /\ UNCHANGED <<parents, hook, last, shared>>
        /\ child' = [child EXCEPT ![c].pc = "running"]
        /\ state' = [state EXCEPT ![q] = [pid |-> c, use |-> child[c].use]]
    BY <1>a, <1>13 DEF Sessions!Records, Sessions!Alive, ParticipantOf
  <2>2. /\ \A d \in Children : child'[d].use = child[d].use
        /\ \A d \in Children : Sessions!Alive(d)' <=> Sessions!Alive(d)
        /\ \A d \in Children : Lone(d)' <=> Lone(d)
    BY <1>0, <1>a, <2>1 DEF SessionTypes, Processes, Lone, Sessions!Alive, ParticipantOf
  <2>3. \A d \in Children : Sessions!Alive(d) => ParticipantOf(d) \in Sessions!Participants
    BY <1>0 DEF Recorded, Sessions!Alive, ParticipantOf, Sessions!Participants
  <2>4. /\ state'[q].pid = c /\ state'[q].use = child[c].use
        /\ \A p \in Sessions!Participants : p # q => state'[p] = state[p]
    BY <1>0, <2>1, <2>3 DEF SessionTypes
  <2>5. Unrelated' /\ (q \in shared \/ Lone(c))
    BY <1>0, <2>1, <2>2 DEF Unrelated, Lone, ParticipantOf, ParentOf
  <2>6. AllOnRecord'
    BY <1>0, <2>1, <2>2, <2>3, <2>4, <2>5 DEF AllOnRecord, Unrelated, Lone, ParticipantOf
  <2>7. ASSUME NEW h \in Hooks PROVE Cleared(h)' /\ Spawned(h)'
    <3>1. hook[h].pc \in {"pruning", "killing", "spawned"} =>
            hook[h].use.participant \in Sessions!Participants
      BY <1>0 DEF Recorded, Sessions!Participants
    <3>2. Cleared(h) /\ Spawned(h)
      BY <1>0
    <3>3. Cleared(h)'
      BY <2>1, <2>2, <2>4, <2>5, <3>1, <3>2 DEF Cleared, ParticipantOf, ParentOf
    <3>4. ASSUME hook[h].pc = "spawned", hook[h].use.participant = q, q \notin shared
          PROVE  c = hook[h].pid
      <4>1. \A g \in Hooks : hook[g].pc = "spawned" => g = h
        BY <1>b, <3>4 DEF Sessions!Working, Waits
      <4>2. state[q].pid = c \/ c = hook[h].pid
        BY <1>0, <2>5, <3>4, <4>1 DEF AllOnRecord
      <4>. QED
        BY <1>a, <3>2, <3>4, <4>2 DEF Spawned
    <3>5. hook[h].pc = "spawned" => hook[h].pid \in Children
      BY <1>0 DEF SessionTypes, HookStates, Recorded
    <3>6. Spawned(h)'
      BY <2>1, <2>2, <2>4, <3>1, <3>2, <3>4, <3>5 DEF Spawned
    <3>. QED
      BY <3>3, <3>6
  <2>8. ASSUME NEW use \in Uses, Serves(use) PROVE Serves(use)'
    <3>. SUFFICES ASSUME use.parent \in parents, use.participant \notin shared
                  PROVE  state'[use.participant].use = use
                         /\ Sessions!Alive(state[use.participant].pid)'
      BY <2>1 DEF Serves, Sessions!Alive
    <3>1. use.participant \in Sessions!Participants
      BY DEF Sessions!Participants
    <3>. DEFINE old == state[use.participant].pid
    <3>2. Sessions!Alive(old) /\ state[use.participant].use = use
      BY <2>8 DEF Serves
    <3>3. old \in Children /\ child[old].use = use
      BY <1>0, <3>1, <3>2 DEF SessionTypes, StateFiles, Recorded, Sessions!Alive
    <3>4. q = use.participant => old = c
      BY <1>0, <2>5, <3>2, <3>3 DEF Unrelated, Lone, ParticipantOf
    <3>5. state'[use.participant].use = use /\ state'[use.participant].pid = old
      BY <2>4, <3>1, <3>2, <3>3, <3>4
    <3>6. \A d \in Children : d = old => Sessions!Alive(d)'
      BY <2>2, <3>2, <3>3
    <3>. QED
      BY <3>3, <3>5, <3>6 DEF Sessions!Alive
  <2>9. /\ \A h \in Hooks : hook[h].pc = "done" => hook[h].use \in Uses
        /\ last # Sessions!NoUse => last \in Uses
    BY <1>0 DEF SessionTypes, Recorded
  <2>10. \A h \in Hooks : Sessions!Working(h)' <=> Sessions!Working(h)
    BY <2>1 DEF Sessions!Working
  <2>. QED
    BY <1>0, <1>a, <2>1, <2>5, <2>6, <2>7, <2>8, <2>9, <2>10 DEF Settled
<1>14. ASSUME NEW c \in Children, Sessions!Ends(c) PROVE Settled'
  <2>1. /\ \A d \in Children : child'[d].use = child[d].use
        /\ \A d \in Children : Sessions!Alive(d)' <=> Sessions!Alive(d)
        /\ UNCHANGED <<parents, state, hook, last, shared>>
    BY <1>0, <1>a, <1>14 DEF Sessions!Ends, SessionTypes, Processes, Sessions!Alive
  <2>2. \A d \in Children : Lone(d)' <=> Lone(d)
    BY <2>1 DEF Lone, ParticipantOf
  <2>3. AllOnRecord' /\ Unrelated'
    BY <1>0, <2>1, <2>2 DEF AllOnRecord, Unrelated, ParticipantOf, ParentOf
  <2>4. ASSUME NEW h \in Hooks PROVE Cleared(h)' /\ Spawned(h)'
    BY <1>0, <2>1, <2>2
    DEF SessionTypes, HookStates, Recorded, Cleared, Spawned, ParticipantOf, ParentOf
  <2>5. ASSUME NEW use \in Uses, Serves(use) PROVE Serves(use)'
    <3>1. use.participant \in Sessions!Participants
      BY DEF Sessions!Participants
    <3>2. use.participant \notin shared /\ use.parent \in parents =>
            state[use.participant].pid \in Children
      BY <1>0, <2>5, <3>1 DEF SessionTypes, StateFiles, Serves, Sessions!Alive
    <3>. QED
      BY <2>1, <2>5, <3>2 DEF Serves, Sessions!Alive
  <2>6. /\ \A h \in Hooks : hook[h].pc = "done" => hook[h].use \in Uses
        /\ last # Sessions!NoUse => last \in Uses
    BY <1>0 DEF SessionTypes, Recorded
  <2>7. \A h \in Hooks : Sessions!Working(h)' <=> Sessions!Working(h)
    BY <2>1 DEF Sessions!Working
  <2>. QED
    BY <1>0, <1>a, <2>1, <2>3, <2>4, <2>5, <2>6, <2>7 DEF Settled
<1>15. ASSUME NEW c \in Children, Sessions!RemovesState(c) PROVE Settled'
  <2>. DEFINE q == ParticipantOf(c)
  <2>1. /\ Sessions!Alive(c) /\ ParentOf(c) \notin parents
        /\ child' = Sessions!Killed(c) /\ UNCHANGED <<parents, hook, last, shared>>
        /\ state' = state \/ state' = [state EXCEPT ![q] = Sessions!NoState]
    BY <1>a, <1>15
    DEF Sessions!RemovesState, Sessions!Alive, Sessions!Killed, Orphaned, ParticipantOf
  <2>2. /\ \A d \in Children : child'[d].use = child[d].use
        /\ \A d \in Children : Sessions!Alive(d)' <=> Sessions!Alive(d) /\ d # c
        /\ \A d \in Children : Lone(d)' <=> Lone(d) /\ d # c
    BY <1>0, <2>1, KilledEffect DEF Lone, ParticipantOf
  <2>3. \A d \in Children : Sessions!Alive(d) => ParticipantOf(d) \in Sessions!Participants
    BY <1>0 DEF Recorded, Sessions!Alive, ParticipantOf, Sessions!Participants
  <2>4. \A p \in Sessions!Participants :
          state'[p] = state[p] \/ (p = q /\ state'[p] = Sessions!NoState)
    BY <1>0, <2>1 DEF SessionTypes
  <2>5. Unrelated' /\ (q \in shared \/ Lone(c))
    BY <1>0, <2>1, <2>2 DEF Unrelated, Lone, ParticipantOf, ParentOf
  <2>6. AllOnRecord'
    BY <1>0, <2>1, <2>2, <2>3, <2>4, <2>5 DEF AllOnRecord, Unrelated, Lone, ParticipantOf
  <2>7. ASSUME NEW h \in Hooks PROVE Cleared(h)' /\ Spawned(h)'
    <3>1. hook[h].pc \in {"pruning", "killing", "spawned"} =>
            hook[h].use.participant \in Sessions!Participants
      BY <1>0 DEF Recorded, Sessions!Participants
    <3>2. Cleared(h) /\ Spawned(h)
      BY <1>0
    <3>3. hook[h].pc \in {"killing", "spawned"} => hook[h].pid \in Children
      BY <1>0 DEF SessionTypes, HookStates, Recorded
    <3>4. Cleared(h)'
      BY <2>1, <2>2, <2>4, <3>1, <3>2, <3>3 DEF Cleared, ParticipantOf, ParentOf
    <3>5. hook[h].pc = "spawned" => ParentOf(hook[h].pid) = hook[h].use.parent
      BY <1>0 DEF Recorded, ParentOf
    <3>6. Spawned(h)'
      BY <2>1, <2>2, <2>4, <3>1, <3>2, <3>3, <3>5 DEF Spawned, Sessions!NoState
    <3>. QED
      BY <3>4, <3>6
  <2>8. ASSUME NEW use \in Uses, Serves(use) PROVE Serves(use)'
    <3>. SUFFICES ASSUME use.parent \in parents, use.participant \notin shared
                  PROVE  state'[use.participant].use = use
                         /\ Sessions!Alive(state[use.participant].pid)'
      BY <2>1 DEF Serves, Sessions!Alive
    <3>1. use.participant \in Sessions!Participants
      BY DEF Sessions!Participants
    <3>. DEFINE old == state[use.participant].pid
    <3>2. Sessions!Alive(old) /\ state[use.participant].use = use
      BY <2>8 DEF Serves
    <3>3. old \in Children /\ child[old].use = use
      BY <1>0, <3>1, <3>2 DEF SessionTypes, StateFiles, Recorded, Sessions!Alive
    <3>4. old # c /\ use.participant # q
      BY <1>0, <2>1, <2>5, <3>2, <3>3 DEF Unrelated, Lone, ParticipantOf, ParentOf
    <3>5. state'[use.participant] = state[use.participant]
      BY <2>4, <3>1, <3>4
    <3>6. \A d \in Children : d = old => Sessions!Alive(d)'
      BY <2>2, <3>2, <3>3, <3>4
    <3>. QED
      BY <3>2, <3>3, <3>5, <3>6 DEF Sessions!Alive
  <2>9. /\ \A h \in Hooks : hook[h].pc = "done" => hook[h].use \in Uses
        /\ last # Sessions!NoUse => last \in Uses
    BY <1>0 DEF SessionTypes, Recorded
  <2>10. \A h \in Hooks : Sessions!Working(h)' <=> Sessions!Working(h)
    BY <2>1 DEF Sessions!Working
  <2>. QED
    BY <1>0, <1>a, <2>1, <2>5, <2>6, <2>7, <2>8, <2>9, <2>10 DEF Settled
<1>16. ASSUME NEW c \in Children, Sessions!Dies(c) PROVE Settled'
  <2>1. /\ \A h \in Hooks : ~Sessions!Runs(h)
        /\ Sessions!Alive(c) /\ UNCHANGED <<parents, state, hook, shared>>
        /\ last' = Sessions!NoUse \/ (last' = last /\ child[c].use # last)
    BY <1>16 DEF Sessions!Dies
  <2>0. \A h \in Hooks : hook[h].pc \in {"idle", "over"} /\ ~Sessions!Working(h)
    BY <2>1 DEF Sessions!Runs, Sessions!Working
  <2>2. child' = Sessions!Killed(c)
    BY <1>16 DEF Sessions!Dies, Sessions!Killed
  <2>3. /\ \A d \in Children : child'[d].use = child[d].use
        /\ \A d \in Children : Sessions!Alive(d)' <=> Sessions!Alive(d) /\ d # c
        /\ \A d \in Children : Lone(d)' <=> Lone(d) /\ d # c
    BY <1>0, <2>1, <2>2, KilledEffect DEF Lone, ParticipantOf
  <2>4. AllOnRecord' /\ Unrelated'
    BY <1>0, <2>1, <2>3 DEF AllOnRecord, Unrelated, ParticipantOf, ParentOf
  <2>5. ASSUME last' # Sessions!NoUse PROVE Serves(last)'
    <3>1. last' = last /\ last \in Uses /\ Serves(last) /\ child[c].use # last
      BY <1>0, <2>0, <2>1, <2>5 DEF SessionTypes
    <3>. SUFFICES ASSUME last.parent \in parents, last.participant \notin shared
                  PROVE  state[last.participant].use = last
                         /\ Sessions!Alive(state[last.participant].pid)'
      BY <2>1, <3>1 DEF Serves, Sessions!Alive
    <3>2. last.participant \in Sessions!Participants
      BY <3>1 DEF Sessions!Participants
    <3>. DEFINE old == state[last.participant].pid
    <3>3. Sessions!Alive(old) /\ state[last.participant].use = last
      BY <3>1 DEF Serves
    <3>4. old \in Children /\ child[old].use = last
      BY <1>0, <3>2, <3>3 DEF SessionTypes, StateFiles, Recorded, Sessions!Alive
    <3>5. \A d \in Children : d = old => Sessions!Alive(d)'
      BY <2>3, <3>1, <3>3, <3>4
    <3>. QED
      BY <2>1, <3>1, <3>3, <3>4, <3>5 DEF Sessions!Alive
  <2>. QED
    BY <1>a, <2>0, <2>1, <2>4, <2>5 DEF Settled, Cleared, Spawned
<1>17. ASSUME NEW x \in parents, Sessions!ParentExits(x) PROVE Settled'
  <2>1. parents' \subseteq parents /\ UNCHANGED <<state, child, hook, last, shared>>
    BY <1>17 DEF Sessions!ParentExits
  <2>2. AllOnRecord' /\ Unrelated'
    BY <1>0, <2>1 DEF AllOnRecord, Unrelated, Lone, Sessions!Alive, ParticipantOf, ParentOf
  <2>3. ASSUME NEW h \in Hooks PROVE Cleared(h)' /\ Spawned(h)'
    BY <1>0, <2>1 DEF Cleared, Spawned, Lone, Sessions!Alive, ParticipantOf, ParentOf
  <2>4. \A use : Serves(use) => Serves(use)'
    BY <2>1 DEF Serves, Sessions!Alive
  <2>5. \A h \in Hooks : Sessions!Working(h)' <=> Sessions!Working(h)
    BY <2>1 DEF Sessions!Working
  <2>. QED
    BY <1>0, <1>a, <2>1, <2>2, <2>3, <2>4, <2>5 DEF Settled
<1>. QED
  BY <1>1, <1>2, <1>3, <1>4, <1>5, <1>6, <1>7, <1>8, <1>9, <1>10, <1>11, <1>12, <1>13, <1>14,
    <1>15, <1>16, <1>17 DEF Sessions!Next

-----------------------------------------------------------------------------
\* The file of a participant names a process that was started for it, and for the session
\* and parent that the file says.
THEOREM SessionsTyped == Sessions!Spec => []SessionInv
<1>1. Sessions!Init => SessionInv
  BY SessionInit
<1>2. SessionInv /\ [Sessions!Next]_(Sessions!vars) => SessionInv'
  BY SessionInvStep
<1>. QED
  BY <1>1, <1>2, PTL DEF Sessions!Spec

\* One hook at a time starts a process for a participant, whichever hooks are killed and
\* leave stale locks behind, but for the race of a lock made while another hook is to remove
\* a stale one: what a lock file says is the hook that works.
THEOREM OneHookStarts == Sessions!Spec => []OneStarter
<1>1. Sessions!Init => SessionInv /\ Exclusive
  BY SessionInit
<1>2. SessionInv /\ Exclusive /\ [Sessions!Next]_(Sessions!vars) => (SessionInv /\ Exclusive)'
  BY SessionInvStep, ExclusiveStep
<1>3. SessionInv /\ Exclusive => OneStarter
  BY DEF Exclusive, OneStarter, Sessions!OneStarter
<1>. QED
  BY <1>1, <1>2, <1>3, PTL DEF Sessions!Spec

LEMMA SettledInit == Sessions!Init => Orphaned /\ Settled
BY SessionsConstants
DEF Sessions!Init, Sessions!IdleHook, Sessions!NoState, Sessions!Alive, Sessions!Runs,
  Sessions!Working, Orphaned, Settled, OneAtATime, Lone, AllOnRecord, Unrelated, Cleared, Spawned

\* When hooks of different participants run one after the other, the last that succeeds
\* leaves one process for its participant and for its parent, its own, on record, whatever
\* other hooks of the participant run meanwhile; processes that end or die do not disturb
\* that.  Sessions may share a participant: those that a hook has met doing so are left aside.
THEOREM HooksLeaveOne == Sessions!Spec => []EnsuredOnce
<1>. DEFINE Inv == SessionInv /\ Orphaned /\ Settled
<1>1. Sessions!Init => Inv
  BY SessionInit, SettledInit
<1>2. Inv /\ [Sessions!Next]_(Sessions!vars) => Inv'
  <2>. SUFFICES ASSUME Inv, [Sessions!Next]_(Sessions!vars) PROVE Inv'
    OBVIOUS
  <2>1. CASE Sessions!Next
    BY <2>1, SessionInvStep, OrphanedStep, SettledStep
  <2>2. CASE UNCHANGED Sessions!vars
    <3>1. OneAtATime' = OneAtATime /\ AllOnRecord' = AllOnRecord /\ Unrelated' = Unrelated
      BY <2>2
      DEF Sessions!vars, OneAtATime, AllOnRecord, Unrelated, Lone, Sessions!Alive,
        Sessions!Runs, Sessions!Working, ParticipantOf, ParentOf
    <3>2. ASSUME NEW h \in Hooks PROVE (Cleared(h) => Cleared(h)') /\ (Spawned(h) => Spawned(h)')
      BY <2>2 DEF Sessions!vars, Cleared, Spawned, Lone, Sessions!Alive, ParticipantOf, ParentOf
    <3>3. /\ hook' = hook /\ last' = last
          /\ Serves(last)' = Serves(last) /\ \A h \in Hooks : Serves(hook[h].use)' = Serves(hook[h].use)
          /\ \A h \in Hooks : Sessions!Working(h)' = Sessions!Working(h)
      BY <2>2 DEF Sessions!vars, Serves, Sessions!Alive, Sessions!Working
    <3>4. Settled'
      BY <3>1, <3>2, <3>3 DEF Settled
    <3>. QED
      BY <2>2, <3>4, SessionInvStep, OrphanedStep
  <2>. QED
    BY <2>1, <2>2
<1>3. Inv => EnsuredOnce
  <2>. SUFFICES ASSUME Inv, last \notin {Sessions!NoUse, Sessions!Overlap}, last.parent \in parents,
                       last.participant \notin shared, \A h \in Hooks : ~Sessions!Runs(h)
                PROVE  /\ {c \in Children :
                            /\ Sessions!Alive(c) /\ child[c].use.participant \notin shared
                            /\ \/ child[c].use.participant = last.participant
                               \/ child[c].use.parent = last.parent} = {state[last.participant].pid}
                       /\ state[last.participant].use = last
    BY DEF EnsuredOnce, Sessions!EnsuredOnce
  <2>1. last \in Uses /\ last.participant \in Sessions!Participants
    BY DEF SessionInv, SessionTypes, Sessions!Participants
  <2>. DEFINE one == state[last.participant].pid
  <2>2. \A h \in Hooks : ~Sessions!Working(h)
    BY DEF Sessions!Runs, Sessions!Working
  <2>3. Sessions!Alive(one) /\ state[last.participant].use = last
    BY <2>2 DEF Settled, Serves
  <2>4. one \in Children /\ child[one].use = last
    BY <2>1, <2>3 DEF SessionInv, SessionTypes, StateFiles, Recorded, Sessions!Alive
  <2>5. Unrelated
    BY DEF Settled
  <2>. QED
    BY <2>3, <2>4, <2>5 DEF Unrelated, Lone, ParticipantOf, ParentOf
<1>. QED
  BY <1>1, <1>2, <1>3, PTL DEF Sessions!Spec

\* Both in the one model that is run.
THEOREM ProcessesTyped == ProcessesSpec => []TypesOK
<1>. DEFINE Inv == BrokerInv /\ SessionInv
<1>1. ProcessesInit => Inv
  BY BrokerInit, SessionInit DEF ProcessesInit
<1>2. Inv /\ [BrokerStep \/ SessionStep]_<<vars, sessionVars, part>> => Inv'
  <2>. SUFFICES ASSUME Inv, [BrokerStep \/ SessionStep]_<<vars, sessionVars, part>> PROVE Inv'
    OBVIOUS
  <2>1. [Next]_vars /\ [Sessions!Next]_(Sessions!vars)
    BY DEF BrokerStep, SessionStep, sessionVars, Sessions!vars
  <2>. QED
    BY <2>1, BrokerInvStep, SessionInvStep
<1>3. Inv => TypesOK
  <2>1. BrokerInv => TypeOK
    BY BrokerInvTypes
  <2>2. SessionInv => Sessions!TypeOK
    BY DEF SessionInv, SessionTypes, HookStates, AnyUse, Recorded, Sessions!TypeOK
  <2>. QED
    BY <2>1, <2>2 DEF TypesOK
<1>. QED
  BY <1>1, <1>2, <1>3, PTL DEF ProcessesSpec
====

---------------------------- MODULE BrokerControl ----------------------------
(***************************************************************************)
(* The life of broker processes, and of the heartbeat file by which they   *)
(* and the control script know of each other: src/cli.js and               *)
(* start-broker-app.js start, serve and shut down; broker-control.js stops *)
(* and restarts; broker-runtime-state.js reads and writes the file.        *)
(*                                                                         *)
(* Only one process can listen, and processes are found by the port.  The  *)
(* file is written with nothing but a test of who owns it: the test with   *)
(* the truncation of the file is one step, the writing another.  The local *)
(* socket, which is opened and removed while the port is held, is left     *)
(* out, as are queries of the system that fail.  Pids are not used again;  *)
(* they, and commands, are numbered in the order in which they start.      *)
(***************************************************************************)
EXTENDS Naturals

CONSTANTS
  Pids,       \* bound: broker processes that are started
  Commands,   \* bound: runs of the control script
  MaxKills    \* bound: processes killed from outside

ASSUME PidsArePids == Pids \union Commands \subseteq Nat \ {0} /\ Commands \cap Pids = {}

VARIABLES
  broker,     \* where each process is, and whether a SIGTERM or SIGINT waits for it
  file,       \* the heartbeat: [pid, status]
  save,       \* the write of the heartbeat that each process is in
  command,    \* where each command is, and the process it is about
  ready,      \* history: the processes that a restart has reported ready
  kills

vars == <<broker, file, save, command, ready, kills>>

Missing == [pid |-> 0, status |-> "none"]
NoSave == Missing
Idle == [pc |-> "idle", pid |-> 0, restarts |-> FALSE]
Over == [Idle EXCEPT !.pc = "over"]

Init ==
  /\ broker = [b \in Pids |-> [pc |-> "none", signalled |-> FALSE]]
  /\ file = Missing
  /\ save = [w \in Pids \union Commands |-> NoSave]
  /\ command = [k \in Commands |-> Idle]
  /\ ready = {} /\ kills = 0

Alive(b) == broker[b].pc \notin {"none", "dead"}
Listening(b) == broker[b].pc \in {"opening", "running", "closing"}
Terminal(heartbeat) == heartbeat.status = "ended"
To(b, pc) == [broker EXCEPT ![b].pc = pc]
Free(w) == save[w] = NoSave

\* the file is truncated; its content follows
Saving(w, b, status) ==
  /\ file' = Missing
  /\ save' = [save EXCEPT ![w] = [pid |-> b, status |-> status]]

-----------------------------------------------------------------------------
(* saveBrokerHeartbeat, by a broker or by a command.                       *)

\* what a broker may overwrite; one that ends makes no claim
OwnedUnlessMissing(b, claim) == file.pid = b \/ (claim /\ file = Missing)
Owned(b, claim) == file.pid = b \/ (claim /\ (file = Missing \/ Terminal(file)))

\* A broker with a terminal status exits.
Continues(b, status) ==
  broker' = CASE status = "starting" -> To(b, "booting")
              [] status = "running" -> To(b, "running")
              [] OTHER -> [broker EXCEPT ![b] = [pc |-> "dead", signalled |-> FALSE]]

\* the test of ownership, and what follows if it fails
Persists(b, status) ==
  /\ Free(b)
  /\ IF Owned(b, status # "ended")
       THEN Saving(b, b, status) /\ UNCHANGED broker
       ELSE Continues(b, status) /\ UNCHANGED <<file, save>>
  /\ UNCHANGED <<command, ready, kills>>

\* a command goes on to start a broker, or ends
Goes(k) ==
  command' = [command EXCEPT ![k] =
    IF ~@.restarts THEN Over
    ELSE [@ EXCEPT !.pc = IF @ = "marking" THEN "spawning" ELSE "stale", !.pid = 0]]

Writes(w) ==
  /\ ~Free(w) /\ file' = save[w]
  /\ save' = [save EXCEPT ![w] = NoSave]
  /\ IF w \in Pids THEN Continues(w, save[w].status) /\ UNCHANGED command
     ELSE Goes(w) /\ UNCHANGED broker
  /\ UNCHANGED <<ready, kills>>

-----------------------------------------------------------------------------
(* A broker.                                                               *)

\* by hand (npm start)
Launch(b) ==
  /\ broker[b].pc = "none" /\ \A c \in Pids : c < b => broker[c].pc # "none"
  /\ broker' = To(b, "spawned")
  /\ UNCHANGED <<file, save, command, ready, kills>>

\* the first heartbeat
Begins(b) == broker[b].pc = "spawned" /\ Persists(b, "starting")

Listens(b) ==
  /\ broker[b].pc = "booting" /\ Free(b) /\ ~\E c \in Pids : Listening(c)
  /\ broker' = To(b, "opening")
  /\ UNCHANGED <<file, save, command, ready, kills>>

\* The port is taken: an error event that nobody handles.
PortIsTaken(b) ==
  broker[b].pc = "booting" /\ (\E c \in Pids : Listening(c)) /\ Persists(b, "ended")

\* sessions are refreshed and channels started
Opens(b) == broker[b].pc = "opening" /\ Persists(b, "running")

\* A channel does not start: the server is closed before the error is passed on.
ChannelFails(b) ==
  /\ broker[b].pc = "opening" /\ Free(b)
  /\ broker' = To(b, "draining")
  /\ UNCHANGED <<file, save, command, ready, kills>>

\* every five seconds
Beats(b) == broker[b].pc = "running" /\ Persists(b, "running")

\* SIGTERM or SIGINT: there is nothing to close before the application has started
HandlesSignal(b) ==
  /\ broker[b].signalled
  /\ IF broker[b].pc = "running"
       THEN /\ Free(b) /\ broker' = [broker EXCEPT ![b] = [pc |-> "closing", signalled |-> FALSE]]
            /\ UNCHANGED <<file, save, command, ready, kills>>
       ELSE Persists(b, "ended")

\* relay, channels, broker and local socket are closed; then the port
ClosesServer(b) ==
  /\ broker[b].pc = "closing" /\ Free(b)
  /\ broker' = To(b, "draining")
  /\ UNCHANGED <<file, save, command, ready, kills>>

\* the last connection has ended
Drained(b) == broker[b].pc = "draining" /\ Persists(b, "ended")

\* an exception or a rejection that nobody handles
Fails(b) ==
  /\ broker[b].pc \in {"booting", "opening", "running", "closing", "draining"}
  /\ Persists(b, "ended")

\* a process without handlers yet ends; one that is shutting down ignores the signal
IsSignalled(b) ==
  broker' = IF broker[b].pc = "spawned" /\ Free(b) THEN To(b, "dead")
            ELSE [broker EXCEPT ![b].signalled = broker[b].pc \notin {"closing", "draining"}]
IsKilled(b) ==
  /\ broker' = [broker EXCEPT ![b] = [pc |-> "dead", signalled |-> FALSE]]
  /\ save' = [save EXCEPT ![b] = NoSave]

\* by hand
Interrupt(b) ==
  /\ Alive(b) /\ IsSignalled(b)
  /\ UNCHANGED <<file, save, command, ready, kills>>

KilledOutside(b) ==
  /\ Alive(b) /\ kills < MaxKills /\ kills' = kills + 1
  /\ IsKilled(b)
  /\ UNCHANGED <<file, command, ready>>

-----------------------------------------------------------------------------
(* A command: stopBroker, and for a restart startBroker and the wait for   *)
(* the new process.                                                        *)

Go(k, pc) == command' = [command EXCEPT ![k].pc = pc]
AfterStop(k, restarts) ==
  command' = [command EXCEPT ![k] = IF restarts THEN [Idle EXCEPT !.pc = "stale", !.restarts = TRUE] ELSE Over]

\* findBrokerProcesses: a process that does not listen yet, or no more, is not found
Run(k, restarts) ==
  /\ command[k].pc = "idle" /\ \A j \in Commands : j < k => command[j].pc # "idle"
  /\ IF \E b \in Pids : Listening(b)
       THEN \E b \in Pids :
              /\ Listening(b)
              /\ command' = [command EXCEPT ![k] = [pc |-> "terminating", pid |-> b, restarts |-> restarts]]
       ELSE AfterStop(k, restarts)
  /\ UNCHANGED <<broker, file, save, ready, kills>>

\* A process that has exited since it was found cannot be signalled, and the command fails.
Terminates(k) ==
  /\ command[k].pc = "terminating"
  /\ IF Alive(command[k].pid)
       THEN IsSignalled(command[k].pid) /\ Go(k, "waiting")
       ELSE command' = [command EXCEPT ![k] = Over] /\ UNCHANGED broker
  /\ UNCHANGED <<file, save, ready, kills>>

\* after three seconds
Kills(k) ==
  /\ command[k].pc = "waiting" /\ Alive(command[k].pid)
  /\ IsKilled(command[k].pid)
  /\ UNCHANGED <<file, command, ready, kills>>

\* the exit has been seen
MarksStopped(k) ==
  /\ command[k].pc = "waiting" /\ ~Alive(command[k].pid) /\ Free(k)
  /\ IF file.pid = command[k].pid /\ ~Terminal(file)
       THEN Saving(k, file.pid, "ended") /\ UNCHANGED command
       ELSE AfterStop(k, command[k].restarts) /\ UNCHANGED <<file, save>>
  /\ UNCHANGED <<broker, ready, kills>>

MarksStale(k) ==
  /\ command[k].pc = "stale"
  /\ IF file # Missing /\ ~Terminal(file) /\ ~Alive(file.pid)
       THEN Saving(k, file.pid, "ended") /\ Go(k, "marking")
       ELSE Go(k, "spawning") /\ UNCHANGED <<file, save>>
  /\ UNCHANGED <<broker, ready, kills>>

Spawns(k) ==
  /\ command[k].pc = "spawning"
  /\ \E b \in Pids :
       /\ broker[b].pc = "none" /\ \A c \in Pids : c < b => broker[c].pc # "none"
       /\ broker' = To(b, "spawned")
       /\ command' = [command EXCEPT ![k].pc = "starting", ![k].pid = b]
  /\ UNCHANGED <<file, save, ready, kills>>

SaysRunning(k) == file.status = "running"
SaysItRuns(k) == file = [pid |-> command[k].pid, status |-> "running"]

\* the heartbeat is read while the request for health is under way
Probes(k) ==
  /\ command[k].pc = "starting" /\ Alive(command[k].pid) /\ SaysItRuns(k)
  /\ Go(k, "probing")
  /\ UNCHANGED <<broker, file, save, ready, kills>>

\* whoever listens answers
Answered(k) ==
  /\ command[k].pc = "probing"
  /\ IF \E b \in Pids : Listening(b)
       THEN ready' = ready \union {command[k].pid} /\ command' = [command EXCEPT ![k] = Over]
       ELSE Go(k, "starting") /\ UNCHANGED ready
  /\ UNCHANGED <<broker, file, save, kills>>

\* the process has died, or time is up: the restart reports that it is not ready
NotReady(k) ==
  /\ command[k].pc \in {"starting", "probing"}
  /\ command' = [command EXCEPT ![k] = Over]
  /\ UNCHANGED <<broker, file, save, ready, kills>>

CommandKilled(k) ==
  /\ command[k].pc \notin {"idle", "over"} /\ kills < MaxKills /\ kills' = kills + 1
  /\ command' = [command EXCEPT ![k] = Over] /\ save' = [save EXCEPT ![k] = NoSave]
  /\ UNCHANGED <<broker, file, ready>>

-----------------------------------------------------------------------------
Proceeds(b) ==
  Begins(b) \/ Listens(b) \/ PortIsTaken(b) \/ Opens(b) \/ ClosesServer(b) \/ Drained(b)
CommandSteps(k) ==
  \/ Terminates(k) \/ Kills(k) \/ MarksStopped(k) \/ MarksStale(k)
  \/ Spawns(k) \/ Probes(k) \/ Answered(k) \/ NotReady(k)

Next ==
  \/ \E w \in Pids \union Commands : Writes(w)
  \/ \E b \in Pids :
       \/ Launch(b) \/ Proceeds(b) \/ Beats(b) \/ HandlesSignal(b) \/ ChannelFails(b) \/ Fails(b)
       \/ Interrupt(b) \/ KilledOutside(b)
  \/ \E k \in Commands : (\E r \in BOOLEAN : Run(k, r)) \/ CommandSteps(k) \/ CommandKilled(k)

Spec == Init /\ [][Next]_vars

\* A process that is not killed goes on: timers fire, calls and connections end.  Of the
\* actions under one WF at most one is enabled at a time, so that none is passed over.
Fairness ==
  /\ \A b \in Pids : WF_vars(Writes(b) \/ Proceeds(b) \/ Beats(b)) /\ WF_vars(HandlesSignal(b))
  /\ \A k \in Commands : WF_vars(Writes(k) \/ CommandSteps(k))

LiveSpec == Spec /\ Fairness

-----------------------------------------------------------------------------
(* Properties.                                                             *)

\* The heartbeat names a process that was started.
TypeOK ==
  /\ \A b \in Pids : broker[b].pc \in {"none", "spawned", "booting", "opening", "running",
                                       "closing", "draining", "dead"}
  /\ file = Missing \/ (/\ file.pid \in Pids /\ broker[file.pid].pc # "none"
                        /\ file.status \in {"starting", "running", "ended"})
  /\ \A b, c \in Pids : Listening(b) /\ Listening(c) => b = c

\* "broker:restart reports ready only if /health succeeds and the heartbeat is running"
\* (adapters/yunzhijia/README.md:81): what it reports ready is the process that it has
\* started, and that one serves, or has served and was ended since.
ReadyServes ==
  \A b \in ready : broker[b].pc \in {"running", "closing", "draining", "dead"}

\* Again and again, the heartbeat names a broker that serves, if there is one: however the
\* writes of processes that end in between cross.  The exception is the heartbeat of a
\* process that was killed before it could say that it ended, as long as no restart looks at
\* it.
HeartbeatSettles ==
  []<>(\/ \A b \in Pids : broker[b].pc # "running"
       \/ \E b \in Pids : broker[b].pc = "running" /\ file = [pid |-> b, status |-> "running"]
       \/ kills > 0 /\ file # Missing /\ ~Terminal(file) /\ ~Alive(file.pid))
=============================================================================

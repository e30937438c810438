----------------------------- MODULE Yunzhijia -----------------------------
(***************************************************************************)
(* The adapter of the Yunzhijia chat (adapters/yunzhijia/index.js): it     *)
(* keeps a socket to the broker, one to the chat and one to the broker for *)
(* every user of the chat that has written, opens each again after it has  *)
(* closed, posts the users' messages as intents and shows the events of    *)
(* the broker in the chat.  Nothing waits for a handler, so a call that    *)
(* fails in one is a rejection that nobody handles, which ends the         *)
(* process, the broker's when the channel is managed (cli.js).             *)
(*                                                                         *)
(* Left out: the text of messages, the token's cache, the place in the     *)
(* chat that an answer goes to, and away mode, which narrows the events    *)
(* that are shown.                                                         *)
(***************************************************************************)
EXTENDS Naturals, Sequences

CONSTANTS
  Users,        \* users of the chat
  Handlers,     \* bound: messages and events that are handled at a time
  MaxFailures   \* bound: sockets that close and calls that fail

Links == {"broker", "chat"} \union Users

VARIABLES
  phase,    \* start() and stop(), or the end of the process
  link,     \* per socket: its state, its reconnect timer, and a call that precedes it
  mapped,   \* userMapping: users that have written
  handler,  \* the user and the calls that are left to each handler
  failures

vars == <<phase, link, mapped, handler, failures>>

NoLink == [socket |-> "none", timer |-> FALSE, calling |-> FALSE]
IdleHandler == [user |-> "none", todo |-> <<>>]

Init ==
  /\ phase = "down"
  /\ link = [l \in Links |-> NoLink]
  /\ mapped = {}
  /\ handler = [h \in Handlers |-> IdleHandler]
  /\ failures = 0

Fails == failures < MaxFailures /\ failures' = failures + 1
Works == UNCHANGED failures
Stopped == phase = "stopped"
Runs == phase \notin {"down", "crashed"}

-----------------------------------------------------------------------------
(* start()                                                                 *)

Start ==
  /\ phase = "down" /\ phase' = "registering"
  /\ UNCHANGED <<link, mapped, handler, failures>>

Registered ==
  /\ phase = "registering"
  /\ \/ Works /\ phase' = "syncing"
     \/ Fails /\ phase' = "failed"
  /\ UNCHANGED <<link, mapped, handler>>

\* away mode is read or not; the broker's socket is opened, then the chat's token asked for
AwayModeSynced ==
  /\ phase = "syncing" /\ phase' = "connecting"
  /\ Works \/ Fails
  /\ link' = [link EXCEPT !["broker"].socket = "connecting", !["chat"].calling = TRUE]
  /\ UNCHANGED <<mapped, handler>>

-----------------------------------------------------------------------------
(* The sockets.                                                            *)

Unscheduled(l) == [link[l] EXCEPT !.calling = FALSE]
Scheduled(l) == [link[l] EXCEPT !.calling = FALSE, !.timer = ~Stopped]

ConnectedAnyway(l) ==
  [link[l] EXCEPT !.calling = FALSE, !.socket = IF @ # "none" THEN @ ELSE "connecting"]

\* connectBrokerWebSocket, connectUserWebSocket
Connected(l) ==
  [link[l] EXCEPT !.calling = FALSE,
                  !.socket = IF Stopped \/ @ # "none" THEN @ ELSE "connecting"]

\* connectYunzhijiaWebSocket, which tests stopped before it waits for the token
ChatUrlDerived ==
  /\ Runs /\ link["chat"].calling
  /\ \/ /\ Works /\ link' = [link EXCEPT !["chat"] = ConnectedAnyway("chat")]
        /\ phase' = IF phase = "connecting" THEN "ready" ELSE phase
     \/ /\ Fails /\ phase = "connecting" /\ phase' = "failed"
        /\ link' = [link EXCEPT !["chat"].calling = FALSE]
     \/ /\ Fails /\ phase # "connecting" /\ UNCHANGED phase
        /\ link' = [link EXCEPT !["chat"] = Scheduled("chat")]
  /\ UNCHANGED <<mapped, handler>>

BrokerReregistered ==
  /\ Runs /\ link["broker"].calling
  /\ \/ Works /\ link' = [link EXCEPT !["broker"] = Connected("broker")]
     \/ Fails /\ link' = [link EXCEPT !["broker"] = Scheduled("broker")]
  /\ UNCHANGED <<phase, mapped, handler>>

Opens(l) ==
  /\ Runs /\ link[l].socket = "connecting"
  /\ link' = [link EXCEPT ![l].socket = "open", ![l].timer = FALSE]
  /\ UNCHANGED <<phase, mapped, handler, failures>>

Closes(l) ==
  /\ Runs
  /\ \/ Works /\ link[l].socket = "closing"
     \/ Fails /\ link[l].socket \in {"connecting", "open"}
  /\ link' = [link EXCEPT ![l] = [Scheduled(l) EXCEPT !.socket = "none"]]
  /\ UNCHANGED <<phase, mapped, handler>>

\* a user's socket is opened at once; the others wait for a registration or a token
Reconnecting(l) == IF l \in Users THEN Connected(l) ELSE [link[l] EXCEPT !.calling = TRUE]
Fired(l) == [Reconnecting(l) EXCEPT !.timer = FALSE]

TimerFires(l) ==
  /\ Runs /\ link[l].timer
  /\ link' = [link EXCEPT ![l] = Fired(l)]
  /\ UNCHANGED <<phase, mapped, handler, failures>>

\* only an adapter that has started is stopped; its handlers and calls go on
Stop ==
  /\ phase = "ready" /\ phase' = "stopped"
  /\ link' = [l \in Links |->
       [link[l] EXCEPT !.timer = FALSE, !.socket = IF @ = "none" THEN @ ELSE "closing"]]
  /\ UNCHANGED <<mapped, handler, failures>>

-----------------------------------------------------------------------------
(* The handlers.                                                           *)

\* the calls that a message leads to
Calls ==
  [away    |-> <<"setAwayMode", "show">>,
   list    |-> <<"list", "show">>,
   alias   |-> <<"resolveAlias", "rename", "show">>,
   mention |-> <<"resolve", "post", "presence", "show">>,
   plain   |-> <<"post">>]

\* the user counts as registered before it is
Received(h, u, kind) ==
  /\ Runs /\ link["chat"].socket = "open" /\ handler[h] = IdleHandler
  /\ handler' = [handler EXCEPT ![h] =
       [user |-> u, todo |-> IF u \in mapped THEN Calls[kind] ELSE <<"register">> \o Calls[kind]]]
  /\ mapped' = mapped \union {u}
  /\ UNCHANGED <<phase, link, failures>>

\* an event reaches the adapter or a user; the name of its sender may have to be looked up
Notified(h, l) ==
  /\ Runs /\ l # "chat" /\ link[l].socket = "open" /\ handler[h] = IdleHandler
  /\ \E u \in (IF l = "broker" THEN mapped ELSE {l}), calls \in {<<"label", "show">>, <<"show">>} :
       handler' = [handler EXCEPT ![h] = [user |-> u, todo |-> calls]]
  /\ UNCHANGED <<phase, link, mapped, failures>>

Left(h, todo) == handler' = [handler EXCEPT ![h] =
  IF todo = <<>> THEN IdleHandler ELSE [@ EXCEPT !.todo = todo]]

\* An alias that nobody has is answered at once, or not at all when a mention has no
\* recipients; nothing is said of an intent that is refused or has nobody to hint at.
Shortcuts(call) ==
  CASE call = "resolveAlias" -> {<<"show">>}
    [] call = "resolve" -> {<<"show">>, <<>>}
    [] call \in {"post", "presence"} -> {<<>>}
    [] OTHER -> {}

CallReturns(h) ==
  LET todo == handler[h].todo IN
  /\ Runs /\ todo # <<>> /\ Works
  /\ \E rest \in {Tail(todo)} \union Shortcuts(Head(todo)) : Left(h, rest)
  /\ link' = IF Head(todo) = "register"
               THEN [link EXCEPT ![handler[h].user] = Connected(handler[h].user)] ELSE link
  /\ UNCHANGED <<phase, mapped>>

Rejected == phase' = "crashed" /\ UNCHANGED handler

\* A message is sent in parts; only a file that cannot be sent is replaced by its name.
SendingFails(h) ==
  /\ handler[h].todo # <<>> /\ Head(handler[h].todo) = "show" /\ Rejected

Caught == {"setAwayMode", "label"}

CallFails(h) ==
  LET todo == handler[h].todo IN
  /\ Runs /\ todo # <<>> /\ Fails
  /\ \/ SendingFails(h)
     \/ Head(todo) \in Caught /\ Left(h, Tail(todo)) /\ UNCHANGED phase
     \/ Head(todo) \notin Caught \union {"show"} /\ Rejected
  /\ UNCHANGED <<link, mapped>>

-----------------------------------------------------------------------------
Next ==
  \/ Start \/ Registered \/ AwayModeSynced \/ ChatUrlDerived \/ BrokerReregistered \/ Stop
  \/ \E l \in Links : Opens(l) \/ Closes(l) \/ TimerFires(l)
  \/ \E h \in Handlers :
       \/ \E u \in Users, kind \in DOMAIN Calls : Received(h, u, kind)
       \/ \E l \in Links : Notified(h, l)
       \/ CallReturns(h) \/ CallFails(h)

Spec == Init /\ [][Next]_vars

\* calls end, timers fire and connections are made or refused
Fairness ==
  /\ WF_vars(ChatUrlDerived) /\ WF_vars(BrokerReregistered)
  /\ \A l \in Links : WF_vars(Opens(l) \/ Closes(l)) /\ WF_vars(TimerFires(l))
  /\ \A h \in Handlers : WF_vars(CallReturns(h) \/ CallFails(h))

LiveSpec == Spec /\ Fairness

-----------------------------------------------------------------------------
(* Properties.                                                             *)

\* No socket is opened twice: a link is open, or waits for its timer, or for the call
\* that precedes its socket.
TypeOK ==
  /\ phase \in {"down", "registering", "syncing", "connecting", "ready", "failed",
                "stopped", "crashed"}
  /\ \A l \in Links :
       /\ link[l].socket \in {"none", "connecting", "open", "closing"}
       /\ link[l].socket # "none" => ~link[l].timer /\ ~link[l].calling
       /\ ~(link[l].timer /\ link[l].calling)
  /\ mapped \subseteq Users /\ failures \in 0..MaxFailures

\* An adapter that was stopped has no timer and opens no more sockets to the broker, its own
\* or a user's, although calls that began before return later.
Quiet ==
  Stopped => \A l \in Links : ~link[l].timer /\ (l # "chat" => link[l].socket \in {"none", "closing"})

\* Does not hold: nor to the chat.  Whether it has stopped is not tested again when the token
\* has come.
ChatIsQuiet == Stopped => link["chat"].socket \in {"none", "closing"}

\* Every socket of an adapter that has started, to the broker, to the chat and for each
\* user that has written, is open again some time after it closed, whatever failed in
\* between, unless the adapter ends.
Recovers ==
  \A l \in Links :
    (phase = "ready" /\ (l \in Users => l \in mapped)) ~> (link[l].socket = "open" \/ phase # "ready")
=============================================================================

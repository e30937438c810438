---------------------------- MODULE SessionHooks ----------------------------
(***************************************************************************)
(* The hooks that an agent runs when its session starts, when its user     *)
(* submits a prompt and when its turn ends (adapters/<tool>-plugin).  A    *)
(* hook is a process of its own: it works on the files of the realtime     *)
(* bridge while the bridge does, and its calls of the broker are awaited.  *)
(*                                                                         *)
(* The plugins follow one pattern and differ in whether the start          *)
(* acknowledges leading news, whether a prompt announces the turn before   *)
(* it acknowledges, and whether the end of a turn takes up queued work.    *)
(* One hook runs at a time.  Hooks that start no work and sync no inbox    *)
(* are left out.                                                           *)
(***************************************************************************)
EXTENDS RealtimeBridge

VARIABLE hook   \* [pc, items, last, cur, owed]: what the hook in progress has read

vars == <<bridgeVars, hook>>

NoHook == [pc |-> "none", items |-> {}, last |-> 0, cur |-> 0, owed |-> 0]
InHook(pc) == hook.pc = pc

\* the news before the first actionable event
Leading(items) == {e \in items : \A a \in items \intersect Actionable : e < a}

\* work the user takes up replaces a reply that is pending
TakenUp(items) == IF items \intersect Actionable = {} THEN mirror ELSE 0

HookAcksLater(next) ==
  /\ acked' \in {acked, Acked(Highest(hook.items))}
  /\ cursor' = next
  /\ seen' = seen \union hook.items
  /\ mirror' = TakenUp(hook.items)
  /\ hook' = NoHook
  /\ UNCHANGED <<session, published, refused, wire, bridge, acts, faults>>
\* the acknowledgement is answered, if only by a refusal: the hook saves the cursor and
\* hands the events to the agent
HookAcks(next) ==
  /\ Answered(Highest(hook.items))
  /\ cursor' = next
  /\ seen' = seen \union hook.items
  /\ mirror' = TakenUp(hook.items)
  /\ hook' = NoHook
  /\ UNCHANGED <<session, published, wire, bridge, acts>>

-----------------------------------------------------------------------------
(* Session start.                                                          *)

Start(t, acksLeading) ==
  \/ /\ InHook("none") /\ tool = t
     /\ hook' = [NoHook EXCEPT !.pc = "start", !.cur = cursor]
     /\ UNCHANGED bridgeVars
  \/ /\ InHook("start") /\ tool = t
     /\ runtime' = State("idle")
     /\ hook' = [hook EXCEPT !.pc = "startPoll"]
     /\ UNCHANGED <<session, broker, bridge, acts, queue, cursor, mirror, seen, faults>>
  \/ /\ InHook("startPoll") /\ tool = t
     /\ LET items == Inbox(hook.cur, HookPage) IN
        /\ seen' = seen \union items
        /\ hook' = IF acksLeading /\ Leading(items) # {}
                     THEN [NoHook EXCEPT !.pc = "startAck", !.items = Leading(items)]
                     ELSE NoHook
     /\ UNCHANGED <<session, broker, bridge, acts, files, faults>>
  \/ /\ InHook("startAck") /\ tool = t
     /\ HookAcks(Highest(hook.items))
     /\ UNCHANGED <<queue, runtime>>

ClaudeStart == Start("claude-code", FALSE)
CodexStart  == Start("codex", TRUE)
XiaokStart  == Start("xiaok-code", FALSE)
QoderStart  == Start("qodercli", FALSE)
AgyPreToolUse == Start("agy", TRUE)

-----------------------------------------------------------------------------
(* A prompt: the queued events are its context, or else what the inbox     *)
(* has behind the cursor.                                                  *)

Polled(t) ==
  \/ /\ InHook("poll") /\ tool = t
     /\ LET items == Inbox(hook.cur, HookPage) IN
        hook' = IF items = {} THEN NoHook
                ELSE [NoHook EXCEPT !.pc = "pollAck", !.items = items]
     /\ UNCHANGED bridgeVars
  \/ /\ InHook("pollAck") /\ tool = t
     /\ HookAcks(Highest(hook.items))
     /\ UNCHANGED <<queue, runtime>>

SubmitBegins(t) ==
  /\ InHook("none") /\ tool = t
  /\ hook' = [NoHook EXCEPT !.pc = "prompt", !.cur = cursor]
  /\ UNCHANGED bridgeVars

Submit(t, announcesFirst) ==
  \/ SubmitBegins(t)
  \/ /\ InHook("prompt") /\ tool = t
     /\ hook' = IF queue.items = {} THEN [hook EXCEPT !.pc = "empty"]
                ELSE [hook EXCEPT !.pc = "queued", !.items = queue.items, !.last = queue.last]
     /\ UNCHANGED bridgeVars
  \/ /\ InHook("queued") /\ tool = t
     /\ runtime' = IF announcesFirst THEN State("turn") ELSE runtime
     /\ hook' = [hook EXCEPT !.pc = "queuedAck"]
     /\ UNCHANGED <<session, broker, bridge, acts, queue, cursor, mirror, seen, faults>>
  \/ /\ InHook("queuedAck") /\ tool = t
     /\ HookAcks(Highest({hook.cur} \union hook.items))
     /\ queue' = Drained(hook.last)
     /\ runtime' = IF announcesFirst THEN runtime ELSE State("turn")
  \/ /\ InHook("empty") /\ tool = t
     /\ runtime' = State("turn")
     /\ hook' = [hook EXCEPT !.pc = "poll"]
     /\ UNCHANGED <<session, broker, bridge, acts, queue, cursor, mirror, seen, faults>>
  \/ Polled(t)

ClaudeSubmit == Submit("claude-code", TRUE)
CodexSubmit  == Submit("codex", FALSE)
XiaokSubmit  == Submit("xiaok-code", FALSE)
QoderSubmit  == Submit("qodercli", FALSE)
AgyPostToolUse == Submit("agy", FALSE)

\* OpenCode reads its inbox before a tool runs, and has no queue
OpencodeToolExecute ==
  \/ /\ InHook("none") /\ tool = "opencode"
     /\ hook' = [NoHook EXCEPT !.pc = "poll", !.cur = cursor]
     /\ UNCHANGED bridgeVars
  \/ Polled("opencode")

-----------------------------------------------------------------------------
(* The end of a turn: a pending reply is sent first.                       *)

TurnEnds(t, takesQueue) ==
  /\ InHook("none") /\ tool = t /\ Running
  /\ hook' = IF takesQueue
                THEN [pc |-> "mirror", items |-> queue.items, last |-> queue.last,
                      cur |-> cursor, owed |-> mirror]
                ELSE [NoHook EXCEPT !.pc = "mirror", !.owed = mirror]
  /\ UNCHANGED bridgeVars

\* sent, or given up without a summary: the record of before is saved without it
ReplyMirrored == mirror' = IF hook.owed = 0 THEN mirror ELSE 0

Stop(t, takesQueue) ==
  \/ TurnEnds(t, takesQueue)
  \/ /\ InHook("mirror") /\ tool = t
     /\ ReplyMirrored
     /\ IF hook.items \intersect Actionable # {}
          THEN hook' = [hook EXCEPT !.pc = "stopAck"] /\ UNCHANGED runtime
          ELSE hook' = NoHook /\ runtime' = State("idle")
     /\ UNCHANGED <<session, broker, bridge, acts, queue, cursor, seen, faults>>
  \/ /\ InHook("stopAck") /\ tool = t
     /\ HookAcks(Highest({hook.cur} \union hook.items))
     /\ queue' = Drained(hook.last)
     /\ runtime' = State("turn")

ClaudeStop == Stop("claude-code", FALSE)
CodexStop  == Stop("codex", TRUE)
XiaokStop  == Stop("xiaok-code", TRUE)
QoderStop  == Stop("qodercli", TRUE)
AgyStop    == Stop("agy", TRUE)

\* a call of the broker throws, perhaps after it took effect: the hook gives up.  A refused
\* registration or work state is passed over, a refused poll has no events.
HookFails ==
  /\ ~InHook("none") /\ faults < MaxFaults
  /\ acked' \in {acked} \union
       (IF hook.pc \in {"startAck", "queuedAck", "pollAck", "stopAck"}
          THEN {Acked(Highest(hook.items))} ELSE {})
  /\ hook' = NoHook
  /\ faults' = faults + 1
  /\ UNCHANGED <<session, published, refused, wire, bridge, acts, files, seen>>

HookStarts == ClaudeStart \/ CodexStart \/ XiaokStart \/ QoderStart \/ AgyPreToolUse
HookSubmits ==
  \/ ClaudeSubmit \/ CodexSubmit \/ XiaokSubmit \/ QoderSubmit \/ AgyPostToolUse
  \/ OpencodeToolExecute
HookStops == ClaudeStop \/ CodexStop \/ XiaokStop \/ QoderStop \/ AgyStop

Init == BridgeInit /\ hook = NoHook
Next ==
  \/ BridgeNext /\ UNCHANGED hook
  \/ HookStarts \/ HookSubmits \/ HookStops \/ HookFails
Spec == Init /\ [][Next]_vars

-----------------------------------------------------------------------------
(* Properties.                                                             *)

\* Every value is one the files and processes can hold.  In particular the
\* count of failed dispatches never passes its limit, also when several calls
\* of maybeAutoDispatchRealtimeQueue fail side by side.
TypeOK ==
  /\ session \in Sessions /\ published \in 0..N /\ acked \in 0..published
  /\ refused \in 0..published /\ wire \subseteq 1..published
  /\ bridge.pc \in {"off", "first", "busy", "poll", "connect", "open", "closed"}
  /\ bridge.base \in Queue
  /\ \A s \in Slots :
       /\ acts[s].pc \in {"free", "recover", "ack", "announce", "exec", "close"}
       /\ acts[s].items \subseteq 1..published /\ acts[s].prior \in 0..(MaxFailures - 1)
  /\ queue \in Queue /\ cursor \in 0..N /\ runtime \in Runtime /\ mirror \in 0..N
  /\ seen \subseteq 1..published /\ faults \in 0..MaxFaults

\* Whoever fails or writes it late, the cursor file is ahead of what the broker has
\* acknowledged only as far as an acknowledgement that the broker refused: any other event
\* that nobody acknowledged is still polled by a hook.
CursorWithinAcked == cursor <= acked \/ cursor <= refused

\* Whatever the broker counts as done was put before the agent, is queued, or is
\* in the hands of the bridge or a hook.
NothingSkipped ==
  \A e \in 1..acked :
    \/ e \in seen \union queue.items \union hook.items
    \/ \E s \in Slots : e \in acts[s].items

Fairness ==
  /\ SF_vars(HookSubmits /\ InHook("none"))
  /\ WF_vars((HookStarts \/ HookSubmits \/ HookStops) /\ ~InHook("none"))
LiveSpec == Spec /\ Fairness

\* As long as the user keeps prompting, all the events, of which there are N, are
\* acknowledged in the end, or the broker was asked to and refused, in spite of failed
\* commands, crashes and calls that throw, and whether or not the bridge makes progress.
EventsAcknowledged == acked < published ~> published \in {acked, refused}

\* Does not hold: acknowledged whether or not the broker refuses.  Nobody looks at the
\* refusal, and the cursor, saved all the same, is behind the event: no poll has it again.
RefusedAckRepeated == acked < published ~> acked = published
=============================================================================

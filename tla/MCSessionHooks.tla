--------------------------- MODULE MCSessionHooks ---------------------------
(* One session of any of the agent tools, with two events. *)
EXTENDS SessionHooks

Session(t, work) == [tool |-> t, actionable |-> work]
AllSessions ==
  {Session("claude-code", {1, 2}), Session("codex", {2}), Session("xiaok-code", {2}),
   Session("qodercli", {2}), Session("agy", {2}), Session("opencode", {2})}
ClaudeOnly == {Session("claude-code", {2})}
=============================================================================

------------------------------ MODULE ToolServer ------------------------------
(***************************************************************************)
(* One tool call over HTTP: what the MCP server answers to                 *)
(* POST /mcp/tools/invoke and what the backend's MCP client makes of it.   *)
(* Neither side keeps a state, so these are plain definitions; ChatStream  *)
(* uses them.  What a tool computes is left out.                           *)
(***************************************************************************)
EXTENDS Naturals

Reply(status, ok) == [status |-> status, ok |-> ok]

\* require_user: a bearer token counts before a session, even one that is no
\* longer good; a session must still be in Redis.
Authenticated(token, session) ==
  IF token = "none" THEN session = "live" ELSE token = "live"

\* ToolService.invoke_tool: only the errors that a tool announces become an
\* envelope; anything else it raises is the server's failure.
Invoked(registered, valid, outcome, announced) ==
  CASE ~registered -> Reply(200, FALSE)
    [] registered /\ ~valid -> Reply(422, FALSE)
    [] registered /\ valid /\ outcome = "result" -> Reply(200, TRUE)
    [] registered /\ valid /\ outcome = "web_error" /\ announced -> Reply(200, FALSE)
    [] OTHER -> Reply(500, FALSE)

ServerReply(token, session, registered, valid, outcome, announced) ==
  IF Authenticated(token, session)
  THEN Invoked(registered, valid, outcome, announced)
  ELSE Reply(401, FALSE)

Credentials == {"none", "live", "stale"}

\* Every answer there is.
Replies ==
  {ServerReply(q[1], q[2], q[3], q[4], q[5], q[6]) :
     q \in Credentials \X Credentials \X BOOLEAN \X BOOLEAN
             \X {"result", "web_error", "crash"} \X BOOLEAN}

\* _request_json raises for the status, invoke_tool for the envelope.
StatusRaises(reply) == reply.status < 200 \/ reply.status >= 300

Raises(reply) == StatusRaises(reply) \/ ~reply.ok

\* _call repeats a call that timed out, and no other.
RepeatsCall(attempt, maxRetries) == attempt < maxRetries
=============================================================================

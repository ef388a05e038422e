---------------------------- MODULE MCHermesTurn ----------------------------
(* A resumed and a fresh session, with one mcp server of each transport.   *)
EXTENDS HermesTurnProps

TwoRuns    == {<<TRUE, TRUE, "canceled">>, <<FALSE, FALSE, "deadline">>}
AllServers == {"stdio", "http", "sse", "bad"}
HttpOnly   == {{"http"}}
OneOffer   == {{"allow_once", "deny"}}
Scripts    == {<<"open", "args", "done">>, <<"start", "done", "text">>,
               <<"done">>, <<"ask", "gaveup">>, <<"text", "turnEnd">>, <<"text", "huge">>}
Past       == {<<"text", "end">>, <<"turnEnd", "cancelled">>}
=============================================================================

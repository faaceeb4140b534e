----------------------------- MODULE MCPrintServers -----------------------------
(* Two clients, one of which stops the server while the other is at work;   *)
(* the servers of Go and Lua have one client.                               *)
EXTENDS PrintServers

CONSTANTS c1, c2

MCClients == {c1, c2}
MCKinds == {"python", "cpp", "java", "scala", "haskell", "erlang", "go", "kotlin", "lua", "javascript"}

Two(first, second) == [c \in MCClients |-> IF c = c1 THEN first ELSE second]

MCProgram == [k \in MCKinds |->
  CASE k \in {"python", "cpp", "java", "haskell", "javascript"} ->
         Two(<<"tell", "ask", "ask", "stop">>, <<"ask", "tell", "ask">>)
    [] k = "erlang" -> Two(<<"ask", "ask", "stop">>, <<"ask", "ask">>)
    [] k = "scala" -> Two(<<"tell", "status", "tell", "stop">>, <<"tell", "status", "tell">>)
    [] k = "kotlin" -> Two(<<"tell", "tell", "stop">>, <<"tell", "tell">>)
    [] k = "go" -> Two(<<"ask", "ask", "stop">>, <<>>)
    [] OTHER -> Two(<<"tell", "tell", "step", "ask", "tell", "step", "stop">>, <<>>)]
================================================================================

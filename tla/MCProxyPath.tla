----------------------------- MODULE MCProxyPath -----------------------------
(* Up to three plugins with every kind of hook, two accounts, two frames *)
EXTENDS ProxyPath

Plugin(id, hooks, closed, json) == [id |-> id, hooks |-> hooks, closed |-> closed, json |-> json]
Kinds == {{"request"}, {"response"}, {"request", "response"}, {"request", "response", "chunk"}, {"chunk"}}
Firsts == {Plugin("p", hooks, closed, json) : hooks \in Kinds, closed \in BOOLEAN, json \in BOOLEAN}
Seconds == {Plugin("q", hooks, closed, FALSE) : hooks \in Kinds, closed \in BOOLEAN}

MCPipelines == {<<>>} \cup {<<p>> : p \in Firsts} \cup {<<p, q>> : p \in Firsts, q \in Seconds}
                 \cup {<<p, Plugin("q", {"response"}, TRUE, FALSE), Plugin("r", {"request", "response"}, FALSE, FALSE)>> :
                         p \in {p \in Firsts : p.json}}
MCAccounts == <<"a1", "a2">>
===============================================================================

------------------------------- MODULE MCRpcChain -------------------------------
(* The instance of the chain: what the external peers send.                *)
EXTENDS RpcChain, TLC

CONSTANTS codex, flood, poll, gui, cli, other, probe, r1, r2, r3, r4, a1, a2, a3

Line(kind, id, job) == [kind |-> kind, id |-> id, job |-> job]
Malformed(kind) == Line(kind, None, None)
Sends(tier, lines) == [tier |-> tier, lines |-> lines]

MCScripts ==
    codex :> Sends("mcp", <<Line("note", None, None), Malformed("long"), Malformed("rest"),
                            Line("call", 7, r1), Malformed("bad")>>)
    @@ flood :> Sends("mcp", <<Malformed("long"), Malformed("longEnd"), Line("hello", 5, None),
                               Malformed("array"), Malformed("long"), Malformed("long"),
                               Malformed("long"), Malformed("rest"), Line("hello", 6, None)>>)
    @@ poll :> Sends("service", <<Line("call", 2, r2), Malformed("bad"), Line("call", 4, r3)>>)
    @@ gui :> Sends("service", <<Line("call", 2, a1), Malformed("array"), Line("call", 3, a3)>>)
    @@ cli :> Sends("service", <<Line("call", 1, a2), Malformed("long")>>)
    @@ other :> Sends("agent", <<Line("call", 3, r4), Malformed("bad"), Malformed("array"),
                                 Malformed("bad")>>)
    @@ probe :> Sends("agent", <<Malformed("bad"), Line("hello", 9, None)>>)
MCParties == {{codex}, {flood}, {poll}, {gui, cli}, {other, probe}}
MCJobs == {r1, r2, r3, r4, a1, a2, a3}
MCAdds == {a1, a2, a3}
MCTooLarge == {{a1, a3}}
MCNames == (a1 :> 1) @@ (a2 :> 1) @@ (a3 :> 2)
=============================================================================

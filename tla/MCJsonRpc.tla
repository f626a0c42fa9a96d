----------------------------- MODULE MCJsonRpc -----------------------------
(* The frames that the clients of the front may write. *)
EXTENDS JsonRpc

NeededBy(call) == UNION {need[2] : need \in {n \in Needs : n[1] = call}}

(* A call as it is advertised, as it is needed, with an argument missing,   *)
(* or with a value that nothing reads.                                      *)
Offers(id) ==
    {Calling(id, offer[1], offer[2], {}) : offer \in tool_definitions}
    \union {Calling(id, need[1], need[2] \ {x}, {}) : need \in {n \in Needs : n[2] # {}}, x \in {"project_id", "tool_id", "family"}}
    \union {Calling(id, "memory.ingest_conversation", NeededBy("memory.ingest_conversation"), {"format"})}
    \union {Calling(id, t, {}, {}) : t \in {"none", "unknown"}}
    \union {Frame("request", id, m, "none", g, {}) :
                m \in {"initialize", "tools/list", "resources/list", "resources/read", "unknown"}, g \in {{}, Project \union {"uri"}}}

Documents(id) ==
    {Calling(id, "docs.save", NeededBy("docs.save"), {}), Calling(id, "docs.delete", NeededBy("docs.delete"), {}),
     Calling(NoId, "docs.save", NeededBy("docs.save"), {})}

Noise == {Frame(k, NoId, "none", "none", {}, {}) : k \in {"blank", "garbled", "unreadable"}}

(* One call of every kind, or a few frames of few kinds, one after or over the other. *)
MCOffers == << Offers(1) >>
MCScript == << Documents(1) \union Noise, Documents(2) \union Noise, Documents(3) >>
=============================================================================

------------------------- MODULE MCAgentReconcile -------------------------
(* Small instances of AgentReconcile.                                      *)
EXTENDS AgentReconcile, TLC

CONSTANTS eng, ops, cpEng, cpOps

Offer(domain, kind, webhook) ==
    [domain |-> domain, kind |-> kind, webhook |-> webhook, alias |-> NoId, bridge |-> FALSE]
LocalOffer == [domain |-> "d1", kind |-> "zellij", webhook |-> FALSE, alias |-> NoId, bridge |-> TRUE]

(* cpEng is the tower's id of the local agent eng; cpOps has no local twin. *)
AliasEng == cpEng :> eng @@ cpOps :> NoId
AliasOne == cpEng :> eng
AliasNone == cpOps :> NoId

OffersBoth ==
    cpEng :> {Offer("d1", "zellij", FALSE), Offer("d2", "zellij", FALSE)}
      @@ cpOps :> {Offer("d1", "session", TRUE)}
OffersOne ==
    cpEng :> {Offer("d1", "zellij", FALSE), Offer("d2", "zellij", FALSE), Offer("d1", "session", TRUE)}
OffersTask == cpOps :> {Offer("d1", "task", FALSE), Offer("d1", "task", TRUE)}

LocalEng == eng :> LocalOffer
=============================================================================

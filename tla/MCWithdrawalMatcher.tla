------------------------- MODULE MCWithdrawalMatcher -------------------------
(* Model-checking instances of WithdrawalMatcher: what the chains may have done. *)
EXTENDS WithdrawalMatcherInv

MCTwo     == 1 .. 2
MCThree   == 1 .. 3
MCPayout  == {11}
MCPayouts == {11, 12}

MCFact(w, route, level, executed, byId) ==
  [route |-> route, hash |-> IF route = "fast" THEN 10 + w ELSE 1, level |-> level,
   executed |-> executed, byId |-> byId]

MCClaim(w, exact, late) == [of |-> w, exact |-> exact, late |-> late]

\* A fast withdrawal between two that share a hash, and two payouts that name it, of which
\* one or both agree with it; the outboxes of one level or three.
MCSplit(apart, byId, exact) ==
  [facts  |-> [w \in MCThree |->
                 IF w = 2 THEN MCFact(w, "fast", 1 + w * apart, TRUE, byId)
                          ELSE MCFact(w, "fa", 1 + w * apart, TRUE, FALSE)],
   claims |-> [p \in MCPayouts |-> MCClaim(2, p = 11 \/ exact, FALSE)]]

\* In one of them the fast withdrawal is executed by its id.
MCSplits ==
  {MCSplit(0, FALSE, TRUE), MCSplit(1, FALSE, TRUE), MCSplit(1, FALSE, FALSE),
   MCSplit(1, TRUE, TRUE)}

\* A fast withdrawal and two payouts as above; before or after it, an ordinary one.
MCPairs ==
  {[facts  |-> [w \in MCTwo |->
                  IF w = fast THEN MCFact(w, "fast", w, executed, FALSE)
                              ELSE MCFact(w, "xtz", w, TRUE, FALSE)],
    claims |-> [p \in MCPayouts |-> MCClaim(fast, p = 11 \/ exact, FALSE)]] :
     fast \in MCTwo, executed \in BOOLEAN, exact \in BOOLEAN}

\* One fast withdrawal, paid out and then executed.
MCPaidOut(byId) ==
  {[facts  |-> [w \in {1} |-> MCFact(w, "fast", 1, TRUE, byId)],
    claims |-> [p \in MCPayout |-> MCClaim(1, TRUE, FALSE)]]}

MCOne         == {1}
MCPaidOutHere == MCPaidOut(FALSE)
MCPaidOutById == MCPaidOut(TRUE)

=============================================================================

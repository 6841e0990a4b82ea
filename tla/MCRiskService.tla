----------------------------- MODULE MCRiskService -----------------------------
(***************************************************************************)
(* An instance of RiskService for TLC: two processes change the state files *)
(* and one or two evaluate a request; the engine's answers are looked at    *)
(* for many portfolios, positions and markets.                              *)
(***************************************************************************)
EXTENDS RiskService, TLC

Account == [scope |-> "ACCOUNT", id |-> "acc"]

Sheet(n, expires) ==
  [id |-> n, account |-> "acc", strategy |-> "alpha", run |-> "r1", policy |-> "p1",
   approvedAt |-> 0, expiresAt |-> expires]

Set(s, active, reduceOnly, t) ==
  [op |-> "set", switch |-> s,
   record |-> [active |-> active, reduceOnly |-> reduceOnly, changedAt |-> t]]
Issue(e) == [op |-> "issue", evidence |-> e]
Revoke(a) == [op |-> "revoke", id |-> a]

Open == [industry |-> "n1", suspended |-> FALSE, st |-> FALSE, up |-> FALSE,
         down |-> FALSE, liquidity |-> One]
Holding(weight, sellable, industry) ==
  [weight |-> weight, sellable |-> sellable, industry |-> industry]

-----------------------------------------------------------------------------
(* Rival commands: two processes, the switch of the account, one approval. *)
MCSwitches == {Account}
MCEvidence == {Sheet("a1", 3)}
MCCalls ==
  [w \in Writers |->
     IF w = "w1"
     THEN {Set(Account, TRUE, FALSE, 1), Issue(Sheet("a1", 3))}
     ELSE {Set(Account, TRUE, TRUE, 0), Revoke("a1")}]

(* The evaluators are alike. *)
CONSTANTS e1, e2
Sym == Permutations(Evaluators)

MCRequest ==
  [target |-> [run |-> "r1", strategy |-> "alpha", weights |-> [i \in {"i1", "i2"} |-> 3]],
   context |->
     [account |-> "acc", strategy |-> "alpha", age |-> 0, now |-> 2, cash |-> 4,
      loss |-> 0, drawdown |-> 0, approval |-> Sheet("a1", 3),
      held |-> [i \in {"i1"} |-> Holding(2, 1, "n1")],
      market |-> [i \in {"i1", "i2"} |-> Open]]]

-----------------------------------------------------------------------------
(* What the engine is asked.  i1 is what varies most: held, partly bought today,   *)
(* suspended, at a limit, ST, illiquid; i2 may be of its industry; i3 is new.      *)
Flags ==
  {Open,
   [Open EXCEPT !.suspended = TRUE], [Open EXCEPT !.st = TRUE],
   [Open EXCEPT !.up = TRUE], [Open EXCEPT !.down = TRUE], [Open EXCEPT !.liquidity = 2]}

PortfolioRequest(flags, first, second, w1, w2, w3) ==
  [target |->
     [run |-> "r1", strategy |-> "alpha",
      weights |-> [i \in {"i1", "i2", "i3"} |->
                     IF i = "i1" THEN w1 ELSE IF i = "i2" THEN w2 ELSE w3]],
   context |->
     [account |-> "acc", strategy |-> "alpha", age |-> 0, now |-> 2,
      cash |-> One - first.weight - second.weight,
      loss |-> 0, drawdown |-> 0, approval |-> Sheet("a1", 3),
      held |-> [i \in {"i1", "i2"} |-> IF i = "i1" THEN first ELSE second],
      market |-> [i \in {"i1", "i2", "i3"} |->
                    IF i = "i1" THEN flags
                    ELSE IF i = "i2" THEN [Open EXCEPT !.industry = second.industry]
                    ELSE [Open EXCEPT !.industry = "n2"]]]]

PortfolioRequests ==
  {PortfolioRequest(flags, first, second, w[1], w[2], w[3]) :
     flags \in Flags,
     first \in {Holding(3, 3, "n1"), Holding(4, 1, "n1")},
     second \in {Holding(2, 0, "n1"), Holding(2, 0, "n2"), Holding(1, 1, "n1")},
     w \in {<<0, 3, 4>>, <<0, 0, 3>>, <<5, 3, 0>>, <<5, 0, 3>>}}

(* And one for each reason to refuse a request outright. *)
Plain == PortfolioRequest(Open, Holding(3, 3, "n1"), Holding(1, 1, "n1"), 2, 1, 1)
RefusedRequests ==
  {[Plain EXCEPT !.target.strategy = "beta"],
   [Plain EXCEPT !.context.market = [i \in {"i1", "i2"} |-> Open]],
   [Plain EXCEPT !.context.held["i2"].industry = "n2"],
   [Plain EXCEPT !.context.cash = One],
   [Plain EXCEPT !.context.age = -1],
   [Plain EXCEPT !.context.age = MaxAge + 1],
   [Plain EXCEPT !.context.loss = MaxLoss],
   [Plain EXCEPT !.context.drawdown = MaxDrawdown]}

MCRequests == PortfolioRequests \cup RefusedRequests
=============================================================================

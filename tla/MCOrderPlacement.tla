---------------------------- MODULE MCOrderPlacement ----------------------------
EXTENDS OrderPlacement, TLC

CONSTANTS ann, bob

Order(side, price, quantity, tif, postOnly) ==
  [side |-> side, price |-> price, quantity |-> quantity,
   timeInForce |-> tif, postOnly |-> postOnly]

MCTerms == {Order("sell", 2, 1, "GTC", FALSE),
            Order("sell", 1, 2, "FOK", FALSE),
            Order("buy", 1, 2, "GTC", TRUE),
            Order("buy", 2, 1, "GTC", FALSE),
            Order("buy", 2, 1, "IOC", FALSE)}

AnnMinted == [u \in {ann, bob} |-> IF u = ann THEN 2 ELSE 0]
BothDeposited == [u \in {ann, bob} |-> 6]

Symmetry == Permutations(Keys) \cup Permutations(Quotes) \cup Permutations(Handlers)
=============================================================================

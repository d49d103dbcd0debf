---------------------------- MODULE MCBuyerAgent -----------------------------
(* BuyerAgent on small instances: a reading, an inference that costs twice  *)
(* as much, and a cap that three purchases reach at most.  Where the        *)
(* signing key changes, time stands still and two purchases are enough: no  *)
(* check of the card depends on the clock, nor on the ledger.               *)
EXTENDS BuyerAgent

ReadingAndInference == <<1, 2>>
DearerReading == <<3, 1>>
Either == {ReadingAndInference, DearerReading}

\* By another key, under a seller's name or its own; of another kind; garbled.
Forgery(alg, kid, list) == [alg |-> alg, kid |-> kid, by |-> "k3", over |-> list]
ByOthers == {Forgery("ES256", "k1", ReadingAndInference), Forgery("ES256", "k2", DearerReading),
             Forgery("ES256", "k3", DearerReading), Forgery("other", "k1", DearerReading),
             Garbled("k1")}

Clock(scenario) == IF "rotate" \in scenario THEN 0 ELSE 3
Attempts(scenario) == IF "rotate" \in scenario THEN 2
                      ELSE IF scenario \cap {"restart", "killed", "reprice"} # {} THEN 3 ELSE 4
=============================================================================

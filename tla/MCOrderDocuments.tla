--------------------------- MODULE MCOrderDocuments ---------------------------
(* Short and long texts on both papers; the stationery changes its mind.   *)
EXTENDS OrderDocuments, TLC

MCTexts ==
    [r \in 1..MaxRevision |->
        CASE r = 1 -> [items |-> <<[name |-> 12, detail |-> 30]>>, total |-> 4, note |-> 0, buyer |-> 0,
                       tenders |-> <<[code |-> 4, amount |-> 4]>>]
          [] r = 2 -> [items |-> <<[name |-> 60, detail |-> 45], [name |-> 31, detail |-> 33]>>,
                       total |-> 10, note |-> 600, buyer |-> 200, tenders |-> <<[code |-> 20, amount |-> 9]>>]
          [] OTHER -> [items |-> <<[name |-> 255, detail |-> 170]>>, total |-> 15, note |-> 33, buyer |-> 32,
                       tenders |-> <<[code |-> 64, amount |-> 15], [code |-> 5, amount |-> 3]>>]]
MCStationery == {[format |-> "THERMAL", footer |-> {0, 20, 70}]}

DocSymmetric == Permutations(Editors) \cup Permutations(OrderIds)
=============================================================================

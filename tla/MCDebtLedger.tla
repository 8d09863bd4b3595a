---------------------------- MODULE MCDebtLedger ----------------------------
(* Instances of DebtLedger for TLC. *)
EXTENDS DebtLedger, TLC

CONSTANTS ann, bob, o1, o2

TxSymmetry == Permutations(Tx)

Sale(o, c, n, draft) ==
    [kind |-> "sale", order |-> o, customer |-> c, amount |-> n, open |-> draft]
Pay(c, n) == [kind |-> "settle", customer |-> c, amount |-> n]
Remove == [kind |-> "remove"]

\* Two tills.  bob's drafts are replayed with other amounts and end as closed
\* sales, some of them ann's; ann pays too much and too little.
Tills == {Sale(o1, bob, 1, TRUE), Sale(o1, bob, 2, TRUE), Sale(o1, ann, 1, FALSE),
          Sale(o2, bob, 1, TRUE), Sale(o2, ann, 2, FALSE), Sale(o2, bob, 0, FALSE),
          Pay(ann, 1), Pay(ann, 4)}

\* Everything one back-office user can do, one request after the other.
Office == {Sale(o1, ann, 2, TRUE), Sale(o1, ann, 1, TRUE), Sale(o2, ann, 3, FALSE),
           Pay(ann, 2), Pay(ann, 5), Remove}

\* A draft on credit is paid for and replayed while another till sells on credit.
PaidReplayRace == {Sale(o1, ann, 1, TRUE), Sale(o2, ann, 3, FALSE), Pay(ann, 1)}
=============================================================================

---------------------------- MODULE MCSalesIntake ----------------------------
(* A cashier and a manager with is_staff at two branches; cash, a tender    *)
(* the back office turns into CREDIT and back, a voucher that only          *)
(* workshops take, and a coupon out of use.  ann may be a buyer, gone, or   *)
(* a closed walk-in row; both rows may be created for a walk-in, and one    *)
(* request names ann whichever she is.                                      *)
EXTENDS SalesIntake, TLC

CONSTANTS tin, boss, north, south, cash, credit, voucher, coupon, s1, ann, kim

AtNorth == [primary |-> north, assigned |-> {north}]
MCRosters == boss :> {} @@ tin :> { None, AtNorth }

Later == [credit |-> FALSE, active |-> TRUE, tags |-> {}, gateways |-> {"pos"}]
OnCredit == [credit |-> TRUE, active |-> TRUE, tags |-> {"retail", "workshop"}, gateways |-> {"pos", "saas"}]
MCTenderForms ==
    cash :> { Later } @@ credit :> { Later, OnCredit }
    @@ voucher :> { [Later EXCEPT !.tags = {"workshop"}] }
    @@ coupon :> { [Later EXCEPT !.active = FALSE] }

MCCustomerForms ==
    ann :> { [walkin |-> FALSE, active |-> TRUE], [walkin |-> TRUE, active |-> FALSE], None }
    @@ kim :> {}

Base == [kind |-> "checkout", user |-> tin, header |-> north, param |-> None, branch |-> north,
         sale |-> s1, customer |-> None, tenders |-> <<>>, total |-> 2, draft |-> FALSE]
Pay(m, a, t, c) == [method |-> m, amount |-> a, tendered |-> t, change |-> c]

\* A checkout without a buyer, a draft on credit that is replayed at the other
\* branch, and the two reads.
MCRequests ==
    { [Base EXCEPT !.tenders = <<Pay(cash, 1, 5, 4), Pay(credit, 1, 0, 0)>>],
      [Base EXCEPT !.kind = "sync", !.user = boss, !.header = Garbage, !.branch = south,
                   !.draft = TRUE, !.customer = ann, !.tenders = <<Pay(credit, 2, 0, 0)>>],
      [Base EXCEPT !.kind = "invoice"],
      [Base EXCEPT !.kind = "dashboard", !.header = None, !.param = north] }

RowSymmetry == Permutations(Workers)
=============================================================================

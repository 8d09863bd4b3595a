---------------------------- MODULE MCAuthClient ----------------------------
(* A cashier and a superuser of two tenants on one device.                 *)
EXTENDS AuthClient, TLC

CONSTANTS anna, root, shop, mall

MCAccounts == {anna, root}
MCHosts == {shop, mall}
MCHostOf == anna :> shop @@ root :> mall
MCSuperusers == {root}
=============================================================================

------------------------------ MODULE MCTenancy ------------------------------
(* Both commands for the public schema, and a third for another tenant on  *)
(* the same host; clients ask for the configuration at that host.          *)
EXTENDS Tenancy, TLC

CONSTANTS freeStandard, standardFree, pub, store, publicStore, omniPOSPublic, localhost, other

Run(p, s, n) == [plan |-> p, schema |-> s, name |-> n, host |-> localhost]
MCCommands ==
    { Run(freeStandard, pub, publicStore), Run(standardFree, pub, omniPOSPublic),
      Run(freeStandard, store, publicStore) }

\* Each column is changed by some save, and set as one command wants it by another.
Row(n, t, p) == [name |-> n, type |-> t, plan |-> p]
MCClientForms ==
    { Row(publicStore, "workshop", standardFree), Row(omniPOSPublic, "retail", Absent),
      Row(publicStore, "retail", freeStandard) }

MCUnitForms ==
    { [active |-> TRUE, tags |-> {}], [active |-> TRUE, tags |-> {"workshop"}] }

ProcSymmetry == Permutations(Procs)
=============================================================================

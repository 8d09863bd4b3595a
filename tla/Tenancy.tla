------------------------------- MODULE Tenancy -------------------------------
(***************************************************************************)
(* The public schema: subscription plans, business types, tenants and the  *)
(* hosts that route to them.  Two management commands set up a tenant, one *)
(* with arguments (bootstrap_public_tenant), one without                   *)
(* (setup_public_tenant); both make the same statements in the same order. *)
(* Nothing wraps a command in a transaction: it may be killed, or another  *)
(* command or the platform's admin may act, between any two statements.    *)
(*                                                                         *)
(* A configuration request is routed to the tenant of its host, and builds *)
(* its answer in two more reads: its business type, for the UI preset and  *)
(* the overrides the type carries, and the units.                          *)
(*                                                                         *)
(* Rows are known by their natural keys: a plan, type or tenant that was   *)
(* deleted and made again is told apart from its predecessor only where a  *)
(* command still holds the old tenant.                                     *)
(***************************************************************************)
EXTENDS Naturals

CONSTANTS
    Schemas, Hosts, Names, Types, Plans,
    Units,        \* UnitOfMeasure rows of the tenants' catalogues
    UnitForms,    \* bound: what a unit's admin page may be saved with
    ClientForms,  \* bound: what the admin saves a tenant's row as
    Commands,     \* the plan, schema, name and host a command is run for
    Procs,        \* commands under way
    Routed,       \* the hosts clients ask at
    MaxEdits,     \* bound: how often the admin writes
    Absent        \* no row, no plan, no command

ASSUME TenancyTyped ==
    /\ "retail" \in Types /\ MaxEdits \in Nat /\ Routed \subseteq Hosts
    /\ Commands \subseteq [plan : Plans, schema : Schemas, name : Names, host : Hosts]
    /\ ClientForms \subseteq [name : Names, type : Types, plan : Plans \cup {Absent}]
    /\ UnitForms \subseteq [active : BOOLEAN, tags : SUBSET Types]
    /\ Absent \notin Plans \cup Types \cup [name : Names, type : Types, plan : Plans \cup {Absent}]
                   \cup [tenant : Schemas, primary : BOOLEAN] \cup Hosts \cup Commands

VARIABLES
    plans,     \* slugs of the SubscriptionPlan rows
    types,     \* codes of the BusinessType rows
    clients,   \* Client per schema name
    domains,   \* Domain per host
    units,     \* UnitOfMeasure rows
    cmd,       \* the commands under way
    config,    \* the configuration request under way
    edits,     \* admin writes so far
    \* history
    disturbed  \* did anybody else write while the command ran?

db == <<plans, types, clients, domains>>
tenantVars == <<db, units, cmd, config, edits, disturbed>>

Client == [name : Names, type : Types, plan : Plans \cup {Absent}]
Domain == [tenant : Schemas, primary : BOOLEAN]

\* A command: the tenant's values as it loaded them, whether that row is still
\* there, the host at which the domain row it holds is now, and is_primary there.
Idle == [pc |-> "idle", args |-> Absent, client |-> Absent, alive |-> FALSE,
         domain |-> Absent, primary |-> FALSE]

\* A request: the tenant it was routed to and the type loaded with it.  History:
\* has the tenant gone or changed its type, which units have fitted it?
NoRequest == [at |-> "idle", schema |-> Absent, type |-> Absent, units |-> {},
              moved |-> FALSE, ever |-> {}]

TenantInit ==
    /\ plans = {} /\ types = Types \ {"retail"}
    /\ clients = [s \in Schemas |-> Absent]
    /\ domains = [h \in Hosts |-> Absent]
    /\ units \in {f \in [Units -> UnitForms] : \A u \in Units : f[u].tags \subseteq types}
    /\ cmd = [c \in Procs |-> Idle] /\ disturbed = [c \in Procs |-> FALSE]
    /\ config = NoRequest
    /\ edits = 0

-----------------------------------------------------------------------------
(* The commands.                                                           *)

Running(c) == cmd[c].pc \notin {"idle", "done"}
At(c, l) == cmd[c].pc = l
Goto(c, l) == cmd' = [cmd EXCEPT ![c].pc = l]

\* CommandError, an IntegrityError or a kill.
Fail(c) == cmd' = [cmd EXCEPT ![c] = Idle]

\* Whoever else is at work, or has just reported, is told of a write.
Disturb(S) == disturbed' = [d \in Procs |-> disturbed[d] \/ (d \in S /\ cmd[d].pc # "idle")]
Writes(c) == IF db' = db THEN UNCHANGED disturbed ELSE Disturb(Procs \ {c})

Fits(u, t) == u.active /\ (u.tags = {} \/ t \in u.tags)

\* What a write to tenants or units does to the history of a request.
NoticeTenant ==
    LET tenant == clients'[config.schema] IN
    config' = IF config.at = "idle" THEN config
              ELSE IF tenant = Absent THEN [config EXCEPT !.moved = TRUE]
              ELSE [config EXCEPT !.moved = @ \/ tenant.type # config.type,
                                  !.ever = @ \cup {u \in Units : Fits(units'[u], tenant.type)}]

Start(c, a) ==
    /\ ~Running(c)
    /\ cmd' = [cmd EXCEPT ![c] = [Idle EXCEPT !.pc = "plan", !.args = a]]
    /\ disturbed' = [disturbed EXCEPT ![c] = FALSE]
    /\ UNCHANGED <<db, units, edits, config>>

MakePlan(c) ==
    /\ At(c, "plan")
    /\ plans' = plans \cup {cmd[c].args.plan}
    /\ Goto(c, "type") /\ UNCHANGED <<types, clients, domains>> /\ Writes(c)
    /\ UNCHANGED <<units, edits, config>>

MakeType(c) ==
    /\ At(c, "type")
    /\ types' = types \cup {"retail"}
    /\ Goto(c, "client") /\ UNCHANGED <<plans, clients, domains>> /\ Writes(c)
    /\ UNCHANGED <<units, edits, config>>

\* get_or_create; the foreign keys of a new row need what they point at.
MakeClient(c) ==
    LET a == cmd[c].args
        new == [name |-> a.name, type |-> "retail", plan |-> a.plan]
        Loaded(row) == [cmd EXCEPT ![c].pc = "host", ![c].client = row, ![c].alive = TRUE] IN
    /\ At(c, "client")
    /\ IF clients[a.schema] = Absent
       THEN IF a.plan \in plans /\ "retail" \in types
            THEN clients' = [clients EXCEPT ![a.schema] = new] /\ cmd' = Loaded(new)
            ELSE Fail(c) /\ UNCHANGED clients
       ELSE cmd' = Loaded(clients[a.schema]) /\ UNCHANGED clients
    /\ UNCHANGED <<plans, types, domains>> /\ Writes(c)
    /\ UNCHANGED <<units, edits>> /\ NoticeTenant

CheckHost(c) ==
    LET a == cmd[c].args IN
    /\ At(c, "host")
    /\ IF domains[a.host] = Absent \/ (cmd[c].alive /\ domains[a.host].tenant = a.schema)
       THEN Goto(c, "domain") ELSE Fail(c)
    /\ UNCHANGED <<db, units, edits, disturbed, config>>

\* DomainMixin.save of a primary row: the tenant's other rows are demoted.
Primary(h, s) ==
    [g \in Hosts |-> IF g = h THEN [tenant |-> s, primary |-> TRUE]
                     ELSE IF domains[g] # Absent /\ domains[g].tenant = s
                          THEN [domains[g] EXCEPT !.primary = FALSE] ELSE domains[g]]

\* Mutant: the check before the insert is thought to be enough.
AnyTenant(c) == TRUE

\* Is the host's row one of the tenant the command holds?
Mine(c) == cmd[c].alive /\ domains[cmd[c].args.host].tenant = cmd[c].args.schema

\* get_or_create; a new row needs its tenant.
MakeDomain(c) ==
    LET a == cmd[c].args
        Holding(p) == [cmd EXCEPT ![c].pc = "promote", ![c].domain = a.host, ![c].primary = p] IN
    /\ At(c, "domain")
    /\ IF domains[a.host] = Absent
       THEN IF cmd[c].alive
            THEN domains' = Primary(a.host, a.schema) /\ cmd' = Holding(TRUE)
            ELSE Fail(c) /\ UNCHANGED domains
       ELSE /\ UNCHANGED domains
            /\ IF Mine(c) THEN cmd' = Holding(domains[a.host].primary) ELSE Fail(c)
    /\ UNCHANGED <<plans, types, clients>> /\ Writes(c)
    /\ UNCHANGED <<units, edits, config>>

\* save(update_fields=("is_primary",)): the row keeps tenant and host, and it
\* is an error if the row is gone.
Promote(c) ==
    LET h == cmd[c].domain IN
    /\ At(c, "promote")
    /\ IF cmd[c].primary THEN Goto(c, "sync") /\ UNCHANGED domains
       ELSE IF h = Absent THEN Fail(c) /\ UNCHANGED domains
       ELSE Goto(c, "sync") /\ domains' = Primary(h, domains[h].tenant)
    /\ UNCHANGED <<plans, types, clients>> /\ Writes(c)
    /\ UNCHANGED <<units, edits, config>>

\* Mutant: an existing tenant keeps the plan it has.
SyncedKeepsPlan(a, loaded, row) ==
    [row EXCEPT !.name = IF loaded.name # a.name THEN a.name ELSE @,
                !.type = IF loaded.type # "retail" THEN "retail" ELSE @]

\* The columns the loaded instance disagrees in are written, and no other.
Synced(a, loaded, row) ==
    [row EXCEPT !.name = IF loaded.name # a.name THEN a.name ELSE @,
                !.plan = IF loaded.plan # a.plan THEN a.plan ELSE @,
                !.type = IF loaded.type # "retail" THEN "retail" ELSE @]

\* save(update_fields=...) of the columns that differ: an error if the row is
\* gone, or if what it points at is.
Sync(c) ==
    LET a == cmd[c].args
        loaded == cmd[c].client
        row == Synced(a, loaded, clients[a.schema]) IN
    /\ At(c, "sync")
    /\ IF cmd[c].alive /\ row.plan \in plans \cup {Absent} /\ row.type \in types
       THEN clients' = [clients EXCEPT ![a.schema] = row] /\ Goto(c, "done")
       ELSE /\ UNCHANGED clients
            /\ IF ~cmd[c].alive /\ Synced(a, loaded, loaded) = loaded
               THEN Goto(c, "done") ELSE Fail(c)
    /\ UNCHANGED <<plans, types, domains>> /\ Writes(c)
    /\ UNCHANGED <<units, edits>> /\ NoticeTenant

Kill(c) ==
    /\ Running(c) /\ Fail(c)
    /\ UNCHANGED <<db, units, edits, disturbed, config>>

-----------------------------------------------------------------------------
(* The platform's admin, and a tenant's for its units.                     *)

Edit == edits < MaxEdits /\ edits' = edits + 1 /\ Disturb(Procs)

\* ClientAdmin: a tenant is added, or one's row is saved as the form has it.
SaveClient(s, row) ==
    /\ clients[s] # row /\ row.type \in types /\ row.plan \in plans \cup {Absent}
    /\ clients' = [clients EXCEPT ![s] = row]
    /\ Edit /\ UNCHANGED <<plans, types, domains, units, cmd>> /\ NoticeTenant

\* Its hosts go with it.  A command that loaded the row now holds a dead one.
DeleteClient(s) ==
    /\ clients[s] # Absent
    /\ clients' = [clients EXCEPT ![s] = Absent]
    /\ domains' = [h \in Hosts |-> IF domains[h] # Absent /\ domains[h].tenant = s
                                   THEN Absent ELSE domains[h]]
    /\ cmd' = [c \in Procs |-> IF cmd[c].pc # "idle" /\ cmd[c].args.schema = s
                               THEN [cmd[c] EXCEPT !.alive = FALSE, !.domain = Absent]
                               ELSE cmd[c]]
    /\ Edit /\ UNCHANGED <<plans, types, units>> /\ NoticeTenant

\* Has s no primary host but h?  Then DomainMixin.save makes h one.
Lone(h, s) ==
    ~\E g \in Hosts \ {h} : domains[g] # Absent /\ domains[g].tenant = s /\ domains[g].primary

\* The inline of domains: a host is added, or its is_primary changed.
SaveDomain(h, s, primary) ==
    /\ clients[s] # Absent
    /\ domains[h] # Absent => domains[h].tenant = s /\ domains[h].primary # primary
    /\ domains' = IF primary \/ Lone(h, s) THEN Primary(h, s)
                  ELSE [domains EXCEPT ![h] = [tenant |-> s, primary |-> FALSE]]
    /\ Edit /\ UNCHANGED <<plans, types, clients, units, cmd, config>>

\* A host's row gets another name: whoever holds the row goes along.
RenameDomain(h, g) ==
    /\ domains[h] # Absent /\ domains[g] = Absent
    /\ LET s == domains[h].tenant IN
       domains' = [domains EXCEPT ![h] = Absent,
                      ![g] = [tenant |-> s, primary |-> domains[h].primary \/ Lone(h, s)]]
    /\ cmd' = [c \in Procs |-> IF cmd[c].domain = h THEN [cmd[c] EXCEPT !.domain = g] ELSE cmd[c]]
    /\ Edit /\ UNCHANGED <<plans, types, clients, units, config>>

DeleteDomain(h) ==
    /\ domains[h] # Absent
    /\ domains' = [domains EXCEPT ![h] = Absent]
    /\ cmd' = [c \in Procs |-> IF cmd[c].domain = h THEN [cmd[c] EXCEPT !.domain = Absent] ELSE cmd[c]]
    /\ Edit /\ UNCHANGED <<plans, types, clients, units, config>>

AddPlan(p) ==
    /\ p \notin plans
    /\ plans' = plans \cup {p}
    /\ Edit /\ UNCHANGED <<types, clients, domains, units, cmd, config>>

\* Tenants of a deleted plan have none (SET_NULL).
DeletePlan(p) ==
    /\ p \in plans
    /\ plans' = plans \ {p}
    /\ clients' = [s \in Schemas |-> IF clients[s] # Absent /\ clients[s].plan = p
                                     THEN [clients[s] EXCEPT !.plan = Absent] ELSE clients[s]]
    /\ Edit /\ UNCHANGED <<types, domains, units, cmd, config>>

AddType(t) ==
    /\ t \notin types
    /\ types' = types \cup {t}
    /\ Edit /\ UNCHANGED <<plans, clients, domains, units, cmd, config>>

\* Mutant: on_delete does not protect the types in use.
Unprotected(t) == TRUE

Unused(t) == \A s \in Schemas : clients[s] # Absent => clients[s].type # t

DeleteType(t) ==
    /\ t \in types /\ Unused(t)
    /\ types' = types \ {t}
    /\ units' = [u \in Units |-> [units[u] EXCEPT !.tags = @ \ {t}]]
    /\ Edit /\ UNCHANGED <<plans, clients, domains, cmd>> /\ NoticeTenant

SaveUnit(u, f) ==
    /\ edits < MaxEdits /\ edits' = edits + 1
    /\ units[u] # f /\ f.tags \subseteq types
    /\ units' = [units EXCEPT ![u] = f]
    /\ UNCHANGED <<db, cmd, disturbed>> /\ NoticeTenant

-----------------------------------------------------------------------------
(* CatalogConfigAPIView.                                                   *)

\* get_applicable_units.
Applicable(t) == {u \in Units : Fits(units[u], t)}

\* TenantMainMiddleware: the request keeps the tenant's row it loaded.
Route(h) ==
    /\ config.at = "idle" /\ domains[h] # Absent
    /\ LET s == domains[h].tenant  t == clients[s].type IN
       config' = [NoRequest EXCEPT !.at = "preset", !.schema = s, !.type = t,
                                   !.ever = {u \in Units : Fits(units[u], t)}]
    /\ UNCHANGED <<db, units, cmd, edits, disturbed>>

\* get_ui_config_for_tenant follows the foreign key now: an error if the type
\* is gone.
ReadPreset ==
    /\ config.at = "preset"
    /\ config' = [config EXCEPT !.at = IF config.type \in types THEN "units" ELSE "failed"]
    /\ UNCHANGED <<db, units, cmd, edits, disturbed>>

ReadUnits ==
    /\ config.at = "units"
    /\ config' = [config EXCEPT !.at = "done", !.units = Applicable(config.type)]
    /\ UNCHANGED <<db, units, cmd, edits, disturbed>>

EndRequest ==
    /\ config.at \in {"done", "failed"}
    /\ config' = NoRequest
    /\ UNCHANGED <<db, units, cmd, edits, disturbed>>

-----------------------------------------------------------------------------
Command(c) ==
    \/ MakePlan(c) \/ MakeType(c) \/ MakeClient(c) \/ CheckHost(c)
    \/ MakeDomain(c) \/ Promote(c) \/ Sync(c)

Admin ==
    \/ \E s \in Schemas : \/ \E row \in ClientForms : SaveClient(s, row)
                          \/ DeleteClient(s)
                          \/ \E h \in Hosts, p \in BOOLEAN : SaveDomain(h, s, p)
    \/ \E h \in Hosts : DeleteDomain(h) \/ \E g \in Hosts : RenameDomain(h, g)
    \/ \E p \in Plans : AddPlan(p) \/ DeletePlan(p)
    \/ \E t \in Types : AddType(t) \/ DeleteType(t)
    \/ \E u \in Units, f \in UnitForms : SaveUnit(u, f)

Request == (\E h \in Routed : Route(h)) \/ ReadPreset \/ ReadUnits \/ EndRequest

TenantNext ==
    \/ \E c \in Procs : Command(c) \/ Kill(c) \/ \E a \in Commands : Start(c, a)
    \/ Admin
    \/ Request

TenantSpec == TenantInit /\ [][TenantNext]_tenantVars

-----------------------------------------------------------------------------
(* Every variable holds what the code can put there, and no row points at  *)
(* a row that is gone; nor does a command hold one.                        *)
TenantTypeOK ==
    /\ plans \subseteq Plans /\ types \subseteq Types
    /\ clients \in [Schemas -> Client \cup {Absent}]
    /\ domains \in [Hosts -> Domain \cup {Absent}]
    /\ \A s \in Schemas : clients[s] # Absent =>
          clients[s].plan \in plans \cup {Absent} /\ clients[s].type \in types
    /\ \A h \in Hosts : domains[h] # Absent => clients[domains[h].tenant] # Absent
    /\ units \in [Units -> [active : BOOLEAN, tags : SUBSET types]]
    /\ \A c \in Procs : /\ cmd[c].pc # "idle" => cmd[c].args \in Commands
                        /\ cmd[c].alive => clients[cmd[c].args.schema] # Absent
                        /\ cmd[c].domain # Absent => domains[cmd[c].domain].tenant = cmd[c].args.schema
    /\ config.units \subseteq Units /\ config.type \in Types \cup {Absent}
    /\ edits \in 0..MaxEdits /\ disturbed \in [Procs -> BOOLEAN]

(***************************************************************************)
(* A command that reports success has set the tenant up as it was asked,   *)
(* whatever earlier runs of either command, killed or refused at any       *)
(* point, left behind; unless somebody else wrote while it ran.            *)
(***************************************************************************)
ReportsTruth ==
    \A c \in Procs : At(c, "done") /\ ~disturbed[c] =>
        LET a == cmd[c].args IN
        /\ clients[a.schema] = [name |-> a.name, type |-> "retail", plan |-> a.plan]
        /\ domains[a.host] = [tenant |-> a.schema, primary |-> TRUE]
        /\ \A h \in Hosts \ {a.host} :
              domains[h] # Absent /\ domains[h].tenant = a.schema => ~domains[h].primary

(***************************************************************************)
(* No command touches a tenant it was not run for, nor a host of one, even *)
(* where two of them want the same host at the same time.                  *)
(***************************************************************************)
OthersUntouched ==
    [][edits' = edits =>
        /\ \A s \in Schemas : clients'[s] # clients[s] =>
              \E c \in Procs : Running(c) /\ cmd'[c] # cmd[c] /\ cmd[c].args.schema = s
        /\ \A h \in Hosts : domains'[h] # domains[h] =>
              \E c \in Procs :
                 /\ Running(c) /\ cmd'[c] # cmd[c]
                 /\ domains'[h].tenant = cmd[c].args.schema
                 /\ domains[h] # Absent => domains[h].tenant = cmd[c].args.schema]_tenantVars

(***************************************************************************)
(* While a tenant keeps its business type, a configuration request is      *)
(* answered (PROTECT keeps the type it was routed with), and every unit it *)
(* is offered has fitted the tenant at some moment of the request: the     *)
(* row loaded at the start is then as good as the tenant's own.            *)
(***************************************************************************)
ConfigAnswered ==
    config.at # "idle" /\ ~config.moved =>
        config.at # "failed" /\ config.units \subseteq config.ever

=============================================================================

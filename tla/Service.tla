------------------------------ MODULE Service -------------------------------
(***************************************************************************)
(* The service over time: it answers the requests of Access one after the  *)
(* other, in the world that the earlier ones have left.  In between, rows  *)
(* come from the handlers that the other modules model (uploads, chats,    *)
(* programs, registrations), and the process is restarted, which loses its *)
(* cache of the default tenant.                                            *)
(***************************************************************************)
EXTENDS Access, FiniteSets

CONSTANTS
  Users,       \* records of users: id, role and tenant
  Ids,         \* of rows
  Settings,    \* the values of a gate or of a score
  MaxTrail,    \* bound on the entries of the audit trail
  MaxRows      \* bound on the rows of all tenants

ASSUME ServiceAssumption ==
  /\ \A u \in Users : /\ u = [id |-> u.id, role |-> u.role, tenant |-> u.tenant]
                      /\ u.role \in Bound \cup {"super-admin"}
                      /\ u.tenant \in Slugs \cup {Absent}
  /\ \A u, v \in Users : u.id = v.id => u = v
  /\ MaxTrail \in Nat /\ MaxRows \in Nat

VARIABLE world

Names  == {u.id : u \in Users}

\* What the handlers of the other modules store; of the rest, a request stores one.
Stored == {"job", "document", "program", "student", "chat"}
Kinds  == Stored \cup {"invite", "feedback"}

-----------------------------------------------------------------------------
(* Requests *)

Bodies(op) ==
  CASE op = "IssueInvite"  -> Bound \cup {"super-admin"}
    [] op = "Feedback"     -> {"positive", "negative", "so-so"}
    [] op = "UpdateStatus" -> Statuses \cup {"closed"}
    [] op \in {"SetGate", "ComputeQuality"} -> Settings
    [] OTHER               -> {Absent}

NamesRow == {"GetJob", "DeleteDocument", "IssueInvite", "Feedback", "GetChat", "DeleteChat",
             "GetMaterialTopics", "ComputeQuality"}

RequestsFor(op, headers, slugs) ==
  [op : {op}, user : Users, header : headers, slug : slugs,
   id : IF op \in NamesRow THEN Ids ELSE {Absent}, value : Bodies(op)]

\* A header or a path may name no tenant, or one that does not exist.
Asked ==
  (UNION {RequestsFor(op, Slugs \cup {Absent}, {Absent}) : op \in InTheContext})
  \cup (UNION {RequestsFor(op, {Absent}, Slugs \cup {Absent}) : op \in InThePath \cup Platform})

\* The tenant of a user exists (a foreign key); a new row has a key of its own.
CanAsk(r) ==
  /\ r.user.tenant \in DOMAIN world.tenants \cup {Absent}
  /\ r.op = "IssueInvite" => \A x \in world.rows : x.kind = "invite" => x.id # r.id
  /\ r.op = "Feedback" => \A x \in world.rows : x.kind = "feedback" => x.id # r.id

-----------------------------------------------------------------------------
\* The migrations leave one tenant, under its new name or the old.
ServiceInit ==
  \E s \in {Pilot, Legacy} :
    world = [tenants |-> [t \in {s} |-> [status |-> "active", gate |-> Absent]],
             cached |-> Absent, rows |-> {}, trail |-> << >>,
             quality |-> [d \in Ids |-> Absent]]

Answer(r) ==
  /\ CanAsk(r)
  /\ world' = Handle(world, r).world

\* A handler of another module stores a row: a new document has no score, and a
\* new program puts the earlier ones of its tenant out of use.
Store(x) ==
  /\ \A y \in world.rows : y.kind = x.kind => y.id # x.id
  /\ LET kept == {IF x.kind = "program" /\ y.kind = "program" /\ y.tenant = x.tenant
                  THEN [y EXCEPT !.active = FALSE] ELSE y : y \in world.rows}
     IN  world' = [world EXCEPT
           !.rows = kept \cup {x},
           !.quality = IF x.kind = "document" THEN [@ EXCEPT ![x.id] = Absent] ELSE @]

\* Only a chat is asked for by its owner.
New == UNION {[kind : {k}, id : Ids, tenant : DOMAIN world.tenants,
               owner : IF k = "chat" THEN Names ELSE {Absent}, active : {TRUE}] : k \in Stored}

\* The cache is a global of the process.
RestartProcess == world' = [world EXCEPT !.cached = Absent]

WithinBounds == Len(world.trail) <= MaxTrail /\ Cardinality(world.rows) <= MaxRows

ServiceNext ==
  /\ \/ \E r \in Asked : Answer(r)
     \/ \E x \in New : Store(x)
     \/ RestartProcess
  /\ WithinBounds'

ServiceSpec == ServiceInit /\ [][ServiceNext]_world

-----------------------------------------------------------------------------
(* What holds at any time *)

\* A world that can be: rows and the cached tenant are of tenants that exist.
WorldOK(w) ==
  /\ w = [tenants |-> w.tenants, cached |-> w.cached, rows |-> w.rows,
          trail |-> w.trail, quality |-> w.quality]
  /\ DOMAIN w.tenants \subseteq Slugs
  /\ w.tenants \in [DOMAIN w.tenants -> [status : Statuses, gate : Settings \cup {Absent}]]
  /\ w.cached \in DOMAIN w.tenants \cup {Absent}
  /\ w.rows \subseteq [kind : Kinds, id : Ids, tenant : DOMAIN w.tenants,
                       owner : Names \cup {Absent}, active : BOOLEAN]
  /\ w.trail \in Seq([op : InTheContext \cup InThePath \cup Platform, actor : Names,
                      tenant : DOMAIN w.tenants])
  /\ w.quality \in [Ids -> Settings \cup {Absent}]

WorldTypeOK == WorldOK(world)

\* Whatever has happened before, and whoever asks for what: the request keeps to its
\* tenant, shows and removes what is its user's, writes only where writing is open,
\* and leaves a trace of what an administrator changes (tenant_helpers.py, deps.py).
AccessHolds == \A r \in Asked : CanAsk(r) => AccessKept(world, r, Handle(world, r))

Told(w, op, t) == \E i \in DOMAIN w.trail : w.trail[i].op = op /\ w.trail[i].tenant = t

\* The parts of a trail that accounts for a world.
TenantsCreated(w) ==
  \A s, t \in DOMAIN w.tenants : Told(w, "CreateTenant", s) \/ Told(w, "CreateTenant", t) \/ s = t

SettingsTold(w) ==
  \A t \in DOMAIN w.tenants :
    /\ w.tenants[t].status # "active" => Told(w, "UpdateStatus", t)
    /\ w.tenants[t].gate # Absent => Told(w, "SetGate", t)

RowsTold(w) ==
  \A x \in w.rows :
    /\ x.kind = "document" /\ w.quality[x.id] # Absent => Told(w, "ComputeQuality", x.tenant)
    /\ x.kind = "invite" =>
         \E i \in DOMAIN w.trail :
           w.trail[i] = [op |-> "IssueInvite", actor |-> x.owner, tenant |-> x.tenant]

ActorsEntitled(w) ==
  \A i \in DOMAIN w.trail, u \in Users :
    w.trail[i].actor = u.id =>
      \/ IsSuper(u)
      \/ /\ u.role = "tenant-admin" /\ w.trail[i].tenant = u.tenant
         /\ w.trail[i].op \notin Platform

\* The audit trail accounts for the state: all tenants but the first were created by
\* an entry, every other status, gate or score has one of its tenant, every invite
\* the one of its issuer; and no administrator of a tenant has one elsewhere.
TrailAccounts ==
  TenantsCreated(world) /\ SettingsTold(world) /\ RowsTold(world) /\ ActorsEntitled(world)

=============================================================================

------------------------------ MODULE Tenants ------------------------------
(***************************************************************************)
(* The tenants repository, in memory and in Postgres, under concurrent     *)
(* callers. In both, create looks the name and the email up one after the  *)
(* other and inserts later. In memory there is a map by id and two         *)
(* indices, each under its own mutex: save writes the indices and then the *)
(* row, delete removes the row and then its entries. In Postgres save,     *)
(* insert and delete are one statement each, under two unique constraints. *)
(***************************************************************************)
EXTENDS Integers

CONSTANTS
  TenantIds,      \* ids that create may generate
  Names, Emails,
  Callers,        \* concurrent callers
  MaxTenantCalls, \* bound on the calls made
  Nobody          \* no id, no row

VARIABLES
  backend,   \* "mem" or "pg"
  contract,  \* how the callers behave, see Contracts
  byId,      \* the rows: [name, email], or Nobody
  byName, byEmail,  \* in memory, the id of a name, of an email, or Nobody
  used,      \* ids generated so far
  at,        \* what each caller's call has still to do
  calls      \* the number of calls made

vars == <<backend, contract, byId, byName, byEmail, used, at, calls>>

\* "exclusive": calls that concern the same name or email do not overlap.
\* "racing": creates and deletes overlap at will.
\* "renaming": as exclusive, and save may change the name and email of a tenant
\* to ones no other tenant has, as its comment asks.
Contracts == {"exclusive", "racing", "renaming"}

Row == [name : Names, email : Emails]

Resting == [op |-> "idle"]

Pending ==
  {Resting}
    \cup [op : {"readEmail"}, name : Names, email : Emails, idOfName : TenantIds \cup {Nobody}]
    \cup [op : {"match"}, name : Names, email : Emails,
          idOfName : TenantIds \cup {Nobody}, idOfEmail : TenantIds \cup {Nobody}]
    \cup [op : {"saveEmail", "saveRow", "unindex"}, name : Names, email : Emails, id : TenantIds]

Stored == {t \in TenantIds : byId[t] # Nobody}

\* The unique constraints, should row t become r.
Unique(t, r) == \A s \in Stored \ {t} : byId[s].name # r.name /\ byId[s].email # r.email

\* What a lookup by name or by email finds.
IdOfName(n) ==
  IF backend = "mem" THEN byName[n]
  ELSE IF \E t \in Stored : byId[t].name = n THEN CHOOSE t \in Stored : byId[t].name = n
  ELSE Nobody

IdOfEmail(e) ==
  IF backend = "mem" THEN byEmail[e]
  ELSE IF \E t \in Stored : byId[t].email = e THEN CHOOSE t \in Stored : byId[t].email = e
  ELSE Nobody

Overlaps(n, e) == \E c \in Callers : at[c] # Resting /\ (at[c].name = n \/ at[c].email = e)

Allowed(n, e) == contract = "racing" \/ ~Overlaps(n, e)

BeginCall(c) ==
  /\ at[c] = Resting
  /\ calls < MaxTenantCalls
  /\ calls' = calls + 1
  /\ UNCHANGED <<backend, contract>>

Go(c, next) ==
  /\ at' = [at EXCEPT ![c] = next]
  /\ UNCHANGED <<backend, contract, calls>>

-----------------------------------------------------------------------------
(* create: idempotent by (name, email).                                    *)

CreateReadName(c, n, e) ==
  /\ BeginCall(c)
  /\ Allowed(n, e)
  /\ at' = [at EXCEPT ![c] = [op |-> "readEmail", name |-> n, email |-> e,
                              idOfName |-> IdOfName(n)]]
  /\ UNCHANGED <<byId, byName, byEmail, used>>

CreateReadEmail(c) ==
  /\ at[c].op = "readEmail"
  /\ Go(c, [op |-> "match", name |-> at[c].name, email |-> at[c].email,
            idOfName |-> at[c].idOfName, idOfEmail |-> IdOfEmail(at[c].email)])
  /\ UNCHANGED <<byId, byName, byEmail, used>>

\* One of the two is registered, or both are: the existing id or a conflict, and
\* nothing changes.
CreateExisting(c) ==
  /\ at[c].op = "match"
  /\ at[c].idOfName # Nobody \/ at[c].idOfEmail # Nobody
  /\ Go(c, Resting)
  /\ UNCHANGED <<byId, byName, byEmail, used>>

\* Neither is, in memory: a new id and the first step of save.
CreateNew(c) ==
  /\ at[c].op = "match" /\ backend = "mem"
  /\ at[c].idOfName = Nobody /\ at[c].idOfEmail = Nobody
  /\ \E id \in TenantIds \ used :
       /\ used' = used \cup {id}
       /\ byName' = [byName EXCEPT ![at[c].name] = id]
       /\ Go(c, [op |-> "saveEmail", name |-> at[c].name, email |-> at[c].email, id |-> id])
  /\ UNCHANGED <<byId, byEmail>>

\* Mutation of InsertNew: no unique constraint.
InsertUnchecked(c) ==
  /\ at[c].op = "match" /\ backend = "pg"
  /\ at[c].idOfName = Nobody /\ at[c].idOfEmail = Nobody
  /\ \E id \in TenantIds \ used :
       /\ used' = used \cup {id}
       /\ byId' = [byId EXCEPT ![id] = [name |-> at[c].name, email |-> at[c].email]]
  /\ Go(c, Resting)
  /\ UNCHANGED <<byName, byEmail>>

\* Neither is, in Postgres: an insert, which fails when another create got ahead.
InsertNew(c) ==
  /\ at[c].op = "match" /\ backend = "pg"
  /\ at[c].idOfName = Nobody /\ at[c].idOfEmail = Nobody
  /\ LET row == [name |-> at[c].name, email |-> at[c].email] IN
     \E id \in TenantIds \ used :
       /\ used' = used \cup {id}
       /\ byId' = IF Unique(id, row) THEN [byId EXCEPT ![id] = row] ELSE byId
  /\ Go(c, Resting)
  /\ UNCHANGED <<byName, byEmail>>

-----------------------------------------------------------------------------
(* save and delete in memory.                                              *)

\* Mutation of SaveName: only the row and the email are written.
SaveNoName(c, id, r) ==
  /\ BeginCall(c)
  /\ backend = "mem" /\ contract = "renaming"
  /\ id \in Stored
  /\ Allowed(r.name, r.email) /\ Allowed(byId[id].name, byId[id].email)
  /\ Unique(id, r)
  /\ at' = [at EXCEPT ![c] = [op |-> "saveEmail", name |-> r.name, email |-> r.email, id |-> id]]
  /\ UNCHANGED <<byId, byName, byEmail, used>>

\* A caller saves a stored tenant under another name and email. The entries of
\* the old ones stay.
SaveName(c, id, r) ==
  /\ BeginCall(c)
  /\ backend = "mem" /\ contract = "renaming"
  /\ id \in Stored
  /\ Allowed(r.name, r.email) /\ Allowed(byId[id].name, byId[id].email)
  /\ Unique(id, r)
  /\ byName' = [byName EXCEPT ![r.name] = id]
  /\ at' = [at EXCEPT ![c] = [op |-> "saveEmail", name |-> r.name, email |-> r.email, id |-> id]]
  /\ UNCHANGED <<byId, byEmail, used>>

SaveEmail(c) ==
  /\ at[c].op = "saveEmail"
  /\ byEmail' = [byEmail EXCEPT ![at[c].email] = at[c].id]
  /\ Go(c, [at[c] EXCEPT !.op = "saveRow"])
  /\ UNCHANGED <<byId, byName, used>>

SaveRow(c) ==
  /\ at[c].op = "saveRow"
  /\ byId' = [byId EXCEPT ![at[c].id] = [name |-> at[c].name, email |-> at[c].email]]
  /\ Go(c, Resting)
  /\ UNCHANGED <<byName, byEmail, used>>

DeleteRow(c, id) ==
  /\ BeginCall(c)
  /\ backend = "mem"
  /\ id \in Stored
  /\ Allowed(byId[id].name, byId[id].email)
  /\ byId' = [byId EXCEPT ![id] = Nobody]
  /\ at' = [at EXCEPT ![c] = [op |-> "unindex", name |-> byId[id].name,
                              email |-> byId[id].email, id |-> id]]
  /\ UNCHANGED <<byName, byEmail, used>>

Without(map, key, id) == IF map[key] = id THEN [map EXCEPT ![key] = Nobody] ELSE map

\* Mutation of DeleteEntries: only the name is forgotten.
DeleteNameOnly(c) ==
  /\ at[c].op = "unindex"
  /\ byName' = Without(byName, at[c].name, at[c].id)
  /\ Go(c, Resting)
  /\ UNCHANGED <<byId, byEmail, used>>

\* The entries go if they still name this tenant; the lock of the names is kept
\* while the one of the emails is taken.
DeleteEntries(c) ==
  /\ at[c].op = "unindex"
  /\ byName' = Without(byName, at[c].name, at[c].id)
  /\ byEmail' = Without(byEmail, at[c].email, at[c].id)
  /\ Go(c, Resting)
  /\ UNCHANGED <<byId, used>>

-----------------------------------------------------------------------------
(* save and delete in Postgres: one statement each.                        *)

UpsertRow(c, id, r) ==
  /\ BeginCall(c)
  /\ backend = "pg"
  /\ id \in Stored
  /\ byId' = IF Unique(id, r) THEN [byId EXCEPT ![id] = r] ELSE byId
  /\ UNCHANGED <<byName, byEmail, used, at>>

DeleteStatement(c, id) ==
  /\ BeginCall(c)
  /\ backend = "pg"
  /\ byId' = [byId EXCEPT ![id] = Nobody]
  /\ UNCHANGED <<byName, byEmail, used, at>>

-----------------------------------------------------------------------------

Init ==
  /\ backend \in {"mem", "pg"}
  /\ contract \in Contracts
  /\ byId = [t \in TenantIds |-> Nobody]
  /\ byName = [n \in Names |-> Nobody]
  /\ byEmail = [e \in Emails |-> Nobody]
  /\ used = {}
  /\ at = [c \in Callers |-> Resting]
  /\ calls = 0

MemTenantsRepo(c) ==
  \/ CreateNew(c) \/ SaveEmail(c) \/ SaveRow(c) \/ DeleteEntries(c)
  \/ \E id \in TenantIds : DeleteRow(c, id) \/ \E r \in Row : SaveName(c, id, r)

PgTenantsRepo(c) ==
  \/ InsertNew(c)
  \/ \E id \in TenantIds : DeleteStatement(c, id) \/ \E r \in Row : UpsertRow(c, id, r)

Next ==
  \E c \in Callers :
    \/ \E n \in Names, e \in Emails : CreateReadName(c, n, e)
    \/ CreateReadEmail(c) \/ CreateExisting(c)
    \/ MemTenantsRepo(c)
    \/ PgTenantsRepo(c)

Spec == Init /\ [][Next]_vars

-----------------------------------------------------------------------------

TypeOK ==
  /\ backend \in {"mem", "pg"}
  /\ contract \in Contracts
  /\ byId \in [TenantIds -> Row \cup {Nobody}]
  /\ byName \in [Names -> TenantIds \cup {Nobody}]
  /\ byEmail \in [Emails -> TenantIds \cup {Nobody}]
  /\ used \subseteq TenantIds
  /\ at \in [Callers -> Pending]
  /\ calls \in 0..MaxTenantCalls

Quiet == \A c \in Callers : at[c] = Resting

\* No two tenants share a name or an email. In memory create holds no lock from
\* its lookups to its save, so there calls about the same name or email must not
\* overlap; in Postgres the constraints make the later of two creates fail.
TenantsUnique ==
  backend = "pg" \/ contract # "racing" =>
    \A s, t \in Stored :
      s # t => byId[s].name # byId[t].name /\ byId[s].email # byId[t].email

\* Every tenant is found by its name and by its email, also after it was renamed,
\* unless creates of the same tenant overlapped in memory.
FoundByBoth ==
  (backend = "pg" \/ contract # "racing") /\ Quiet =>
    \A t \in Stored : IdOfName(byId[t].name) = t /\ IdOfEmail(byId[t].email) = t

\* What an index names is a stored tenant with that name or email, whatever
\* creates and deletes overlapped: delete spares entries that another create has
\* taken over, and no entry is written once the row may be deleted. A save that
\* renames leaves the old entries behind.
LookupsResolve ==
  contract # "renaming" /\ Quiet =>
    /\ \A n \in Names : byName[n] # Nobody => byName[n] \in Stored /\ byId[byName[n]].name = n
    /\ \A e \in Emails : byEmail[e] # Nobody => byEmail[e] \in Stored /\ byId[byEmail[e]].email = e
=============================================================================

---------------------------- MODULE Provisioning ----------------------------
(***************************************************************************)
(* cmd/provision for one serial number: runs of "provision add" and        *)
(* "provision revoke" started by operators, over the device's row, the     *)
(* logins and roles the broker's Dynamic Security plugin keeps for it (one *)
(* of each per merchant, named after merchant and serial number) and the   *)
(* mqttcfg.dat that is loaded into the device.                             *)
(*                                                                         *)
(* A run sends its broker commands one by one; each is applied at once by  *)
(* the broker, and its answer, or the command itself, can get lost.  A run *)
(* can end after any step: an error, Ctrl-C, the 60 s context.             *)
(***************************************************************************)
EXTENDS Integers, FiniteSets

CONSTANTS
  Merchants,
  NoMerchant,
  Operators,
  MaxRuns,      \* bound: runs of the command
  MaxFaults     \* bound: runs that fail on the way

ASSUME ProvisioningAssumption ==
  /\ NoMerchant \notin Merchants
  /\ MaxRuns \in Nat
  /\ MaxFaults \in Nat

VARIABLES
  owner,    \* devices.merchant_id, NoMerchant while there is no row
  active,   \* devices.status = ACTIVE
  broker,   \* per merchant: login, password, role and whether login has role
  file,     \* merchant and password in mqttcfg.dat
  step,     \* per operator: what the run does next, or how it ended
  job,      \* the merchant a run works for
  pass,     \* the password a run generated
  remove,   \* revoke -delete
  late,     \* commands without an answer that the broker may still apply
  alone,    \* history: nothing else touched the device during the run
  promise,  \* history: the success last reported, if nothing happened since
  clean,    \* history: no run has been disturbed since a run restored order
  runs, faults

row     == <<owner, active>>
request == <<job, pass, remove>>
history == <<alone, promise, clean>>
vars == <<row, broker, file, step, request, late, history, runs, faults>>

ACLs == {"subscribe", "receive", "send"}
AddSteps == {"createRole", "createClient", "setPassword", "enable",
             "getClient", "addClientRole"} \cup ACLs
RevokeSteps == {"disable", "deleteClient", "deleteRole"}
Commands == AddSteps \cup RevokeSteps
DbSteps == {"lookup", "insert", "reactivate", "resolve", "deactivate"}
Running == Commands \cup DbSteps \cup {"write"}
Ended == {"none", "done", "failed", "refused"}

\* A role is its set of ACLs with "role" itself in it, {} when there is none.
NoAccount == [login |-> "none", password |-> 0, role |-> {}, granted |-> FALSE]

Account == [login: {"none", "disabled", "enabled"}, password: 0..MaxRuns,
            role: SUBSET (ACLs \cup {"role"}), granted: BOOLEAN]

NoFile == <<NoMerchant, 0>>

TypeOK ==
  /\ owner \in Merchants \cup {NoMerchant} /\ active \in BOOLEAN
  /\ broker \in [Merchants -> Account]
  /\ file \in (Merchants \X (1..runs)) \cup {NoFile}
  /\ step \in [Operators -> Running \cup Ended]
  /\ job \in [Operators -> Merchants \cup {NoMerchant}]
  /\ pass \in [Operators -> 0..runs]
  /\ remove \in [Operators -> BOOLEAN]
  /\ late \subseteq Merchants \X Commands \X (0..runs)
  /\ alone \in [Operators -> BOOLEAN]
  /\ promise \in {"none", "added", "revoked"}
  /\ clean \in BOOLEAN
  /\ runs \in 0..MaxRuns /\ faults \in 0..MaxFaults

\* The device may be new, or registered before devices had logins.
Init ==
  /\ owner \in Merchants \cup {NoMerchant}
  /\ active \in IF owner = NoMerchant THEN {FALSE} ELSE BOOLEAN
  /\ broker = [m \in Merchants |-> NoAccount]
  /\ file = NoFile
  /\ step = [o \in Operators |-> "none"]
  /\ job = [o \in Operators |-> NoMerchant]
  /\ pass = [o \in Operators |-> 0]
  /\ remove = [o \in Operators |-> FALSE]
  /\ late = {}
  /\ alone = [o \in Operators |-> FALSE]
  /\ promise = "none" /\ clean = TRUE
  /\ runs = 0 /\ faults = 0

----------------------------------------------------------------------------
(* The Dynamic Security plugin *)

Reply(a, c) ==
  CASE c = "createRole"    -> IF a.role = {} THEN "ok" ELSE "exists"
    [] c \in ACLs          -> IF a.role = {} THEN "notFound"
                              ELSE IF c \in a.role THEN "exists" ELSE "ok"
    [] c = "createClient"  -> IF a.login # "none" THEN "exists"
                              ELSE IF a.role = {} THEN "notFound" ELSE "ok"
    [] c = "addClientRole" -> IF a.login = "none" \/ a.role = {} THEN "notFound"
                              ELSE IF a.granted THEN "internal" ELSE "ok"
    [] c = "deleteRole"    -> IF a.role = {} THEN "notFound" ELSE "ok"
    [] OTHER               -> IF a.login = "none" THEN "notFound" ELSE "ok"

\* Deleting a role takes it from its login, deleting a login leaves its role.
Apply(a, c, p) ==
  IF Reply(a, c) # "ok" THEN a ELSE
  CASE c = "createRole"    -> [a EXCEPT !.role = {"role"}]
    [] c \in ACLs          -> [a EXCEPT !.role = @ \cup {c}]
    [] c = "createClient"  -> [a EXCEPT !.login = "enabled", !.password = p,
                                        !.granted = TRUE]
    [] c = "setPassword"   -> [a EXCEPT !.password = p]
    [] c = "enable"        -> [a EXCEPT !.login = "enabled"]
    [] c = "disable"       -> [a EXCEPT !.login = "disabled"]
    [] c = "addClientRole" -> [a EXCEPT !.granted = TRUE]
    [] c = "deleteClient"  -> [NoAccount EXCEPT !.role = a.role]
    [] c = "deleteRole"    -> [a EXCEPT !.role = {}, !.granted = FALSE]
    [] OTHER               -> a

----------------------------------------------------------------------------
(* Runs *)

Busy(o) == step[o] \in Running

GoTo(o, s) == step' = [step EXCEPT ![o] = s]

Fault == faults < MaxFaults /\ faults' = faults + 1

\* Something else touches the device: nobody is alone with it any more.
Disturb ==
  /\ alone' = [o \in Operators |-> FALSE]
  /\ promise' = "none"
  /\ clean' = FALSE

\* A run begins; validateID and the merchant look-up passed.
Begin(o, s, m, delete) ==
  /\ ~Busy(o)
  /\ runs < MaxRuns
  /\ runs' = runs + 1
  /\ GoTo(o, s)
  /\ job' = [job EXCEPT ![o] = m]
  /\ pass' = [pass EXCEPT ![o] = runs + 1]
  /\ remove' = [remove EXCEPT ![o] = delete]
  /\ IF \E p \in Operators : Busy(p)
       THEN Disturb
       ELSE /\ alone' = [alone EXCEPT ![o] = TRUE]
            /\ promise' = "none"
            /\ UNCHANGED clean
  /\ UNCHANGED <<row, broker, file, late, faults>>

BeginAdd(o) == \E m \in Merchants : Begin(o, "lookup", m, FALSE)

BeginRevoke(o) == \E delete \in BOOLEAN : Begin(o, "resolve", NoMerchant, delete)

\* A run reports success.
Succeed(o, what) ==
  /\ GoTo(o, "done")
  /\ promise' = IF alone[o] THEN what ELSE "none"
  /\ clean' = (clean \/ alone[o])
  /\ UNCHANGED alone

\* The run ends with an error at any step.  A command it was waiting for may
\* have been applied, may be applied later, or never.
Fail(o) ==
  /\ Busy(o)
  /\ Fault
  /\ GoTo(o, "failed")
  /\ \/ UNCHANGED <<broker, late>>
     \/ /\ step[o] \in Commands
        /\ broker' = [broker EXCEPT ![job[o]] = Apply(@, step[o], pass[o])]
        /\ UNCHANGED late
     \/ /\ step[o] \in Commands
        /\ late' = late \cup {<<job[o], step[o], pass[o]>>}
        /\ UNCHANGED broker
  /\ UNCHANGED <<row, file, request, history, runs>>

\* The broker applies a command nobody waits for any more.
LateCommand ==
  \E l \in late :
    /\ late' = late \ {l}
    /\ broker' = [broker EXCEPT ![l[1]] = Apply(@, l[2], l[3])]
    /\ Disturb
    /\ UNCHANGED <<row, file, step, request, runs, faults>>

----------------------------------------------------------------------------
(* Add *)

\* upsertDevice, its SELECT.
Lookup(o) ==
  /\ step[o] = "lookup"
  /\ GoTo(o, CASE owner = NoMerchant -> "insert"
               [] owner = job[o]     -> "reactivate"
               [] OTHER              -> "failed")
  /\ UNCHANGED <<row, broker, file, request, late, history, runs, faults>>

\* Mutant of Insertable: the INSERT becomes an upsert.
InsertableAlways == TRUE

\* devices.device_id is unique.
Insertable == owner = NoMerchant

\* A write that is committed although the run fails is the last disjunct.
Insert(o) ==
  /\ step[o] = "insert"
  /\ IF Insertable
       THEN /\ owner' = job[o] /\ active' = TRUE
            /\ \/ GoTo(o, "createRole") /\ UNCHANGED faults
               \/ GoTo(o, "failed") /\ Fault
       ELSE GoTo(o, "failed") /\ UNCHANGED <<row, faults>>
  /\ UNCHANGED <<broker, file, request, late, history, runs>>

\* Mutant of Status: an existing row keeps its status.
StatusKept == active

Status == TRUE

Reactivate(o) ==
  /\ step[o] = "reactivate"
  /\ active' = Status
  /\ \/ GoTo(o, "createRole") /\ UNCHANGED faults
     \/ GoTo(o, "failed") /\ Fault
  /\ UNCHANGED <<owner, broker, file, request, late, history, runs>>

Render(o) == <<job[o], pass[o]>>

\* os.WriteFile, which can leave an emptied file behind.
WriteFile(o) ==
  /\ step[o] = "write"
  /\ \/ /\ file' = Render(o)
        /\ Succeed(o, "added")
        /\ UNCHANGED faults
     \/ /\ file' = NoFile
        /\ GoTo(o, "failed") /\ Fault
        /\ UNCHANGED history
  /\ UNCHANGED <<row, broker, request, late, runs>>

----------------------------------------------------------------------------
(* Revoke *)

\* Mutant of AfterResolve: only the row is revoked.
AfterResolveRow == "deactivate"

AfterResolve == "disable"

Resolve(o) ==
  /\ step[o] = "resolve"
  /\ IF owner = NoMerchant
       THEN GoTo(o, "failed") /\ UNCHANGED job
       ELSE GoTo(o, AfterResolve) /\ job' = [job EXCEPT ![o] = owner]
  /\ UNCHANGED <<row, broker, file, pass, remove, late, history, runs, faults>>

Deactivate(o) ==
  /\ step[o] = "deactivate"
  /\ active' = FALSE
  /\ \/ Succeed(o, "revoked") /\ UNCHANGED faults
     \/ GoTo(o, "failed") /\ Fault /\ UNCHANGED history
  /\ UNCHANGED <<owner, broker, file, request, late, runs>>

----------------------------------------------------------------------------
(* Broker commands *)

\* Errors a run carries on after.
Tolerated(c) ==
  CASE c = "createRole" \/ c \in ACLs -> {"exists"}
    [] c = "createClient"             -> {"exists"}
    [] c \in RevokeSteps              -> {"notFound"}
    [] OTHER                          -> {}

\* Mutants of Missing and AfterRotation: the role is always added, and a
\* disabled login is not enabled again.
MissingAlways(a) == TRUE
AfterRotationRoles == "getClient"

\* addClientRole is an internal error for a role the login has.
Missing(a) == ~a.granted

AfterRotation == "enable"

\* ensureRole, ensureClient and Revoke: what follows a command that succeeded
\* or whose error is tolerated.
Follow(o, reply) ==
  CASE step[o] = "createRole"    -> "subscribe"
    [] step[o] = "subscribe"     -> "receive"
    [] step[o] = "receive"       -> "send"
    [] step[o] = "send"          -> "createClient"
    [] step[o] = "createClient"  -> IF reply = "exists" THEN "setPassword" ELSE "write"
    [] step[o] = "setPassword"   -> AfterRotation
    [] step[o] = "enable"        -> "getClient"
    [] step[o] = "getClient"     -> IF Missing(broker[job[o]])
                                      THEN "addClientRole" ELSE "write"
    [] step[o] = "addClientRole" -> "write"
    [] step[o] = "disable"       -> IF remove[o] THEN "deleteClient" ELSE "deactivate"
    [] step[o] = "deleteClient"  -> "deleteRole"
    [] step[o] = "deleteRole"    -> "deactivate"

\* dynsec's do(): the command is applied and answered.
Command(o) ==
  /\ step[o] \in Commands
  /\ LET reply == Reply(broker[job[o]], step[o]) IN
       GoTo(o, IF reply \in {"ok"} \cup Tolerated(step[o])
                 THEN Follow(o, reply) ELSE "refused")
  /\ broker' = [broker EXCEPT ![job[o]] = Apply(@, step[o], pass[o])]
  /\ UNCHANGED <<row, file, request, late, history, runs, faults>>

----------------------------------------------------------------------------
Next ==
  \/ \E o \in Operators :
       \/ BeginAdd(o) \/ Lookup(o) \/ Insert(o) \/ Reactivate(o) \/ WriteFile(o)
       \/ BeginRevoke(o) \/ Resolve(o) \/ Deactivate(o)
       \/ Command(o) \/ Fail(o)
  \/ LateCommand

Spec == Init /\ [][Next]_vars

----------------------------------------------------------------------------
(* Properties *)

Works(m, p) ==
  /\ owner = m /\ active
  /\ broker[m] = [login |-> "enabled", password |-> p, granted |-> TRUE,
                  role |-> ACLs \cup {"role"}]

\* After "provision add" reported success the device works with the file it
\* wrote, whatever earlier runs left half done (provisioning.go:75).
AddDelivers == promise = "added" => Works(file[1], file[2])

\* After "provision revoke" reported success the device is INACTIVE and its
\* login, if it has one, refuses it.
RevokeDelivers ==
  promise = "revoked" => ~active /\ broker[owner].login # "enabled"

\* A run that had the device for itself is never refused by the broker:
\* no half-done run leaves a state another run cannot repair.
RerunsAreSafe == \A o \in Operators : step[o] = "refused" => ~alone[o]

\* An INACTIVE device cannot log in, after failed runs too: add activates the
\* row before the login, revoke disables the login before the row.  Only
\* overlapping runs and late commands break this, until the next lone success.
InactiveIsLockedOut ==
  clean /\ owner # NoMerchant /\ ~active => broker[owner].login # "enabled"

\* Two operators adding one device for two merchants never leave credentials
\* at the merchant that does not own the row.
OnlyOwnerHasAccount == \A m \in Merchants : broker[m] # NoAccount => owner = m

(* Why they hold: an invariant every step preserves *)

Upsert == {"lookup", "insert"}

\* Steps of a run that knows the device to belong to its merchant.
Working == Running \ (Upsert \cup {"resolve"})

RunInv ==
  /\ \A l \in late : l[1] = owner
  /\ \A o \in Operators :
       /\ Busy(o) => pass[o] \in 1..runs
       /\ step[o] \in Upsert => job[o] \in Merchants
       /\ step[o] \in Working => job[o] = owner /\ owner \in Merchants

\* What it means to be alone.
AloneInv ==
  \A o \in Operators : Busy(o) =>
    /\ clean => alone[o]
    /\ promise = "none"
    /\ alone[o] => \A p \in Operators : Busy(p) => p = o

RolesInv == \A m \in Merchants : broker[m].role = {} \/ "role" \in broker[m].role

\* What a run has reached when the device was its own since it began.
ReachedByAdd(a, s, p) ==
  /\ s \in AddSteps \cup {"write"} => active
  /\ s \in (AddSteps \cup {"write"}) \ {"createRole"} => "role" \in a.role
  /\ s \in (AddSteps \cup {"write"}) \ {"createRole", "subscribe"}
       => "subscribe" \in a.role
  /\ s \in (AddSteps \cup {"write"}) \ {"createRole", "subscribe", "receive"}
       => "receive" \in a.role
  /\ s \in (AddSteps \cup {"write"}) \ ({"createRole"} \cup ACLs) => "send" \in a.role
  /\ s \in {"setPassword", "enable", "getClient", "addClientRole"} => a.login # "none"
  /\ s \in {"enable", "getClient", "addClientRole", "write"} => a.password = p
  /\ s \in {"getClient", "addClientRole", "write"} => a.login = "enabled"
  /\ s = "addClientRole" => ~a.granted
  /\ s = "write" => a.granted

ReachedByRevoke(a, s) ==
  s \in {"deleteClient", "deleteRole", "deactivate"} => a.login # "enabled"

Reached ==
  \A o \in Operators : alone[o] /\ step[o] \in Working =>
    /\ ReachedByAdd(broker[owner], step[o], pass[o])
    /\ ReachedByRevoke(broker[owner], step[o])

PromiseInv == promise # "none" => owner \in Merchants

IInv == /\ TypeOK /\ RunInv /\ AloneInv /\ RolesInv /\ Reached /\ PromiseInv
        /\ OnlyOwnerHasAccount /\ RerunsAreSafe /\ InactiveIsLockedOut
        /\ AddDelivers /\ RevokeDelivers

=============================================================================

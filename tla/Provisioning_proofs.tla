------------------------ MODULE Provisioning_proofs ------------------------
(***************************************************************************)
(* Proofs about Provisioning for any merchants, any number of operators,   *)
(* runs, failures and late commands.                                       *)
(***************************************************************************)
EXTENDS Provisioning, TLAPS

----------------------------------------------------------------------------
(* The plugin's operators *)

LEMMA AccountFields ==
  ASSUME NEW a \in Account
  PROVE  /\ a = [login |-> a.login, password |-> a.password, role |-> a.role,
                 granted |-> a.granted]
         /\ a.login \in {"none", "disabled", "enabled"}
         /\ a.password \in 0..MaxRuns
         /\ a.role \in SUBSET (ACLs \cup {"role"})
         /\ a.granted \in BOOLEAN
  BY DEF Account

\* Every command leaves an account an account.
LEMMA ApplyType ==
  ASSUME NEW a \in Account, NEW c \in Commands, NEW p \in 0..MaxRuns
  PROVE  Apply(a, c, p) \in Account
<1>0. 0 \in 0..MaxRuns
  BY ProvisioningAssumption
<1>1. CASE Reply(a, c) # "ok"
  BY <1>1 DEF Apply
<1>2. CASE Reply(a, c) = "ok" /\ c \in ACLs
  BY <1>2, AccountFields DEF Apply, Account, ACLs
<1>3. CASE Reply(a, c) = "ok" /\ c \in AddSteps \ ACLs
  BY <1>3, AccountFields DEF Apply, Account, ACLs, AddSteps
<1>4. CASE Reply(a, c) = "ok" /\ c \in RevokeSteps
  BY <1>0, <1>4, AccountFields DEF Apply, Account, NoAccount, ACLs, RevokeSteps
<1>5. QED BY <1>1, <1>2, <1>3, <1>4 DEF Commands

\* A role always contains itself.
LEMMA ApplyRole ==
  ASSUME NEW a \in Account, NEW c \in Commands, NEW p \in 0..MaxRuns,
         a.role = {} \/ "role" \in a.role
  PROVE  Apply(a, c, p).role = {} \/ "role" \in Apply(a, c, p).role
  BY DEF Apply, Reply, Account, NoAccount, ACLs, Commands, AddSteps, RevokeSteps

\* Replies and follow-ups are known to the run.
LEMMA FollowType ==
  ASSUME NEW o \in Operators, step[o] \in Commands, NEW reply
  PROVE  Follow(o, reply) \in Working
  BY DEF Follow, Commands, AddSteps, RevokeSteps, ACLs, Working, Running,
         DbSteps, Upsert, AfterRotation

\* The steps of a run and the ways it ends differ.
LEMMA Steps ==
  /\ Commands \subseteq Working
  /\ Working \subseteq Running
  /\ {"write", "reactivate", "deactivate"} \subseteq Working
  /\ Upsert \subseteq Running
  /\ "resolve" \in Running \ Working
  /\ Running \cap Ended = {}
  /\ Upsert \cap Working = {}
  BY DEF Commands, AddSteps, RevokeSteps, ACLs, Working, Running, DbSteps,
         Upsert, Ended

LEMMA InitIInv == Init => IInv
<1> SUFFICES ASSUME Init PROVE IInv
  OBVIOUS
<1>1. TypeOK
  <2>1. NoAccount \in Account
    BY ProvisioningAssumption DEF NoAccount, Account
  <2>2. broker \in [Merchants -> Account]
    BY <2>1 DEF Init
  <2>3. step \in [Operators -> Running \cup Ended]
    BY DEF Init, Ended
  <2>4. runs \in 0..MaxRuns /\ faults \in 0..MaxFaults /\ 0 \in 0..runs
    BY ProvisioningAssumption DEF Init
  <2>5. QED BY <2>2, <2>3, <2>4 DEF Init, TypeOK, NoFile
<1>2. \A o \in Operators : ~Busy(o) /\ step[o] \notin Working \cup Upsert
  BY Steps DEF Init, Busy, Ended
<1>3. RunInv /\ AloneInv /\ Reached
  BY <1>2 DEF Init, RunInv, AloneInv, Reached
<1>4. RolesInv /\ PromiseInv /\ OnlyOwnerHasAccount /\ RerunsAreSafe
      /\ InactiveIsLockedOut /\ AddDelivers /\ RevokeDelivers
  BY DEF Init, RolesInv, PromiseInv, OnlyOwnerHasAccount, RerunsAreSafe,
         InactiveIsLockedOut, AddDelivers, RevokeDelivers, NoAccount
<1>5. QED BY <1>1, <1>3, <1>4 DEF IInv

----------------------------------------------------------------------------
(* What a step leaves as it was *)

\* What is known of a run that works on the device.
LEMMA WorkingRun ==
  ASSUME IInv, NEW o \in Operators, step[o] \in Working
  PROVE  /\ Busy(o) /\ promise = "none"
         /\ job[o] = owner /\ owner \in Merchants
         /\ pass[o] \in 1..runs /\ pass[o] \in 0..runs /\ pass[o] \in 0..MaxRuns
         /\ broker[owner] \in Account
         /\ broker[owner].role = {} \/ "role" \in broker[owner].role
         /\ alone[o] => /\ ReachedByAdd(broker[owner], step[o], pass[o])
                        /\ ReachedByRevoke(broker[owner], step[o])
<1>1. Busy(o)
  BY Steps DEF Busy
<1>2. pass[o] \in 1..runs /\ job[o] = owner /\ owner \in Merchants
  BY <1>1 DEF IInv, RunInv
<1>3. pass[o] \in 0..MaxRuns
  BY <1>2, ProvisioningAssumption DEF IInv, TypeOK
<1>4. pass[o] \in 0..runs /\ broker[owner] \in Account
  BY <1>2 DEF IInv, TypeOK
<1>5. promise = "none"
  BY <1>1 DEF IInv, AloneInv
<1>6. broker[owner].role = {} \/ "role" \in broker[owner].role
  BY <1>2 DEF IInv, RolesInv
<1>7. QED BY <1>1, <1>2, <1>3, <1>4, <1>5, <1>6 DEF IInv, Reached

\* A step of one run moves that run only.
LEMMA Moves ==
  ASSUME IInv, NEW o \in Operators, NEW s \in Running \cup Ended, GoTo(o, s)
  PROVE  /\ step' \in [Operators -> Running \cup Ended]
         /\ \A p \in Operators : step'[p] = IF p = o THEN s ELSE step[p]
  BY DEF IInv, TypeOK, GoTo

\* A run that is alone is the only one.
LEMMA OnlyRun ==
  ASSUME IInv, NEW o \in Operators, Busy(o), NEW p \in Operators, Busy(p), alone[p]
  PROVE  p = o
  BY DEF IInv, AloneInv

\* Nobody runs when a run that was alone succeeds.
LEMMA SuccessAlone ==
  ASSUME IInv, NEW o \in Operators, Busy(o), NEW what \in {"added", "revoked"},
         Succeed(o, what)
  PROVE  /\ AloneInv'
         /\ alone' = alone /\ promise' \in {"none", "added", "revoked"}
         /\ clean' \in BOOLEAN
         /\ step' \in [Operators -> Running \cup Ended]
         /\ \A p \in Operators : step'[p] = IF p = o THEN "done" ELSE step[p]
<1>1. /\ step' \in [Operators -> Running \cup Ended]
      /\ \A p \in Operators : step'[p] = IF p = o THEN "done" ELSE step[p]
  BY Moves DEF Succeed, Ended
<1>2. \A p \in Operators : Busy(p)' => Busy(p) /\ p # o
  BY <1>1, Steps DEF Busy, Ended
<1>3. CASE alone[o]
  <2>1. \A p \in Operators : ~Busy(p)'
    BY <1>2, <1>3 DEF IInv, AloneInv
  <2>2. AloneInv'
    BY <2>1 DEF AloneInv
  <2>3. QED BY <1>1, <1>3, <2>2 DEF Succeed, IInv, TypeOK
<1>4. CASE ~alone[o]
  <2>1. alone' = alone /\ promise' = "none" /\ (clean' <=> clean)
    BY <1>4 DEF Succeed, IInv, TypeOK
  <2>2. AloneInv'
    BY <1>2, <2>1 DEF IInv, AloneInv
  <2>3. QED BY <1>1, <2>1, <2>2 DEF Succeed, IInv, TypeOK
<1>5. QED BY <1>3, <1>4

\* A command keeps the device's account in order, and nobody else's changes.
LEMMA Applied ==
  ASSUME IInv, NEW m \in Merchants, m = owner, NEW c \in Commands,
         NEW p \in 0..MaxRuns, broker' = [broker EXCEPT ![m] = Apply(@, c, p)],
         UNCHANGED owner
  PROVE  /\ broker' \in [Merchants -> Account]
         /\ RolesInv' /\ OnlyOwnerHasAccount'
         /\ broker'[owner] = Apply(broker[owner], c, p)
<1>1. broker \in [Merchants -> Account] /\ broker[m] \in Account
  BY DEF IInv, TypeOK
<1>2. Apply(broker[m], c, p) \in Account
  BY <1>1, ApplyType
<1>3. \A n \in Merchants : broker'[n] = IF n = m THEN Apply(broker[m], c, p)
                                                  ELSE broker[n]
  BY <1>1
<1>4. Apply(broker[m], c, p).role = {} \/ "role" \in Apply(broker[m], c, p).role
  BY <1>1, ApplyRole DEF IInv, RolesInv
<1>5. RolesInv'
  BY <1>3, <1>4 DEF IInv, RolesInv
<1>6. OnlyOwnerHasAccount'
  BY <1>3 DEF IInv, OnlyOwnerHasAccount
<1>7. QED BY <1>1, <1>2, <1>3, <1>5, <1>6

----------------------------------------------------------------------------
(* How far a run has come *)

\* A run that is alone is never refused.
LEMMA NotRefused ==
  ASSUME NEW a \in Account, NEW s \in Commands, NEW p,
         a.role = {} \/ "role" \in a.role,
         ReachedByAdd(a, s, p)
  PROVE  Reply(a, s) \in {"ok"} \cup Tolerated(s)
<1>1. CASE s \in ACLs \cup {"createRole", "createClient"}
  <2>1. CASE s = "createRole"
    <3>1. Tolerated(s) = {"exists"}
      BY <2>1 DEF Tolerated, ACLs, RevokeSteps
    <3>2. Reply(a, s) \in {"ok", "exists"}
      BY <2>1 DEF Reply, ACLs
    <3>3. QED BY <3>1, <3>2
  <2>2. CASE s \in ACLs \cup {"createClient"}
    <3>1. "role" \in a.role
      BY <2>2 DEF ReachedByAdd, AddSteps, ACLs
    <3>2. a.role # {}
      BY <3>1
    <3>3. Tolerated(s) = {"exists"}
      BY <2>2 DEF Tolerated, ACLs, RevokeSteps
    <3>4. Reply(a, s) \in {"ok", "exists"}
      BY <2>2, <3>2 DEF Reply, ACLs
    <3>5. QED BY <3>3, <3>4
  <2>3. QED BY <1>1, <2>1, <2>2
<1>2. CASE s \in AddSteps \ (ACLs \cup {"createRole", "createClient"})
  BY <1>2 DEF Reply, Tolerated, ReachedByAdd, AddSteps, ACLs
<1>3. CASE s \in RevokeSteps
  BY <1>3 DEF Reply, Tolerated, RevokeSteps, ACLs
<1>4. QED BY <1>1, <1>2, <1>3 DEF Commands

\* Each command brings the account where the next step expects it.
LEMMA NextReached ==
  ASSUME IInv, NEW o \in Operators, step[o] \in Commands, alone[o],
         NEW reply, reply = Reply(broker[owner], step[o]),
         NEW b, b = Apply(broker[owner], step[o], pass[o])
  PROVE  /\ ReachedByAdd(b, Follow(o, reply), pass[o])
         /\ ReachedByRevoke(b, Follow(o, reply))
<1> DEFINE a == broker[owner]
<1>1. /\ a \in Account /\ (a.role = {} \/ "role" \in a.role) /\ job[o] = owner
      /\ ReachedByAdd(a, step[o], pass[o]) /\ ReachedByRevoke(a, step[o])
      /\ reply \in {"ok"} \cup Tolerated(step[o])
  BY WorkingRun, Steps, NotRefused
<1> HIDE DEF a
<1>a. a = broker[owner]
  BY DEF a
<1>2. CASE step[o] \in ACLs \cup {"createRole"}
  <2>1. CASE step[o] = "createRole"
    BY <1>1, <2>1, <1>a, AccountFields
       DEF ReachedByAdd, ReachedByRevoke, Follow, Apply, Reply, AddSteps, ACLs,
           Tolerated, Account
  <2>2. CASE step[o] = "subscribe"
    BY <1>1, <2>2, <1>a, AccountFields
       DEF ReachedByAdd, ReachedByRevoke, Follow, Apply, Reply, AddSteps, ACLs,
           Tolerated, Account
  <2>3. CASE step[o] = "receive"
    BY <1>1, <2>3, <1>a, AccountFields
       DEF ReachedByAdd, ReachedByRevoke, Follow, Apply, Reply, AddSteps, ACLs,
           Tolerated, Account
  <2>4. CASE step[o] = "send"
    BY <1>1, <2>4, <1>a, AccountFields
       DEF ReachedByAdd, ReachedByRevoke, Follow, Apply, Reply, AddSteps, ACLs,
           Tolerated, Account
  <2>5. QED BY <1>2, <2>1, <2>2, <2>3, <2>4 DEF ACLs, RevokeSteps
<1>3. CASE step[o] = "createClient"
  <2>1. "role" \in a.role /\ "subscribe" \in a.role /\ "receive" \in a.role
        /\ "send" \in a.role /\ active
    BY <1>1, <1>3 DEF ReachedByAdd, AddSteps, ACLs
  <2>2. CASE a.login # "none"
    <3>1. b = a /\ reply = "exists"
      BY <1>3, <1>a, <2>2 DEF Apply, Reply, ACLs
    <3>2. Follow(o, reply) = "setPassword"
      BY <1>3, <3>1 DEF Follow
    <3>3. QED BY <2>1, <2>2, <3>1, <3>2 DEF ReachedByAdd, ReachedByRevoke, AddSteps, ACLs
  <2>3. CASE a.login = "none"
    <3>1. reply = "ok"
      BY <1>3, <1>a, <2>1, <2>3 DEF Reply, ACLs
    <3>2. b = [a EXCEPT !.login = "enabled", !.password = pass[o], !.granted = TRUE]
      BY <1>3, <1>a, <3>1 DEF Apply, ACLs
    <3>3. /\ b.login = "enabled" /\ b.password = pass[o] /\ b.granted /\ b.role = a.role
      BY <1>1, <3>2 DEF Account
    <3>4. Follow(o, reply) = "write"
      BY <1>3, <3>1 DEF Follow
    <3>5. QED BY <2>1, <3>3, <3>4 DEF ReachedByAdd, ReachedByRevoke, AddSteps, ACLs
  <2>4. QED BY <2>2, <2>3
<1>4. CASE step[o] \in {"setPassword", "enable", "getClient", "addClientRole"}
  <2>1. CASE step[o] = "setPassword"
    BY <1>1, <2>1, <1>a, AccountFields
       DEF ReachedByAdd, ReachedByRevoke, Follow, Apply, Reply, AddSteps, ACLs,
           Tolerated, Account, AfterRotation, Missing
  <2>2. CASE step[o] = "enable"
    BY <1>1, <2>2, <1>a, AccountFields
       DEF ReachedByAdd, ReachedByRevoke, Follow, Apply, Reply, AddSteps, ACLs,
           Tolerated, Account, AfterRotation, Missing
  <2>3. CASE step[o] = "getClient"
    BY <1>1, <2>3, <1>a, AccountFields
       DEF ReachedByAdd, ReachedByRevoke, Follow, Apply, Reply, AddSteps, ACLs,
           Tolerated, Account, AfterRotation, Missing
  <2>4. CASE step[o] = "addClientRole"
    BY <1>1, <2>4, <1>a, AccountFields
       DEF ReachedByAdd, ReachedByRevoke, Follow, Apply, Reply, AddSteps, ACLs,
           Tolerated, Account, AfterRotation, Missing
  <2>5. QED BY <1>4, <2>1, <2>2, <2>3, <2>4
<1>5. CASE step[o] \in RevokeSteps
  <2>1. CASE step[o] = "disable"
    BY <1>1, <2>1, <1>a, AccountFields
       DEF ReachedByAdd, ReachedByRevoke, Follow, Apply, Reply, AddSteps, ACLs,
           Tolerated, Account, NoAccount
  <2>2. CASE step[o] = "deleteClient"
    BY <1>1, <2>2, <1>a, AccountFields
       DEF ReachedByAdd, ReachedByRevoke, Follow, Apply, Reply, AddSteps, ACLs,
           Tolerated, Account, NoAccount
  <2>3. CASE step[o] = "deleteRole"
    BY <1>1, <2>3, <1>a, AccountFields
       DEF ReachedByAdd, ReachedByRevoke, Follow, Apply, Reply, AddSteps, ACLs,
           Tolerated, Account, NoAccount
  <2>4. QED BY <1>5, <2>1, <2>2, <2>3 DEF ACLs, RevokeSteps
<1>6. QED BY <1>2, <1>3, <1>4, <1>5 DEF Commands, AddSteps

----------------------------------------------------------------------------
(* Steps *)

\* A step of a run that neither begins nor succeeds keeps the invariant, if it
\* keeps the row and the account in order and the run knows where it stands.
LEMMA RunStep ==
  ASSUME IInv, NEW o \in Operators, Busy(o),
         step' \in [Operators -> Running \cup Ended],
         \A p \in Operators : p # o => step'[p] = step[p] /\ job'[p] = job[p],
         job' \in [Operators -> Merchants \cup {NoMerchant}],
         owner' = owner \/ (owner = NoMerchant /\ owner' \in Merchants),
         active' \in BOOLEAN,
         broker' \in [Merchants -> Account],
         RolesInv', OnlyOwnerHasAccount', InactiveIsLockedOut',
         late' \subseteq Merchants \X Commands \X (0..runs),
         \A l \in late' : l \in late \/ l[1] = owner',
         faults' \in 0..MaxFaults,
         file' \in {file, NoFile}, UNCHANGED <<pass, remove, history, runs>>,
         step'[o] \in Upsert => job'[o] \in Merchants,
         step'[o] \in Working => job'[o] = owner' /\ owner' \in Merchants,
         step'[o] \in Working /\ alone[o] =>
           /\ ReachedByAdd(broker[owner], step[o], pass[o])'
           /\ ReachedByRevoke(broker[owner], step[o])',
         step'[o] = "refused" => ~alone[o]
  PROVE  IInv'
<1>0. promise = "none" /\ promise' = "none" /\ alone' = alone /\ clean' = clean
      /\ (Busy(o)' => Busy(o))
  BY DEF IInv, AloneInv, history
<1>1. TypeOK'
  BY DEF IInv, TypeOK, history
<1>2. \A p \in Operators : p # o => (Busy(p)' <=> Busy(p))
  BY DEF Busy
<1>3. AloneInv'
  BY <1>0, <1>2 DEF IInv, AloneInv
<1>4. RunInv'
  <2>1. \A l \in late' : l[1] = owner'
    <3>1. CASE owner' = owner
      BY <3>1 DEF IInv, RunInv
    <3>2. CASE owner = NoMerchant
      <4>1. late = {}
        BY <3>2, ProvisioningAssumption DEF IInv, RunInv, TypeOK
      <4>2. QED BY <4>1
    <3>3. QED BY <3>1, <3>2
  <2>2. \A p \in Operators : Busy(p)' => pass'[p] \in 1..runs'
    BY <1>0, <1>2 DEF IInv, RunInv
  <2>3. \A p \in Operators : step'[p] \in Upsert => job'[p] \in Merchants
    BY DEF IInv, RunInv
  <2>4. \A p \in Operators :
          step'[p] \in Working => job'[p] = owner' /\ owner' \in Merchants
    <3>1. CASE owner' = owner
      BY <3>1 DEF IInv, RunInv
    <3>2. CASE owner = NoMerchant
      BY <3>2, ProvisioningAssumption DEF IInv, RunInv
    <3>3. QED BY <3>1, <3>2
  <2>5. QED BY <2>1, <2>2, <2>3, <2>4 DEF RunInv
<1>5. Reached'
  <2> SUFFICES ASSUME NEW p \in Operators, alone'[p], step'[p] \in Working
               PROVE  /\ ReachedByAdd(broker[owner], step[p], pass[p])'
                      /\ ReachedByRevoke(broker[owner], step[p])'
    BY DEF Reached
  <2>1. p = o
    <3>1. p # o => Busy(p)
      BY Steps DEF Busy
    <3>2. QED BY <1>0, <3>1, OnlyRun
  <2>2. QED BY <1>0, <2>1
<1>6. RerunsAreSafe'
  BY <1>0 DEF IInv, RerunsAreSafe
<1>7. PromiseInv' /\ AddDelivers' /\ RevokeDelivers'
  BY <1>0 DEF PromiseInv, AddDelivers, RevokeDelivers
<1>8. QED BY <1>1, <1>3, <1>4, <1>5, <1>6, <1>7 DEF IInv

\* The same, when the row, the account and the queue stay as they are.
LEMMA QuietStep ==
  ASSUME IInv, NEW o \in Operators, Busy(o),
         step' \in [Operators -> Running \cup Ended],
         \A p \in Operators : p # o => step'[p] = step[p] /\ job'[p] = job[p],
         job' \in [Operators -> Merchants \cup {NoMerchant}],
         UNCHANGED <<row, broker, late, file, pass, remove, history, runs>>,
         faults' \in 0..MaxFaults,
         step'[o] \in Upsert => job'[o] \in Merchants,
         step'[o] \in Working => job'[o] = owner /\ owner \in Merchants,
         step'[o] \in Working => step'[o] \in {"reactivate", "disable"},
         step'[o] # "refused"
  PROVE  IInv'
<1>1. /\ owner' = owner /\ active' = active /\ broker' = broker /\ late' = late
      /\ clean' = clean /\ alone' = alone
  BY DEF row, history
<1>2. /\ active' \in BOOLEAN /\ broker' \in [Merchants -> Account]
      /\ late' \subseteq Merchants \X Commands \X (0..runs)
      /\ RolesInv' /\ OnlyOwnerHasAccount' /\ InactiveIsLockedOut'
  BY <1>1 DEF IInv, TypeOK, RolesInv, OnlyOwnerHasAccount, InactiveIsLockedOut
<1>3. step'[o] \in Working =>
        /\ ReachedByAdd(broker[owner], step[o], pass[o])'
        /\ ReachedByRevoke(broker[owner], step[o])'
  BY DEF ReachedByAdd, ReachedByRevoke, AddSteps, ACLs
<1>4. UNCHANGED <<file, pass, remove, history, runs>>
  OBVIOUS
<1>5. \A l \in late' : l \in late \/ l[1] = owner'
  BY <1>1
<1>6. /\ owner' = owner \/ (owner = NoMerchant /\ owner' \in Merchants)
      /\ step'[o] \in Working => job'[o] = owner' /\ owner' \in Merchants
      /\ step'[o] = "refused" => ~alone[o]
  BY <1>1
<1>7. step'[o] \in Working /\ alone[o] =>
        /\ ReachedByAdd(broker[owner], step[o], pass[o])'
        /\ ReachedByRevoke(broker[owner], step[o])'
  BY <1>3
<1>8. QED BY <1>2, <1>4, <1>5, <1>6, <1>7, RunStep

LEMMA LookupStep == ASSUME IInv, NEW o \in Operators, Lookup(o) PROVE IInv'
<1>1. /\ Busy(o) /\ job[o] \in Merchants
      /\ step'[o] \in {"insert", "reactivate", "failed"}
      /\ step'[o] = "reactivate" => owner = job[o]
      /\ \E s \in Running \cup Ended : GoTo(o, s)
  <2>1. step[o] \in Upsert /\ Busy(o)
    BY Steps DEF Lookup, Upsert, Busy
  <2>2. CASE GoTo(o, "insert")
    BY <2>1, <2>2 DEF IInv, TypeOK, RunInv, GoTo, Running, DbSteps
  <2>3. CASE GoTo(o, "reactivate") /\ owner = job[o]
    BY <2>1, <2>3 DEF IInv, TypeOK, RunInv, GoTo, Running, DbSteps
  <2>4. CASE GoTo(o, "failed")
    BY <2>1, <2>4 DEF IInv, TypeOK, RunInv, GoTo, Ended
  <2>5. QED BY <2>2, <2>3, <2>4, ProvisioningAssumption DEF Lookup
<1>2. /\ step' \in [Operators -> Running \cup Ended]
      /\ \A p \in Operators : p # o => step'[p] = step[p]
  BY <1>1, Moves
<1>3. /\ job' = job /\ faults' = faults
      /\ UNCHANGED <<row, broker, late, file, pass, remove, history, runs>>
  BY DEF Lookup, request
<1>4. step'[o] \in Working => step'[o] = "reactivate"
  BY <1>1, Steps DEF Upsert, Ended
<1>5. QED BY <1>1, <1>2, <1>3, <1>4, QuietStep DEF IInv, TypeOK

LEMMA ResolveStep == ASSUME IInv, NEW o \in Operators, Resolve(o) PROVE IInv'
<1>1. Busy(o)
  BY DEF Resolve, Busy, Running, DbSteps
<1>2. CASE owner = NoMerchant
  <2>1. GoTo(o, "failed") /\ job' = job
    BY <1>2 DEF Resolve
  <2>2. QED BY <1>1, <2>1, Moves, QuietStep, Steps
            DEF Resolve, IInv, TypeOK, Ended
<1>3. CASE owner # NoMerchant
  <2>1. GoTo(o, "disable") /\ job' = [job EXCEPT ![o] = owner] /\ owner \in Merchants
    BY <1>3 DEF Resolve, AfterResolve, IInv, TypeOK
  <2>2. "disable" \in Running /\ "disable" \notin Upsert
    BY DEF Running, Commands, RevokeSteps, Upsert
  <2>3. QED BY <1>1, <2>1, <2>2, Moves, QuietStep DEF Resolve, IInv, TypeOK
<1>4. QED BY <1>2, <1>3

\* A run that fails without touching anything.
LEMMA QuietFailure ==
  ASSUME IInv, NEW o \in Operators, Busy(o), GoTo(o, "failed"), Fault,
         UNCHANGED <<row, broker, late, file, request, history, runs>>
  PROVE  IInv'
<1>1. faults' \in 0..MaxFaults
  BY ProvisioningAssumption DEF Fault, IInv, TypeOK
<1>2. job' = job
  BY DEF request
<1>3. "failed" \in Ended /\ "failed" \notin Upsert \cup Working
  BY Steps DEF Ended
<1>4. QED BY <1>1, <1>2, <1>3, Moves, QuietStep DEF IInv, TypeOK, request

LEMMA InsertStep == ASSUME IInv, NEW o \in Operators, Insert(o) PROVE IInv'
<1>1. Busy(o) /\ job[o] \in Merchants
  BY Steps DEF Insert, Busy, Upsert, IInv, RunInv
<1>2. CASE owner # NoMerchant
  <2>1. GoTo(o, "failed") /\ UNCHANGED <<row, faults>>
    BY <1>2 DEF Insert, Insertable
  <2>2. "failed" \in Ended /\ "failed" \notin Upsert \cup Working
    BY Steps DEF Ended
  <2>3. job' = job /\ pass' = pass /\ remove' = remove
    BY DEF Insert, request
  <2>4. QED BY <1>1, <2>1, <2>2, <2>3, Moves, QuietStep DEF Insert, IInv, TypeOK
<1>3. CASE owner = NoMerchant
  <2>1. /\ owner' = job[o] /\ active' = TRUE /\ broker' = broker /\ late' = late
        /\ job' = job /\ alone' = alone /\ clean' = clean
        /\ UNCHANGED <<file, pass, remove, history, runs>>
    BY <1>3 DEF Insert, Insertable, request, history
  <2>2. GoTo(o, "createRole") \/ GoTo(o, "failed")
    BY <1>3 DEF Insert, Insertable
  <2>3. faults' \in 0..MaxFaults
    BY <1>3, ProvisioningAssumption DEF Insert, Insertable, Fault, IInv, TypeOK
  <2>4. /\ step' \in [Operators -> Running \cup Ended]
        /\ \A p \in Operators : p # o => step'[p] = step[p]
        /\ step'[o] \in {"createRole", "failed"}
    BY <2>2, Moves DEF Running, Commands, AddSteps, Ended
  <2>5. \A m \in Merchants : broker[m] = NoAccount
    BY <1>3, ProvisioningAssumption DEF IInv, OnlyOwnerHasAccount
  <2>6. RolesInv' /\ OnlyOwnerHasAccount' /\ InactiveIsLockedOut'
    BY <2>1, <2>5 DEF IInv, RolesInv, OnlyOwnerHasAccount, InactiveIsLockedOut
  <2>7. step'[o] \notin Upsert /\ step'[o] # "refused"
    BY <2>4 DEF Upsert
  <2>8. step'[o] \in Working => step'[o] = "createRole"
    BY <2>4, Steps DEF Ended
  <2>9. step'[o] \in Working =>
          /\ ReachedByAdd(broker[owner], step[o], pass[o])'
          /\ ReachedByRevoke(broker[owner], step[o])'
    BY <2>1, <2>8 DEF ReachedByAdd, ReachedByRevoke, ACLs
  <2>10. /\ active' \in BOOLEAN /\ broker' \in [Merchants -> Account]
         /\ late' \subseteq Merchants \X Commands \X (0..runs)
         /\ job' \in [Operators -> Merchants \cup {NoMerchant}]
         /\ \A l \in late' : l \in late \/ l[1] = owner'
    BY <2>1 DEF IInv, TypeOK
  <2>11. QED BY <1>1, <1>3, <2>1, <2>3, <2>4, <2>6, <2>7, <2>9, <2>10, RunStep
<1>4. QED BY <1>2, <1>3

LEMMA ReactivateStep == ASSUME IInv, NEW o \in Operators, Reactivate(o) PROVE IInv'
<1>1. step[o] \in Working
  BY Steps DEF Reactivate
<1>2. Busy(o) /\ job[o] = owner /\ owner \in Merchants
  BY <1>1, WorkingRun
<1>3. /\ owner' = owner /\ active' = TRUE /\ broker' = broker /\ late' = late
      /\ job' = job /\ alone' = alone /\ clean' = clean
      /\ UNCHANGED <<file, pass, remove, history, runs>>
  BY DEF Reactivate, Status, request, history
<1>4. faults' \in 0..MaxFaults
  BY ProvisioningAssumption DEF Reactivate, Fault, IInv, TypeOK
<1>5. /\ step' \in [Operators -> Running \cup Ended]
      /\ \A p \in Operators : p # o => step'[p] = step[p]
      /\ step'[o] \in {"createRole", "failed"}
  BY Moves DEF Reactivate, Running, Commands, AddSteps, Ended
<1>6. step'[o] \notin Upsert /\ step'[o] # "refused"
  BY <1>5 DEF Upsert
<1>7. RolesInv' /\ OnlyOwnerHasAccount' /\ InactiveIsLockedOut'
  BY <1>3 DEF IInv, RolesInv, OnlyOwnerHasAccount, InactiveIsLockedOut
<1>8. step'[o] \in Working => step'[o] = "createRole"
  BY <1>5, Steps DEF Ended
<1>9. step'[o] \in Working =>
        /\ ReachedByAdd(broker[owner], step[o], pass[o])'
        /\ ReachedByRevoke(broker[owner], step[o])'
  BY <1>3, <1>8 DEF ReachedByAdd, ReachedByRevoke, ACLs
<1>10. /\ active' \in BOOLEAN /\ broker' \in [Merchants -> Account]
       /\ late' \subseteq Merchants \X Commands \X (0..runs)
       /\ job' \in [Operators -> Merchants \cup {NoMerchant}]
       /\ \A l \in late' : l \in late \/ l[1] = owner'
  BY <1>3 DEF IInv, TypeOK
<1>11. QED BY <1>2, <1>3, <1>4, <1>5, <1>6, <1>7, <1>9, <1>10, RunStep

\* While order holds, no command opens the login of an inactive device.
LEMMA StaysLockedOut ==
  ASSUME IInv, NEW o \in Operators, step[o] \in Commands, clean, ~active
  PROVE  Apply(broker[owner], step[o], pass[o]).login # "enabled"
<1>1. /\ Busy(o) /\ owner \in Merchants /\ broker[owner] \in Account
      /\ alone[o] => ReachedByAdd(broker[owner], step[o], pass[o])
  BY WorkingRun, Steps
<1>2. alone[o]
  BY <1>1 DEF IInv, AloneInv
<1>3. step[o] \in RevokeSteps
  BY <1>1, <1>2 DEF ReachedByAdd, Commands
<1>4. broker[owner].login # "enabled"
  BY <1>1, ProvisioningAssumption DEF IInv, InactiveIsLockedOut
<1>5. QED BY <1>1, <1>3, <1>4, AccountFields
          DEF Apply, RevokeSteps, ACLs, NoAccount, Account

\* A broker command, answered.
LEMMA CommandStep == ASSUME IInv, NEW o \in Operators, Command(o) PROVE IInv'
<1> DEFINE reply == Reply(broker[owner], step[o])
<1>1. step[o] \in Commands /\ step[o] \in Working
  BY Steps DEF Command
<1>2. /\ Busy(o) /\ job[o] = owner /\ owner \in Merchants /\ pass[o] \in 0..MaxRuns
      /\ broker[owner] \in Account
      /\ broker[owner].role = {} \/ "role" \in broker[owner].role
      /\ alone[o] => ReachedByAdd(broker[owner], step[o], pass[o])
  BY <1>1, WorkingRun
<1>3. /\ owner' = owner /\ active' = active /\ late' = late
      /\ job' = job /\ alone' = alone /\ clean' = clean /\ faults' = faults
      /\ pass' = pass /\ UNCHANGED <<file, pass, remove, history, runs>>
      /\ broker' = [broker EXCEPT ![owner] = Apply(@, step[o], pass[o])]
  BY <1>2 DEF Command, row, request, history
<1>4. /\ broker' \in [Merchants -> Account] /\ RolesInv' /\ OnlyOwnerHasAccount'
      /\ broker'[owner] = Apply(broker[owner], step[o], pass[o])
  BY <1>1, <1>2, <1>3, Applied
<1>5. GoTo(o, IF reply \in {"ok"} \cup Tolerated(step[o])
                THEN Follow(o, reply) ELSE "refused")
  BY <1>2 DEF Command
<1>6. Follow(o, reply) \in Working
  BY <1>1, FollowType
<1> HIDE DEF reply
<1>7. /\ step' \in [Operators -> Running \cup Ended]
      /\ \A p \in Operators : p # o => step'[p] = step[p]
      /\ step'[o] = IF reply \in {"ok"} \cup Tolerated(step[o])
                      THEN Follow(o, reply) ELSE "refused"
  BY <1>5, <1>6, Steps DEF GoTo, IInv, TypeOK, Ended
<1>8. alone[o] => step'[o] = Follow(o, reply) /\ step'[o] # "refused"
  <2>1. alone[o] => reply \in {"ok"} \cup Tolerated(step[o])
    BY <1>1, <1>2, NotRefused DEF reply
  <2>2. Follow(o, reply) # "refused"
    BY <1>6, Steps DEF Ended
  <2>3. QED BY <1>7, <2>1, <2>2
<1>9. alone[o] =>
        /\ ReachedByAdd(broker[owner], step[o], pass[o])'
        /\ ReachedByRevoke(broker[owner], step[o])'
  <2> SUFFICES ASSUME alone[o]
               PROVE  /\ ReachedByAdd(broker[owner], step[o], pass[o])'
                      /\ ReachedByRevoke(broker[owner], step[o])'
    OBVIOUS
  <2>1. /\ ReachedByAdd(broker'[owner], Follow(o, reply), pass[o])
        /\ ReachedByRevoke(broker'[owner], Follow(o, reply))
    BY <1>1, <1>4, NextReached DEF reply
  <2>2. QED BY <1>3, <1>8, <2>1 DEF ReachedByAdd, ReachedByRevoke
<1>10. step'[o] \notin Upsert
  BY <1>6, <1>7, Steps DEF Upsert
<1>11. InactiveIsLockedOut'
  BY <1>1, <1>3, <1>4, StaysLockedOut DEF InactiveIsLockedOut
<1>12. /\ active' \in BOOLEAN /\ faults' \in 0..MaxFaults
       /\ late' \subseteq Merchants \X Commands \X (0..runs)
       /\ job' \in [Operators -> Merchants \cup {NoMerchant}]
       /\ \A l \in late' : l \in late \/ l[1] = owner'
  BY <1>3 DEF IInv, TypeOK
<1>13. QED BY <1>2, <1>3, <1>4, <1>7, <1>8, <1>9, <1>10, <1>11, <1>12, RunStep

\* A run ends with an error, its command applied now, later or never.
LEMMA FailStep == ASSUME IInv, NEW o \in Operators, Fail(o) PROVE IInv'
<1>1. Busy(o) /\ Fault /\ GoTo(o, "failed") /\ UNCHANGED <<row, file, request, history, runs>>
  BY DEF Fail
<1>2. /\ owner' = owner /\ active' = active /\ job' = job /\ clean' = clean
      /\ UNCHANGED <<file, pass, remove, history, runs>>
      /\ faults' \in 0..MaxFaults
  BY <1>1, ProvisioningAssumption DEF row, request, history, Fault, IInv, TypeOK
<1>3. "failed" \in Ended /\ "failed" \notin Upsert \cup Working
  BY Steps DEF Ended
<1>4. /\ step' \in [Operators -> Running \cup Ended]
      /\ \A p \in Operators : p # o => step'[p] = step[p]
      /\ step'[o] = "failed"
  BY <1>1, <1>3, Moves
<1>5. active' \in BOOLEAN /\ job' \in [Operators -> Merchants \cup {NoMerchant}]
  BY <1>2 DEF IInv, TypeOK
<1>6. CASE UNCHANGED <<broker, late>>
  BY <1>1, <1>6, QuietFailure
<1>7. CASE /\ step[o] \in Commands /\ late' = late
           /\ broker' = [broker EXCEPT ![job[o]] = Apply(@, step[o], pass[o])]
  <2>1. job[o] = owner /\ owner \in Merchants /\ pass[o] \in 0..MaxRuns
    BY <1>7, WorkingRun, Steps
  <2>2. /\ broker' \in [Merchants -> Account] /\ RolesInv' /\ OnlyOwnerHasAccount'
        /\ broker'[owner] = Apply(broker[owner], step[o], pass[o])
    BY <1>2, <1>7, <2>1, Applied
  <2>3. InactiveIsLockedOut'
    BY <1>2, <1>7, <2>2, StaysLockedOut DEF InactiveIsLockedOut
  <2>4. /\ late' \subseteq Merchants \X Commands \X (0..runs)
        /\ \A l \in late' : l \in late \/ l[1] = owner'
    BY <1>7 DEF IInv, TypeOK
  <2>5. QED BY <1>1, <1>2, <1>3, <1>4, <1>5, <2>2, <2>3, <2>4, RunStep
<1>8. CASE /\ step[o] \in Commands /\ broker' = broker
           /\ late' = late \cup {<<job[o], step[o], pass[o]>>}
  <2>1. job[o] = owner /\ owner \in Merchants /\ pass[o] \in 0..runs
    BY <1>8, WorkingRun, Steps
  <2>2. /\ broker' \in [Merchants -> Account] /\ RolesInv' /\ OnlyOwnerHasAccount'
        /\ InactiveIsLockedOut'
    BY <1>2, <1>8 DEF IInv, TypeOK, RolesInv, OnlyOwnerHasAccount, InactiveIsLockedOut
  <2>3. /\ late' \subseteq Merchants \X Commands \X (0..runs)
        /\ \A l \in late' : l \in late \/ l[1] = owner'
    BY <1>2, <1>8, <2>1 DEF IInv, TypeOK
  <2>4. QED BY <1>1, <1>2, <1>3, <1>4, <1>5, <2>2, <2>3, RunStep
<1>9. QED BY <1>6, <1>7, <1>8 DEF Fail

\* A run that reports success: when it was alone, nobody runs any more, and
\* what it reports is all there is to show.
LEMMA SuccessStep ==
  ASSUME IInv, NEW o \in Operators, step[o] \in Working,
         NEW what \in {"added", "revoked"}, Succeed(o, what),
         UNCHANGED <<owner, broker, request, late, runs, faults>>,
         active' \in BOOLEAN,
         file' \in (Merchants \X (1..runs)) \cup {NoFile},
         alone[o] /\ ~active' => broker[owner].login # "enabled",
         AddDelivers', RevokeDelivers'
  PROVE  IInv'
<1>1. Busy(o) /\ owner \in Merchants
  BY WorkingRun
<1>2. /\ AloneInv' /\ alone' = alone /\ promise' \in {"none", "added", "revoked"}
      /\ clean' \in BOOLEAN
      /\ step' \in [Operators -> Running \cup Ended]
      /\ \A p \in Operators : step'[p] = IF p = o THEN "done" ELSE step[p]
  BY <1>1, SuccessAlone
<1>3. job' = job /\ pass' = pass /\ remove' = remove
  BY DEF request
<1>4. TypeOK'
  BY <1>2, <1>3 DEF IInv, TypeOK
<1>5. "done" \notin Running /\ "done" \notin Upsert /\ "done" \notin Working
  BY Steps DEF Ended
<1>6. \A p \in Operators : Busy(p)' => Busy(p) /\ p # o
  BY <1>2, <1>5 DEF Busy
<1>7. RunInv'
  <2>1. \A l \in late' : l[1] = owner'
    BY DEF IInv, RunInv
  <2>2. \A p \in Operators : Busy(p)' => pass'[p] \in 1..runs'
    BY <1>3, <1>6 DEF IInv, RunInv
  <2>3. \A p \in Operators : step'[p] \in Upsert => job'[p] \in Merchants
    BY <1>2, <1>3, <1>5 DEF IInv, RunInv
  <2>4. \A p \in Operators :
          step'[p] \in Working => job'[p] = owner' /\ owner' \in Merchants
    BY <1>2, <1>3, <1>5 DEF IInv, RunInv
  <2>5. QED BY <2>1, <2>2, <2>3, <2>4 DEF RunInv
<1>8. Reached'
  <2> SUFFICES ASSUME NEW p \in Operators, alone'[p], step'[p] \in Working
               PROVE  FALSE
    BY DEF Reached
  <2>1. Busy(p) /\ p # o
    BY <1>2, <1>5, Steps DEF Busy
  <2>2. QED BY <1>1, <1>2, <2>1, OnlyRun
<1>9. InactiveIsLockedOut'
  <2>1. clean' => alone[o]
    BY <1>1 DEF Succeed, IInv, AloneInv
  <2>2. QED BY <2>1 DEF InactiveIsLockedOut
<1>10. RolesInv' /\ PromiseInv' /\ OnlyOwnerHasAccount' /\ RerunsAreSafe'
  BY <1>1, <1>2 DEF IInv, RolesInv, PromiseInv, OnlyOwnerHasAccount, RerunsAreSafe
<1>11. QED BY <1>2, <1>4, <1>7, <1>8, <1>9, <1>10 DEF IInv

LEMMA WriteFileStep == ASSUME IInv, NEW o \in Operators, WriteFile(o) PROVE IInv'
<1>1. step[o] = "write" /\ step[o] \in Working
  BY Steps DEF WriteFile
<1>2. /\ Busy(o) /\ job[o] = owner /\ owner \in Merchants /\ pass[o] \in 1..runs
      /\ broker[owner] \in Account
      /\ alone[o] => ReachedByAdd(broker[owner], step[o], pass[o])
  BY <1>1, WorkingRun
<1>3. /\ owner' = owner /\ active' = active /\ broker' = broker /\ late' = late
      /\ job' = job /\ runs' = runs
      /\ UNCHANGED <<pass, remove, request, runs>>
  BY DEF WriteFile, row, request
<1>4. CASE file' = Render(o) /\ Succeed(o, "added") /\ UNCHANGED faults
  <2>1. file' = <<owner, pass[o]>>
    BY <1>2, <1>4 DEF Render
  <2>2. alone[o] => Works(owner, pass[o])
    <3> SUFFICES ASSUME alone[o] PROVE Works(owner, pass[o])
      OBVIOUS
    <3>1. /\ active
          /\ "role" \in broker[owner].role /\ "subscribe" \in broker[owner].role
          /\ "receive" \in broker[owner].role /\ "send" \in broker[owner].role
          /\ broker[owner].password = pass[o] /\ broker[owner].login = "enabled"
          /\ broker[owner].granted
      BY <1>1, <1>2 DEF ReachedByAdd, AddSteps, ACLs
    <3>2. broker[owner].role = ACLs \cup {"role"} /\ broker[owner].granted = TRUE
      BY <1>2, <3>1, AccountFields DEF ACLs
    <3>3. broker[owner] = [login |-> "enabled", password |-> pass[o], granted |-> TRUE,
                           role |-> ACLs \cup {"role"}]
      BY <1>2, <3>1, <3>2, AccountFields
    <3>4. QED BY <3>1, <3>3 DEF Works
  <2>3. promise' = "added" => alone[o]
    BY <1>4 DEF Succeed
  <2>4. AddDelivers'
    BY <1>3, <2>1, <2>2, <2>3 DEF AddDelivers, Works
  <2>5. RevokeDelivers'
    BY <1>4 DEF Succeed, RevokeDelivers
  <2>6. active' \in BOOLEAN /\ file' \in (Merchants \X (1..runs)) \cup {NoFile}
    BY <1>2, <1>3, <2>1 DEF IInv, TypeOK
  <2>7. alone[o] /\ ~active' => broker[owner].login # "enabled"
    BY <1>3, <2>2 DEF Works
  <2>8. QED BY <1>1, <1>3, <1>4, <2>4, <2>5, <2>6, <2>7, SuccessStep
<1>5. CASE file' = NoFile /\ GoTo(o, "failed") /\ Fault /\ UNCHANGED history
  <2>1. "failed" \in Ended /\ "failed" \notin Upsert \cup Working
    BY Steps DEF Ended
  <2>2. /\ step' \in [Operators -> Running \cup Ended]
        /\ \A p \in Operators : p # o => step'[p] = step[p]
        /\ step'[o] = "failed"
    BY <1>5, <2>1, Moves
  <2>3. clean' = clean /\ faults' \in 0..MaxFaults
    BY <1>5, ProvisioningAssumption DEF history, Fault, IInv, TypeOK
  <2>4. /\ active' \in BOOLEAN /\ broker' \in [Merchants -> Account]
        /\ late' \subseteq Merchants \X Commands \X (0..runs)
        /\ job' \in [Operators -> Merchants \cup {NoMerchant}]
        /\ \A l \in late' : l \in late \/ l[1] = owner'
        /\ RolesInv' /\ OnlyOwnerHasAccount' /\ InactiveIsLockedOut'
    BY <1>3, <2>3 DEF IInv, TypeOK, RolesInv, OnlyOwnerHasAccount, InactiveIsLockedOut
  <2>5. QED BY <1>2, <1>3, <1>5, <2>1, <2>2, <2>3, <2>4, RunStep
<1>6. QED BY <1>4, <1>5 DEF WriteFile

LEMMA DeactivateStep == ASSUME IInv, NEW o \in Operators, Deactivate(o) PROVE IInv'
<1>1. step[o] = "deactivate" /\ step[o] \in Working
  BY Steps DEF Deactivate
<1>2. /\ Busy(o) /\ owner \in Merchants
      /\ alone[o] => broker[owner].login # "enabled"
  BY <1>1, WorkingRun DEF ReachedByRevoke
<1>3. /\ owner' = owner /\ active' = FALSE /\ broker' = broker /\ late' = late
      /\ job' = job /\ file' = file
      /\ UNCHANGED <<pass, remove, request, runs>>
  BY DEF Deactivate, request
<1>4. CASE Succeed(o, "revoked") /\ UNCHANGED faults
  <2>1. promise' # "added" /\ (promise' = "revoked" => alone[o])
    BY <1>4 DEF Succeed
  <2>2. AddDelivers' /\ RevokeDelivers'
    BY <1>2, <1>3, <2>1 DEF AddDelivers, RevokeDelivers
  <2>3. active' \in BOOLEAN /\ file' \in (Merchants \X (1..runs)) \cup {NoFile}
    BY <1>3 DEF IInv, TypeOK
  <2>4. QED BY <1>1, <1>2, <1>3, <1>4, <2>2, <2>3, SuccessStep
<1>5. CASE GoTo(o, "failed") /\ Fault /\ UNCHANGED history
  <2>1. "failed" \in Ended /\ "failed" \notin Upsert \cup Working
    BY Steps DEF Ended
  <2>2. /\ step' \in [Operators -> Running \cup Ended]
        /\ \A p \in Operators : p # o => step'[p] = step[p]
        /\ step'[o] = "failed"
    BY <1>5, <2>1, Moves
  <2>3. clean' = clean /\ faults' \in 0..MaxFaults
    BY <1>5, ProvisioningAssumption DEF history, Fault, IInv, TypeOK
  <2>4. InactiveIsLockedOut'
    <3>1. clean => alone[o]
      BY <1>2 DEF IInv, AloneInv
    <3>2. QED BY <1>2, <1>3, <2>3, <3>1 DEF InactiveIsLockedOut
  <2>5. /\ active' \in BOOLEAN /\ broker' \in [Merchants -> Account]
        /\ late' \subseteq Merchants \X Commands \X (0..runs)
        /\ job' \in [Operators -> Merchants \cup {NoMerchant}]
        /\ \A l \in late' : l \in late \/ l[1] = owner'
        /\ RolesInv' /\ OnlyOwnerHasAccount'
    BY <1>3 DEF IInv, TypeOK, RolesInv, OnlyOwnerHasAccount
  <2>6. QED BY <1>2, <1>3, <1>5, <2>1, <2>2, <2>3, <2>4, <2>5, RunStep
<1>6. QED BY <1>4, <1>5 DEF Deactivate

\* A run begins: alone, or disturbing everyone.
LEMMA BeginStep ==
  ASSUME IInv, NEW o \in Operators, NEW s, NEW m, NEW delete \in BOOLEAN,
         \/ s = "lookup" /\ m \in Merchants
         \/ s = "resolve" /\ m = NoMerchant,
         Begin(o, s, m, delete)
  PROVE  IInv'
<1>1. s \in Running /\ s \notin Working /\ s # "refused" /\ m \in Merchants \cup {NoMerchant}
      /\ (s \in Upsert => m \in Merchants)
  BY Steps DEF Running, DbSteps, Upsert, Ended
<1>2. /\ step' \in [Operators -> Running \cup Ended]
      /\ \A p \in Operators : step'[p] = IF p = o THEN s ELSE step[p]
  BY <1>1, Moves DEF Begin
<1>3. runs \in Nat /\ runs' = runs + 1 /\ runs' \in 0..MaxRuns
      /\ 1..runs \subseteq 1..runs' /\ 0..runs \subseteq 0..runs' /\ runs' \in 1..runs'
  BY ProvisioningAssumption DEF Begin, IInv, TypeOK
<1>4. /\ owner' = owner /\ active' = active /\ broker' = broker /\ file' = file
      /\ late' = late /\ faults' = faults /\ promise' = "none"
  BY DEF Begin, row, Disturb
<1>5. /\ pass' = [pass EXCEPT ![o] = runs'] /\ job' = [job EXCEPT ![o] = m]
      /\ remove' = [remove EXCEPT ![o] = delete]
  BY <1>3 DEF Begin
<1>6. /\ pass' \in [Operators -> 0..runs'] /\ job' \in [Operators -> Merchants \cup {NoMerchant}]
      /\ remove' \in [Operators -> BOOLEAN]
  BY <1>1, <1>3, <1>5 DEF IInv, TypeOK
<1>7. /\ alone' \in [Operators -> BOOLEAN] /\ clean' \in BOOLEAN
      /\ clean' => clean
      /\ \A p \in Operators : p # o /\ alone'[p] => alone[p]
  BY DEF Begin, Disturb, IInv, TypeOK
<1>8. TypeOK'
  <2>1. file' \in (Merchants \X (1..runs')) \cup {NoFile}
    BY <1>3, <1>4 DEF IInv, TypeOK
  <2>2. late' \subseteq Merchants \X Commands \X (0..runs')
    BY <1>3, <1>4 DEF IInv, TypeOK
  <2>3. QED BY <1>2, <1>3, <1>4, <1>6, <1>7, <2>1, <2>2 DEF IInv, TypeOK
<1>9. \A p \in Operators : p # o => (Busy(p)' <=> Busy(p))
  BY <1>2 DEF Busy
<1>10. RunInv'
  <2>1. \A l \in late' : l[1] = owner'
    BY <1>4 DEF IInv, RunInv
  <2>2. \A p \in Operators : Busy(p)' => pass'[p] \in 1..runs'
    BY <1>3, <1>5, <1>9 DEF IInv, TypeOK, RunInv
  <2>3. \A p \in Operators : step'[p] \in Upsert => job'[p] \in Merchants
    BY <1>1, <1>2, <1>5 DEF IInv, TypeOK, RunInv
  <2>4. \A p \in Operators :
          step'[p] \in Working => job'[p] = owner' /\ owner' \in Merchants
    BY <1>1, <1>2, <1>4, <1>5 DEF IInv, TypeOK, RunInv
  <2>5. QED BY <2>1, <2>2, <2>3, <2>4 DEF RunInv
<1>11. ASSUME \E p \in Operators : Busy(p) PROVE AloneInv' /\ Reached'
  <2>1. (\A p \in Operators : ~alone'[p]) /\ ~clean'
    BY <1>11 DEF Begin, Disturb
  <2>2. AloneInv'
    BY <1>4, <2>1 DEF AloneInv
  <2>3. Reached'
    BY <2>1 DEF Reached
  <2>4. QED BY <2>2, <2>3
<1>12. ASSUME \A p \in Operators : ~Busy(p) PROVE AloneInv' /\ Reached'
  <2>1. alone' = [alone EXCEPT ![o] = TRUE] /\ clean' = clean
    BY <1>12 DEF Begin
  <2>2. \A p \in Operators : Busy(p)' => p = o /\ alone'[p]
    BY <1>9, <1>12, <2>1 DEF IInv, TypeOK
  <2>3. AloneInv'
    BY <1>4, <2>2 DEF AloneInv
  <2>4. \A p \in Operators : step'[p] \notin Working
    BY <1>1, <1>2, <1>12, Steps DEF Busy
  <2>5. Reached'
    BY <2>4 DEF Reached
  <2>6. QED BY <2>3, <2>5
<1>13. AloneInv' /\ Reached'
  BY <1>11, <1>12
<1>14. RolesInv' /\ OnlyOwnerHasAccount' /\ InactiveIsLockedOut'
  BY <1>4, <1>7 DEF IInv, RolesInv, OnlyOwnerHasAccount, InactiveIsLockedOut
<1>15. RerunsAreSafe'
  BY <1>1, <1>2, <1>7 DEF IInv, RerunsAreSafe
<1>16. PromiseInv' /\ AddDelivers' /\ RevokeDelivers'
  BY <1>4 DEF PromiseInv, AddDelivers, RevokeDelivers
<1>17. QED BY <1>8, <1>10, <1>13, <1>14, <1>15, <1>16 DEF IInv

\* A late command touches the owner's account only, and disturbs everyone.
LEMMA LateStep == ASSUME IInv, LateCommand PROVE IInv'
<1>1. PICK l \in late : /\ late' = late \ {l}
                        /\ broker' = [broker EXCEPT ![l[1]] = Apply(@, l[2], l[3])]
                        /\ Disturb
                        /\ UNCHANGED <<row, file, step, request, runs, faults>>
  BY DEF LateCommand
<1>2. /\ l[1] = owner /\ owner \in Merchants /\ l[2] \in Commands /\ l[3] \in 0..MaxRuns
  <2>1. l \in Merchants \X Commands \X (0..runs) /\ runs \in 0..MaxRuns
    BY DEF IInv, TypeOK
  <2>2. l[1] = owner
    BY DEF IInv, RunInv
  <2>3. QED BY <2>1, <2>2, ProvisioningAssumption
<1>3. /\ owner' = owner /\ active' = active /\ job' = job /\ pass' = pass
      /\ remove' = remove /\ step' = step /\ file' = file /\ runs' = runs
      /\ faults' = faults /\ promise' = "none" /\ clean' = FALSE
      /\ alone' = [p \in Operators |-> FALSE]
  BY <1>1 DEF row, request, Disturb
<1>4. broker' \in [Merchants -> Account] /\ RolesInv' /\ OnlyOwnerHasAccount'
  BY <1>1, <1>2, <1>3, Applied
<1>5. TypeOK'
  BY <1>1, <1>3, <1>4 DEF IInv, TypeOK
<1>6. RunInv'
  BY <1>1, <1>3 DEF IInv, RunInv, Busy
<1>7. AloneInv' /\ Reached' /\ RerunsAreSafe' /\ InactiveIsLockedOut' /\ PromiseInv'
      /\ AddDelivers' /\ RevokeDelivers'
  BY <1>3 DEF AloneInv, Reached, RerunsAreSafe, InactiveIsLockedOut, PromiseInv,
         AddDelivers, RevokeDelivers
<1>8. QED BY <1>4, <1>5, <1>6, <1>7 DEF IInv

LEMMA Stutter == ASSUME IInv, UNCHANGED vars PROVE IInv'
<1>1. /\ UNCHANGED <<owner, active, broker, file, step, job, pass, remove, late>>
      /\ UNCHANGED <<alone, promise, clean, runs, faults>>
  BY DEF vars, row, request, history
<1>2. TypeOK' /\ RunInv' /\ AloneInv'
  BY <1>1 DEF IInv, TypeOK, RunInv, AloneInv, Busy
<1>3. Reached'
  BY <1>1 DEF IInv, Reached, ReachedByAdd, ReachedByRevoke
<1>4. RolesInv' /\ PromiseInv' /\ OnlyOwnerHasAccount' /\ RerunsAreSafe'
      /\ InactiveIsLockedOut' /\ AddDelivers' /\ RevokeDelivers'
  BY <1>1 DEF IInv, RolesInv, PromiseInv, OnlyOwnerHasAccount, RerunsAreSafe,
         InactiveIsLockedOut, AddDelivers, RevokeDelivers, Works
<1>5. QED BY <1>2, <1>3, <1>4 DEF IInv

----------------------------------------------------------------------------
(* Theorems *)

\* Every step of cmd/provision and of the broker preserves the invariant.
THEOREM Inductive == Spec => []IInv
<1>1. IInv /\ [Next]_vars => IInv'
  <2> SUFFICES ASSUME IInv, Next PROVE IInv'
    BY Stutter
  <2>1. ASSUME NEW o \in Operators, BeginAdd(o) PROVE IInv'
    BY <2>1, BeginStep DEF BeginAdd
  <2>2. ASSUME NEW o \in Operators, BeginRevoke(o) PROVE IInv'
    BY <2>2, BeginStep DEF BeginRevoke
  <2>3. QED BY <2>1, <2>2, LookupStep, InsertStep, ReactivateStep, WriteFileStep,
                ResolveStep, DeactivateStep, CommandStep, FailStep, LateStep DEF Next
<1>2. QED BY <1>1, InitIInv, PTL DEF Spec

\* Every variable keeps its type.
THEOREM TypeCorrect == Spec => []TypeOK
<1>1. IInv => TypeOK
  BY DEF IInv
<1>2. QED BY <1>1, Inductive, PTL

\* A reported "add" left a device that works with the file it wrote.
THEOREM AddedWorks == Spec => []AddDelivers
<1>1. IInv => AddDelivers
  BY DEF IInv
<1>2. QED BY <1>1, Inductive, PTL

\* A reported "revoke" left a device that is INACTIVE and locked out.
THEOREM RevokedIsOut == Spec => []RevokeDelivers
<1>1. IInv => RevokeDelivers
  BY DEF IInv
<1>2. QED BY <1>1, Inductive, PTL

\* A run that has the device for itself is never refused by the broker,
\* whatever state earlier runs left behind.
THEOREM AlwaysRepairable == Spec => []RerunsAreSafe
<1>1. IInv => RerunsAreSafe
  BY DEF IInv
<1>2. QED BY <1>1, Inductive, PTL

\* Failed runs alone never leave an INACTIVE device that can log in.
THEOREM InactiveLockedOut == Spec => []InactiveIsLockedOut
<1>1. IInv => InactiveIsLockedOut
  BY DEF IInv
<1>2. QED BY <1>1, Inductive, PTL

\* Only the merchant that owns the row ever has credentials on the broker.
THEOREM OwnerOnly == Spec => []OnlyOwnerHasAccount
<1>1. IInv => OnlyOwnerHasAccount
  BY DEF IInv
<1>2. QED BY <1>1, Inductive, PTL

=============================================================================

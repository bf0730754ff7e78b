--------------------------- MODULE RequestIntake ---------------------------
\* A QR request on its way from a soundbox through the broker into the service: the
\* subscription, the handler's checks (qrtopic, validation, resolver), the merchant's
\* Manjo client (manjoclient.Registry), and the reply.  What becomes of the
\* transaction is PaymentBridge's part, the client's calls are ManjoSession's.
EXTENDS Integers, Sequences, FiniteSets

CONSTANTS Instances,    \* service instances: each subscribes for itself
          Devices, Merchants,
          Home,         \* the merchant a device is registered to at first
          Requests,     \* what devices may send: topic [m, s], payload [p, sen]
          MaxPresses,   \* bound: requests
          MaxFaults     \* bound: lost connections, crashes, copies, changes by an operator

ASSUME IntakeAssumption ==
    /\ IsFiniteSet(Instances) /\ "none" \notin Merchants
    /\ Home \in [Devices -> Merchants]
    /\ Requests \subseteq [m : Merchants, s : Devices, p : Devices, sen : Int]
    /\ MaxPresses \in Nat \ {0} /\ MaxFaults \in Nat

VARIABLES
    reg,        \* devices joined with merchants and tenants: [m, active]
    creds,      \* the Manjo credentials a merchant's row names: [of, no]
    sent,       \* the requests
    conn,       \* "down", "up", "cut" (connection lost), "deaf" (without subscription)
    inbox,      \* requests the broker or paho holds for an instance
    task,       \* the handler: [at, id, row]
    client,     \* Registry: the credentials a merchant's client was built with
    rows,       \* transactions
    answers,    \* what the sender got
    faults,
    \* history
    copies,     \* how often a request was delivered
    excuses,    \* why one may stay without an answer
    old         \* merchants whose credentials changed while the instance ran

world   == <<reg, creds>>
history == <<copies, excuses, old>>
vars    == <<reg, creds, sent, conn, inbox, task, client, rows, answers, faults,
             copies, excuses, old>>

Ids  == 1..MaxPresses
NoCreds == [of |-> "none", no |-> 0]
Idle == [at |-> "idle", id |-> 1, m |-> "none", creds |-> NoCreds]
Fault == faults < MaxFaults /\ faults' = faults + 1

Phases == {"idle", "resolve", "create", "client", "call", "reply", "fail"}
Creds  == [of : Merchants \cup {"none"}, no : 0..(faults + 1)]

TypeOK ==
    /\ reg \in [Devices -> [m : Merchants \cup {"none"}, active : BOOLEAN]]
    /\ creds \in [Merchants -> Creds] /\ \A m \in Merchants : creds[m].of = m
    /\ sent \in Seq(Requests) /\ Len(sent) <= MaxPresses
    /\ conn \in [Instances -> {"down", "up", "cut", "deaf"}]
    /\ inbox \in [Instances -> Seq(1..Len(sent))]
    /\ task \in [Instances -> [at : Phases, id : Ids, m : Merchants \cup {"none"},
                               creds : Creds]]
    /\ client \in [Instances -> [Merchants -> Creds]]
    /\ rows \subseteq [id : 1..Len(sent), n : Nat, m : Merchants, s : Devices, rupiah : Nat]
    /\ answers \in [Ids -> SUBSET {"qr", "failure"}] /\ faults \in 0..MaxFaults
    /\ copies \in [Ids -> Nat] /\ old \in [Instances -> SUBSET Merchants]
    /\ excuses \in [Ids -> SUBSET {"nobody", "cut", "crash", "invalid", "identity", "publish"}]

Init ==
    /\ reg = [s \in Devices |-> [m |-> Home[s], active |-> TRUE]]
    /\ creds = [m \in Merchants |-> [of |-> m, no |-> 1]]
    /\ sent = <<>> /\ conn = [i \in Instances |-> "up"]
    /\ inbox = [i \in Instances |-> <<>>] /\ task = [i \in Instances |-> Idle]
    /\ client = [i \in Instances |-> [m \in Merchants |-> NoCreds]]
    /\ rows = {} /\ answers = [id \in Ids |-> {}] /\ faults = 0
    /\ copies = [id \in Ids |-> 0] /\ excuses = [id \in Ids |-> {}]
    /\ old = [i \in Instances |-> {}]

-----------------------------------------------------------------------------
\* The device, the broker and the operator

Deliver(id, to) ==
    /\ inbox' = [i \in Instances |-> IF i \in to THEN Append(inbox[i], id) ELSE inbox[i]]
    /\ copies' = [copies EXCEPT ![id] = @ + Cardinality(to)]

Subscribed == {i \in Instances : conn[i] = "up"}

\* A device publishes on the topic its broker account stands for; what it writes in the
\* payload, and whom it is registered to meanwhile, is another matter.  Every
\* subscriber gets the request: without one it is gone.
Press(r) ==
    /\ Len(sent) < MaxPresses
    /\ LET id == Len(sent) + 1 IN
        /\ sent' = Append(sent, r)
        /\ Deliver(id, Subscribed)
        /\ excuses' = [excuses EXCEPT ![id] = IF Subscribed = {} THEN {"nobody"} ELSE {}]
    /\ UNCHANGED <<world, conn, task, client, rows, answers, faults, old>>

\* QoS 1: a request is sent again
Redeliver(id) ==
    /\ id <= Len(sent) /\ Subscribed # {} /\ Fault
    /\ Deliver(id, Subscribed)
    /\ UNCHANGED <<world, sent, conn, task, client, rows, answers, excuses, old>>

\* The clean session ends with the connection, and with it what the broker still held
ConnectionLost(i) ==
    /\ conn[i] \in {"up", "deaf"} /\ Fault
    /\ conn' = [conn EXCEPT ![i] = "cut"]
    /\ \E kept \in 0..Len(inbox[i]) :
        /\ inbox' = [inbox EXCEPT ![i] = SubSeq(@, 1, kept)]
        /\ excuses' = [id \in Ids |->
              IF \E k \in (kept + 1)..Len(inbox[i]) : inbox[i][k] = id
              THEN excuses[id] \cup {"cut"} ELSE excuses[id]]
    /\ UNCHANGED <<world, sent, task, client, rows, answers, copies, old>>

\* SetAutoReconnect: paho connects again; main subscribes only once, after Connect
Reconnect(i) ==
    /\ conn[i] = "cut" /\ conn' = [conn EXCEPT ![i] = "deaf"]
    /\ UNCHANGED <<world, sent, inbox, task, client, rows, answers, faults, history>>

Crash(i) ==
    /\ conn[i] # "down" /\ Fault
    /\ conn' = [conn EXCEPT ![i] = "down"]
    /\ inbox' = [inbox EXCEPT ![i] = <<>>] /\ task' = [task EXCEPT ![i] = Idle]
    /\ client' = [client EXCEPT ![i] = [m \in Merchants |-> NoCreds]]
    /\ old' = [old EXCEPT ![i] = {}]
    /\ excuses' = [id \in Ids |->
          IF \/ task[i].at # "idle" /\ task[i].id = id
             \/ \E k \in DOMAIN inbox[i] : inbox[i][k] = id
          THEN excuses[id] \cup {"crash"} ELSE excuses[id]]
    /\ UNCHANGED <<world, sent, rows, answers, copies>>

\* main: Connect, then Subscribe; without either the process ends
Start(i) ==
    /\ conn[i] = "down" /\ conn' = [conn EXCEPT ![i] = "up"]
    /\ UNCHANGED <<world, sent, inbox, task, client, rows, answers, faults, history>>

\* A device is moved to another merchant or deactivated
ChangeDevice(s) ==
    /\ Fault /\ \E m \in Merchants \cup {"none"}, a \in BOOLEAN :
        reg' = [reg EXCEPT ![s] = [m |-> m, active |-> a]]
    /\ UNCHANGED <<creds, sent, conn, inbox, task, client, rows, answers, history>>

\* The merchant's row names other credentials; from then on Manjo refuses the old ones
Rotate(m) ==
    /\ Fault /\ creds' = [creds EXCEPT ![m].no = @ + 1]
    /\ old' = [i \in Instances |-> IF conn[i] = "down" THEN {} ELSE old[i] \cup {m}]
    /\ UNCHANGED <<reg, sent, conn, inbox, task, client, rows, answers, copies, excuses>>

-----------------------------------------------------------------------------
\* The handler of instance i: paho hands over one request after the other

At(i, phase) == task[i].at = phase
Request(i) == sent[task[i].id]
To(i, phase) == task' = [task EXCEPT ![i].at = phase]
Excuse(i, why) == excuses' = [excuses EXCEPT ![task[i].id] = @ \cup {why}]

\* ParseRequestTopic and ParseGenerateQRMessage: an amount that is not positive is
\* logged and not answered
Take(i) ==
    /\ At(i, "idle") /\ conn[i] # "down" /\ inbox[i] # <<>>
    /\ inbox' = [inbox EXCEPT ![i] = Tail(@)]
    /\ LET id == Head(inbox[i]) IN
        IF sent[id].sen <= 0
        THEN /\ excuses' = [excuses EXCEPT ![id] = @ \cup {"invalid"}] /\ task' = task
        ELSE /\ task' = [task EXCEPT ![i] = [Idle EXCEPT !.at = "resolve", !.id = id]]
             /\ excuses' = excuses
    /\ UNCHANGED <<world, sent, conn, client, rows, answers, faults, copies, old>>

\* Mutant: the registration is not compared
MismatchSN(r, row) == r.p # r.s

\* CheckRequestIdentity
Mismatch(r, row) == r.p # r.s \/ row.m # r.m

\* ResolveDevice, and the checks on what it read.  A database that does not answer looks
\* like an unknown device.
Resolve(i) ==
    /\ At(i, "resolve")
    /\ LET r == Request(i)  row == reg[r.p] IN
        \/ To(i, "fail") /\ UNCHANGED excuses                     \* the read fails
        \/ row.m = "none" /\ To(i, "fail") /\ UNCHANGED excuses
        \/ /\ row.m # "none" /\ Mismatch(r, row)
           /\ task' = [task EXCEPT ![i] = Idle] /\ Excuse(i, "identity")
        \/ /\ row.m # "none" /\ ~Mismatch(r, row) /\ ~row.active
           /\ To(i, "fail") /\ UNCHANGED excuses
        \/ /\ row.m # "none" /\ ~Mismatch(r, row) /\ row.active
           /\ task' = [task EXCEPT ![i].at = "create", ![i].m = row.m,
                                   ![i].creds = creds[row.m]]
           /\ UNCHANGED excuses
    /\ UNCHANGED <<world, sent, conn, inbox, client, rows, answers, faults, copies, old>>

\* ParseGenerateQRMessage
Rupiah(sen) == sen \div 100

\* createTransaction: the row needs an amount above 0
Create(i) ==
    /\ At(i, "create")
    /\ LET rupiah == Rupiah(Request(i).sen) IN
        \/ /\ rupiah > 0 /\ To(i, "client")
           /\ rows' = rows \cup {[id |-> task[i].id, n |-> Cardinality(rows),
                                  m |-> task[i].m, s |-> Request(i).p, rupiah |-> rupiah]}
        \/ To(i, "fail") /\ rows' = rows        \* also for any error of the database
    /\ UNCHANGED <<world, sent, conn, inbox, client, answers, faults, history>>

Using(i, c) == task' = [task EXCEPT ![i].at = "call", ![i].creds = c]

\* Mutant: the registry has one client, whichever merchant came first
GetAnyClient(i) ==
    /\ At(i, "client")
    /\ LET built == {m \in Merchants : client[i][m] # NoCreds} IN
        \/ \E m \in built : Using(i, client[i][m]) /\ client' = client
        \/ /\ built = {} /\ Using(i, task[i].creds)
           /\ client' = [client EXCEPT ![i][task[i].m] = task[i].creds]
        \/ built = {} /\ To(i, "fail") /\ client' = client
    /\ UNCHANGED <<world, sent, conn, inbox, rows, answers, faults, history>>

\* Registry.GetOrCreate: the merchant's client, or one built of the row read before; a
\* secret that is not set fails the request and caches nothing
GetClient(i) ==
    /\ At(i, "client")
    /\ LET c == client[i][task[i].m] IN
        \/ c # NoCreds /\ Using(i, c) /\ client' = client
        \/ /\ c = NoCreds /\ Using(i, task[i].creds)
           /\ client' = [client EXCEPT ![i][task[i].m] = task[i].creds]
        \/ c = NoCreds /\ To(i, "fail") /\ client' = client
    /\ UNCHANGED <<world, sent, conn, inbox, rows, answers, faults, history>>

\* callGenerateQRWithRetry: a new token from the same client does not help one whose
\* credentials are refused; any other refusal, or an error when the code is stored
Call(i) ==
    /\ At(i, "call")
    /\ \/ task[i].creds = creds[task[i].m] /\ To(i, "reply")
       \/ To(i, "fail")
    /\ UNCHANGED <<world, sent, conn, inbox, client, rows, answers, faults, history>>

\* Mutant: the failure is logged and not told to the device
FailQuietly(i) ==
    /\ At(i, "fail") /\ task' = [task EXCEPT ![i] = Idle]
    /\ UNCHANGED <<world, sent, conn, inbox, client, rows, answers, faults, history>>

\* Publish may fail or reach the device although it counts as failed: one attempt
Answer(i, what) ==
    /\ task' = [task EXCEPT ![i] = Idle]
    /\ \/ /\ answers' = [answers EXCEPT ![task[i].id] = @ \cup {what}]
          /\ UNCHANGED excuses
       \/ Excuse(i, "publish") /\ UNCHANGED answers
    /\ UNCHANGED <<world, sent, conn, inbox, client, rows, faults, copies, old>>

\* "QR:" and the code
ReplyQR(i) == At(i, "reply") /\ Answer(i, "qr")

\* publishFailureReply
ReplyFailure(i) == At(i, "fail") /\ Answer(i, "failure")

Handler(i) ==
    Take(i) \/ Resolve(i) \/ Create(i) \/ GetClient(i) \/ Call(i) \/ ReplyQR(i)
        \/ ReplyFailure(i)

Next ==
    \/ \E r \in Requests : Press(r)
    \/ \E id \in Ids : Redeliver(id)
    \/ \E i \in Instances : ConnectionLost(i) \/ Reconnect(i) \/ Crash(i) \/ Start(i)
    \/ \E s \in Devices : ChangeDevice(s)
    \/ \E m \in Merchants : Rotate(m)
    \/ \E i \in Instances : Handler(i)

Spec == Init /\ [][Next]_vars /\ \A i \in Instances : WF_vars(Handler(i))

-----------------------------------------------------------------------------
\* Properties

\* A transaction was asked for: by the device it names, on the topic of the merchant
\* it names, for the whole rupiah of the amount, and no more often than the request
\* was delivered: once for every subscriber and every copy, since the handler cannot
\* tell a copy from a request.
TransactionsAreRequested ==
    /\ \A r \in rows :
          LET q == sent[r.id] IN
          /\ q.m = r.m /\ q.s = r.s /\ r.rupiah > 0
          /\ 100 * r.rupiah <= q.sen /\ q.sen < 100 * r.rupiah + 100
    /\ \A id \in Ids : Cardinality({r \in rows : r.id = id}) <= copies[id]

\* Only an instance that was running when the credentials changed signs a call with
\* others than its merchant's row names: Registry keeps a client as long as the
\* process lives.
CredentialsAreCurrent ==
    \A i \in Instances :
        At(i, "call") =>
            \/ task[i].creds = creds[task[i].m]
            \/ task[i].m \in old[i] /\ task[i].creds.of = task[i].m

\* No request is lost without a trace: it is answered, has an excuse, or is still held
\* for an instance or handled by one.
InFlight(id) ==
    \E i \in Instances : \/ \E k \in DOMAIN inbox[i] : inbox[i][k] = id
                         \/ task[i].at # "idle" /\ task[i].id = id

NoneForgotten ==
    \A id \in 1..Len(sent) : answers[id] # {} \/ excuses[id] # {} \/ InFlight(id)

\* A request is answered, unless nobody subscribed to it (also after a connection came
\* back), it was lost with a connection or a process, its amount or its sender was
\* refused without a word, or the answer could not be published.
RequestsAreAnswered ==
    \A id \in Ids :
        (id <= Len(sent)) ~> (answers[id] # {} \/ excuses[id] # {})

-----------------------------------------------------------------------------
\* The inductive invariant behind the first two

\* A handler past the resolver works for a device that is who it claims to be.
TaskInv ==
    \A i \in Instances :
        /\ task[i].at # "idle" => task[i].id <= Len(sent) /\ Request(i).sen > 0
        /\ task[i].at \in {"create", "client", "call"} => task[i].m \in Merchants
        /\ At(i, "create") => Request(i).p = Request(i).s /\ Request(i).m = task[i].m

RowsInv ==
    \A r \in rows :
        LET q == sent[r.id] IN
        /\ q.m = r.m /\ q.s = r.s /\ r.rupiah > 0
        /\ 100 * r.rupiah <= q.sen /\ q.sen < 100 * r.rupiah + 100

\* The deliveries of a request that may still become a transaction: the place of each
\* in an inbox, 0 for the one in the handler.
Pends(i, k, id) ==
    IF k = 0 THEN task[i].at \in {"resolve", "create"} /\ task[i].id = id
             ELSE k <= Len(inbox[i]) /\ inbox[i][k] = id

Pending(id) ==
    {x \in UNION {{i} \X (0..Len(inbox[i])) : i \in Instances} : Pends(x[1], x[2], id)}

RowsOf(id) == {r \in rows : r.id = id}

CountInv ==
    /\ IsFiniteSet(rows)
    /\ \A id \in Ids : /\ IsFiniteSet(Pending(id))
                       /\ Cardinality(RowsOf(id)) + Cardinality(Pending(id)) <= copies[id]

\* c are the credentials the row of m names, or an instance that ran when they changed
\* got them before
MaySign(i, m, c) == c = creds[m] \/ (m \in old[i] /\ c.of = m)

CredsInv ==
    \A i \in Instances :
        /\ conn[i] = "down" => task[i].at = "idle" /\ \A m \in Merchants : client[i][m] = NoCreds
        /\ \A m \in Merchants : client[i][m] # NoCreds => MaySign(i, m, client[i][m])
        /\ task[i].at \in {"create", "client", "call"} => MaySign(i, task[i].m, task[i].creds)

IInv == TypeOK /\ TaskInv /\ RowsInv /\ CountInv /\ CredsInv
=============================================================================

------------------------ MODULE RequestIntake_proofs ------------------------
(***************************************************************************)
(* Proofs about RequestIntake for any finite set of instances, any         *)
(* devices, merchants and requests, and any number of presses and faults.  *)
(***************************************************************************)
EXTENDS RequestIntake, FiniteSetTheorems, SequenceTheorems, TLAPS

Reasons == {"nobody", "cut", "crash", "invalid", "identity", "publish"}

Tasks == [at : Phases, id : Ids, m : Merchants \cup {"none"}, creds : Creds]

----------------------------------------------------------------------------
(* Types *)

LEMMA IdsFacts == 1 \in Ids /\ Ids \subseteq Nat /\ MaxPresses \in Nat /\ MaxFaults \in Nat
  BY IntakeAssumption DEF Ids

LEMMA RequestFields ==
  ASSUME NEW r \in Requests
  PROVE  r.m \in Merchants /\ r.s \in Devices /\ r.p \in Devices /\ r.sen \in Int
  BY IntakeAssumption

LEMMA TypeFacts ==
  ASSUME TypeOK
  PROVE  /\ Len(sent) \in Nat /\ Len(sent) =< MaxPresses /\ 1..Len(sent) \subseteq Ids
         /\ \A id \in 1..Len(sent) : sent[id] \in Requests
         /\ faults \in Nat /\ task \in [Instances -> Tasks]
         /\ \A i \in Instances :
              /\ task[i].at \in Phases /\ task[i].id \in Ids
              /\ task[i].m \in Merchants \cup {"none"} /\ task[i].creds \in Creds
              /\ inbox[i] \in Seq(1..Len(sent)) /\ Len(inbox[i]) \in Nat
              /\ \A k \in 1..Len(inbox[i]) : inbox[i][k] \in 1..Len(sent)
              /\ \A m \in Merchants : client[i][m] \in Creds
         /\ \A m \in Merchants : creds[m] \in Creds
<1>1. Len(sent) \in Nat /\ Len(sent) =< MaxPresses
  BY DEF TypeOK
<1>2. 1..Len(sent) \subseteq Ids
  BY <1>1, IdsFacts DEF Ids
<1>3. \A id \in 1..Len(sent) : sent[id] \in Requests
  BY DEF TypeOK
<1>4. faults \in Nat /\ task \in [Instances -> Tasks]
  BY IdsFacts DEF TypeOK, Tasks
<1>5. \A i \in Instances :
        /\ task[i].at \in Phases /\ task[i].id \in Ids
        /\ task[i].m \in Merchants \cup {"none"} /\ task[i].creds \in Creds
  BY <1>4 DEF Tasks
<1>6. \A i \in Instances : inbox[i] \in Seq(1..Len(sent))
  BY DEF TypeOK
<1>7. \A i \in Instances :
        Len(inbox[i]) \in Nat /\ \A k \in 1..Len(inbox[i]) : inbox[i][k] \in 1..Len(sent)
  BY <1>6
<1>8. \A i \in Instances, m \in Merchants : client[i][m] \in Creds
  BY DEF TypeOK
<1>9. \A m \in Merchants : creds[m] \in Creds
  BY DEF TypeOK
<1>10. QED BY <1>1, <1>2, <1>3, <1>4, <1>5, <1>6, <1>7, <1>8, <1>9

\* More faults and more requests make the types wider, never narrower.
LEMMA Wider ==
  ASSUME faults \in Nat, faults' \in Nat, faults =< faults'
  PROVE  Creds \subseteq Creds'
  BY DEF Creds

LEMMA IdleType ==
  ASSUME faults \in Nat
  PROVE  Idle \in Tasks /\ NoCreds \in Creds
  BY IdsFacts DEF Idle, NoCreds, Tasks, Phases, Creds

\* Changing one handler keeps the others.
LEMMA TaskType ==
  ASSUME task \in [Instances -> Tasks], NEW i \in Instances, NEW t \in Tasks
  PROVE  [task EXCEPT ![i] = t] \in [Instances -> Tasks]
  OBVIOUS

\* A new phase of a handler.
LEMMA ToType ==
  ASSUME TypeOK, NEW i \in Instances, NEW phase \in Phases, To(i, phase)
  PROVE  /\ task' \in [Instances -> Tasks]
         /\ task'[i] = [task[i] EXCEPT !.at = phase]
         /\ task'[i].at = phase /\ task'[i].id = task[i].id /\ task'[i].m = task[i].m
         /\ task'[i].creds = task[i].creds
         /\ \A j \in Instances \ {i} : task'[j] = task[j]
<1>1. task \in [Instances -> Tasks]
  BY TypeFacts
<1>2. task' = [task EXCEPT ![i] = [task[i] EXCEPT !.at = phase]]
  BY DEF To
<1>3. [task[i] EXCEPT !.at = phase] \in Tasks
  BY <1>1 DEF Tasks
<1>4. task'[i] = [task[i] EXCEPT !.at = phase] /\ \A j \in Instances \ {i} : task'[j] = task[j]
  BY <1>1, <1>2
<1>5. QED BY <1>1, <1>2, <1>3, <1>4 DEF Tasks

LEMMA ExcuseType ==
  ASSUME TypeOK, NEW i \in Instances, NEW why \in Reasons, Excuse(i, why)
  PROVE  /\ excuses' \in [Ids -> SUBSET Reasons]
         /\ \A id \in Ids : excuses[id] \subseteq excuses'[id]
         /\ why \in excuses'[task[i].id]
  BY TypeFacts DEF Excuse, TypeOK, Reasons


\* What no step of a handler changes.
LEMMA HandlerFrame ==
  ASSUME NEW i \in Instances, Handler(i)
  PROVE  UNCHANGED <<reg, creds, sent, conn, faults, copies, old>>
  BY DEF Handler, Take, Resolve, Create, GetClient, Call, ReplyQR, ReplyFailure, Answer,
         world, history

LEMMA InitType == Init => TypeOK
<1> SUFFICES ASSUME Init PROVE TypeOK
  OBVIOUS
<1>1. sent \in Seq(Requests) /\ Len(sent) = 0 /\ faults = 0 /\ faults \in 0..MaxFaults
  BY IdsFacts DEF Init
<1>2. Idle \in Tasks /\ NoCreds \in Creds
  BY <1>1, IdleType
<1>3. reg \in [Devices -> [m : Merchants \cup {"none"}, active : BOOLEAN]]
  <2>1. \A s \in Devices :
          [m |-> Home[s], active |-> TRUE] \in [m : Merchants \cup {"none"}, active : BOOLEAN]
    BY IntakeAssumption
  <2>2. QED BY <2>1 DEF Init
<1>4. creds \in [Merchants -> Creds] /\ \A m \in Merchants : creds[m].of = m
  <2>1. \A m \in Merchants : [of |-> m, no |-> 1] \in Creds
    BY <1>1 DEF Creds
  <2>2. QED BY <2>1 DEF Init
<1>5. /\ conn \in [Instances -> {"down", "up", "cut", "deaf"}]
      /\ inbox \in [Instances -> Seq(1..Len(sent))]
      /\ answers \in [Ids -> SUBSET {"qr", "failure"}]
      /\ copies \in [Ids -> Nat] /\ old \in [Instances -> SUBSET Merchants]
      /\ excuses \in [Ids -> SUBSET Reasons]
  BY DEF Init
<1>6. task \in [Instances -> Tasks]
  BY <1>2 DEF Init
<1>7. client \in [Instances -> [Merchants -> Creds]]
  BY <1>2 DEF Init
<1>8. rows = {}
  BY DEF Init
<1>9. MaxPresses >= 0
  BY IdsFacts
<1>10. QED BY <1>1, <1>3, <1>4, <1>5, <1>6, <1>7, <1>8, <1>9 DEF TypeOK, Tasks, Reasons

\* Every subscriber's inbox grows by the request.
LEMMA DeliverType ==
  ASSUME TypeOK, NEW n \in Nat, Len(sent) =< n, NEW id \in 1..n, id \in Ids,
         NEW to \in SUBSET Instances, Deliver(id, to)
  PROVE  inbox' \in [Instances -> Seq(1..n)] /\ copies' \in [Ids -> Nat]
<1>1. Cardinality(to) \in Nat
  BY IntakeAssumption, FS_Subset, FS_CardinalityType
<1>2. copies' \in [Ids -> Nat]
  BY <1>1 DEF Deliver, TypeOK
<1>3. \A i \in Instances : inbox[i] \in Seq(1..n)
  <2>1. Seq(1..Len(sent)) \subseteq Seq(1..n)
    BY TypeFacts
  <2>2. QED BY <2>1, TypeFacts
<1>4. \A i \in Instances : Append(inbox[i], id) \in Seq(1..n)
  BY <1>3
<1>5. QED BY <1>2, <1>3, <1>4 DEF Deliver

LEMMA PressType ==
  ASSUME TypeOK, NEW r \in Requests, Press(r)
  PROVE  /\ TypeOK'
         /\ sent' = Append(sent, r) /\ Len(sent') = Len(sent) + 1 /\ Len(sent) + 1 \in Ids
         /\ sent'[Len(sent) + 1] = r
         /\ \A id \in 1..Len(sent) : sent'[id] = sent[id]
         /\ Deliver(Len(sent) + 1, Subscribed)
<1>1. /\ sent' = Append(sent, r) /\ Deliver(Len(sent) + 1, Subscribed)
      /\ UNCHANGED <<reg, creds, conn, task, client, rows, answers, faults, old>>
      /\ Len(sent) < MaxPresses
      /\ excuses' = [excuses EXCEPT ![Len(sent) + 1] =
                       IF Subscribed = {} THEN {"nobody"} ELSE {}]
  BY DEF Press, world
<1>2. sent \in Seq(Requests)
  BY DEF TypeOK
<1>3. /\ sent' \in Seq(Requests) /\ Len(sent') = Len(sent) + 1
      /\ sent'[Len(sent) + 1] = r
      /\ \A id \in 1..Len(sent) : sent'[id] = sent[id]
  BY <1>1, <1>2
<1>4. Len(sent) + 1 \in Ids /\ Len(sent') \in Nat /\ Len(sent') =< MaxPresses
      /\ Len(sent) + 1 \in 1..Len(sent') /\ 1..Len(sent) \subseteq 1..Len(sent')
  BY <1>1, <1>3, TypeFacts, IdsFacts DEF Ids
<1>5. inbox' \in [Instances -> Seq(1..Len(sent'))] /\ copies' \in [Ids -> Nat]
  <2>1. Subscribed \in SUBSET Instances
    BY DEF Subscribed
  <2>2. QED BY <1>1, <1>3, <1>4, <2>1, TypeFacts, DeliverType
<1>6. rows' \subseteq [id : 1..Len(sent'), n : Nat, m : Merchants, s : Devices, rupiah : Nat]
  BY <1>1, <1>4 DEF TypeOK
<1>7. excuses' \in [Ids -> SUBSET Reasons]
  BY <1>1 DEF TypeOK, Reasons
<1>8. Creds' = Creds /\ Tasks' = Tasks
  BY <1>1 DEF Creds, Tasks
<1>9. TypeOK'
  BY <1>1, <1>3, <1>4, <1>5, <1>6, <1>7, <1>8 DEF TypeOK, Reasons, Creds
<1>10. QED BY <1>1, <1>3, <1>4, <1>9

LEMMA FaultType ==
  ASSUME TypeOK, Fault
  PROVE  faults' \in 0..MaxFaults /\ faults' = faults + 1 /\ Creds \subseteq Creds'
         /\ Tasks \subseteq Tasks'
<1>1. faults' \in 0..MaxFaults /\ faults' = faults + 1 /\ faults \in Nat
  BY IdsFacts DEF TypeOK, Fault
<1>2. Creds \subseteq Creds'
  BY <1>1, Wider
<1>3. QED BY <1>1, <1>2 DEF Tasks

\* The parts of TypeOK that hold credentials survive a fault.
LEMMA FaultKeepsTypes ==
  ASSUME TypeOK, Fault
  PROVE  /\ creds \in [Merchants -> Creds']
         /\ client \in [Instances -> [Merchants -> Creds']]
         /\ task \in [Instances -> Tasks']
<1>1. Creds \subseteq Creds' /\ Tasks \subseteq Tasks'
  BY FaultType
<1>2. creds \in [Merchants -> Creds']
  BY <1>1 DEF TypeOK
<1>3. [Merchants -> Creds] \subseteq [Merchants -> Creds']
  BY <1>1
<1>4. client \in [Instances -> [Merchants -> Creds']]
  BY <1>3 DEF TypeOK
<1>5. task \in [Instances -> Tasks']
  BY <1>1, TypeFacts
<1>6. QED BY <1>2, <1>4, <1>5

LEMMA EnvironmentType ==
  ASSUME TypeOK,
         \/ \E id \in Ids : Redeliver(id)
         \/ \E i \in Instances : ConnectionLost(i) \/ Reconnect(i) \/ Crash(i) \/ Start(i)
         \/ \E s \in Devices : ChangeDevice(s)
         \/ \E m \in Merchants : Rotate(m)
  PROVE  TypeOK'
<1> USE DEF world, history
<1>1. ASSUME NEW id \in Ids, Redeliver(id) PROVE TypeOK'
  <2>1. Fault /\ sent' = sent /\ Deliver(id, Subscribed) /\ id \in 1..Len(sent)
        /\ UNCHANGED <<reg, creds, conn, task, client, rows, answers, excuses, old>>
    BY <1>1, IdsFacts DEF Redeliver, Ids
  <2>2. inbox' \in [Instances -> Seq(1..Len(sent))] /\ copies' \in [Ids -> Nat]
    <3>1. Subscribed \in SUBSET Instances
      BY DEF Subscribed
    <3>2. QED BY <2>1, <3>1, TypeFacts, DeliverType
  <2>3. QED BY <2>1, <2>2, FaultType, FaultKeepsTypes DEF TypeOK, Tasks
<1>2. ASSUME NEW i \in Instances, ConnectionLost(i) PROVE TypeOK'
  <2>1. /\ Fault /\ conn' = [conn EXCEPT ![i] = "cut"]
        /\ UNCHANGED <<reg, creds, sent, task, client, rows, answers, copies, old>>
    BY <1>2 DEF ConnectionLost
  <2>2. PICK kept \in 0..Len(inbox[i]) :
          /\ inbox' = [inbox EXCEPT ![i] = SubSeq(@, 1, kept)]
          /\ excuses' = [id \in Ids |->
                IF \E k \in (kept + 1)..Len(inbox[i]) : inbox[i][k] = id
                THEN excuses[id] \cup {"cut"} ELSE excuses[id]]
    BY <1>2 DEF ConnectionLost
  <2>3. SubSeq(inbox[i], 1, kept) \in Seq(1..Len(sent))
    BY TypeFacts
  <2>4. inbox' \in [Instances -> Seq(1..Len(sent))]
    BY <2>2, <2>3 DEF TypeOK
  <2>5. excuses' \in [Ids -> SUBSET Reasons]
    BY <2>2 DEF TypeOK, Reasons
  <2>6. conn' \in [Instances -> {"down", "up", "cut", "deaf"}]
    BY <2>1 DEF TypeOK
  <2>7. QED BY <2>1, <2>4, <2>5, <2>6, FaultType, FaultKeepsTypes DEF TypeOK, Tasks, Reasons
<1>3. ASSUME NEW i \in Instances, Reconnect(i) \/ Start(i) PROVE TypeOK'
  <2>1. /\ conn' \in [Instances -> {"down", "up", "cut", "deaf"}]
        /\ UNCHANGED <<reg, creds, sent, inbox, task, client, rows, answers, faults,
                       copies, excuses, old>>
    BY <1>3 DEF Reconnect, Start, TypeOK
  <2>2. Creds' = Creds
    BY <2>1 DEF Creds
  <2>3. QED BY <2>1, <2>2 DEF TypeOK
<1>4. ASSUME NEW i \in Instances, Crash(i) PROVE TypeOK'
  <2>1. /\ Fault /\ conn' = [conn EXCEPT ![i] = "down"]
        /\ inbox' = [inbox EXCEPT ![i] = <<>>] /\ task' = [task EXCEPT ![i] = Idle]
        /\ client' = [client EXCEPT ![i] = [m \in Merchants |-> NoCreds]]
        /\ old' = [old EXCEPT ![i] = {}]
        /\ UNCHANGED <<reg, creds, sent, rows, answers, copies>>
    BY <1>4 DEF Crash
  <2>2. excuses' \in [Ids -> SUBSET Reasons]
    BY <1>4 DEF Crash, TypeOK, Reasons
  <2>3. Idle \in Tasks' /\ NoCreds \in Creds'
    <3>1. Idle \in Tasks /\ NoCreds \in Creds
      BY IdleType, TypeFacts
    <3>2. QED BY <2>1, <3>1, FaultType
  <2>4. task' \in [Instances -> Tasks']
    BY <2>1, <2>3, FaultKeepsTypes
  <2>5. client' \in [Instances -> [Merchants -> Creds']]
    BY <2>1, <2>3, FaultKeepsTypes
  <2>6. /\ inbox' \in [Instances -> Seq(1..Len(sent))]
        /\ conn' \in [Instances -> {"down", "up", "cut", "deaf"}]
        /\ old' \in [Instances -> SUBSET Merchants]
    BY <2>1 DEF TypeOK
  <2>7. QED BY <2>1, <2>2, <2>4, <2>5, <2>6, FaultType, FaultKeepsTypes
           DEF TypeOK, Tasks, Reasons
<1>5. ASSUME NEW s \in Devices, ChangeDevice(s) PROVE TypeOK'
  <2>1. PICK m \in Merchants \cup {"none"}, a \in BOOLEAN :
          reg' = [reg EXCEPT ![s] = [m |-> m, active |-> a]]
    BY <1>5 DEF ChangeDevice
  <2>2. reg' \in [Devices -> [m : Merchants \cup {"none"}, active : BOOLEAN]]
    <3>1. [m |-> m, active |-> a] \in [m : Merchants \cup {"none"}, active : BOOLEAN]
      OBVIOUS
    <3>2. QED BY <2>1, <3>1 DEF TypeOK
  <2>3. /\ Fault
        /\ UNCHANGED <<creds, sent, conn, inbox, task, client, rows, answers, copies,
                       excuses, old>>
    BY <1>5 DEF ChangeDevice
  <2>4. QED BY <2>2, <2>3, FaultType, FaultKeepsTypes DEF TypeOK, Tasks
<1>6. ASSUME NEW m \in Merchants, Rotate(m) PROVE TypeOK'
  <2>1. /\ Fault /\ creds' = [creds EXCEPT ![m].no = @ + 1]
        /\ old' = [i \in Instances |-> IF conn[i] = "down" THEN {} ELSE old[i] \cup {m}]
        /\ UNCHANGED <<reg, sent, conn, inbox, task, client, rows, answers, copies, excuses>>
    BY <1>6 DEF Rotate
  <2>2. creds' \in [Merchants -> Creds'] /\ \A n \in Merchants : creds'[n].of = n
    <3> DEFINE c == [creds[m] EXCEPT !.no = @ + 1]
    <3>1. creds' = [creds EXCEPT ![m] = c] /\ creds[m] \in Creds /\ creds[m].of = m
      BY <2>1, TypeFacts DEF TypeOK
    <3>2. c \in Creds' /\ c.of = m
      BY <2>1, <3>1, FaultType, TypeFacts DEF Creds
    <3> HIDE DEF c
    <3>3. creds \in [Merchants -> Creds']
      BY <2>1, FaultKeepsTypes
    <3>4. creds' \in [Merchants -> Creds']
      BY <3>1, <3>2, <3>3
    <3>5. QED BY <3>1, <3>2, <3>4 DEF TypeOK
  <2>3. old' \in [Instances -> SUBSET Merchants]
    BY <2>1 DEF TypeOK
  <2>4. QED BY <2>1, <2>2, <2>3, FaultType, FaultKeepsTypes DEF TypeOK, Tasks
<1>7. QED BY <1>1, <1>2, <1>3, <1>4, <1>5, <1>6

\* Whom a device is registered to.
LEMMA RegisteredType ==
  ASSUME TypeOK, NEW r \in Requests
  PROVE  reg[r.p].m \in Merchants \cup {"none"} /\ reg[r.p].active \in BOOLEAN
  BY RequestFields DEF TypeOK

\* A handler that is busy handles a request that was sent.
LEMMA BusyRequest ==
  ASSUME TypeOK, TaskInv, NEW i \in Instances, task[i].at # "idle"
  PROVE  /\ task[i].id \in 1..Len(sent) /\ Request(i) \in Requests /\ Request(i).sen \in Int
         /\ Request(i).sen > 0
<1>1. task[i].id \in 1..Len(sent)
  BY TypeFacts, IdsFacts DEF TaskInv, Ids
<1>2. QED BY <1>1, TypeFacts, RequestFields DEF Request, TaskInv

\* The transaction a request becomes is worth the whole rupiah of its amount.
LEMMA RupiahOf ==
  ASSUME NEW sen \in Int, sen > 0
  PROVE  /\ Rupiah(sen) \in Nat
         /\ 100 * Rupiah(sen) =< sen /\ sen < 100 * Rupiah(sen) + 100
  BY DEF Rupiah

LEMMA TakeType ==
  ASSUME TypeOK, NEW i \in Instances, Take(i)
  PROVE  /\ TypeOK'
         /\ Head(inbox[i]) \in 1..Len(sent) /\ Len(inbox[i]) > 0
         /\ inbox' = [inbox EXCEPT ![i] = Tail(@)] /\ At(i, "idle") /\ conn[i] # "down"
         /\ \/ /\ sent[Head(inbox[i])].sen =< 0 /\ task' = task
               /\ excuses' = [excuses EXCEPT ![Head(inbox[i])] = @ \cup {"invalid"}]
            \/ /\ sent[Head(inbox[i])].sen > 0 /\ excuses' = excuses
               /\ task' = [task EXCEPT ![i] = [Idle EXCEPT !.at = "resolve",
                                                           !.id = Head(inbox[i])]]
<1>1. inbox[i] \in Seq(1..Len(sent)) /\ inbox[i] # <<>>
  BY TypeFacts DEF Take
<1>2. Head(inbox[i]) \in 1..Len(sent) /\ Len(inbox[i]) > 0 /\ Tail(inbox[i]) \in Seq(1..Len(sent))
  <2>1. Head(inbox[i]) \in 1..Len(sent) /\ Tail(inbox[i]) \in Seq(1..Len(sent))
    BY <1>1, HeadTailProperties, Zenon
  <2>2. Len(inbox[i]) \in Nat \ {0}
    BY <1>1, EmptySeq, Zenon
  <2>3. QED BY <2>1, <2>2
<1>3. Head(inbox[i]) \in Ids /\ sent[Head(inbox[i])] \in Requests
  BY <1>2, TypeFacts
<1>4. inbox' = [inbox EXCEPT ![i] = Tail(@)] /\ At(i, "idle") /\ conn[i] # "down"
      /\ UNCHANGED <<reg, creds, sent, conn, client, rows, answers, faults, copies, old>>
  BY DEF Take, world
<1>5. \/ /\ sent[Head(inbox[i])].sen =< 0 /\ task' = task
         /\ excuses' = [excuses EXCEPT ![Head(inbox[i])] = @ \cup {"invalid"}]
      \/ /\ sent[Head(inbox[i])].sen > 0 /\ excuses' = excuses
         /\ task' = [task EXCEPT ![i] = [Idle EXCEPT !.at = "resolve", !.id = Head(inbox[i])]]
  BY <1>3, RequestFields DEF Take
<1>6. inbox' \in [Instances -> Seq(1..Len(sent))]
  BY <1>2, <1>4 DEF TypeOK
<1>7. excuses' \in [Ids -> SUBSET Reasons]
  <2>1. excuses \in [Ids -> SUBSET Reasons] /\ "invalid" \in Reasons
    BY DEF TypeOK, Reasons
  <2>2. QED BY <1>3, <1>5, <2>1
<1>8. task' \in [Instances -> Tasks]
  <2>1. [Idle EXCEPT !.at = "resolve", !.id = Head(inbox[i])] \in Tasks
    BY <1>3, IdleType, TypeFacts DEF Tasks, Phases
  <2>2. QED BY <1>5, <2>1, TypeFacts
<1>9. Creds' = Creds
  BY <1>4 DEF Creds
<1>10. TypeOK'
  BY <1>4, <1>6, <1>7, <1>8, <1>9 DEF TypeOK, Tasks, Reasons
<1>11. QED BY <1>2, <1>4, <1>5, <1>10

LEMMA ResolveType ==
  ASSUME TypeOK, TaskInv, NEW i \in Instances, Resolve(i)
  PROVE  /\ TypeOK'
         /\ UNCHANGED <<inbox, client, rows, answers>>
         /\ \A j \in Instances \ {i} : task'[j] = task[j]
         /\ At(i, "resolve")
         /\ \/ At(i, "fail")' /\ task'[i].id = task[i].id /\ excuses' = excuses
            \/ /\ task'[i] = Idle /\ excuses'[task[i].id] # {}
               /\ \A id \in Ids : excuses[id] \subseteq excuses'[id]
            \/ /\ At(i, "create")' /\ task'[i].id = task[i].id /\ excuses' = excuses
               /\ task'[i].m \in Merchants /\ ~Mismatch(Request(i), reg[Request(i).p])
               /\ task'[i].m = reg[Request(i).p].m /\ task'[i].creds = creds[task'[i].m]
<1> DEFINE r == Request(i)
           row == reg[r.p]
           t == [task[i] EXCEPT !.at = "create", !.m = row.m, !.creds = creds[row.m]]
<1>1. UNCHANGED <<reg, creds, sent, conn, inbox, client, rows, answers, faults, copies, old>>
      /\ At(i, "resolve") /\ task \in [Instances -> Tasks] /\ Creds' = Creds
  BY TypeFacts DEF Resolve, world, Creds
<1>2. r \in Requests /\ row.m \in Merchants \cup {"none"}
  BY <1>1, BusyRequest, RegisteredType DEF At
<1>3. CASE To(i, "fail") /\ UNCHANGED excuses
  <2>1. "fail" \in Phases
    BY DEF Phases
  <2>2. /\ task' \in [Instances -> Tasks] /\ At(i, "fail")' /\ task'[i].id = task[i].id
        /\ \A j \in Instances \ {i} : task'[j] = task[j]
    BY <1>3, <2>1, ToType DEF At
  <2>3. TypeOK'
    BY <1>1, <1>3, <2>2 DEF TypeOK, Tasks
  <2>4. QED BY <1>1, <1>3, <2>2, <2>3
<1>4. CASE task' = [task EXCEPT ![i] = Idle] /\ Excuse(i, "identity")
  <2>1. Idle \in Tasks /\ task[i].id \in Ids
    BY IdleType, TypeFacts
  <2>2. /\ task' \in [Instances -> Tasks] /\ task'[i] = Idle
        /\ \A j \in Instances \ {i} : task'[j] = task[j]
    BY <1>1, <1>4, <2>1
  <2>3. /\ excuses' \in [Ids -> SUBSET Reasons] /\ excuses'[task[i].id] # {}
        /\ \A id \in Ids : excuses[id] \subseteq excuses'[id]
    BY <1>4, ExcuseType DEF Reasons
  <2>4. TypeOK'
    BY <1>1, <2>2, <2>3 DEF TypeOK, Tasks, Reasons
  <2>5. QED BY <1>1, <2>2, <2>3, <2>4
<1>5. CASE /\ row.m # "none" /\ ~Mismatch(r, row) /\ row.active
           /\ task' = [task EXCEPT ![i].at = "create", ![i].m = row.m, ![i].creds = creds[row.m]]
           /\ UNCHANGED excuses
  <2>1. row.m \in Merchants /\ creds[row.m] \in Creds
    BY <1>2, <1>5, TypeFacts
  <2>2. t \in Tasks /\ t.at = "create" /\ t.id = task[i].id /\ t.m = row.m /\ t.creds = creds[row.m]
    BY <1>1, <2>1 DEF Tasks, Phases
  <2>3. task' = [task EXCEPT ![i] = t]
    BY <1>1, <1>5
  <2>4. /\ task' \in [Instances -> Tasks] /\ task'[i] = t
        /\ \A j \in Instances \ {i} : task'[j] = task[j]
    BY <1>1, <2>2, <2>3
  <2>5. TypeOK'
    BY <1>1, <1>5, <2>4 DEF TypeOK, Tasks
  <2>6. At(i, "create")'
    BY <2>2, <2>4 DEF At
  <2>7. QED BY <1>1, <1>5, <2>1, <2>2, <2>4, <2>5, <2>6
<1>6. QED BY <1>3, <1>4, <1>5 DEF Resolve

\* The steps that only move a handler on.
LEMMA MoveType ==
  ASSUME TypeOK, NEW i \in Instances, NEW phase \in Phases, To(i, phase),
         UNCHANGED <<reg, creds, sent, conn, inbox, client, rows, answers, faults,
                     copies, excuses, old>>
  PROVE  TypeOK'
<1>1. task' \in [Instances -> Tasks] /\ Creds' = Creds
  BY ToType DEF Creds
<1>2. QED BY <1>1 DEF TypeOK, Tasks

LEMMA CreateType ==
  ASSUME TypeOK, TaskInv, IsFiniteSet(rows), NEW i \in Instances, Create(i)
  PROVE  /\ TypeOK'
         /\ At(i, "create")
         /\ UNCHANGED <<inbox, client, answers, excuses>>
         /\ task'[i].id = task[i].id /\ task'[i].m = task[i].m
         /\ task'[i].creds = task[i].creds
         /\ \A j \in Instances \ {i} : task'[j] = task[j]
         /\ \/ /\ At(i, "client")' /\ Rupiah(Request(i).sen) > 0
               /\ rows' = rows \cup {[id |-> task[i].id, n |-> Cardinality(rows),
                                      m |-> task[i].m, s |-> Request(i).p,
                                      rupiah |-> Rupiah(Request(i).sen)]}
            \/ At(i, "fail")' /\ rows' = rows
<1>1. /\ UNCHANGED <<reg, creds, sent, conn, inbox, client, answers, faults, copies,
                     excuses, old>>
      /\ At(i, "create") /\ Creds' = Creds
  BY DEF Create, world, history, Creds
<1>2. /\ task[i].id \in 1..Len(sent) /\ Request(i).p \in Devices
      /\ Rupiah(Request(i).sen) \in Nat /\ task[i].m \in Merchants
  BY <1>1, BusyRequest, RequestFields, RupiahOf DEF At, TaskInv
<1>3. "client" \in Phases /\ "fail" \in Phases
  BY DEF Phases
<1>4. CASE To(i, "fail") /\ rows' = rows
  BY <1>1, <1>3, <1>4, MoveType, ToType DEF At
<1>5. CASE /\ Rupiah(Request(i).sen) > 0 /\ To(i, "client")
           /\ rows' = rows \cup {[id |-> task[i].id, n |-> Cardinality(rows),
                                  m |-> task[i].m, s |-> Request(i).p,
                                  rupiah |-> Rupiah(Request(i).sen)]}
  <2>1. rows' \subseteq [id : 1..Len(sent), n : Nat, m : Merchants, s : Devices,
                         rupiah : Nat]
    <3>1. Cardinality(rows) \in Nat
      BY FS_CardinalityType
    <3>2. QED BY <1>2, <1>5, <3>1 DEF TypeOK
  <2>2. /\ task' \in [Instances -> Tasks] /\ At(i, "client")'
        /\ task'[i].id = task[i].id /\ task'[i].m = task[i].m
        /\ task'[i].creds = task[i].creds
        /\ \A j \in Instances \ {i} : task'[j] = task[j]
    BY <1>3, <1>5, ToType DEF At
  <2>3. TypeOK'
    BY <1>1, <2>1, <2>2 DEF TypeOK, Tasks
  <2>4. QED BY <1>1, <1>5, <2>2, <2>3
<1>6. QED BY <1>4, <1>5 DEF Create

LEMMA GetClientType ==
  ASSUME TypeOK, TaskInv, NEW i \in Instances, GetClient(i)
  PROVE  /\ TypeOK'
         /\ At(i, "client") /\ task[i].m \in Merchants
         /\ UNCHANGED <<inbox, rows, answers, excuses>>
         /\ task'[i].id = task[i].id /\ task'[i].m = task[i].m
         /\ \A j \in Instances \ {i} : task'[j] = task[j] /\ client'[j] = client[j]
         /\ \A m \in Merchants \ {task[i].m} : client'[i][m] = client[i][m]
         /\ \/ /\ At(i, "call")' /\ task'[i].creds = client[i][task[i].m]
               /\ client[i][task[i].m] # NoCreds /\ client' = client
            \/ /\ At(i, "call")' /\ task'[i].creds = task[i].creds
               /\ client'[i][task[i].m] = task[i].creds
            \/ At(i, "fail")' /\ client' = client
<1>1. /\ UNCHANGED <<reg, creds, sent, conn, inbox, rows, answers, faults, copies,
                     excuses, old>>
      /\ At(i, "client") /\ Creds' = Creds
      /\ task \in [Instances -> Tasks] /\ client \in [Instances -> [Merchants -> Creds]]
  BY TypeFacts DEF GetClient, world, history, Creds, TypeOK
<1>2. task[i].m \in Merchants /\ task[i].creds \in Creds /\ client[i][task[i].m] \in Creds
  BY <1>1, TypeFacts DEF At, TaskInv
<1>3. ASSUME NEW c \in Creds, Using(i, c)
      PROVE  /\ task' \in [Instances -> Tasks] /\ At(i, "call")'
             /\ task'[i].id = task[i].id /\ task'[i].m = task[i].m /\ task'[i].creds = c
             /\ \A j \in Instances \ {i} : task'[j] = task[j]
  <2> DEFINE t == [task[i] EXCEPT !.at = "call", !.creds = c]
  <2>1. t \in Tasks /\ t.at = "call" /\ t.id = task[i].id /\ t.m = task[i].m /\ t.creds = c
    BY <1>1, <1>3 DEF Tasks, Phases
  <2>2. task' = [task EXCEPT ![i] = t]
    BY <1>1, <1>3 DEF Using
  <2> HIDE DEF t
  <2>3. task' \in [Instances -> Tasks] /\ task'[i] = t
        /\ \A j \in Instances \ {i} : task'[j] = task[j]
    BY <1>1, <2>1, <2>2
  <2>4. QED BY <2>1, <2>3 DEF At
<1>4. CASE client[i][task[i].m] # NoCreds /\ Using(i, client[i][task[i].m]) /\ client' = client
  <2>1. /\ task' \in [Instances -> Tasks] /\ At(i, "call")'
        /\ task'[i].id = task[i].id /\ task'[i].m = task[i].m
        /\ task'[i].creds = client[i][task[i].m]
        /\ \A j \in Instances \ {i} : task'[j] = task[j]
    BY <1>2, <1>3, <1>4
  <2>2. TypeOK'
    BY <1>1, <1>4, <2>1 DEF TypeOK, Tasks
  <2>3. QED BY <1>1, <1>2, <1>4, <2>1, <2>2
<1>5. CASE /\ Using(i, task[i].creds)
           /\ client' = [client EXCEPT ![i][task[i].m] = task[i].creds]
  <2>1. /\ task' \in [Instances -> Tasks] /\ At(i, "call")'
        /\ task'[i].id = task[i].id /\ task'[i].m = task[i].m
        /\ task'[i].creds = task[i].creds
        /\ \A j \in Instances \ {i} : task'[j] = task[j]
    BY <1>2, <1>3, <1>5
  <2>2. /\ client' \in [Instances -> [Merchants -> Creds]]
        /\ client'[i][task[i].m] = task[i].creds
        /\ \A j \in Instances \ {i} : client'[j] = client[j]
        /\ \A m \in Merchants \ {task[i].m} : client'[i][m] = client[i][m]
    BY <1>1, <1>2, <1>5
  <2>3. TypeOK'
    BY <1>1, <2>1, <2>2 DEF TypeOK, Tasks
  <2>4. QED BY <1>1, <1>2, <2>1, <2>2, <2>3
<1>6. CASE To(i, "fail") /\ client' = client
  <2>1. "fail" \in Phases
    BY DEF Phases
  <2>2. TypeOK'
    BY <1>1, <1>6, <2>1, MoveType
  <2>3. QED BY <1>1, <1>2, <1>6, <2>1, <2>2, ToType DEF At
<1>7. QED BY <1>4, <1>5, <1>6 DEF GetClient

LEMMA CallType ==
  ASSUME TypeOK, NEW i \in Instances, Call(i)
  PROVE  /\ TypeOK'
         /\ At(i, "call") /\ UNCHANGED <<inbox, client, rows, answers, excuses>>
         /\ task'[i].at \in {"reply", "fail"} /\ task'[i].id = task[i].id
         /\ \A j \in Instances \ {i} : task'[j] = task[j]
<1>1. UNCHANGED <<reg, creds, sent, conn, inbox, client, rows, answers, faults, copies,
                  excuses, old>> /\ At(i, "call")
  BY DEF Call, world, history
<1>2. PICK phase \in {"reply", "fail"} : To(i, phase)
  BY DEF Call
<1>3. phase \in Phases
  BY DEF Phases
<1>4. TypeOK'
  BY <1>1, <1>2, <1>3, MoveType
<1>5. QED BY <1>1, <1>2, <1>3, <1>4, ToType

LEMMA ReplyType ==
  ASSUME TypeOK, NEW i \in Instances, ReplyQR(i) \/ ReplyFailure(i)
  PROVE  /\ TypeOK'
         /\ task[i].at \in {"reply", "fail"} /\ UNCHANGED <<inbox, client, rows>>
         /\ task'[i] = Idle /\ \A j \in Instances \ {i} : task'[j] = task[j]
         /\ answers'[task[i].id] # {} \/ excuses'[task[i].id] # {}
         /\ \A id \in Ids : /\ excuses[id] \subseteq excuses'[id]
                            /\ answers[id] \subseteq answers'[id]
<1>1. PICK what \in {"qr", "failure"} : Answer(i, what)
  BY DEF ReplyQR, ReplyFailure
<1>2. /\ UNCHANGED <<reg, creds, sent, conn, inbox, client, rows, faults, copies, old>>
      /\ task' = [task EXCEPT ![i] = Idle] /\ Creds' = Creds
      /\ task[i].at \in {"reply", "fail"}
  BY <1>1 DEF Answer, world, Creds, ReplyQR, ReplyFailure, At
<1>3. task \in [Instances -> Tasks] /\ Idle \in Tasks /\ task[i].id \in Ids
  BY TypeFacts, IdleType
<1>4. /\ task' \in [Instances -> Tasks] /\ task'[i] = Idle
      /\ \A j \in Instances \ {i} : task'[j] = task[j]
  BY <1>2, <1>3
<1>5. CASE answers' = [answers EXCEPT ![task[i].id] = @ \cup {what}] /\ UNCHANGED excuses
  <2>1. /\ answers' \in [Ids -> SUBSET {"qr", "failure"}] /\ answers'[task[i].id] # {}
        /\ \A id \in Ids : answers[id] \subseteq answers'[id]
    BY <1>3, <1>5 DEF TypeOK
  <2>2. TypeOK'
    BY <1>2, <1>4, <1>5, <2>1 DEF TypeOK, Tasks
  <2>3. QED BY <1>2, <1>4, <1>5, <2>1, <2>2
<1>6. CASE Excuse(i, "publish") /\ UNCHANGED answers
  <2>1. /\ excuses' \in [Ids -> SUBSET Reasons] /\ excuses'[task[i].id] # {}
        /\ \A id \in Ids : excuses[id] \subseteq excuses'[id]
    BY <1>6, ExcuseType DEF Reasons
  <2>2. TypeOK'
    BY <1>2, <1>4, <1>6, <2>1 DEF TypeOK, Tasks, Reasons
  <2>3. QED BY <1>2, <1>4, <1>6, <2>1, <2>2
<1>7. QED BY <1>1, <1>5, <1>6 DEF Answer

LEMMA StepType == TypeOK /\ TaskInv /\ IsFiniteSet(rows) /\ [Next]_vars => TypeOK'
<1> SUFFICES ASSUME TypeOK, TaskInv, IsFiniteSet(rows), [Next]_vars PROVE TypeOK'
  OBVIOUS
<1>1. ASSUME NEW r \in Requests, Press(r) PROVE TypeOK'
  BY <1>1, PressType
<1>2. ASSUME NEW i \in Instances, Handler(i) PROVE TypeOK'
  BY <1>2, TakeType, ResolveType, CreateType, GetClientType, CallType, ReplyType DEF Handler
<1>3. CASE UNCHANGED vars
  <2>1. Creds' = Creds
    BY <1>3 DEF vars, Creds
  <2>2. QED BY <1>3, <2>1 DEF vars, TypeOK
<1>4. QED BY <1>1, <1>2, <1>3, EnvironmentType DEF Next

----------------------------------------------------------------------------
(* Handlers and transactions *)

\* What TaskInv says of one handler.
Sound(i) ==
    /\ task[i].at # "idle" => task[i].id <= Len(sent) /\ Request(i).sen > 0
    /\ task[i].at \in {"create", "client", "call"} => task[i].m \in Merchants
    /\ At(i, "create") => Request(i).p = Request(i).s /\ Request(i).m = task[i].m

\* The steps of the environment that touch neither requests nor handlers.
Quiet ==
    \/ \E id \in Ids : Redeliver(id)
    \/ \E i \in Instances : ConnectionLost(i) \/ Reconnect(i) \/ Start(i)
    \/ \E s \in Devices : ChangeDevice(s)
    \/ \E m \in Merchants : Rotate(m)
    \/ UNCHANGED vars

LEMMA QuietFrame == Quiet => UNCHANGED <<sent, task, client, rows, answers>>
  BY DEF Quiet, Redeliver, ConnectionLost, Reconnect, Start, ChangeDevice, Rotate, vars,
         world, history

LEMMA NextCases ==
  ASSUME [Next]_vars
  PROVE  \/ \E r \in Requests : Press(r)
         \/ \E i \in Instances : Crash(i)
         \/ \E i \in Instances : Handler(i)
         \/ Quiet
  BY DEF Next, Quiet

LEMMA CrashTask ==
  ASSUME TypeOK, NEW i \in Instances, Crash(i)
  PROVE  /\ task'[i] = Idle /\ \A j \in Instances \ {i} : task'[j] = task[j]
         /\ \A m \in Merchants : client'[i][m] = NoCreds
         /\ \A j \in Instances \ {i} : client'[j] = client[j]
         /\ old'[i] = {} /\ \A j \in Instances \ {i} : old'[j] = old[j]
         /\ inbox'[i] = <<>> /\ \A j \in Instances \ {i} : inbox'[j] = inbox[j]
         /\ conn'[i] = "down" /\ \A j \in Instances \ {i} : conn'[j] = conn[j]
         /\ UNCHANGED <<reg, creds, sent, rows, answers, copies>>
<1>1. /\ inbox' = [inbox EXCEPT ![i] = <<>>] /\ task' = [task EXCEPT ![i] = Idle]
      /\ client' = [client EXCEPT ![i] = [m \in Merchants |-> NoCreds]]
      /\ old' = [old EXCEPT ![i] = {}] /\ conn' = [conn EXCEPT ![i] = "down"]
      /\ UNCHANGED <<reg, creds, sent, rows, answers, copies>>
  BY DEF Crash, world
<1>2. QED BY <1>1 DEF TypeOK

LEMMA TakeTask ==
  ASSUME TypeOK, NEW i \in Instances, Take(i)
  PROVE  /\ UNCHANGED <<client, rows, answers>>
         /\ \A j \in Instances \ {i} : task'[j] = task[j] /\ inbox'[j] = inbox[j]
         /\ inbox'[i] = Tail(inbox[i])
         /\ \/ task'[i] = task[i] /\ excuses'[Head(inbox[i])] # {}
            \/ /\ task'[i].at = "resolve" /\ task'[i].id = Head(inbox[i])
               /\ sent[Head(inbox[i])].sen > 0
         /\ \A id \in Ids : excuses[id] \subseteq excuses'[id]
<1>1. /\ Head(inbox[i]) \in Ids /\ inbox' = [inbox EXCEPT ![i] = Tail(@)]
      /\ UNCHANGED <<client, rows, answers>>
  BY TakeType, TypeFacts DEF Take
<1>2. task \in [Instances -> Tasks] /\ inbox \in [Instances -> Seq(1..Len(sent))]
      /\ excuses \in [Ids -> SUBSET Reasons]
  BY TypeFacts DEF TypeOK, Reasons
<1>3. CASE /\ task' = task
           /\ excuses' = [excuses EXCEPT ![Head(inbox[i])] = @ \cup {"invalid"}]
  BY <1>1, <1>2, <1>3
<1>4. CASE /\ sent[Head(inbox[i])].sen > 0 /\ excuses' = excuses
           /\ task' = [task EXCEPT ![i] = [Idle EXCEPT !.at = "resolve", !.id = Head(inbox[i])]]
  BY <1>1, <1>2, <1>4 DEF Idle
<1>5. QED BY <1>3, <1>4, TakeType

LEMMA StepTask == TypeOK /\ TaskInv /\ IsFiniteSet(rows) /\ [Next]_vars => TaskInv'
<1> SUFFICES ASSUME TypeOK, TaskInv, IsFiniteSet(rows), [Next]_vars PROVE TaskInv'
  OBVIOUS
<1>a. TypeOK'
  BY StepType
<1>b. (\A j \in Instances : Sound(j)') => TaskInv'
  BY DEF TaskInv, Sound
<1>c. \A j \in Instances : Sound(j)
  BY DEF TaskInv, Sound
<1>d. ASSUME NEW j \in Instances, task'[j] = task[j], sent' = sent PROVE Sound(j)'
  BY <1>c, <1>d DEF Sound, Request, At
<1>e. ASSUME NEW j \in Instances, task'[j] = Idle PROVE Sound(j)'
  BY <1>e DEF Sound, Idle, At
<1>1. ASSUME NEW r \in Requests, Press(r) PROVE TaskInv'
  <2>1. /\ Len(sent') = Len(sent) + 1 /\ task' = task
        /\ \A id \in 1..Len(sent) : sent'[id] = sent[id]
    BY <1>1, PressType DEF Press
  <2>2. ASSUME NEW j \in Instances PROVE Sound(j)'
    <3>1. CASE task[j].at = "idle"
      BY <2>1, <3>1 DEF Sound, At
    <3>2. CASE task[j].at # "idle"
      <4>1. task[j].id \in 1..Len(sent) /\ Len(sent) \in Nat
        BY <3>2, BusyRequest, TypeFacts
      <4>2. Request(j)' = Request(j) /\ task'[j] = task[j]
        BY <2>1, <4>1 DEF Request
      <4>3. task'[j].id =< Len(sent')
        BY <2>1, <4>1
      <4>4. QED BY <1>c, <4>2, <4>3 DEF Sound, At
    <3>3. QED BY <3>1, <3>2
  <2>3. QED BY <1>b, <2>2
<1>2. ASSUME NEW i \in Instances, Crash(i) PROVE TaskInv'
  <2>1. ASSUME NEW j \in Instances PROVE Sound(j)'
    BY <1>2, <1>d, <1>e, CrashTask
  <2>2. QED BY <1>b, <2>1
<1>3. ASSUME NEW i \in Instances, Handler(i) PROVE TaskInv'
  <2>1. sent' = sent /\ reg' = reg
    BY <1>3, HandlerFrame
  <2>2. SUFFICES Sound(i)' /\ \A j \in Instances \ {i} : task'[j] = task[j]
    <3>1. \A j \in Instances \ {i} : task'[j] = task[j] => Sound(j)'
      BY <1>d, <2>1
    <3>2. QED BY <1>b, <3>1
  <2>3. CASE Take(i)
    <3>1. Head(inbox[i]) =< Len(sent)
      <4>1. Head(inbox[i]) \in 1..Len(sent) /\ Len(sent) \in Nat
        BY <2>3, TakeType, TypeFacts
      <4>2. QED BY <4>1
    <3>2. \A j \in Instances \ {i} : task'[j] = task[j]
      BY <2>3, TakeTask
    <3>3. CASE task'[i] = task[i]
      BY <1>d, <2>1, <3>2, <3>3
    <3>4. CASE /\ task'[i].at = "resolve" /\ task'[i].id = Head(inbox[i])
               /\ sent[Head(inbox[i])].sen > 0
      BY <2>1, <3>1, <3>2, <3>4 DEF Sound, Request, At
    <3>5. QED BY <2>3, <3>3, <3>4, TakeTask
  <2>4. CASE Resolve(i)
    <3>1. \A j \in Instances \ {i} : task'[j] = task[j]
      BY <2>4, ResolveType
    <3>2. Sound(i) /\ task[i].at = "resolve"
      BY <1>c, <2>4, ResolveType DEF At
    <3>3. CASE At(i, "fail")' /\ task'[i].id = task[i].id
      BY <2>1, <3>1, <3>2, <3>3 DEF Sound, At, Request
    <3>4. CASE task'[i] = Idle
      BY <1>e, <3>1, <3>4
    <3>5. CASE /\ At(i, "create")' /\ task'[i].id = task[i].id
               /\ task'[i].m \in Merchants /\ ~Mismatch(Request(i), reg[Request(i).p])
               /\ task'[i].m = reg[Request(i).p].m
      <4>1. Request(i)' = Request(i)
        BY <2>1, <3>5 DEF Request
      <4>2. Request(i).p = Request(i).s /\ Request(i).m = task'[i].m
        BY <3>5 DEF Mismatch
      <4>3. QED BY <2>1, <3>1, <3>2, <3>5, <4>1, <4>2 DEF Sound, At
    <3>6. QED BY <2>4, <3>3, <3>4, <3>5, ResolveType
  <2>5. CASE Create(i)
    <3>1. Sound(i) /\ task[i].at = "create"
      BY <1>c, <2>5, CreateType DEF At
    <3>2. /\ task'[i].id = task[i].id /\ task'[i].m = task[i].m
          /\ task'[i].at \in {"client", "fail"}
          /\ \A j \in Instances \ {i} : task'[j] = task[j]
      BY <2>5, CreateType DEF At
    <3>3. QED BY <2>1, <3>1, <3>2 DEF Sound, At, Request
  <2>6. CASE GetClient(i)
    <3>1. Sound(i) /\ task[i].at = "client"
      BY <1>c, <2>6, GetClientType DEF At
    <3>2. /\ task'[i].id = task[i].id /\ task'[i].m = task[i].m
          /\ task'[i].at \in {"call", "fail"}
          /\ \A j \in Instances \ {i} : task'[j] = task[j]
      BY <2>6, GetClientType DEF At
    <3>3. QED BY <2>1, <3>1, <3>2 DEF Sound, At, Request
  <2>7. CASE Call(i)
    <3>1. Sound(i) /\ task[i].at = "call"
      BY <1>c, <2>7, CallType DEF At
    <3>2. /\ task'[i].id = task[i].id /\ task'[i].at \in {"reply", "fail"}
          /\ \A j \in Instances \ {i} : task'[j] = task[j]
      BY <2>7, CallType
    <3>3. QED BY <2>1, <3>1, <3>2 DEF Sound, At, Request
  <2>8. CASE ReplyQR(i) \/ ReplyFailure(i)
    BY <1>e, <2>8, ReplyType
  <2>9. QED BY <1>3, <2>3, <2>4, <2>5, <2>6, <2>7, <2>8 DEF Handler
<1>4. CASE Quiet
  <2>1. ASSUME NEW j \in Instances PROVE Sound(j)'
    BY <1>4, <1>d, QuietFrame
  <2>2. QED BY <1>b, <2>1
<1>5. QED BY <1>1, <1>2, <1>3, <1>4, NextCases

LEMMA StepRows == TypeOK /\ TaskInv /\ RowsInv /\ IsFiniteSet(rows) /\ [Next]_vars => RowsInv'
<1> SUFFICES ASSUME TypeOK, TaskInv, RowsInv, IsFiniteSet(rows), [Next]_vars,
                    NEW r \in rows'
             PROVE  LET q == sent'[r.id] IN
                      /\ q.m = r.m /\ q.s = r.s /\ r.rupiah > 0
                      /\ 100 * r.rupiah <= q.sen /\ q.sen < 100 * r.rupiah + 100
  BY DEF RowsInv
<1>1. CASE r \in rows
  <2>1. r.id \in 1..Len(sent)
    BY <1>1 DEF TypeOK
  <2>2. sent'[r.id] = sent[r.id]
    <3>1. CASE \E x \in Requests : Press(x)
      BY <2>1, <3>1, PressType
    <3>2. CASE \E i \in Instances : Crash(i)
      BY <3>2, CrashTask
    <3>3. CASE (\E i \in Instances : Handler(i)) \/ Quiet
      BY <3>3, HandlerFrame, QuietFrame
    <3>4. QED BY <3>1, <3>2, <3>3, NextCases
  <2>3. QED BY <1>1, <2>2 DEF RowsInv
<1>2. CASE r \notin rows
  <2>1. PICK i \in Instances : Create(i)
    <3>1. ~ \E x \in Requests : Press(x)
      BY <1>2 DEF Press
    <3>2. ~ \E i \in Instances : Crash(i)
      BY <1>2, CrashTask
    <3>3. ~ Quiet
      BY <1>2, QuietFrame
    <3>4. PICK i \in Instances : Handler(i)
      BY <3>1, <3>2, <3>3, NextCases
    <3>5. ~Take(i) /\ ~Resolve(i) /\ ~GetClient(i) /\ ~Call(i) /\ ~(ReplyQR(i) \/ ReplyFailure(i))
      BY <1>2 DEF Take, Resolve, GetClient, Call, ReplyQR, ReplyFailure, Answer
    <3>6. QED BY <3>4, <3>5 DEF Handler
  <2>2. /\ At(i, "create") /\ Rupiah(Request(i).sen) > 0
        /\ r = [id |-> task[i].id, n |-> Cardinality(rows), m |-> task[i].m,
                s |-> Request(i).p, rupiah |-> Rupiah(Request(i).sen)]
    BY <1>2, <2>1, CreateType
  <2>3. sent' = sent /\ sent[r.id] = Request(i)
    BY <2>1, <2>2, HandlerFrame DEF Request, Handler
  <2>4. /\ Request(i).p = Request(i).s /\ Request(i).m = task[i].m
        /\ Request(i).sen \in Int /\ Request(i).sen > 0
    BY <2>2, BusyRequest DEF TaskInv, At
  <2>5. r.m = task[i].m /\ r.s = Request(i).p /\ r.rupiah = Rupiah(Request(i).sen)
    BY <2>2
  <2>6. /\ r.rupiah > 0 /\ 100 * r.rupiah =< Request(i).sen
        /\ Request(i).sen < 100 * r.rupiah + 100
    BY <2>2, <2>4, <2>5, RupiahOf
  <2>7. QED BY <2>3, <2>4, <2>5, <2>6
<1>3. QED BY <1>1, <1>2

----------------------------------------------------------------------------
(* Credentials *)

LEMMA StepCreds ==
  TypeOK /\ TaskInv /\ CredsInv /\ IsFiniteSet(rows) /\ [Next]_vars => CredsInv'
<1> SUFFICES ASSUME TypeOK, TaskInv, CredsInv, IsFiniteSet(rows), [Next]_vars,
                    NEW j \in Instances
             PROVE  /\ conn'[j] = "down" => /\ task'[j].at = "idle"
                                            /\ \A m \in Merchants : client'[j][m] = NoCreds
                    /\ \A m \in Merchants :
                         client'[j][m] # NoCreds => MaySign(j, m, client[j][m])'
                    /\ task'[j].at \in {"create", "client", "call"} =>
                         MaySign(j, task[j].m, task[j].creds)'
  BY DEF CredsInv, MaySign
<1>0. /\ conn[j] = "down" => /\ task[j].at = "idle"
                             /\ \A m \in Merchants : client[j][m] = NoCreds
      /\ \A m \in Merchants : client[j][m] # NoCreds => MaySign(j, m, client[j][m])
      /\ task[j].at \in {"create", "client", "call"} => MaySign(j, task[j].m, task[j].creds)
  BY DEF CredsInv
<1>1. CASE /\ task'[j] = task[j] /\ client'[j] = client[j] /\ conn'[j] # "down"
           /\ creds' = creds /\ old'[j] = old[j]
  BY <1>0, <1>1 DEF MaySign
<1>2. CASE /\ task'[j] = task[j] /\ client'[j] = client[j] /\ conn'[j] = conn[j]
           /\ creds' = creds /\ old'[j] = old[j]
  BY <1>0, <1>2 DEF MaySign
<1>3. CASE \E r \in Requests : Press(r)
  BY <1>2, <1>3 DEF Press, world
<1>4. ASSUME NEW i \in Instances, Crash(i)
      PROVE  /\ conn'[j] = "down" => /\ task'[j].at = "idle"
                                     /\ \A m \in Merchants : client'[j][m] = NoCreds
             /\ \A m \in Merchants :
                  client'[j][m] # NoCreds => MaySign(j, m, client[j][m])'
             /\ task'[j].at \in {"create", "client", "call"} =>
                  MaySign(j, task[j].m, task[j].creds)'
  <2>1. CASE j = i
    BY <1>4, <2>1, CrashTask DEF Idle
  <2>2. CASE j # i
    BY <1>2, <1>4, <2>2, CrashTask
  <2>3. QED BY <2>1, <2>2
<1>5. CASE Quiet
  <2>1. ASSUME NEW m \in Merchants, Rotate(m)
        PROVE  /\ \A n \in Merchants : client'[j][n] # NoCreds => MaySign(j, n, client[j][n])'
               /\ conn' = conn
               /\ task'[j].at \in {"create", "client", "call"} =>
                    MaySign(j, task[j].m, task[j].creds)'
    <3>1. /\ creds' = [creds EXCEPT ![m].no = @ + 1] /\ conn' = conn
          /\ old' = [i \in Instances |-> IF conn[i] = "down" THEN {} ELSE old[i] \cup {m}]
          /\ client' = client /\ task' = task
      BY <2>1 DEF Rotate
    <3>2. \A n \in Merchants \ {m} : creds'[n] = creds[n]
      BY <3>1 DEF TypeOK
    <3>3. CASE conn[j] = "down"
      BY <1>0, <3>1, <3>3
    <3>4. CASE conn[j] # "down"
      <4>1. old'[j] = old[j] \cup {m}
        BY <3>1, <3>4
      <4>2. ASSUME NEW n \in Merchants, NEW c, MaySign(j, n, c) PROVE MaySign(j, n, c)'
        <5>1. creds[n].of = n
          BY DEF TypeOK
        <5>2. QED BY <3>2, <4>1, <4>2, <5>1 DEF MaySign
      <4>3. task[j].at \in {"create", "client", "call"} => task[j].m \in Merchants
        BY DEF TaskInv
      <4>4. QED BY <1>0, <3>1, <4>2, <4>3
    <3>5. QED BY <3>3, <3>4
  <2>2. CASE \E m \in Merchants : Rotate(m)
    BY <1>0, <2>1, <2>2, QuietFrame, <1>5
  <2>3. CASE ~ \E m \in Merchants : Rotate(m)
    <3>1. creds' = creds /\ old' = old
      BY <1>5, <2>3 DEF Quiet, Redeliver, ConnectionLost, Reconnect, Start, ChangeDevice,
                       vars, world, history
    <3>2. conn'[j] = conn[j] \/ conn'[j] # "down"
      BY <1>5, <2>3 DEF Quiet, Redeliver, ConnectionLost, Reconnect, Start, ChangeDevice,
                       vars, TypeOK
    <3>3. QED BY <1>1, <1>2, <1>5, <3>1, <3>2, QuietFrame
  <2>4. QED BY <2>2, <2>3
<1>6. ASSUME NEW i \in Instances, Handler(i)
      PROVE  /\ conn'[j] = "down" => /\ task'[j].at = "idle"
                                     /\ \A m \in Merchants : client'[j][m] = NoCreds
             /\ \A m \in Merchants :
                  client'[j][m] # NoCreds => MaySign(j, m, client[j][m])'
             /\ task'[j].at \in {"create", "client", "call"} =>
                  MaySign(j, task[j].m, task[j].creds)'
  <2>1. creds' = creds /\ old' = old /\ conn' = conn
    BY <1>6, HandlerFrame
  <2>2. CASE j # i
    <3>1. task'[j] = task[j] /\ client'[j] = client[j]
      BY <1>6, <2>2, TakeTask, ResolveType, CreateType, GetClientType, CallType, ReplyType
         DEF Handler
    <3>2. QED BY <1>2, <2>1, <3>1
  <2>3. CASE j = i
    <3>1. conn[i] # "down"
      BY <1>0, <1>6, <2>3 DEF Handler, Take, Resolve, Create, GetClient, Call, ReplyQR,
                              ReplyFailure, At
    <3>2. ASSUME client'[i] = client[i],
                 task'[i].at \in {"create", "client", "call"} =>
                   MaySign(i, task'[i].m, task'[i].creds)
          PROVE  /\ \A m \in Merchants :
                      client'[i][m] # NoCreds => MaySign(i, m, client[i][m])'
                 /\ task'[i].at \in {"create", "client", "call"} =>
                      MaySign(i, task[i].m, task[i].creds)'
      BY <1>0, <2>1, <2>3, <3>2 DEF MaySign
    <3>3. CASE Take(i)
      BY <1>0, <2>1, <2>3, <3>1, <3>2, <3>3, TakeTask
    <3>4. CASE Resolve(i)
      BY <2>1, <2>3, <3>1, <3>2, <3>4, ResolveType DEF At, Idle, MaySign
    <3>5. CASE Create(i)
      BY <1>0, <2>1, <2>3, <3>1, <3>2, <3>5, CreateType DEF At
    <3>6. CASE GetClient(i)
      <4>1. MaySign(i, task[i].m, task[i].creds) /\ task[i].m \in Merchants
        BY <1>0, <2>3, <3>6, GetClientType DEF At
      <4>2. CASE /\ At(i, "call")' /\ task'[i].creds = client[i][task[i].m]
                 /\ client[i][task[i].m] # NoCreds /\ client' = client
        BY <1>0, <2>1, <2>3, <3>1, <3>2, <3>6, <4>1, <4>2, GetClientType
      <4>3. CASE /\ At(i, "call")' /\ task'[i].creds = task[i].creds
                 /\ client'[i][task[i].m] = task[i].creds
        <5>1. ASSUME NEW m \in Merchants, client'[i][m] # NoCreds
              PROVE  MaySign(i, m, client[i][m])'
          BY <1>0, <2>1, <2>3, <3>6, <4>1, <4>3, <5>1, GetClientType DEF MaySign
        <5>2. MaySign(i, task[i].m, task[i].creds)'
          BY <2>1, <3>6, <4>1, <4>3, GetClientType DEF MaySign
        <5>3. QED BY <2>1, <2>3, <3>1, <5>1, <5>2
      <4>4. CASE At(i, "fail")' /\ client' = client
        BY <2>1, <2>3, <3>1, <3>2, <4>4 DEF At
      <4>5. QED BY <3>6, <4>2, <4>3, <4>4, GetClientType
    <3>7. CASE Call(i)
      BY <2>1, <2>3, <3>1, <3>2, <3>7, CallType
    <3>8. CASE ReplyQR(i) \/ ReplyFailure(i)
      BY <2>1, <2>3, <3>1, <3>2, <3>8, ReplyType DEF Idle
    <3>9. QED BY <1>6, <3>3, <3>4, <3>5, <3>6, <3>7, <3>8 DEF Handler
  <2>4. QED BY <2>2, <2>3
<1>7. QED BY <1>3, <1>4, <1>5, <1>6, NextCases

----------------------------------------------------------------------------
(* Counting deliveries *)

LEMMA InPending ==
  ASSUME NEW id, NEW y
  PROVE  /\ y \in Pending(id) <=> \E i \in Instances : \E k \in 0..Len(inbox[i]) :
                                    y = <<i, k>> /\ Pends(i, k, id)
         /\ y \in Pending(id)' <=> \E i \in Instances : \E k \in 0..Len(inbox'[i]) :
                                    y = <<i, k>> /\ Pends(i, k, id)'
<1>1. y \in Pending(id) <=> \E i \in Instances : \E k \in 0..Len(inbox[i]) :
                              y = <<i, k>> /\ Pends(i, k, id)
  BY DEF Pending
<1>2. y \in Pending(id)' <=> \E i \in Instances : \E k \in 0..Len(inbox'[i]) :
                               y = <<i, k>> /\ Pends(i, k, id)'
  BY DEF Pending
<1>3. QED BY <1>1, <1>2

\* Deliveries that are lost, or that a handler is done with, only leave.
LEMMA Shrinks ==
  ASSUME NEW id, IsFiniteSet(Pending(id)), Pending(id)' \subseteq Pending(id)
  PROVE  IsFiniteSet(Pending(id))' /\ Cardinality(Pending(id))' =< Cardinality(Pending(id))
  BY FS_Subset

\* The requests an instance holds after it lost some of them, and after its
\* handler went on with the same one.
LEMMA Leaving ==
  ASSUME TypeOK, NEW id, NEW i \in Instances,
         \A j \in Instances \ {i} : inbox'[j] = inbox[j] /\ task'[j] = task[j],
         Len(inbox'[i]) \in Nat, Len(inbox'[i]) =< Len(inbox[i]),
         \A k \in 1..Len(inbox'[i]) : inbox'[i][k] = inbox[i][k],
         task'[i].at \in {"resolve", "create"} =>
           task[i].at \in {"resolve", "create"} /\ task'[i].id = task[i].id
  PROVE  Pending(id)' \subseteq Pending(id)
<1> SUFFICES ASSUME NEW j \in Instances, NEW k \in 0..Len(inbox'[j]), Pends(j, k, id)'
             PROVE  <<j, k>> \in Pending(id)
  BY InPending
<1>1. Len(inbox[j]) \in Nat
  BY TypeFacts
<1>2. k \in 0..Len(inbox[j]) /\ Pends(j, k, id)
  BY <1>1 DEF Pends
<1>3. QED BY <1>2, InPending

LEMMA StillPending ==
  ASSUME NEW id, inbox' = inbox, task' = task
  PROVE  Pending(id)' = Pending(id)
  BY DEF Pending, Pends

\* A delivery adds one place for each receiver, at most.
LEMMA DeliverCount ==
  ASSUME TypeOK, NEW id \in Ids, NEW to \in SUBSET Instances, Deliver(id, to), task' = task,
         NEW x \in Ids, IsFiniteSet(Pending(x))
  PROVE  /\ IsFiniteSet(Pending(x))' /\ copies'[x] \in Nat
         /\ Cardinality(Pending(x))' - Cardinality(Pending(x)) =< copies'[x] - copies[x]
<1>1. IsFiniteSet(to) /\ Cardinality(to) \in Nat
  BY IntakeAssumption, FS_Subset, FS_CardinalityType
<1>2. copies' = [copies EXCEPT ![id] = @ + Cardinality(to)] /\ copies[x] \in Nat
  BY DEF Deliver, TypeOK
<1>3. \A i \in Instances :
        /\ Len(inbox[i]) \in Nat /\ inbox[i] \in Seq(1..Len(sent))
        /\ inbox'[i] = IF i \in to THEN Append(inbox[i], id) ELSE inbox[i]
  BY TypeFacts DEF Deliver
<1>4. \A i \in Instances :
        /\ Len(inbox'[i]) = IF i \in to THEN Len(inbox[i]) + 1 ELSE Len(inbox[i])
        /\ \A k \in 1..Len(inbox[i]) : inbox'[i][k] = inbox[i][k]
        /\ i \in to => inbox'[i][Len(inbox[i]) + 1] = id
  <2> SUFFICES ASSUME NEW i \in Instances
               PROVE  /\ Len(inbox'[i]) = IF i \in to THEN Len(inbox[i]) + 1 ELSE Len(inbox[i])
                      /\ \A k \in 1..Len(inbox[i]) : inbox'[i][k] = inbox[i][k]
                      /\ i \in to => inbox'[i][Len(inbox[i]) + 1] = id
    OBVIOUS
  <2>1. inbox[i] \in Seq(Ids)
    <3>1. Seq(1..Len(sent)) \subseteq Seq(Ids)
      BY TypeFacts
    <3>2. QED BY <1>3, <3>1
  <2>2. /\ Len(Append(inbox[i], id)) = Len(inbox[i]) + 1
        /\ \A k \in 1..Len(inbox[i]) : Append(inbox[i], id)[k] = inbox[i][k]
        /\ Append(inbox[i], id)[Len(inbox[i]) + 1] = id
    BY <2>1, AppendProperties
  <2>3. QED BY <1>3, <2>2
<1> DEFINE place == [i \in to |-> <<i, Len(inbox[i]) + 1>>]
           new == {place[i] : i \in to}
<1>5. IsFiniteSet(new) /\ Cardinality(new) =< Cardinality(to) /\ Cardinality(new) \in Nat
  <2>1. place \in Surjection(to, new)
    BY DEF Surjection
  <2>2. QED BY <1>1, <2>1, FS_Surjection, FS_CardinalityType
<1>6. Pending(x)' \subseteq Pending(x) \cup (IF x = id THEN new ELSE {})
  <2> SUFFICES ASSUME NEW i \in Instances, NEW k \in 0..Len(inbox'[i]), Pends(i, k, x)'
               PROVE  <<i, k>> \in Pending(x) \cup (IF x = id THEN new ELSE {})
    <3> HIDE DEF new
    <3>1. QED BY InPending
  <2>1. CASE k \in 0..Len(inbox[i])
    <3>1. k = 0 => Pends(i, k, x)
      BY DEF Pends
    <3>2. k # 0 => k \in 1..Len(inbox[i]) /\ k <= Len(inbox[i])
      BY <1>3, <2>1
    <3>3. k # 0 => inbox'[i][k] = inbox[i][k]
      BY <1>4, <3>2
    <3>4. k # 0 => Pends(i, k, x)
      BY <3>2, <3>3 DEF Pends
    <3>5. QED BY <2>1, <3>1, <3>4, InPending
  <2>2. CASE k \notin 0..Len(inbox[i])
    <3>1. i \in to /\ k = Len(inbox[i]) + 1
      BY <1>3, <1>4, <2>2
    <3>2. x = id
      BY <1>3, <1>4, <3>1 DEF Pends
    <3>3. <<i, k>> = place[i]
      BY <3>1
    <3>4. QED BY <3>1, <3>2, <3>3
  <2>3. QED BY <2>1, <2>2
<1> HIDE DEF new
<1>7. CASE x # id
  <2>1. Pending(x)' \subseteq Pending(x) /\ copies'[x] = copies[x]
    BY <1>2, <1>6, <1>7 DEF TypeOK
  <2>2. QED BY <1>2, <2>1, Shrinks, FS_CardinalityType
<1>8. CASE x = id
  <2>1. copies'[x] = copies[x] + Cardinality(to)
    BY <1>2, <1>8 DEF TypeOK
  <2>2. /\ IsFiniteSet(Pending(x) \cup new)
        /\ Cardinality(Pending(x) \cup new) =< Cardinality(Pending(x)) + Cardinality(new)
    <3>1. IsFiniteSet(Pending(x) \cap new)
      BY <1>5, FS_Subset
    <3>2. Cardinality(Pending(x) \cap new) \in Nat /\ Cardinality(Pending(x)) \in Nat
      BY <3>1, FS_CardinalityType
    <3>3. /\ IsFiniteSet(Pending(x) \cup new)
          /\ Cardinality(Pending(x) \cup new) = Cardinality(Pending(x)) + Cardinality(new)
                                                  - Cardinality(Pending(x) \cap new)
      BY <1>5, FS_Union
    <3>4. QED BY <1>5, <3>2, <3>3
  <2>3. /\ IsFiniteSet(Pending(x)')
        /\ Cardinality(Pending(x)') =< Cardinality(Pending(x) \cup new)
    BY <1>6, <1>8, <2>2, FS_Subset
  <2>4. /\ Cardinality(Pending(x)) \in Nat /\ Cardinality(Pending(x)') \in Nat
        /\ Cardinality(Pending(x) \cup new) \in Nat
    BY <2>2, <2>3, FS_CardinalityType
  <2>5. QED BY <1>1, <1>2, <1>5, <2>1, <2>2, <2>3, <2>4
<1>9. QED BY <1>7, <1>8

\* The handler takes the first request over and the others move up.
LEMMA TakeCount ==
  ASSUME TypeOK, NEW i \in Instances, Take(i), NEW x, IsFiniteSet(Pending(x))
  PROVE  IsFiniteSet(Pending(x))' /\ Cardinality(Pending(x))' =< Cardinality(Pending(x))
<1>1. /\ inbox[i] \in Seq(1..Len(sent)) /\ inbox[i] # <<>> /\ task[i].at = "idle"
      /\ inbox'[i] = Tail(inbox[i])
      /\ \A j \in Instances \ {i} : task'[j] = task[j] /\ inbox'[j] = inbox[j]
      /\ \/ task'[i] = task[i]
         \/ task'[i].at = "resolve" /\ task'[i].id = Head(inbox[i])
  BY TakeTask, TakeType, TypeFacts DEF Take, At
<1>2. /\ Len(inbox[i]) \in Nat \ {0} /\ Len(inbox'[i]) = Len(inbox[i]) - 1
      /\ \A k \in 1..Len(inbox'[i]) : inbox'[i][k] = inbox[i][k + 1]
      /\ Head(inbox[i]) = inbox[i][1]
  <2>1. Len(inbox[i]) \in Nat \ {0}
    BY <1>1, EmptySeq, Zenon
  <2>2. /\ Len(Tail(inbox[i])) = Len(inbox[i]) - 1
        /\ \A k \in 1..Len(Tail(inbox[i])) : Tail(inbox[i])[k] = inbox[i][k + 1]
    BY <1>1, HeadTailProperties
  <2>3. Head(inbox[i]) = inbox[i][1]
    BY <1>1
  <2>4. QED BY <1>1, <2>1, <2>2, <2>3
<1> DEFINE back(y) == IF y[1] = i THEN <<i, y[2] + 1>> ELSE y
           f == [y \in Pending(x)' |-> back(y)]
<1>3. ASSUME NEW j \in Instances, NEW k \in 0..Len(inbox'[j]), Pends(j, k, x)'
      PROVE  back(<<j, k>>) \in Pending(x)
  <2>1. CASE j = i
    <3>1. k + 1 \in 1..Len(inbox[i]) /\ k + 1 # 0
      BY <1>2, <1>3, <2>1
    <3>2. inbox[i][k + 1] = x
      <4>1. CASE k = 0
        BY <1>1, <1>2, <1>3, <2>1, <4>1 DEF Pends
      <4>2. CASE k # 0
        BY <1>2, <1>3, <2>1, <4>2 DEF Pends
      <4>3. QED BY <4>1, <4>2
    <3>3. Pends(i, k + 1, x) /\ k + 1 \in 0..Len(inbox[i])
      BY <1>2, <3>1, <3>2 DEF Pends
    <3>4. <<i, k + 1>> \in Pending(x)
      BY <3>3, InPending
    <3>5. QED BY <2>1, <3>4
  <2>2. CASE j # i
    <3>1. Pends(j, k, x) /\ k \in 0..Len(inbox[j])
      BY <1>1, <1>3, <2>2 DEF Pends
    <3>2. QED BY <2>2, <3>1, InPending
  <2>3. QED BY <2>1, <2>2
<1>4. f \in [Pending(x)' -> Pending(x)]
  <2>1. \A y \in Pending(x)' : back(y) \in Pending(x)
    BY <1>3, InPending
  <2>2. QED BY <2>1
<1>5. ASSUME NEW y \in Pending(x)', NEW z \in Pending(x)', f[y] = f[z] PROVE y = z
  <2>1. PICK j \in Instances, k \in Int : y = <<j, k>>
    BY InPending
  <2>2. PICK l \in Instances, m \in Int : z = <<l, m>>
    BY InPending
  <2>3. back(y) = back(z)
    BY <1>5
  <2>4. QED BY <2>1, <2>2, <2>3
<1>6. f \in Injection(Pending(x)', Pending(x))
  BY <1>4, <1>5 DEF Injection, IsInjective
<1>7. QED BY <1>6, FS_Injection

\* A transaction takes the place of the delivery it was made for.
LEMMA CreateCount ==
  ASSUME TypeOK, TaskInv, CountInv, NEW i \in Instances, Create(i), NEW x \in Ids
  PROVE  /\ IsFiniteSet(rows') /\ IsFiniteSet(Pending(x))'
         /\ Cardinality(RowsOf(x))' + Cardinality(Pending(x))' =< copies'[x]
<1>0. /\ IsFiniteSet(rows) /\ IsFiniteSet(Pending(x)) /\ copies' = copies
      /\ Cardinality(RowsOf(x)) + Cardinality(Pending(x)) =< copies[x]
  BY HandlerFrame DEF CountInv, Handler
<1>1. IsFiniteSet(RowsOf(x))
  BY <1>0, FS_Subset DEF RowsOf
<1>2. /\ Cardinality(RowsOf(x)) \in Nat /\ Cardinality(Pending(x)) \in Nat
      /\ copies[x] \in Nat
  BY <1>0, <1>1, FS_CardinalityType DEF TypeOK
<1>3. /\ At(i, "create") /\ inbox' = inbox /\ task'[i].id = task[i].id
      /\ task'[i].at \in {"client", "fail"}
      /\ \A j \in Instances \ {i} : task'[j] = task[j]
      /\ \A j \in Instances : Len(inbox[j]) \in Nat
  BY <1>0, CreateType, TypeFacts DEF At
<1>4. Pending(x)' \subseteq Pending(x)
  BY <1>3, Leaving DEF At
<1>5. CASE rows' = rows
  <2>1. RowsOf(x)' = RowsOf(x)
    BY <1>5 DEF RowsOf
  <2>2. /\ IsFiniteSet(Pending(x))' /\ Cardinality(Pending(x))' =< Cardinality(Pending(x))
        /\ Cardinality(Pending(x))' \in Nat
    BY <1>0, <1>4, Shrinks, FS_CardinalityType
  <2>3. QED BY <1>0, <1>2, <1>5, <2>1, <2>2
<1>6. ASSUME NEW r, rows' = rows \cup {r}, r.id = task[i].id
      PROVE  /\ IsFiniteSet(rows') /\ IsFiniteSet(Pending(x))'
             /\ Cardinality(RowsOf(x))' + Cardinality(Pending(x))' =< copies'[x]
  <2>1. IsFiniteSet(rows')
    BY <1>0, <1>6, FS_AddElement
  <2>2. CASE x # task[i].id
    <3>1. RowsOf(x)' = RowsOf(x)
      BY <1>6, <2>2 DEF RowsOf
    <3>2. /\ IsFiniteSet(Pending(x))' /\ Cardinality(Pending(x))' =< Cardinality(Pending(x))
          /\ Cardinality(Pending(x))' \in Nat
      BY <1>0, <1>4, Shrinks, FS_CardinalityType
    <3>3. QED BY <1>0, <1>2, <2>1, <3>1, <3>2
  <2>3. CASE x = task[i].id
    <3>1. RowsOf(x)' = RowsOf(x) \cup {r}
      BY <1>6, <2>3 DEF RowsOf
    <3>2. /\ Cardinality(RowsOf(x))' =< Cardinality(RowsOf(x)) + 1
          /\ Cardinality(RowsOf(x))' \in Nat
      <4>1. Cardinality(RowsOf(x) \cup {r}) =
              IF r \in RowsOf(x) THEN Cardinality(RowsOf(x)) ELSE Cardinality(RowsOf(x)) + 1
        BY <1>1, FS_AddElement
      <4>2. QED BY <1>2, <3>1, <4>1
    <3>3. <<i, 0>> \in Pending(x)
      <4>1. 0 \in 0..Len(inbox[i]) /\ Pends(i, 0, x)
        BY <1>3, <2>3 DEF Pends, At
      <4>2. QED BY <4>1, InPending
    <3>4. <<i, 0>> \notin Pending(x)'
      <4>1. ~Pends(i, 0, x)'
        BY <1>3 DEF Pends
      <4>2. QED BY <4>1, InPending
    <3>5. Pending(x)' \subseteq Pending(x) \ {<<i, 0>>}
      BY <1>4, <3>4
    <3>6. /\ IsFiniteSet(Pending(x) \ {<<i, 0>>})
          /\ Cardinality(Pending(x) \ {<<i, 0>>}) = Cardinality(Pending(x)) - 1
      BY <1>0, <3>3, FS_RemoveElement
    <3>7. /\ IsFiniteSet(Pending(x)')
          /\ Cardinality(Pending(x)') =< Cardinality(Pending(x) \ {<<i, 0>>})
          /\ Cardinality(Pending(x)') \in Nat
      BY <3>5, <3>6, FS_Subset, FS_CardinalityType
    <3>8. /\ Cardinality(Pending(x)') + 1 =< Cardinality(Pending(x))
          /\ copies'[x] = copies[x]
      BY <1>0, <1>2, <3>6, <3>7
    <3>9. Cardinality(RowsOf(x))' + Cardinality(Pending(x))' =< copies[x]
      BY <1>0, <1>2, <3>2, <3>7, <3>8
    <3>10. QED BY <2>1, <3>7, <3>8, <3>9
  <2>4. QED BY <2>2, <2>3
<1>7. QED
  <2>1. CASE At(i, "fail")' /\ rows' = rows
    <3>1. IsFiniteSet(rows')
      BY <1>0, <2>1
    <3>2. QED BY <1>0, <1>5, <2>1, <3>1, <1>4, Shrinks
  <2>2. CASE rows' = rows \cup {[id |-> task[i].id, n |-> Cardinality(rows), m |-> task[i].m,
                                 s |-> Request(i).p, rupiah |-> Rupiah(Request(i).sen)]}
    BY <1>6, <2>2
  <2>3. QED BY <1>0, <2>1, <2>2, CreateType

LEMMA StepCount == TypeOK /\ TaskInv /\ CountInv /\ [Next]_vars => CountInv'
<1> SUFFICES ASSUME TypeOK, TaskInv, CountInv, [Next]_vars PROVE CountInv'
  OBVIOUS
<1>0. /\ IsFiniteSet(rows)
      /\ \A x \in Ids :
           /\ IsFiniteSet(Pending(x))
           /\ Cardinality(RowsOf(x)) + Cardinality(Pending(x)) =< copies[x]
           /\ Cardinality(RowsOf(x)) \in Nat /\ Cardinality(Pending(x)) \in Nat
           /\ copies[x] \in Nat
  <2>1. \A x \in Ids : IsFiniteSet(RowsOf(x))
    BY FS_Subset DEF CountInv, RowsOf
  <2>2. QED BY <2>1, FS_CardinalityType DEF CountInv, TypeOK
<1>1. ASSUME rows' = rows, copies' = copies,
             \A x \in Ids : /\ IsFiniteSet(Pending(x))'
                            /\ Cardinality(Pending(x))' =< Cardinality(Pending(x))
      PROVE  CountInv'
  <2>1. \A x \in Ids : RowsOf(x)' = RowsOf(x) /\ Cardinality(Pending(x)') \in Nat
    BY <1>1, FS_CardinalityType DEF RowsOf
  <2>2. ASSUME NEW x \in Ids
        PROVE  Cardinality(RowsOf(x))' + Cardinality(Pending(x))' =< copies'[x]
    <3>1. Cardinality(RowsOf(x)) + Cardinality(Pending(x)') =< copies[x]
      BY <1>0, <1>1, <2>1
    <3>2. QED BY <1>1, <2>1, <3>1
  <2>3. QED BY <1>0, <1>1, <2>2 DEF CountInv
<1>2. ASSUME rows' = rows, copies' = copies,
             \A x \in Ids : Pending(x)' \subseteq Pending(x)
      PROVE  CountInv'
  BY <1>0, <1>1, <1>2, Shrinks
<1>3. ASSUME NEW id \in Ids, Deliver(id, Subscribed), task' = task, rows' = rows
      PROVE  CountInv'
  <2>1. Subscribed \in SUBSET Instances
    BY DEF Subscribed
  <2>2. ASSUME NEW x \in Ids
        PROVE  /\ IsFiniteSet(Pending(x))'
               /\ Cardinality(RowsOf(x))' + Cardinality(Pending(x))' =< copies'[x]
    <3>1. /\ IsFiniteSet(Pending(x))' /\ copies'[x] \in Nat
          /\ Cardinality(Pending(x)') - Cardinality(Pending(x)) =< copies'[x] - copies[x]
      BY <1>0, <1>3, <2>1, DeliverCount
    <3>2. RowsOf(x)' = RowsOf(x) /\ Cardinality(Pending(x)') \in Nat
      BY <1>3, <3>1, FS_CardinalityType DEF RowsOf
    <3>3. Cardinality(RowsOf(x)) + Cardinality(Pending(x)') =< copies'[x]
      BY <1>0, <3>1, <3>2
    <3>4. QED BY <3>1, <3>2, <3>3
  <2>3. QED BY <1>0, <1>3, <2>2 DEF CountInv
<1>4. ASSUME NEW r \in Requests, Press(r) PROVE CountInv'
  BY <1>3, <1>4, PressType DEF Press
<1>5. ASSUME NEW i \in Instances, Crash(i) PROVE CountInv'
  <2>1. Len(inbox'[i]) = 0
    BY <1>5, CrashTask
  <2>2. Len(inbox[i]) \in Nat
    BY TypeFacts
  <2>3. \A x \in Ids : Pending(x)' \subseteq Pending(x)
    BY <1>5, <2>1, <2>2, CrashTask, Leaving DEF Idle
  <2>4. QED BY <1>2, <1>5, <2>3, CrashTask
<1>6. CASE Quiet
  <2>1. ASSUME NEW id \in Ids, Redeliver(id) PROVE CountInv'
    BY <1>3, <2>1 DEF Redeliver
  <2>2. ASSUME NEW i \in Instances, ConnectionLost(i) PROVE CountInv'
    <3>1. PICK kept \in 0..Len(inbox[i]) : inbox' = [inbox EXCEPT ![i] = SubSeq(@, 1, kept)]
      BY <2>2 DEF ConnectionLost
    <3>2. task' = task /\ rows' = rows /\ copies' = copies
      BY <2>2 DEF ConnectionLost
    <3>3. /\ inbox'[i] = SubSeq(inbox[i], 1, kept)
          /\ \A j \in Instances \ {i} : inbox'[j] = inbox[j]
      BY <3>1 DEF TypeOK
    <3>4. /\ Len(inbox[i]) \in Nat /\ kept \in Nat /\ kept =< Len(inbox[i])
          /\ Len(inbox'[i]) = kept /\ \A k \in 1..kept : inbox'[i][k] = inbox[i][k]
      <4>1. Len(inbox[i]) \in Nat /\ \A k \in 1..kept : inbox[i][k] \in 1..Len(sent)
        BY TypeFacts
      <4>2. /\ Len(SubSeq(inbox[i], 1, kept)) = IF 1 =< kept THEN kept - 1 + 1 ELSE 0
            /\ \A k \in 1..(kept - 1 + 1) : SubSeq(inbox[i], 1, kept)[k] = inbox[i][1 + k - 1]
        BY <4>1, SubSeqProperties
      <4>3. QED BY <3>3, <4>1, <4>2
    <3>5. \A x \in Ids : Pending(x)' \subseteq Pending(x)
      BY <3>2, <3>3, <3>4, Leaving
    <3>6. QED BY <1>2, <3>2, <3>5
  <2>3. CASE /\ ~ \E id \in Ids : Redeliver(id)
             /\ ~ \E i \in Instances : ConnectionLost(i)
    <3>1. inbox' = inbox /\ task' = task /\ rows' = rows /\ copies' = copies
      BY <1>6, <2>3 DEF Quiet, Reconnect, Start, ChangeDevice, Rotate, vars, world, history
    <3>2. QED BY <1>2, <3>1, StillPending
  <2>4. QED BY <2>1, <2>2, <2>3
<1>7. ASSUME NEW i \in Instances, Handler(i) PROVE CountInv'
  <2>1. copies' = copies
    BY <1>7, HandlerFrame
  <2>2. CASE Take(i)
    <3>1. rows' = rows
      BY <2>2, TakeTask
    <3>2. QED BY <1>0, <1>1, <2>1, <2>2, <3>1, TakeCount
  <2>3. CASE Create(i)
    BY <1>0, <2>3, CreateCount, IdsFacts DEF CountInv
  <2>4. CASE Resolve(i)
    <3>1. /\ inbox' = inbox /\ rows' = rows /\ At(i, "resolve")
          /\ \A j \in Instances \ {i} : task'[j] = task[j]
          /\ task'[i] = Idle \/ task'[i].id = task[i].id
      BY <2>4, ResolveType
    <3>2. Len(inbox[i]) \in Nat
      BY TypeFacts
    <3>3. \A x \in Ids : Pending(x)' \subseteq Pending(x)
      BY <3>1, <3>2, Leaving DEF At, Idle
    <3>4. QED BY <1>2, <2>1, <3>1, <3>3
  <2>5. CASE GetClient(i) \/ Call(i) \/ ReplyQR(i) \/ ReplyFailure(i)
    <3>1. /\ inbox' = inbox /\ rows' = rows
          /\ \A j \in Instances \ {i} : task'[j] = task[j]
          /\ task'[i].at \notin {"resolve", "create"}
      BY <2>5, GetClientType, CallType, ReplyType DEF At, Idle
    <3>2. Len(inbox[i]) \in Nat
      BY TypeFacts
    <3>3. \A x \in Ids : Pending(x)' \subseteq Pending(x)
      BY <3>1, <3>2, Leaving
    <3>4. QED BY <1>2, <2>1, <3>1, <3>3
  <2>6. QED BY <1>7, <2>2, <2>3, <2>4, <2>5 DEF Handler
<1>8. QED BY <1>4, <1>5, <1>6, <1>7, NextCases

----------------------------------------------------------------------------
(* No request without a trace *)

LEMMA StepForgotten ==
  TypeOK /\ TaskInv /\ IsFiniteSet(rows) /\ NoneForgotten /\ [Next]_vars => NoneForgotten'
<1> SUFFICES ASSUME TypeOK, TaskInv, IsFiniteSet(rows), NoneForgotten, [Next]_vars,
                    NEW id \in 1..Len(sent')
             PROVE  answers'[id] # {} \/ excuses'[id] # {} \/ InFlight(id)'
  BY DEF NoneForgotten
<1>0. /\ Len(sent) \in Nat /\ 1..Len(sent) \subseteq Ids
      /\ \A i \in Instances : Len(inbox[i]) \in Nat /\ inbox[i] \in Seq(1..Len(sent))
      /\ task \in [Instances -> Tasks]
  BY TypeFacts
<1>1. CASE inbox' = inbox /\ task' = task /\ sent' = sent
           /\ answers' = answers /\ excuses' = excuses
  BY <1>1 DEF NoneForgotten, InFlight
<1>2. ASSUME NEW n \in Ids, Deliver(n, Subscribed), task' = task, answers' = answers,
             id = n => Subscribed # {} \/ excuses'[id] # {},
             id # n => id \in 1..Len(sent) /\ excuses'[id] = excuses[id]
      PROVE  answers'[id] # {} \/ excuses'[id] # {} \/ InFlight(id)'
  <2>1. \A i \in Instances :
          /\ i \notin Subscribed => inbox'[i] = inbox[i]
          /\ i \in Subscribed => inbox'[i] = Append(inbox[i], n)
    BY <1>2 DEF Deliver
  <2>2. ASSUME NEW i \in Instances
        PROVE  /\ Len(inbox'[i]) \in Nat /\ Len(inbox[i]) =< Len(inbox'[i])
               /\ \A k \in 1..Len(inbox[i]) : k \in DOMAIN inbox'[i] /\ inbox'[i][k] = inbox[i][k]
               /\ i \in Subscribed => \E k \in DOMAIN inbox'[i] : inbox'[i][k] = n
    <3>1. inbox[i] \in Seq(Ids)
      <4>1. Seq(1..Len(sent)) \subseteq Seq(Ids)
        BY <1>0
      <4>2. QED BY <1>0, <4>1
    <3>2. /\ Append(inbox[i], n) \in Seq(Ids) /\ Len(Append(inbox[i], n)) = Len(inbox[i]) + 1
          /\ \A k \in 1..Len(inbox[i]) : Append(inbox[i], n)[k] = inbox[i][k]
          /\ Append(inbox[i], n)[Len(inbox[i]) + 1] = n
      BY <3>1, AppendProperties
    <3>3. \A q \in Seq(Ids) : DOMAIN q = 1..Len(q)
      OBVIOUS
    <3>4. CASE i \in Subscribed
      <4>1. inbox'[i] = Append(inbox[i], n)
        BY <2>1, <3>4
      <4>2. DOMAIN inbox'[i] = 1..(Len(inbox[i]) + 1) /\ Len(inbox'[i]) = Len(inbox[i]) + 1
        BY <3>2, <3>3, <4>1
      <4>3. Len(inbox[i]) + 1 \in DOMAIN inbox'[i] /\ inbox'[i][Len(inbox[i]) + 1] = n
        BY <1>0, <3>2, <4>1, <4>2
      <4>4. /\ \A k \in 1..Len(inbox[i]) : k \in DOMAIN inbox'[i]
            /\ Len(inbox'[i]) \in Nat /\ Len(inbox[i]) =< Len(inbox'[i])
        BY <1>0, <4>2
      <4>5. \A k \in 1..Len(inbox[i]) : inbox'[i][k] = inbox[i][k]
        BY <3>2, <4>1
      <4>6. QED BY <4>3, <4>4, <4>5
    <3>5. CASE i \notin Subscribed
      <4>1. inbox'[i] = inbox[i] /\ DOMAIN inbox[i] = 1..Len(inbox[i])
        BY <2>1, <3>1, <3>3, <3>5
      <4>2. QED BY <1>0, <3>5, <4>1
    <3>6. QED BY <3>4, <3>5
  <2>3. CASE id = n
    BY <1>2, <2>2, <2>3 DEF InFlight, Subscribed
  <2>4. CASE id # n
    <3>1. answers[id] # {} \/ excuses[id] # {} \/ InFlight(id)
      BY <1>2, <2>4 DEF NoneForgotten
    <3>2. ASSUME InFlight(id) PROVE InFlight(id)'
      <4>1. PICK i \in Instances : \/ \E k \in DOMAIN inbox[i] : inbox[i][k] = id
                                   \/ task[i].at # "idle" /\ task[i].id = id
        BY <3>2 DEF InFlight
      <4>2. DOMAIN inbox[i] = 1..Len(inbox[i])
        BY <1>0
      <4>3. (\E k \in DOMAIN inbox[i] : inbox[i][k] = id)
              => \E k \in DOMAIN inbox'[i] : inbox'[i][k] = id
        BY <2>2, <4>2
      <4>4. QED BY <1>2, <4>1, <4>3 DEF InFlight
    <3>3. QED BY <1>2, <2>4, <3>1, <3>2
  <2>5. QED BY <2>3, <2>4
<1>3. ASSUME NEW r \in Requests, Press(r)
      PROVE  answers'[id] # {} \/ excuses'[id] # {} \/ InFlight(id)'
  <2>1. /\ Len(sent') = Len(sent) + 1 /\ Len(sent) + 1 \in Ids
        /\ Deliver(Len(sent) + 1, Subscribed)
        /\ task' = task /\ answers' = answers
        /\ excuses' = [excuses EXCEPT ![Len(sent) + 1] =
                         IF Subscribed = {} THEN {"nobody"} ELSE {}]
    BY <1>3, PressType DEF Press
  <2>2. id # Len(sent) + 1 => id \in 1..Len(sent)
    BY <1>0, <2>1
  <2>3. /\ id = Len(sent) + 1 => Subscribed # {} \/ excuses'[id] # {}
        /\ id # Len(sent) + 1 => excuses'[id] = excuses[id]
    <3>1. excuses \in [Ids -> SUBSET Reasons] /\ id \in Ids
      BY <1>0, <2>1, <2>2 DEF TypeOK, Reasons
    <3>2. QED BY <2>1, <3>1
  <2>4. QED BY <1>2, <2>1, <2>2, <2>3
<1>4. ASSUME NEW n \in Ids, Redeliver(n)
      PROVE  answers'[id] # {} \/ excuses'[id] # {} \/ InFlight(id)'
  <2>1. /\ Deliver(n, Subscribed) /\ Subscribed # {} /\ task' = task /\ answers' = answers
        /\ excuses' = excuses /\ sent' = sent
    BY <1>4 DEF Redeliver
  <2>2. QED BY <1>2, <2>1
\* Some instance loses requests, or its handler goes on: all others keep theirs.
<1>5. ASSUME sent' = sent, NEW i \in Instances,
             \A j \in Instances \ {i} : inbox'[j] = inbox[j] /\ task'[j] = task[j],
             answers[id] \subseteq answers'[id], excuses[id] \subseteq excuses'[id],
             \A k \in DOMAIN inbox[i] : inbox[i][k] = id =>
               answers'[id] # {} \/ excuses'[id] # {} \/ InFlight(id)',
             task[i].at # "idle" /\ task[i].id = id =>
               answers'[id] # {} \/ excuses'[id] # {} \/ InFlight(id)'
      PROVE  answers'[id] # {} \/ excuses'[id] # {} \/ InFlight(id)'
  <2>1. answers[id] # {} \/ excuses[id] # {} \/ InFlight(id)
    BY <1>5 DEF NoneForgotten
  <2>2. CASE answers[id] # {} \/ excuses[id] # {}
    BY <1>5, <2>2
  <2>3. CASE InFlight(id)
    <3>1. PICK j \in Instances : \/ \E k \in DOMAIN inbox[j] : inbox[j][k] = id
                                 \/ task[j].at # "idle" /\ task[j].id = id
      BY <2>3 DEF InFlight
    <3>2. CASE j # i
      BY <1>5, <3>1, <3>2 DEF InFlight
    <3>3. CASE j = i
      BY <1>5, <3>1, <3>3
    <3>4. QED BY <3>2, <3>3
  <2>4. QED BY <2>1, <2>2, <2>3
<1>6. ASSUME NEW i \in Instances, Crash(i)
      PROVE  answers'[id] # {} \/ excuses'[id] # {} \/ InFlight(id)'
  <2>1. id \in Ids /\ sent' = sent /\ answers' = answers
    BY <1>0, <1>6, CrashTask
  <2>2. excuses' = [x \in Ids |->
          IF \/ task[i].at # "idle" /\ task[i].id = x
             \/ \E k \in DOMAIN inbox[i] : inbox[i][k] = x
          THEN excuses[x] \cup {"crash"} ELSE excuses[x]]
    BY <1>6 DEF Crash
  <2>3. /\ excuses[id] \subseteq excuses'[id]
        /\ \/ task[i].at # "idle" /\ task[i].id = id
           \/ \E k \in DOMAIN inbox[i] : inbox[i][k] = id
           => excuses'[id] # {}
    BY <2>1, <2>2
  <2>4. QED BY <1>5, <1>6, <2>1, <2>3, CrashTask
<1>7. ASSUME NEW i \in Instances, ConnectionLost(i)
      PROVE  answers'[id] # {} \/ excuses'[id] # {} \/ InFlight(id)'
  <2>1. PICK kept \in 0..Len(inbox[i]) :
          /\ inbox' = [inbox EXCEPT ![i] = SubSeq(@, 1, kept)]
          /\ excuses' = [x \in Ids |->
                IF \E k \in (kept + 1)..Len(inbox[i]) : inbox[i][k] = x
                THEN excuses[x] \cup {"cut"} ELSE excuses[x]]
    BY <1>7 DEF ConnectionLost
  <2>2. id \in Ids /\ sent' = sent /\ answers' = answers /\ task' = task
    BY <1>0, <1>7 DEF ConnectionLost
  <2>3. /\ inbox'[i] = SubSeq(inbox[i], 1, kept)
        /\ \A j \in Instances \ {i} : inbox'[j] = inbox[j]
    BY <2>1 DEF TypeOK
  <2>4. DOMAIN inbox'[i] = 1..kept /\ \A k \in 1..kept : inbox'[i][k] = inbox[i][k]
    <3>1. \A k \in 1..kept : inbox[i][k] \in 1..Len(sent)
      BY <1>0
    <3>2. /\ SubSeq(inbox[i], 1, kept) \in Seq(1..Len(sent))
          /\ Len(SubSeq(inbox[i], 1, kept)) = IF 1 =< kept THEN kept - 1 + 1 ELSE 0
          /\ \A k \in 1..(kept - 1 + 1) : SubSeq(inbox[i], 1, kept)[k] = inbox[i][1 + k - 1]
      BY <3>1, SubSeqProperties
    <3>3. DOMAIN SubSeq(inbox[i], 1, kept) = 1..Len(SubSeq(inbox[i], 1, kept))
      BY <3>2
    <3>4. Len(SubSeq(inbox[i], 1, kept)) = kept
      BY <1>0, <3>2
    <3>5. QED BY <1>0, <2>3, <3>2, <3>3, <3>4
  <2>5. excuses[id] \subseteq excuses'[id]
    BY <2>1, <2>2
  <2>6. ASSUME NEW k \in DOMAIN inbox[i], inbox[i][k] = id
        PROVE  excuses'[id] # {} \/ InFlight(id)'
    <3>1. k \in 1..Len(inbox[i])
      BY <1>0
    <3>2. CASE k \in 1..kept
      BY <2>4, <2>6, <3>2 DEF InFlight
    <3>3. CASE k \in (kept + 1)..Len(inbox[i])
      BY <2>1, <2>2, <2>6, <3>3
    <3>4. QED BY <1>0, <3>1, <3>2, <3>3
  <2>7. task[i].at # "idle" /\ task[i].id = id => InFlight(id)'
    BY <2>2 DEF InFlight
  <2>8. QED BY <1>5, <2>2, <2>3, <2>5, <2>6, <2>7
<1>8. ASSUME NEW i \in Instances, Handler(i)
      PROVE  answers'[id] # {} \/ excuses'[id] # {} \/ InFlight(id)'
  <2>1. sent' = sent /\ id \in Ids /\ id \in 1..Len(sent)
    BY <1>0, <1>8, HandlerFrame
  <2>2. CASE Take(i)
    <3>1. /\ answers' = answers /\ excuses[id] \subseteq excuses'[id]
          /\ \A j \in Instances \ {i} : task'[j] = task[j] /\ inbox'[j] = inbox[j]
          /\ inbox'[i] = Tail(inbox[i]) /\ task[i].at = "idle" /\ inbox[i] # <<>>
      BY <2>1, <2>2, TakeTask DEF Take, At
    <3>2. /\ Len(inbox[i]) \in Nat \ {0} /\ Tail(inbox[i]) \in Seq(1..Len(sent))
          /\ Len(Tail(inbox[i])) = Len(inbox[i]) - 1 /\ Head(inbox[i]) = inbox[i][1]
          /\ \A k \in 1..Len(Tail(inbox[i])) : Tail(inbox[i])[k] = inbox[i][k + 1]
      <4>1. Len(inbox[i]) \in Nat \ {0}
        BY <1>0, <3>1, EmptySeq, Zenon
      <4>2. /\ Tail(inbox[i]) \in Seq(1..Len(sent))
            /\ Len(Tail(inbox[i])) = Len(inbox[i]) - 1
            /\ \A k \in 1..Len(Tail(inbox[i])) : Tail(inbox[i])[k] = inbox[i][k + 1]
        <5>1. inbox[i] \in Seq(1..Len(sent)) /\ inbox[i] # <<>>
          BY <1>0, <3>1
        <5>2. QED BY <5>1, HeadTailProperties
      <4>3. Head(inbox[i]) = inbox[i][1]
        BY <1>0, <3>1
      <4>4. QED BY <4>1, <4>2, <4>3
    <3>3. ASSUME NEW k \in DOMAIN inbox[i], inbox[i][k] = id
          PROVE  excuses'[id] # {} \/ InFlight(id)'
      <4>1. k \in 1..Len(inbox[i])
        BY <1>0
      <4>2. CASE k = 1
        BY <2>1, <2>2, <3>2, <3>3, <4>2, TakeTask DEF InFlight
      <4>3. CASE k # 1
        <5>1. k - 1 \in DOMAIN inbox'[i] /\ inbox'[i][k - 1] = id
          BY <3>1, <3>2, <3>3, <4>1, <4>3
        <5>2. QED BY <5>1 DEF InFlight
      <4>4. QED BY <4>2, <4>3
    <3>4. QED BY <1>5, <2>1, <3>1, <3>3
  <2>3. CASE Resolve(i)
    <3>1. /\ inbox' = inbox /\ answers' = answers /\ excuses[id] \subseteq excuses'[id]
          /\ \A j \in Instances \ {i} : task'[j] = task[j]
          /\ \/ task'[i].at # "idle" /\ task'[i].id = task[i].id
             \/ excuses'[task[i].id] # {}
      BY <2>1, <2>3, ResolveType DEF At
    <3>2. task[i].at # "idle" /\ task[i].id = id => excuses'[id] # {} \/ InFlight(id)'
      BY <3>1 DEF InFlight
    <3>3. \A k \in DOMAIN inbox[i] : inbox[i][k] = id => InFlight(id)'
      BY <3>1 DEF InFlight
    <3>4. QED BY <1>5, <2>1, <3>1, <3>2, <3>3
  <2>4. CASE Create(i) \/ GetClient(i) \/ Call(i)
    <3>1. /\ inbox' = inbox /\ answers' = answers /\ excuses' = excuses
          /\ \A j \in Instances \ {i} : task'[j] = task[j]
          /\ task'[i].at # "idle" /\ task'[i].id = task[i].id
      BY <2>4, CreateType, GetClientType, CallType DEF At
    <3>2. task[i].at # "idle" /\ task[i].id = id => InFlight(id)'
      BY <3>1 DEF InFlight
    <3>3. \A k \in DOMAIN inbox[i] : inbox[i][k] = id => InFlight(id)'
      BY <3>1 DEF InFlight
    <3>4. QED BY <1>5, <2>1, <3>1, <3>2, <3>3
  <2>5. CASE ReplyQR(i) \/ ReplyFailure(i)
    <3>1. /\ inbox' = inbox /\ answers[id] \subseteq answers'[id]
          /\ excuses[id] \subseteq excuses'[id]
          /\ \A j \in Instances \ {i} : task'[j] = task[j]
          /\ answers'[task[i].id] # {} \/ excuses'[task[i].id] # {}
      BY <2>1, <2>5, ReplyType
    <3>2. task[i].at # "idle" /\ task[i].id = id => answers'[id] # {} \/ excuses'[id] # {}
      BY <3>1
    <3>3. \A k \in DOMAIN inbox[i] : inbox[i][k] = id => InFlight(id)'
      BY <3>1 DEF InFlight
    <3>4. QED BY <1>5, <2>1, <3>1, <3>2, <3>3
  <2>6. QED BY <1>8, <2>2, <2>3, <2>4, <2>5 DEF Handler
<1>9. CASE Quiet
  <2>1. CASE \E n \in Ids : Redeliver(n)
    BY <1>4, <2>1
  <2>2. CASE \E i \in Instances : ConnectionLost(i)
    BY <1>7, <2>2
  <2>3. CASE \/ \E i \in Instances : Reconnect(i) \/ Start(i)
             \/ \E s \in Devices : ChangeDevice(s)
             \/ \E m \in Merchants : Rotate(m)
             \/ UNCHANGED vars
    BY <1>1, <2>3 DEF Reconnect, Start, ChangeDevice, Rotate, vars, world, history
  <2>4. QED BY <1>9, <2>1, <2>2, <2>3 DEF Quiet
<1>10. QED BY <1>3, <1>6, <1>8, <1>9, NextCases

----------------------------------------------------------------------------
(* Theorems *)

LEMMA InitIInv == Init => IInv /\ NoneForgotten
<1> SUFFICES ASSUME Init PROVE IInv /\ NoneForgotten
  OBVIOUS
<1>1. TypeOK
  BY InitType
<1>2. \A i \in Instances : task[i] = Idle /\ inbox[i] = <<>> /\ conn[i] = "up"
                           /\ \A m \in Merchants : client[i][m] = NoCreds
  BY DEF Init
<1>3. TaskInv /\ RowsInv /\ CredsInv
  BY <1>2 DEF Init, TaskInv, RowsInv, CredsInv, At, Idle
<1>4. CountInv
  <2>1. rows = {} /\ copies = [id \in Ids |-> 0]
    BY DEF Init
  <2>2. \A id \in Ids : RowsOf(id) = {}
    BY <2>1 DEF RowsOf
  <2>3. \A id \in Ids : Pending(id) = {}
    <3> SUFFICES ASSUME NEW id \in Ids, NEW i \in Instances, NEW k \in 0..Len(inbox[i]),
                        Pends(i, k, id)
                 PROVE  FALSE
      BY InPending
    <3>1. Len(inbox[i]) = 0
      BY <1>2
    <3>2. QED BY <1>2, <3>1 DEF Pends, Idle
  <2>4. Cardinality({}) = 0 /\ IsFiniteSet({})
    BY FS_EmptySet
  <2>5. QED BY <2>1, <2>2, <2>3, <2>4 DEF CountInv
<1>5. NoneForgotten
  BY DEF Init, NoneForgotten
<1>6. QED BY <1>1, <1>3, <1>4, <1>5 DEF IInv

LEMMA StepIInv == IInv /\ [Next]_vars => IInv'
<1>1. IInv => IsFiniteSet(rows)
  BY DEF IInv, CountInv
<1>2. QED BY <1>1, StepType, StepTask, StepRows, StepCount, StepCreds DEF IInv

\* The inductive invariant of the instances, the rows and the credentials, for any
\* number of requests, copies, crashes and rotations.
THEOREM IInvIsInvariant == Spec => []IInv
<1>1. Init => IInv
  BY InitIInv
<1>2. QED BY <1>1, StepIInv, PTL DEF Spec

\* The variables keep their types: an instance only holds requests that were
\* sent, and a merchant's row never names another merchant's credentials.
THEOREM TypeCorrect == Spec => []TypeOK
<1>1. IInv => TypeOK
  BY DEF IInv
<1>2. QED BY <1>1, IInvIsInvariant, PTL

\* Every transaction names the device and the merchant that asked for it and
\* the whole rupiah of the amount, and a request becomes no more transactions
\* than it was delivered, whatever is forged, copied, lost or restarted.
THEOREM RequestedTransactions == Spec => []TransactionsAreRequested
<1>1. IInv => TransactionsAreRequested
  <2> SUFFICES ASSUME IInv, NEW id \in Ids PROVE Cardinality({r \in rows : r.id = id}) <= copies[id]
    BY DEF IInv, RowsInv, TransactionsAreRequested
  <2>1. /\ Cardinality(Pending(id)) \in Nat
        /\ Cardinality(RowsOf(id)) + Cardinality(Pending(id)) <= copies[id]
    BY FS_CardinalityType DEF IInv, CountInv
  <2>2. IsFiniteSet(RowsOf(id))
    BY FS_Subset DEF IInv, CountInv, RowsOf
  <2>3. Cardinality(RowsOf(id)) \in Nat /\ copies[id] \in Nat
    BY <2>2, FS_CardinalityType DEF IInv, TypeOK
  <2>4. Cardinality(RowsOf(id)) <= copies[id]
    BY <2>1, <2>3
  <2>5. QED BY <2>4 DEF RowsOf
<1>2. QED BY <1>1, IInvIsInvariant, PTL

\* A call is signed with the credentials its merchant's row names, unless the
\* instance was running when they changed; and never with another merchant's.
THEOREM CurrentCredentials == Spec => []CredentialsAreCurrent
<1>1. IInv => CredentialsAreCurrent
  BY DEF IInv, CredsInv, MaySign, CredentialsAreCurrent, At
<1>2. QED BY <1>1, IInvIsInvariant, PTL

\* A request that has neither an answer nor one of the known excuses is still
\* in an inbox or in a handler: the code has no other way of losing it.
THEOREM NothingForgotten == Spec => []NoneForgotten
<1>1. Init => NoneForgotten
  BY InitIInv
<1>2. IInv /\ NoneForgotten /\ [Next]_vars => NoneForgotten'
  BY StepForgotten DEF IInv, CountInv
<1>3. QED BY <1>1, <1>2, IInvIsInvariant, PTL DEF Spec
=============================================================================

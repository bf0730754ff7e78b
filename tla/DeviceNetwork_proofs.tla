------------------------ MODULE DeviceNetwork_proofs ------------------------
(***************************************************************************)
(* Proofs about DeviceNetwork for any number of slots, faults, changes of  *)
(* mode and upgrades.                                                      *)
(***************************************************************************)
EXTENDS DeviceNetwork, TLAPS

Places ==
    {"main", "idle", "switching", "begin", "dial", "find", "create", "connect", "commit",
     "connected", "closing", "clearing", "reclosing", "reclearing", "closing again",
     "clearing again"}
Powers == {"off", "open", "joined"}
Sockets == [mode : Modes, id : Nat, by : Threads]

LEMMA SlotFacts ==
  /\ MaxSockets \in Nat \ {0} /\ Slots \subseteq Nat /\ 1 \in Slots
  /\ NoSlot \notin Slots /\ Junk \notin Slots /\ Invalid \notin Nat /\ NoSlot # Junk
  BY BoundsAssumption DEF Slots, NoSlot, Junk, Invalid

LEMMA ModeFacts ==
  ASSUME NEW m \in Modes
  PROVE  Other(m) \in Modes /\ Other(m) # m /\ (\A n \in Modes : n # m => n = Other(m))
  BY DEF Modes, Other

LEMMA Typed ==
  ASSUME TypeOK
  PROVE  /\ commode \in Modes /\ modem \in [Modes -> Powers] /\ open \subseteq Sockets
         /\ configured \in BOOLEAN
         /\ slot \in [Slots -> Nat \cup {Invalid}] /\ pc \in [Threads -> Places]
         /\ mode \in [Threads -> Modes] /\ chosen \in [Threads -> Slots]
         /\ sock \in [Threads -> Nat] /\ ctx \in [Threads -> Slots \cup {NoSlot, Junk}]
         /\ faults \in 0..MaxFaults /\ switches \in 0..MaxSwitches
         /\ upgrades \in 0..MaxUpgrades /\ shared \in BOOLEAN /\ stale \subseteq Threads
  BY DEF TypeOK, Powers, Places, Sockets

----------------------------------------------------------------------------
(* What the parts of a step do *)

LEMMA GotoFacts ==
  ASSUME TypeOK, NEW t \in Threads, NEW where \in Places, Goto(t, where)
  PROVE  /\ pc' \in [Threads -> Places] /\ pc'[t] = where
         /\ \A u \in Threads : u # t => pc'[u] = pc[u]
  BY Typed DEF Goto

LEMMA StartFacts ==
  ASSUME NEW t \in Threads
  PROVE  Start(t) \in Rest /\ Start(t) \in Places
  BY DEF Start, Rest, Places

LEMMA ReturnFacts ==
  ASSUME TypeOK, NEW t \in Threads, NEW i \in Slots \cup {NoSlot, Junk}, Return(t, i)
  PROVE  /\ pc' \in [Threads -> Places] /\ ctx' \in [Threads -> Slots \cup {NoSlot, Junk}]
         /\ mode' \in [Threads -> Modes] /\ chosen' \in [Threads -> Slots]
         /\ sock' \in [Threads -> Nat]
         /\ pc'[t] = (IF i = NoSlot THEN Start(t) ELSE "connected") /\ ctx'[t] = i
         /\ \A u \in Threads : u # t => /\ pc'[u] = pc[u] /\ ctx'[u] = ctx[u]
                                        /\ mode'[u] = mode[u] /\ chosen'[u] = chosen[u]
                                        /\ sock'[u] = sock[u]
<1>1. (IF i = NoSlot THEN Start(t) ELSE "connected") \in Places
  BY StartFacts DEF Places
<1>2. /\ pc' \in [Threads -> Places]
      /\ pc'[t] = (IF i = NoSlot THEN Start(t) ELSE "connected")
      /\ \A u \in Threads : u # t => pc'[u] = pc[u]
  BY <1>1, GotoFacts DEF Return
<1>3. /\ ctx' \in [Threads -> Slots \cup {NoSlot, Junk}] /\ ctx'[t] = i
      /\ \A u \in Threads : u # t => ctx'[u] = ctx[u]
  BY Typed DEF Return
<1>4. /\ mode' \in [Threads -> Modes]
      /\ \A u \in Threads : u # t => mode'[u] = mode[u]
  BY Typed DEF Return, Modes
<1>5. /\ chosen' \in [Threads -> Slots]
      /\ \A u \in Threads : u # t => chosen'[u] = chosen[u]
  BY Typed, SlotFacts DEF Return
<1>6. /\ sock' \in [Threads -> Nat]
      /\ \A u \in Threads : u # t => sock'[u] = sock[u]
  BY Typed DEF Return
<1>7. QED BY <1>2, <1>3, <1>4, <1>5, <1>6

\* A fault is within its bound, and nothing else is counted.
LEMMA FaultType ==
  ASSUME TypeOK, MayFail \/ UNCHANGED bounds
  PROVE  /\ faults' \in 0..MaxFaults /\ UNCHANGED <<switches, upgrades>>
  BY Typed, BoundsAssumption DEF MayFail, bounds

LEMMA FailsType ==
  ASSUME TypeOK, NEW cause, FailsIf(cause)
  PROVE  /\ faults' \in 0..MaxFaults /\ UNCHANGED <<switches, upgrades>>
  BY FaultType DEF FailsIf

LEMMA CloseFacts ==
  ASSUME TypeOK, NEW t \in Threads, NEW some \in SUBSET open, Close(t, some)
  PROVE  /\ open' \subseteq open /\ open' = open \ some
         /\ stale \subseteq stale' /\ stale' \subseteq Threads
         /\ \A s \in some : s.by # t => s.by \in stale'
         /\ \A u \in stale' : u \in stale \/ u # t
<1>1. \A s \in some : s.by \in Threads
  BY Typed DEF Sockets
<1>2. QED BY <1>1, Typed DEF Close

\* Where a thread is after it has closed a socket and cleared its slot.
LEMMA CloseWays ==
  ASSUME NEW t \in Threads, NEW where \in Places
  PROVE  /\ where \in {"closing", "reclosing", "closing again"} =>
              /\ Cleared(where) \in {"clearing", "reclearing", "clearing again"}
              /\ Closed(Cleared(where), t) \in {"main", "idle", "begin", "closing again"}
         /\ where \in {"clearing", "reclearing", "clearing again"} =>
              Closed(where, t) \in {"main", "idle", "begin", "closing again"}
  BY DEF Cleared, Closed, Places, Threads

LEMMA LeaveFacts ==
  ASSUME TypeOK, NEW t \in Threads,
         NEW where \in {"main", "idle", "begin", "closing again"}, Leave(t, where)
  PROVE  /\ pc' \in [Threads -> Places] /\ ctx' \in [Threads -> Slots \cup {NoSlot, Junk}]
         /\ pc'[t] = where
         /\ ctx'[t] = IF where = "closing again" THEN ctx[t] ELSE NoSlot
         /\ \A u \in Threads : u # t => pc'[u] = pc[u] /\ ctx'[u] = ctx[u]
<1>1. where \in Places
  BY DEF Places
<1>2. /\ pc' \in [Threads -> Places] /\ pc'[t] = where
      /\ \A u \in Threads : u # t => pc'[u] = pc[u]
  BY <1>1, GotoFacts DEF Leave
<1>3. QED BY <1>2, Typed DEF Leave

----------------------------------------------------------------------------
(* The effect of each step *)

\* The callers: a thread goes from one place to the next and nothing else is
\* done to sockets or slots.
Caller(t, from, to) ==
    /\ pc[t] = from /\ pc'[t] = to /\ \A u \in Threads : u # t => pc'[u] = pc[u]
    /\ pc' \in [Threads -> Places]
    /\ UNCHANGED <<commode, open, slot, mode, chosen, sock, ctx, shared, stale>>
    /\ faults' \in 0..MaxFaults /\ switches' \in 0..MaxSwitches
    /\ upgrades' \in 0..MaxUpgrades

LEMMA CallerFacts ==
  ASSUME TypeOK
  PROVE  /\ StartMqtt => Caller("mqtt", "main", "begin") /\ modem' = modem
         /\ OpenWifi => /\ Caller("mqtt", "main", "begin")
                        /\ commode = "WIFI" /\ modem' = [modem EXCEPT !["WIFI"] = "open"]
         /\ StartUpgrade => Caller("menu", "idle", "begin") /\ modem' = modem
         /\ MqttFails => Caller("mqtt", "connected", "closing") /\ modem' = modem
         /\ UpgradeFails => Caller("menu", "connected", "closing") /\ modem' = modem
         /\ UpgradeReconnects => Caller("menu", "connected", "reclosing") /\ modem' = modem
         /\ UpgradeEnds => Caller("menu", "connected", "closing again") /\ modem' = modem
<1>1. /\ "mqtt" \in Threads /\ "menu" \in Threads
      /\ {"begin", "closing", "reclosing", "closing again"} \subseteq Places
  BY DEF Threads, Places
<1>2. ASSUME StartMqtt PROVE Caller("mqtt", "main", "begin") /\ modem' = modem
  BY <1>1, <1>2, GotoFacts, Typed DEF StartMqtt, Caller, locals, bounds, history
<1>3. ASSUME OpenWifi
      PROVE  /\ Caller("mqtt", "main", "begin")
             /\ commode = "WIFI" /\ modem' = [modem EXCEPT !["WIFI"] = "open"]
  BY <1>1, <1>3, GotoFacts, Typed DEF OpenWifi, Caller, locals, bounds, history
<1>4. ASSUME StartUpgrade PROVE Caller("menu", "idle", "begin") /\ modem' = modem
  <2>1. upgrades' \in 0..MaxUpgrades
    BY <1>4, Typed, BoundsAssumption DEF StartUpgrade
  <2>2. QED BY <1>1, <1>4, <2>1, GotoFacts, Typed DEF StartUpgrade, Caller, locals, history
<1>5. ASSUME MqttFails PROVE Caller("mqtt", "connected", "closing") /\ modem' = modem
  <2>1. faults' \in 0..MaxFaults /\ UNCHANGED <<switches, upgrades>>
    BY <1>5, FailsType DEF MqttFails
  <2>2. QED BY <1>1, <1>5, <2>1, GotoFacts, Typed DEF MqttFails, Caller, locals, history
<1>6. ASSUME UpgradeFails PROVE Caller("menu", "connected", "closing") /\ modem' = modem
  <2>1. faults' \in 0..MaxFaults /\ UNCHANGED <<switches, upgrades>>
    BY <1>6, FailsType DEF UpgradeFails
  <2>2. QED BY <1>1, <1>6, <2>1, GotoFacts, Typed DEF UpgradeFails, Caller, locals, history
<1>7. ASSUME UpgradeReconnects PROVE Caller("menu", "connected", "reclosing") /\ modem' = modem
  <2>1. upgrades' \in 0..MaxUpgrades
    BY <1>7, Typed, BoundsAssumption DEF UpgradeReconnects
  <2>2. QED BY <1>1, <1>7, <2>1, GotoFacts, Typed DEF UpgradeReconnects, Caller, locals, history
<1>8. ASSUME UpgradeEnds PROVE Caller("menu", "connected", "closing again") /\ modem' = modem
  BY <1>1, <1>8, GotoFacts, Typed DEF UpgradeEnds, Caller, locals, bounds, history
<1>9. QED BY <1>2, <1>3, <1>4, <1>5, <1>6, <1>7, <1>8

\* net_connect.  Another thread keeps its place and its locals in every step.
Apart(t) ==
    \A u \in Threads : u # t => /\ pc'[u] = pc[u] /\ ctx'[u] = ctx[u]
                                /\ mode'[u] = mode[u] /\ chosen'[u] = chosen[u]
                                /\ sock'[u] = sock[u]

LocalsTyped ==
    /\ pc' \in [Threads -> Places] /\ ctx' \in [Threads -> Slots \cup {NoSlot, Junk}]
    /\ mode' \in [Threads -> Modes] /\ chosen' \in [Threads -> Slots]
    /\ sock' \in [Threads -> Nat]
    /\ faults' \in 0..MaxFaults /\ UNCHANGED <<switches, upgrades>>

LEMMA GotoApart ==
  ASSUME TypeOK, NEW t \in Threads, NEW where \in Places, Goto(t, where),
         UNCHANGED <<mode, chosen, sock, ctx>>, MayFail \/ UNCHANGED bounds
  PROVE  Apart(t) /\ LocalsTyped /\ pc'[t] = where
  BY GotoFacts, FaultType, Typed DEF Apart, LocalsTyped

LEMMA ReturnApart ==
  ASSUME TypeOK, NEW t \in Threads, NEW i \in Slots \cup {NoSlot, Junk}, Return(t, i),
         MayFail \/ UNCHANGED bounds
  PROVE  /\ Apart(t) /\ LocalsTyped /\ ctx'[t] = i
         /\ pc'[t] = (IF i = NoSlot THEN Start(t) ELSE "connected")
  BY ReturnFacts, FaultType, Typed DEF Apart, LocalsTyped

LEMMA BeginFacts ==
  ASSUME TypeOK, NEW t \in Threads, Begin(t)
  PROVE  /\ Apart(t) /\ LocalsTyped
         /\ pc[t] = "begin" /\ pc'[t] \in {"find", "dial"} /\ mode'[t] = commode
         /\ stale' = stale \ {t}
         /\ UNCHANGED <<commode, modem, open, slot, chosen, sock, ctx, shared>>
<1>1. (IF commode = "WIFI" THEN "find" ELSE "dial") \in Places
  BY DEF Places
<1>2. /\ pc' \in [Threads -> Places]
      /\ pc'[t] = (IF commode = "WIFI" THEN "find" ELSE "dial")
      /\ \A u \in Threads : u # t => pc'[u] = pc[u]
  BY <1>1, GotoFacts DEF Begin
<1>3. /\ mode' \in [Threads -> Modes] /\ mode'[t] = commode
      /\ \A u \in Threads : u # t => mode'[u] = mode[u]
  BY Typed DEF Begin
<1>4. UNCHANGED <<commode, modem, open, slot, chosen, sock, ctx, shared>>
      /\ UNCHANGED <<faults, switches, upgrades>> /\ stale' = stale \ {t} /\ pc[t] = "begin"
  BY DEF Begin, bounds
<1>5. QED BY <1>2, <1>3, <1>4, Typed DEF Apart, LocalsTyped

LEMMA DialFacts ==
  ASSUME TypeOK, NEW t \in Threads, Dial(t)
  PROVE  /\ Apart(t) /\ LocalsTyped /\ pc[t] = "dial"
         /\ \/ /\ pc'[t] = "find" /\ UNCHANGED <<mode, chosen, sock, ctx>>
               /\ modem["SIM"] # "off" /\ modem' = [modem EXCEPT !["SIM"] = "joined"]
            \/ pc'[t] = Start(t) /\ ctx'[t] = NoSlot /\ modem' = modem
         /\ UNCHANGED <<commode, open, slot, shared, stale>>
<1>1. pc[t] = "dial" /\ UNCHANGED <<commode, open, slot, shared, stale>>
  BY DEF Dial, history
<1>2. CASE /\ modem["SIM"] # "off" /\ modem' = [modem EXCEPT !["SIM"] = "joined"]
           /\ Goto(t, "find") /\ UNCHANGED <<locals, ctx, bounds>>
  <2>1. "find" \in Places
    BY DEF Places
  <2>2. Apart(t) /\ LocalsTyped /\ pc'[t] = "find"
    BY <1>2, <2>1, GotoApart DEF locals
  <2>3. QED BY <1>1, <1>2, <2>2 DEF locals
<1>3. CASE FailsIf(modem["SIM"] = "off") /\ Return(t, NoSlot) /\ modem' = modem
  BY <1>1, <1>3, ReturnApart DEF FailsIf
<1>4. QED BY <1>2, <1>3 DEF Dial

LEMMA FindFacts ==
  ASSUME TypeOK, NEW t \in Threads, FindSlot(t)
  PROVE  /\ Apart(t) /\ LocalsTyped /\ pc[t] = "find"
         /\ \/ /\ pc'[t] = "create" /\ UNCHANGED <<mode, sock, ctx>>
               /\ chosen'[t] \in Slots
               /\ shared' = (shared \/ \E u \in Threads \ {t} : Has(u, chosen'[t]))
            \/ pc'[t] = Start(t) /\ ctx'[t] = NoSlot /\ shared' = shared
         /\ UNCHANGED <<commode, modem, open, slot, stale>>
<1>1. pc[t] = "find" /\ UNCHANGED <<commode, modem, open, slot, stale>> /\ UNCHANGED bounds
  BY DEF FindSlot
<1>2. ASSUME NEW i \in Slots, chosen' = [chosen EXCEPT ![t] = i], Goto(t, "create"),
             shared' = (shared \/ \E u \in Threads \ {t} : Has(u, i)),
             UNCHANGED <<mode, sock, ctx>>
      PROVE  /\ Apart(t) /\ LocalsTyped /\ pc'[t] = "create" /\ UNCHANGED <<mode, sock, ctx>>
             /\ chosen'[t] \in Slots
             /\ shared' = (shared \/ \E u \in Threads \ {t} : Has(u, chosen'[t]))
  <2>1. "create" \in Places
    BY DEF Places
  <2>2. /\ pc' \in [Threads -> Places] /\ pc'[t] = "create"
        /\ \A u \in Threads : u # t => pc'[u] = pc[u]
    BY <1>2, <2>1, GotoFacts
  <2>3. /\ chosen' \in [Threads -> Slots] /\ chosen'[t] = i
        /\ \A u \in Threads : u # t => chosen'[u] = chosen[u]
    BY <1>2, Typed
  <2>4. QED BY <1>1, <1>2, <2>2, <2>3, FaultType, Typed DEF Apart, LocalsTyped
<1>3. CASE Return(t, NoSlot) /\ shared' = shared
  BY <1>1, <1>3, ReturnApart
<1>4. QED BY <1>1, <1>2, <1>3 DEF FindSlot

LEMMA CreateFacts ==
  ASSUME TypeOK, NEW t \in Threads, CreateSocket(t)
  PROVE  /\ Apart(t) /\ LocalsTyped /\ pc[t] = "create"
         /\ \/ /\ pc'[t] = "connect" /\ UNCHANGED <<mode, chosen, ctx>>
               /\ modem[mode[t]] # "off" /\ sock'[t] \in Nat
               /\ open' = open \cup {[mode |-> mode[t], id |-> sock'[t], by |-> t]}
               /\ \A s \in open : s.mode = mode[t] => s.id # sock'[t]
            \/ /\ pc'[t] = "connected" /\ ctx'[t] = Junk /\ open' = open
            \/ /\ pc'[t] = Start(t) /\ ctx'[t] = NoSlot /\ open' = open
         /\ UNCHANGED <<commode, modem, slot, shared, stale>>
<1>1. pc[t] = "create" /\ UNCHANGED <<commode, modem, slot, shared, stale>>
  BY DEF CreateSocket, history
<1>2. ASSUME NEW n \in 0..Cardinality(open), NextId(mode[t], n),
             sock' = [sock EXCEPT ![t] = n],
             open' = open \cup {[mode |-> mode[t], id |-> n, by |-> t]},
             Goto(t, "connect"), UNCHANGED <<mode, chosen, ctx, bounds>>
      PROVE  /\ Apart(t) /\ LocalsTyped /\ pc'[t] = "connect" /\ sock'[t] \in Nat
             /\ open' = open \cup {[mode |-> mode[t], id |-> sock'[t], by |-> t]}
             /\ \A s \in open : s.mode = mode[t] => s.id # sock'[t]
  <2>1. "connect" \in Places
    BY DEF Places
  <2>2. /\ pc' \in [Threads -> Places] /\ pc'[t] = "connect"
        /\ \A u \in Threads : u # t => pc'[u] = pc[u]
    BY <1>2, <2>1, GotoFacts
  <2>3. n \in Nat
    OBVIOUS
  <2>4. /\ sock' \in [Threads -> Nat] /\ sock'[t] = n
        /\ \A u \in Threads : u # t => sock'[u] = sock[u]
    BY <1>2, <2>3, Typed
  <2>5. \A s \in open : s.mode = mode[t] => s.id # n
    BY <1>2 DEF NextId
  <2>6. QED BY <1>2, <2>2, <2>4, <2>5, FaultType, Typed DEF Apart, LocalsTyped
<1>3. CASE /\ FailsIf(modem[mode[t]] = "off")
           /\ Return(t, IF mode[t] = "WIFI" THEN Junk ELSE NoSlot) /\ open' = open
  <2>1. PICK i \in {NoSlot, Junk} : Return(t, i)
    BY <1>3
  <2>2. MayFail \/ UNCHANGED bounds
    BY <1>3 DEF FailsIf
  <2>3. QED BY <1>1, <1>3, <2>1, <2>2, ReturnApart, SlotFacts
<1>4. QED BY <1>1, <1>2, <1>3 DEF CreateSocket

LEMMA MineFacts ==
  ASSUME NEW t
  PROVE  /\ Mine(t) \in SUBSET open /\ Reached(t) \in SUBSET open
         /\ \A s \in open : s \in Mine(t) <=> s.mode = mode[t] /\ s.id = sock[t]
         /\ \A s \in open : s \in Reached(t) <=>
              s.mode = commode /\ ctx[t] \in Slots /\ s.id = slot[ctx[t]]
  BY DEF Mine, Reached

LEMMA ConnectFacts ==
  ASSUME TypeOK, NEW t \in Threads, ConnectSocket(t)
  PROVE  /\ Apart(t) /\ LocalsTyped /\ pc[t] = "connect"
         /\ \/ /\ pc'[t] = "commit" /\ UNCHANGED <<mode, chosen, sock, ctx, open, stale>>
            \/ pc'[t] = Start(t) /\ ctx'[t] = NoSlot /\ Close(t, Mine(t))
         /\ UNCHANGED <<commode, modem, slot, shared>>
<1>1. pc[t] = "connect" /\ UNCHANGED <<commode, modem, slot, shared>>
  BY DEF ConnectSocket
<1>2. CASE Goto(t, "commit") /\ UNCHANGED <<open, locals, ctx, bounds, stale>>
  <2>1. "commit" \in Places
    BY DEF Places
  <2>2. Apart(t) /\ LocalsTyped /\ pc'[t] = "commit"
    BY <1>2, <2>1, GotoApart DEF locals
  <2>3. QED BY <1>1, <1>2, <2>2 DEF locals
<1>3. CASE /\ FailsIf(Mine(t) = {} \/ modem[mode[t]] # "joined")
           /\ Close(t, Mine(t)) /\ Return(t, NoSlot)
  BY <1>1, <1>3, ReturnApart DEF FailsIf
<1>4. QED BY <1>2, <1>3 DEF ConnectSocket

LEMMA CommitFacts ==
  ASSUME TypeOK, NEW t \in Threads, CommitSlot(t)
  PROVE  /\ Apart(t) /\ LocalsTyped /\ pc[t] = "commit" /\ pc'[t] = "connected"
         /\ ctx'[t] = chosen[t] /\ chosen[t] \in Slots
         /\ slot' \in [Slots -> Nat \cup {Invalid}] /\ slot'[chosen[t]] = sock[t]
         /\ \A i \in Slots : i # chosen[t] => slot'[i] = slot[i]
         /\ UNCHANGED <<commode, modem, open, shared, stale>>
<1>1. chosen[t] \in Slots /\ chosen[t] # NoSlot
  BY Typed, SlotFacts
<1>2. /\ Apart(t) /\ LocalsTyped /\ ctx'[t] = chosen[t] /\ pc'[t] = "connected"
  BY <1>1, ReturnApart DEF CommitSlot
<1>3. sock[t] \in Nat
  BY Typed
<1>4. /\ slot' \in [Slots -> Nat \cup {Invalid}] /\ slot'[chosen[t]] = sock[t]
      /\ \A i \in Slots : i # chosen[t] => slot'[i] = slot[i]
  BY <1>1, <1>3, Typed DEF CommitSlot
<1>5. QED BY <1>1, <1>2, <1>4 DEF CommitSlot, history

LEMMA CloseSocketFacts ==
  ASSUME TypeOK, NEW t \in Threads, CloseSocket(t)
  PROVE  /\ Apart(t) /\ LocalsTyped /\ Closes(t)
         /\ \/ /\ HasSlot(t) /\ Close(t, Reached(t)) /\ ctx' = ctx
               /\ pc'[t] \in {"clearing", "reclearing", "clearing again"}
            \/ /\ ~HasSlot(t) /\ UNCHANGED <<open, stale>>
               /\ \/ pc'[t] \in {"main", "idle", "begin"} /\ ctx'[t] = NoSlot
                  \/ pc'[t] = "closing again" /\ ctx'[t] = ctx[t]
         /\ UNCHANGED <<commode, modem, slot, mode, chosen, sock, shared>>
<1>1. /\ Closes(t) /\ UNCHANGED <<commode, modem, slot, mode, chosen, sock, shared, bounds>>
  BY DEF CloseSocket, locals
<1>2. pc[t] \in Places /\ pc[t] \in {"closing", "reclosing", "closing again"}
  BY <1>1, Typed DEF Closes
<1>3. /\ Cleared(pc[t]) \in {"clearing", "reclearing", "clearing again"}
      /\ Closed(Cleared(pc[t]), t) \in {"main", "idle", "begin", "closing again"}
  BY <1>2, CloseWays
<1>4. CASE HasSlot(t) /\ Close(t, Reached(t)) /\ Goto(t, Cleared(pc[t])) /\ ctx' = ctx
  <2>1. Cleared(pc[t]) \in Places
    BY <1>3 DEF Places
  <2>2. Apart(t) /\ LocalsTyped /\ pc'[t] = Cleared(pc[t])
    BY <1>1, <1>4, <2>1, GotoApart
  <2>3. QED BY <1>1, <1>3, <1>4, <2>2
<1>5. CASE ~HasSlot(t) /\ UNCHANGED <<open, stale>> /\ Leave(t, Closed(Cleared(pc[t]), t))
  <2>1. /\ pc' \in [Threads -> Places] /\ ctx' \in [Threads -> Slots \cup {NoSlot, Junk}]
        /\ pc'[t] = Closed(Cleared(pc[t]), t)
        /\ ctx'[t] = IF pc'[t] = "closing again" THEN ctx[t] ELSE NoSlot
        /\ \A u \in Threads : u # t => pc'[u] = pc[u] /\ ctx'[u] = ctx[u]
    BY <1>3, <1>5, LeaveFacts
  <2>2. Apart(t) /\ LocalsTyped
    BY <1>1, <2>1, FaultType, Typed DEF Apart, LocalsTyped
  <2>3. QED BY <1>1, <1>3, <1>5, <2>1, <2>2
<1>6. QED BY <1>4, <1>5 DEF CloseSocket

LEMMA ClearSlotFacts ==
  ASSUME TypeOK, ContextInv, NEW t \in Threads, ClearSlot(t)
  PROVE  /\ Apart(t) /\ LocalsTyped /\ Clearing(t) /\ ctx[t] \in Slots
         /\ \/ pc'[t] \in {"main", "idle", "begin"} /\ ctx'[t] = NoSlot
            \/ pc'[t] = "closing again" /\ ctx'[t] = ctx[t]
         /\ slot' \in [Slots -> Nat \cup {Invalid}] /\ slot'[ctx[t]] = Invalid
         /\ \A i \in Slots : i # ctx[t] => slot'[i] = slot[i]
         /\ UNCHANGED <<commode, modem, open, mode, chosen, sock, shared, stale>>
<1>1. /\ Clearing(t) /\ ctx[t] \in Slots
      /\ UNCHANGED <<commode, modem, open, mode, chosen, sock, shared, stale, bounds>>
  BY DEF ClearSlot, locals, history, Clearing, ContextInv
<1>2. pc[t] \in Places /\ pc[t] \in {"clearing", "reclearing", "clearing again"}
  BY <1>1, Typed DEF Clearing
<1>3. Closed(pc[t], t) \in {"main", "idle", "begin", "closing again"}
  BY <1>2, CloseWays
<1>4. /\ pc' \in [Threads -> Places] /\ ctx' \in [Threads -> Slots \cup {NoSlot, Junk}]
      /\ pc'[t] = Closed(pc[t], t)
      /\ ctx'[t] = IF pc'[t] = "closing again" THEN ctx[t] ELSE NoSlot
      /\ \A u \in Threads : u # t => pc'[u] = pc[u] /\ ctx'[u] = ctx[u]
  BY <1>3, LeaveFacts DEF ClearSlot
<1>5. Apart(t) /\ LocalsTyped
  BY <1>1, <1>4, FaultType, Typed DEF Apart, LocalsTyped
<1>6. /\ slot' \in [Slots -> Nat \cup {Invalid}] /\ slot'[ctx[t]] = Invalid
      /\ \A i \in Slots : i # ctx[t] => slot'[i] = slot[i]
  BY <1>1, Typed DEF ClearSlot
<1>7. QED BY <1>1, <1>3, <1>4, <1>5, <1>6

\* SetCommMode and the restart.
LEMMA SwitchModeFacts ==
  ASSUME TypeOK, SwitchMode
  PROVE  /\ pc["menu"] = "idle" /\ pc'["menu"] = "switching"
         /\ \A u \in Threads : u # "menu" => pc'[u] = pc[u]
         /\ pc' \in [Threads -> Places]
         /\ commode' = Other(commode) /\ commode' \in Modes
         /\ stale' = stale \cup {t \in Threads : pc[t] \notin Rest} /\ stale' \subseteq Threads
         /\ UNCHANGED <<modem, open, slot, mode, chosen, sock, ctx, faults, upgrades, shared>>
         /\ switches' \in 0..MaxSwitches
<1>1. "menu" \in Threads /\ "switching" \in Places
  BY DEF Threads, Places
<1>2. /\ pc' \in [Threads -> Places] /\ pc'["menu"] = "switching"
      /\ \A u \in Threads : u # "menu" => pc'[u] = pc[u]
  BY <1>1, GotoFacts DEF SwitchMode
<1>3. switches' \in 0..MaxSwitches
  BY Typed, BoundsAssumption DEF SwitchMode
<1>4. commode' = Other(commode) /\ commode' \in Modes
  BY Typed, ModeFacts DEF SwitchMode
<1>5. stale' = stale \cup {t \in Threads : pc[t] \notin Rest} /\ stale' \subseteq Threads
  BY Typed DEF SwitchMode
<1>6. QED BY <1>2, <1>3, <1>4, <1>5 DEF SwitchMode, locals

LEMMA SwitchModemsFacts ==
  ASSUME TypeOK, SwitchModems
  PROVE  /\ pc["menu"] = "switching" /\ pc'["menu"] = "idle" /\ configured' \in BOOLEAN
         /\ \A u \in Threads : u # "menu" => pc'[u] = pc[u]
         /\ pc' \in [Threads -> Places]
         /\ modem' \in [Modes -> Powers] /\ modem'[Other(commode)] = "off"
         /\ open' = {s \in open : s.mode = commode}
         /\ UNCHANGED <<commode, slot, mode, chosen, sock, ctx, shared, stale>>
         /\ UNCHANGED <<faults, switches, upgrades>>
<1>1. "menu" \in Threads /\ "idle" \in Places
  BY DEF Threads, Places
<1>2. /\ pc' \in [Threads -> Places] /\ pc'["menu"] = "idle"
      /\ \A u \in Threads : u # "menu" => pc'[u] = pc[u]
  BY <1>1, GotoFacts DEF SwitchModems
<1>3. PICK on \in {"open", "joined", modem[commode]} :
         /\ modem' = [n \in Modes |-> IF n = commode THEN on ELSE "off"]
         /\ configured' = (configured \/ on = "joined")
  BY DEF SwitchModems
<1>4. on \in Powers /\ "off" \in Powers
  BY Typed DEF Powers
<1>5. modem' \in [Modes -> Powers] /\ modem'[Other(commode)] = "off"
  BY <1>3, <1>4, Typed, ModeFacts
<1>6. configured' \in BOOLEAN
  BY <1>3, Typed
<1>7. QED BY <1>2, <1>5, <1>6 DEF SwitchModems, locals, bounds, history

LEMMA BootedFacts ==
  ASSUME NEW m \in Modes, Booted(m)
  PROVE  /\ modem' \in [Modes -> Powers] /\ modem'[Other(m)] = "off"
         /\ open' = {} /\ stale' = {} /\ shared' = FALSE
         /\ slot' \in [Slots -> Nat \cup {Invalid}] /\ \A i \in Slots : slot'[i] = Invalid
         /\ pc' \in [Threads -> Places] /\ \A t \in Threads : pc'[t] \in Rest /\ ctx'[t] = NoSlot
         /\ ctx' \in [Threads -> Slots \cup {NoSlot, Junk}]
         /\ mode' \in [Threads -> Modes] /\ chosen' \in [Threads -> Slots]
         /\ sock' \in [Threads -> Nat]
         /\ pc'["menu"] = "idle"
<1>1. modem' \in [Modes -> Powers] /\ modem'[Other(m)] = "off"
  BY ModeFacts DEF Booted, Powers
<1>2. /\ pc' \in [Threads -> Places] /\ pc'["menu"] = "idle"
      /\ \A t \in Threads : pc'[t] \in Rest
  BY StartFacts DEF Booted, Start, Threads
<1>3. /\ slot' \in [Slots -> Nat \cup {Invalid}] /\ \A i \in Slots : slot'[i] = Invalid
  BY DEF Booted
<1>4. /\ ctx' \in [Threads -> Slots \cup {NoSlot, Junk}] /\ \A t \in Threads : ctx'[t] = NoSlot
  BY DEF Booted
<1>5. mode' \in [Threads -> Modes] /\ chosen' \in [Threads -> Slots] /\ sock' \in [Threads -> Nat]
  BY SlotFacts DEF Booted, Modes
<1>6. QED BY <1>1, <1>2, <1>3, <1>4, <1>5 DEF Booted

\* A step is one of these.  Every proof below goes through them.
Joins == JoinAccessPoint \/ ConfigureAccessPoint
Calls == StartMqtt \/ OpenWifi \/ StartUpgrade \/ MqttFails \/ UpgradeFails
         \/ UpgradeReconnects \/ UpgradeEnds

LEMMA StepCases ==
  ASSUME [Next]_vars
  PROVE  \/ Calls \/ Joins \/ SwitchMode \/ SwitchModems \/ JunkFault
         \/ \E t \in Threads : NetConnect(t) \/ NetClose(t)
         \/ UNCHANGED vars
<1>1. "mqtt" \in Threads /\ "menu" \in Threads
  BY DEF Threads
<1>2. QED BY <1>1 DEF Next, MqttThread, MenuThread, Calls, Joins

\* The three invariants about places and slots under a step of the callers.
LEMMA CallsFacts ==
  ASSUME TypeOK, Calls
  PROVE  \E t \in Threads :
           /\ \/ Caller(t, "main", "begin") \/ Caller(t, "idle", "begin")
              \/ Caller(t, "connected", "closing") \/ Caller(t, "connected", "reclosing")
              \/ Caller(t, "connected", "closing again")
           /\ modem' \in [Modes -> Powers]
           /\ \A m \in Modes : modem'[m] = modem[m] \/ m = commode
<1>1. /\ "mqtt" \in Threads /\ "menu" \in Threads /\ modem \in [Modes -> Powers]
      /\ "WIFI" \in Modes /\ "open" \in Powers
  BY Typed DEF Threads, Modes, Powers
<1>2. CASE OpenWifi
  <2>1. Caller("mqtt", "main", "begin") /\ commode = "WIFI"
        /\ modem' = [modem EXCEPT !["WIFI"] = "open"]
    BY <1>2, CallerFacts
  <2>2. QED BY <1>1, <2>1
<1>3. CASE StartMqtt \/ StartUpgrade \/ MqttFails \/ UpgradeFails \/ UpgradeReconnects \/ UpgradeEnds
  BY <1>1, <1>3, CallerFacts
<1>4. QED BY <1>2, <1>3 DEF Calls

LEMMA JoinFacts ==
  ASSUME TypeOK, Joins
  PROVE  /\ configured' \in BOOLEAN /\ modem' \in [Modes -> Powers]
         /\ \A m \in Modes : modem'[m] = modem[m] \/ m = commode
         /\ UNCHANGED <<commode, open, slot, pc, mode, chosen, sock, ctx, shared, stale>>
         /\ UNCHANGED <<faults, switches, upgrades>>
  BY Typed DEF Joins, JoinAccessPoint, ConfigureAccessPoint, Modes, Powers, locals, bounds, history

----------------------------------------------------------------------------
(* Type correctness and the places without a slot *)

LEMMA TypedAgain ==
  ASSUME commode' \in Modes, modem' \in [Modes -> Powers], open' \subseteq Sockets,
         slot' \in [Slots -> Nat \cup {Invalid}], pc' \in [Threads -> Places],
         mode' \in [Threads -> Modes], chosen' \in [Threads -> Slots],
         sock' \in [Threads -> Nat], ctx' \in [Threads -> Slots \cup {NoSlot, Junk}],
         faults' \in 0..MaxFaults, switches' \in 0..MaxSwitches,
         upgrades' \in 0..MaxUpgrades, shared' \in BOOLEAN, stale' \subseteq Threads,
         configured' \in BOOLEAN
  PROVE  TypeOK'
  BY DEF TypeOK, Powers, Places, Sockets

\* Only SetCommMode saves an access point.
LEMMA ConfiguredKept ==
  ASSUME Calls \/ SwitchMode \/ JunkFault \/ \E t \in Threads : NetConnect(t) \/ NetClose(t)
  PROVE  configured' = configured
<1>1. CASE Calls
  BY <1>1 DEF Calls, StartMqtt, OpenWifi, StartUpgrade, MqttFails, UpgradeFails,
              UpgradeReconnects, UpgradeEnds
<1>2. CASE SwitchMode \/ JunkFault
  BY <1>2 DEF SwitchMode, JunkFault
<1>3. CASE \E t \in Threads : NetConnect(t) \/ NetClose(t)
  BY <1>3 DEF NetConnect, NetClose, Begin, Dial, FindSlot, CreateSocket, ConnectSocket,
              CommitSlot, CloseSocket, ClearSlot
<1>4. QED BY <1>1, <1>2, <1>3

LEMMA InitType == Init => TypeOK
<1> SUFFICES ASSUME Init PROVE TypeOK
  OBVIOUS
<1>1. modem \in [Modes -> Powers]
  BY DEF Init, Powers
<1>2. pc \in [Threads -> Places]
  BY StartFacts DEF Init
<1>3. mode \in [Threads -> Modes] /\ chosen \in [Threads -> Slots] /\ sock \in [Threads -> Nat]
  BY SlotFacts DEF Init, Modes
<1>4. ctx \in [Threads -> Slots \cup {NoSlot, Junk}] /\ slot \in [Slots -> Nat \cup {Invalid}]
  BY DEF Init
<1>5. faults \in 0..MaxFaults /\ switches \in 0..MaxSwitches /\ upgrades \in 0..MaxUpgrades
  BY BoundsAssumption DEF Init
<1>6. QED BY <1>1, <1>2, <1>3, <1>4, <1>5 DEF Init, TypeOK, Powers, Places, Sockets

LEMMA ConnectType ==
  ASSUME TypeOK, NEW t \in Threads, NetConnect(t)
  PROVE  /\ TypeOK' /\ Apart(t) /\ commode' = commode
<1>0. Apart(t) /\ LocalsTyped
  BY BeginFacts, DialFacts, FindFacts, CreateFacts, ConnectFacts, CommitFacts DEF NetConnect
<1>1. commode' = commode
  BY DEF NetConnect, Begin, Dial, FindSlot, CreateSocket, ConnectSocket, CommitSlot
<1>2. modem' \in [Modes -> Powers]
  <2>1. modem \in [Modes -> Powers] /\ "joined" \in Powers
    BY Typed DEF Powers
  <2>2. modem' = modem \/ modem' = [modem EXCEPT !["SIM"] = "joined"]
    BY BeginFacts, DialFacts, FindFacts, CreateFacts, ConnectFacts, CommitFacts DEF NetConnect
  <2>3. QED BY <2>1, <2>2
<1>3. open' \subseteq Sockets
  <2>1. CASE CreateSocket(t)
    <3>1. [mode |-> mode[t], id |-> sock'[t], by |-> t] \in Sockets \/ open' = open
      BY <2>1, CreateFacts, Typed DEF Sockets
    <3>2. open' = open \/ open' = open \cup {[mode |-> mode[t], id |-> sock'[t], by |-> t]}
      BY <2>1, CreateFacts
    <3>3. QED BY <3>1, <3>2, Typed
  <2>2. CASE ConnectSocket(t)
    <3>1. open' = open \/ Close(t, Mine(t))
      BY <2>2, ConnectFacts
    <3>2. open' \subseteq open
      BY <3>1, MineFacts, CloseFacts
    <3>3. QED BY <3>2, Typed
  <2>3. CASE Begin(t) \/ Dial(t) \/ FindSlot(t) \/ CommitSlot(t)
    BY <2>3, BeginFacts, DialFacts, FindFacts, CommitFacts, Typed
  <2>4. QED BY <2>1, <2>2, <2>3 DEF NetConnect
<1>4. slot' \in [Slots -> Nat \cup {Invalid}]
  BY BeginFacts, DialFacts, FindFacts, CreateFacts, ConnectFacts, CommitFacts, Typed
  DEF NetConnect
<1>5. shared' \in BOOLEAN
  <2>1. shared' = shared \/ shared' = (shared \/ \E u \in Threads \ {t} : Has(u, chosen'[t]))
    BY BeginFacts, DialFacts, FindFacts, CreateFacts, ConnectFacts, CommitFacts DEF NetConnect
  <2>2. shared \in BOOLEAN
    BY Typed
  <2>3. QED BY <2>1, <2>2
<1>6. stale' \subseteq Threads
  <2>1. CASE ConnectSocket(t)
    <3>1. stale' = stale \/ Close(t, Mine(t))
      BY <2>1, ConnectFacts
    <3>2. QED BY <3>1, MineFacts, CloseFacts, Typed
  <2>2. CASE ~ConnectSocket(t)
    BY <2>2, BeginFacts, DialFacts, FindFacts, CreateFacts, CommitFacts, Typed DEF NetConnect
  <2>3. QED BY <2>1, <2>2
<1>7. TypeOK'
  BY <1>0, <1>1, <1>2, <1>3, <1>4, <1>5, <1>6, ConfiguredKept, TypedAgain, Typed DEF LocalsTyped
<1>8. QED BY <1>0, <1>1, <1>7

LEMMA CloseType ==
  ASSUME TypeOK, ContextInv, NEW t \in Threads, NetClose(t)
  PROVE  TypeOK' /\ Apart(t) /\ commode' = commode
<1>0. configured' \in BOOLEAN
  BY ConfiguredKept, Typed
<1>1. CASE CloseSocket(t)
  <2>1. Reached(t) \in SUBSET open
    BY MineFacts
  <2>2. open' \subseteq open /\ stale' \subseteq Threads
    BY <1>1, <2>1, CloseSocketFacts, CloseFacts, Typed
  <2>3. QED BY <1>0, <1>1, <2>2, CloseSocketFacts, TypedAgain, Typed DEF LocalsTyped
<1>2. CASE ClearSlot(t)
  BY <1>0, <1>2, ClearSlotFacts, TypedAgain, Typed DEF LocalsTyped
<1>3. QED BY <1>1, <1>2 DEF NetClose

LEMMA StepType ==
  ASSUME TypeOK, ContextInv, [Next]_vars
  PROVE  TypeOK'
<1>1. CASE Calls
  BY <1>1, CallsFacts, ConfiguredKept, TypedAgain, Typed DEF Caller
<1>2. CASE Joins
  BY <1>2, JoinFacts, TypedAgain, Typed
<1>3. CASE SwitchMode
  BY <1>3, SwitchModeFacts, ConfiguredKept, TypedAgain, Typed
<1>4. CASE SwitchModems
  <2>1. open' \subseteq Sockets
    BY <1>4, SwitchModemsFacts, Typed
  <2>2. QED BY <1>4, <2>1, SwitchModemsFacts, TypedAgain, Typed
<1>5. CASE JunkFault
  <2>1. /\ Booted(commode) /\ UNCHANGED <<commode, switches, upgrades>>
        /\ faults < MaxFaults /\ faults' = faults + 1
    BY <1>5 DEF JunkFault
  <2>2. faults' \in 0..MaxFaults
    BY <2>1, Typed, BoundsAssumption
  <2>3. open' \subseteq Sockets /\ stale' \subseteq Threads /\ shared' \in BOOLEAN
    BY <2>1, BootedFacts, Typed
  <2>4. configured' \in BOOLEAN
    BY <1>5, ConfiguredKept, Typed
  <2>5. QED BY <2>1, <2>2, <2>3, <2>4, BootedFacts, TypedAgain, Typed
<1>6. CASE \E t \in Threads : NetConnect(t) \/ NetClose(t)
  BY <1>6, ConnectType, CloseType
<1>7. CASE UNCHANGED vars
  BY <1>7, TypedAgain, Typed DEF vars
<1>8. QED BY <1>1, <1>2, <1>3, <1>4, <1>5, <1>6, <1>7, StepCases

\* A thread has a slot only with a connection, or while it closes one.
LEMMA StepContext ==
  ASSUME TypeOK, ContextInv, [Next]_vars
  PROVE  ContextInv'
<1> DEFINE P(u) == /\ pc[u] \in NoContext => ctx[u] = NoSlot
                   /\ Clearing(u) => ctx[u] \in Slots
           Q(u) == /\ pc'[u] \in NoContext => ctx'[u] = NoSlot
                   /\ pc'[u] \in {"clearing", "reclearing", "clearing again"} => ctx'[u] \in Slots
<1>0. (\A u \in Threads : Q(u)) => ContextInv'
  BY DEF ContextInv, Clearing
<1>a. \A u \in Threads : P(u)
  BY DEF ContextInv
<1>b. \A u \in Threads : pc'[u] = pc[u] /\ ctx'[u] = ctx[u] => Q(u)
  BY <1>a DEF Clearing
<1>c. \A u \in Threads : pc'[u] = "connected" => Q(u)
  BY DEF NoContext, Rest
<1>d. \A u \in Threads : ctx'[u] = NoSlot /\ pc'[u] \in Rest \cup NoContext => Q(u)
  BY DEF NoContext, Rest
<1>e. \A u \in Threads : pc'[u] \in {"closing", "reclosing", "closing again"} => Q(u)
  BY DEF NoContext, Rest
<1>f. {"main", "idle", "switching", "begin", "dial", "find", "create", "connect", "commit"}
        \subseteq NoContext
  BY DEF NoContext, Rest
<1>1. CASE Calls
  <2>1. PICK t \in Threads :
              \/ Caller(t, "main", "begin") \/ Caller(t, "idle", "begin")
              \/ Caller(t, "connected", "closing") \/ Caller(t, "connected", "reclosing")
              \/ Caller(t, "connected", "closing again")
    BY <1>1, CallsFacts
  <2>2. ctx' = ctx /\ \A u \in Threads : u # t => pc'[u] = pc[u]
    BY <2>1 DEF Caller
  <2>3. Q(t)
    <3>1. CASE Caller(t, "main", "begin") \/ Caller(t, "idle", "begin")
      BY <3>1, <2>2, <1>a, <1>d, <1>f DEF Caller
    <3>2. CASE \/ Caller(t, "connected", "closing") \/ Caller(t, "connected", "reclosing")
               \/ Caller(t, "connected", "closing again")
      BY <3>2, <1>e DEF Caller
    <3>3. QED BY <2>1, <3>1, <3>2
  <2>4. QED BY <2>2, <2>3, <1>0, <1>b
<1>2. CASE Joins
  BY <1>2, JoinFacts, <1>0, <1>b
<1>3. CASE SwitchMode
  BY <1>3, SwitchModeFacts, <1>0, <1>a, <1>b, <1>d, <1>f
<1>4. CASE SwitchModems
  BY <1>4, SwitchModemsFacts, <1>0, <1>a, <1>b, <1>d, <1>f
<1>5. CASE JunkFault
  <2>1. \A u \in Threads : pc'[u] \in Rest /\ ctx'[u] = NoSlot
    BY <1>5, BootedFacts, Typed DEF JunkFault
  <2>2. QED BY <2>1, <1>0, <1>d
<1>6. ASSUME NEW t \in Threads, NetConnect(t)
      PROVE  ContextInv'
  <2>1. Apart(t)
    BY <1>6, ConnectType
  <2>2. Q(t)
    <3>1. CASE Begin(t)
      BY <3>1, BeginFacts, <1>a, <1>d, <1>f
    <3>2. CASE Dial(t)
      BY <3>2, DialFacts, StartFacts, <1>a, <1>d, <1>f
    <3>3. CASE FindSlot(t)
      BY <3>3, FindFacts, StartFacts, <1>a, <1>d, <1>f
    <3>4. CASE CreateSocket(t)
      BY <3>4, CreateFacts, StartFacts, <1>a, <1>c, <1>d, <1>f
    <3>5. CASE ConnectSocket(t)
      BY <3>5, ConnectFacts, StartFacts, <1>a, <1>d, <1>f
    <3>6. CASE CommitSlot(t)
      BY <3>6, CommitFacts, <1>c
    <3>7. QED BY <1>6, <3>1, <3>2, <3>3, <3>4, <3>5, <3>6 DEF NetConnect
  <2>3. QED BY <2>1, <2>2, <1>0, <1>b DEF Apart
<1>7. ASSUME NEW t \in Threads, NetClose(t)
      PROVE  ContextInv'
  <2>1. Apart(t)
    BY <1>7, CloseType
  <2>2. Q(t)
    <3>1. CASE CloseSocket(t) /\ HasSlot(t) /\ ctx' = ctx
                /\ pc'[t] \in {"clearing", "reclearing", "clearing again"}
      BY <3>1, SlotFacts DEF HasSlot, NoContext, Rest
    <3>2. CASE pc'[t] \in {"main", "idle", "begin"} /\ ctx'[t] = NoSlot
      BY <3>2, <1>d, <1>f
    <3>3. CASE pc'[t] = "closing again"
      BY <3>3, <1>e
    <3>4. QED BY <1>7, <3>1, <3>2, <3>3, CloseSocketFacts, ClearSlotFacts DEF NetClose
  <2>3. QED BY <2>1, <2>2, <1>0, <1>b DEF Apart
<1>8. CASE UNCHANGED vars
  BY <1>8, <1>0, <1>b DEF vars
<1>9. QED BY <1>1, <1>2, <1>3, <1>4, <1>5, <1>6, <1>7, <1>8, StepCases

----------------------------------------------------------------------------
(* The modems and their numbers *)

LEMMA StepModem ==
  ASSUME TypeOK, ContextInv, ModemInv, [Next]_vars
  PROVE  ModemInv'
<1> DEFINE Off == modem[Other(commode)] = "off" /\ \A s \in open : s.mode = commode
<1>0. commode \in Modes /\ Other(commode) \in Modes /\ Other(commode) # commode
      /\ modem \in [Modes -> Powers] /\ "menu" \in Threads /\ "mqtt" \in Threads
  BY Typed, ModeFacts DEF Threads
<1>a. pc["menu"] # "switching" => Off
  BY DEF ModemInv
<1>b. ASSUME commode' = commode, pc["menu"] = "switching" => pc'["menu"] = "switching",
             modem'[Other(commode)] = modem[Other(commode)] \/ pc["menu"] = "switching",
             \A s \in open' : s \in open \/ s.mode = commode
      PROVE  ModemInv'
  <2>1. pc'["menu"] # "switching" => modem'[Other(commode)] = "off"
                                     /\ \A s \in open' : s.mode = commode
    BY <1>a, <1>b
  <2>2. Other(commode)' = Other(commode)
    BY <1>b DEF Other
  <2>3. QED BY <1>b, <2>1, <2>2 DEF ModemInv
<1>1. CASE Calls
  <2>1. /\ commode' = commode /\ open' = open
        /\ pc["menu"] = "switching" => pc'["menu"] = "switching"
        /\ modem'[Other(commode)] = modem[Other(commode)]
    BY <1>1, <1>0, CallsFacts DEF Caller
  <2>2. QED BY <2>1, <1>b
<1>2. CASE Joins
  BY <1>2, <1>0, JoinFacts, <1>b
<1>3. CASE SwitchMode
  BY <1>3, SwitchModeFacts DEF ModemInv
<1>4. CASE SwitchModems
  <2>1. Other(commode)' = Other(commode)
    BY <1>4, SwitchModemsFacts DEF Other
  <2>2. QED BY <1>4, <2>1, SwitchModemsFacts DEF ModemInv
<1>5. CASE JunkFault
  <2>1. Booted(commode) /\ commode' = commode
    BY <1>5 DEF JunkFault
  <2>2. Other(commode)' = Other(commode)
    BY <2>1 DEF Other
  <2>3. QED BY <2>1, <2>2, <1>0, BootedFacts DEF ModemInv
<1>6. ASSUME NEW t \in Threads, NetConnect(t)
      PROVE  ModemInv'
  <2>1. commode' = commode
    BY <1>6, ConnectType
  <2>2. pc["menu"] = "switching" => pc'["menu"] = "switching"
    <3>1. pc[t] # "switching" /\ Apart(t)
      BY <1>6, ConnectType, BeginFacts, DialFacts, FindFacts, CreateFacts, ConnectFacts, CommitFacts
      DEF NetConnect
    <3>2. QED BY <3>1, <1>0 DEF Apart
  <2>3. modem'[Other(commode)] = modem[Other(commode)] \/ pc["menu"] = "switching"
    <3>1. \/ modem' = modem
          \/ modem["SIM"] # "off" /\ modem' = [modem EXCEPT !["SIM"] = "joined"]
      BY <1>6, BeginFacts, DialFacts, FindFacts, CreateFacts, ConnectFacts, CommitFacts
      DEF NetConnect
    <3>2. QED BY <3>1, <1>a, <1>0
  <2>4. \A s \in open' : s \in open \/ s.mode = commode \/ pc["menu"] = "switching"
    <3>1. CASE CreateSocket(t) /\ open' # open
      <4>1. /\ open' = open \cup {[mode |-> mode[t], id |-> sock'[t], by |-> t]}
            /\ modem[mode[t]] # "off"
        BY <3>1, CreateFacts
      <4>2. mode[t] \in Modes
        BY Typed
      <4>3. mode[t] = commode \/ mode[t] = Other(commode)
        BY <4>2, <1>0, ModeFacts
      <4>4. pc["menu"] # "switching" => mode[t] = commode
        BY <4>1, <4>3, <1>a
      <4>5. QED BY <4>1, <4>4
    <3>2. CASE ConnectSocket(t)
      BY <3>2, ConnectFacts, MineFacts, CloseFacts
    <3>3. CASE Begin(t) \/ Dial(t) \/ FindSlot(t) \/ CommitSlot(t)
      BY <3>3, BeginFacts, DialFacts, FindFacts, CommitFacts
    <3>4. QED BY <1>6, <3>1, <3>2, <3>3 DEF NetConnect
  <2>5. CASE pc["menu"] = "switching"
    BY <2>5, <2>2 DEF ModemInv
  <2>6. CASE pc["menu"] # "switching"
    BY <2>1, <2>2, <2>3, <2>4, <2>6, <1>b
  <2>7. QED BY <2>5, <2>6
<1>7. ASSUME NEW t \in Threads, NetClose(t)
      PROVE  ModemInv'
  <2>1. open' \subseteq open /\ modem' = modem /\ commode' = commode
    BY <1>7, CloseSocketFacts, ClearSlotFacts, MineFacts, CloseFacts DEF NetClose
  <2>2. pc["menu"] = "switching" => pc'["menu"] = "switching"
    <3>1. pc[t] # "switching" /\ Apart(t)
      BY <1>7, CloseType, CloseSocketFacts, ClearSlotFacts DEF NetClose, Closes, Clearing
    <3>2. QED BY <3>1, <1>0 DEF Apart
  <2>3. QED BY <2>1, <2>2, <1>b
<1>8. CASE UNCHANGED vars
  BY <1>8, <1>b DEF vars
<1>9. QED BY <1>1, <1>2, <1>3, <1>4, <1>5, <1>6, <1>7, <1>8, StepCases

\* A new number is none that its modem's sockets have; elsewhere sockets only go.
LEMMA StepNumbers ==
  ASSUME TypeOK, ContextInv, NumbersInv, [Next]_vars
  PROVE  NumbersInv'
<1>a. open' \subseteq open => NumbersInv'
  BY DEF NumbersInv
<1>1. CASE Calls \/ Joins \/ SwitchMode \/ SwitchModems \/ UNCHANGED vars
  BY <1>1, <1>a, CallsFacts, JoinFacts, SwitchModeFacts, SwitchModemsFacts DEF Caller, vars
<1>2. CASE JunkFault
  BY <1>2, <1>a, BootedFacts, Typed DEF JunkFault
<1>3. ASSUME NEW t \in Threads, NetConnect(t)
      PROVE  NumbersInv'
  <2>1. CASE CreateSocket(t) /\ open' # open
    <3>1. /\ open' = open \cup {[mode |-> mode[t], id |-> sock'[t], by |-> t]}
          /\ \A s \in open : s.mode = mode[t] => s.id # sock'[t]
      BY <2>1, CreateFacts
    <3>2. QED BY <3>1 DEF NumbersInv
  <2>2. CASE ConnectSocket(t)
    BY <2>2, <1>a, ConnectFacts, MineFacts, CloseFacts
  <2>3. CASE Begin(t) \/ Dial(t) \/ FindSlot(t) \/ CommitSlot(t)
    BY <2>3, <1>a, BeginFacts, DialFacts, FindFacts, CommitFacts
  <2>4. QED BY <1>3, <2>1, <2>2, <2>3, <1>a DEF NetConnect
<1>4. ASSUME NEW t \in Threads, NetClose(t)
      PROVE  NumbersInv'
  BY <1>4, <1>a, CloseSocketFacts, ClearSlotFacts, MineFacts, CloseFacts DEF NetClose
<1>5. QED BY <1>1, <1>2, <1>3, <1>4, StepCases

----------------------------------------------------------------------------
(* Who has a slot *)

\* A thread has the slot its context names.
LEMMA ContextHas ==
  ASSUME ContextInv, NEW t \in Threads, ctx[t] \in Slots
  PROVE  /\ pc[t] \notin NoContext /\ pc[t] \notin Rest /\ Has(t, ctx[t])
  BY SlotFacts DEF ContextInv, NoContext, Has

LEMMA HasStays ==
  ASSUME NEW u \in Threads, NEW i \in Slots,
         pc'[u] = pc[u], ctx'[u] = ctx[u], chosen'[u] = chosen[u]
  PROVE  Has(u, i)' <=> Has(u, i)
  BY DEF Has, Connecting

LEMMA HasNone ==
  ASSUME NEW u \in Threads, NEW i \in Slots,
         \/ pc'[u] \in Rest \cup {"begin", "dial", "find", "switching"}
         \/ pc'[u] = "connected" /\ ctx'[u] \notin Slots
  PROVE  ~Has(u, i)'
  BY DEF Has, Connecting, Rest

\* Only net_connect's search gives a thread a slot it did not have.
LEMMA ConnectHas ==
  ASSUME TypeOK, ContextInv, NEW t \in Threads, NetConnect(t), ~shared', NEW i \in Slots, Has(t, i)'
  PROVE  ~shared /\ (Has(t, i) \/ \A u \in Threads \ {t} : ~Has(u, i))
<1>0. pc[t] \in {"find", "create", "connect"} => ctx[t] # i
  BY SlotFacts DEF ContextInv, NoContext
<1>1. CASE Begin(t) \/ Dial(t)
  BY <1>1, BeginFacts, DialFacts, HasNone, StartFacts
<1>2. CASE FindSlot(t)
  <2>1. CASE pc'[t] = Start(t)
    BY <2>1, HasNone, StartFacts
  <2>2. CASE pc'[t] = "create"
    <3>1. shared' = (shared \/ \E u \in Threads \ {t} : Has(u, chosen'[t]))
      BY <1>2, <2>2, FindFacts, StartFacts DEF Rest
    <3>2. pc[t] = "find" /\ ctx' = ctx
      BY <1>2, <2>2, FindFacts, StartFacts DEF Rest
    <3>3. chosen'[t] = i
      BY <1>0, <2>2, <3>2 DEF Has, Connecting
    <3>4. QED BY <3>1, <3>3
  <2>3. QED BY <1>2, <2>1, <2>2, FindFacts
<1>3. CASE CreateSocket(t)
  <2>1. shared' = shared /\ pc[t] = "create"
    BY <1>3, CreateFacts
  <2>2. CASE pc'[t] = "connect" /\ UNCHANGED <<mode, chosen, ctx>>
    BY <1>0, <2>1, <2>2 DEF Has, Connecting
  <2>3. CASE (pc'[t] = "connected" /\ ctx'[t] = Junk) \/ pc'[t] = Start(t)
    BY <2>3, HasNone, StartFacts, SlotFacts
  <2>4. QED BY <1>3, <2>1, <2>2, <2>3, CreateFacts
<1>4. CASE ConnectSocket(t)
  <2>1. shared' = shared /\ pc[t] = "connect"
    BY <1>4, ConnectFacts
  <2>2. CASE pc'[t] = "commit" /\ UNCHANGED <<mode, chosen, sock, ctx>>
    BY <1>0, <2>1, <2>2 DEF Has, Connecting
  <2>3. CASE pc'[t] = Start(t)
    BY <2>3, HasNone, StartFacts
  <2>4. QED BY <1>4, <2>1, <2>2, <2>3, ConnectFacts
<1>5. CASE CommitSlot(t)
  <2>1. shared' = shared /\ pc[t] = "commit" /\ pc'[t] = "connected" /\ ctx'[t] = chosen[t]
    BY <1>5, CommitFacts
  <2>2. QED BY <2>1 DEF Has, Connecting
<1>6. QED BY <1>1, <1>2, <1>3, <1>4, <1>5 DEF NetConnect

LEMMA CloseHas ==
  ASSUME TypeOK, ContextInv, NEW t \in Threads, NetClose(t), NEW i \in Slots, Has(t, i)'
  PROVE  shared' = shared /\ Has(t, i)
<1>1. shared' = shared /\ (Closes(t) \/ Clearing(t))
  BY CloseSocketFacts, ClearSlotFacts DEF NetClose
<1>2. CASE pc'[t] \in {"main", "idle", "begin"}
  BY <1>2, HasNone DEF Rest
<1>3. CASE /\ ctx'[t] = ctx[t]
           /\ pc'[t] \in {"clearing", "reclearing", "clearing again", "closing again"}
  BY <1>1, <1>3 DEF Has, Connecting, Closes, Clearing, Rest
<1>4. QED BY <1>1, <1>2, <1>3, CloseSocketFacts, ClearSlotFacts DEF NetClose

LEMMA StepOneUser ==
  ASSUME TypeOK, ContextInv, OneUserInv, [Next]_vars
  PROVE  OneUserInv'
<1> DEFINE Safe == \A t, u \in Threads, i \in Slots : t # u => ~(Has(t, i)' /\ Has(u, i)')
<1>0. (~shared' => Safe) => OneUserInv'
  BY DEF OneUserInv
<1> SUFFICES ASSUME ~shared' PROVE Safe
  BY <1>0
<1>a. ASSUME NEW t \in Threads, ~shared,
             \A u \in Threads : u # t => \A i \in Slots : Has(u, i)' => Has(u, i),
             \A i \in Slots : Has(t, i)' => Has(t, i) \/ \A u \in Threads \ {t} : ~Has(u, i)
      PROVE  Safe
  <2> SUFFICES ASSUME NEW u \in Threads, NEW v \in Threads, NEW i \in Slots, u # v,
                      Has(u, i)', Has(v, i)'
               PROVE  FALSE
    OBVIOUS
  <2>1. \A x, y \in Threads : x # y => ~(Has(x, i) /\ Has(y, i))
    BY <1>a DEF OneUserInv
  <2>2. QED BY <1>a, <2>1
<1>1. CASE Calls
  <2>1. PICK t \in Threads :
              \/ Caller(t, "main", "begin") \/ Caller(t, "idle", "begin")
              \/ Caller(t, "connected", "closing") \/ Caller(t, "connected", "reclosing")
              \/ Caller(t, "connected", "closing again")
    BY <1>1, CallsFacts
  <2>2. shared' = shared /\ ctx' = ctx /\ chosen' = chosen
        /\ \A u \in Threads : u # t => pc'[u] = pc[u]
    BY <2>1 DEF Caller
  <2>3. \A i \in Slots : Has(t, i)' => Has(t, i)
    <3>1. CASE Caller(t, "main", "begin") \/ Caller(t, "idle", "begin")
      BY <3>1, HasNone DEF Caller
    <3>2. CASE \/ Caller(t, "connected", "closing") \/ Caller(t, "connected", "reclosing")
               \/ Caller(t, "connected", "closing again")
      BY <3>2 DEF Caller, Has, Connecting, Rest
    <3>3. QED BY <2>1, <3>1, <3>2
  <2>4. \A u \in Threads : u # t => \A i \in Slots : Has(u, i)' => Has(u, i)
    BY <2>2, HasStays
  <2>5. QED BY <2>2, <2>3, <2>4, <1>a
<1>2. CASE Joins \/ UNCHANGED vars
  <2>1. UNCHANGED <<pc, ctx, chosen, shared>>
    BY <1>2, JoinFacts DEF vars
  <2>2. QED BY <2>1, HasStays DEF OneUserInv
<1>3. CASE SwitchMode \/ SwitchModems
  <2>1. /\ UNCHANGED <<ctx, chosen, shared>> /\ pc'["menu"] \in {"switching", "idle"}
        /\ "menu" \in Threads
        /\ \A u \in Threads : u # "menu" => pc'[u] = pc[u]
    BY <1>3, SwitchModeFacts, SwitchModemsFacts DEF Threads
  <2>2. \A i \in Slots : ~Has("menu", i)'
    BY <2>1, HasNone DEF Rest
  <2>3. \A u \in Threads : u # "menu" => \A i \in Slots : Has(u, i)' => Has(u, i)
    BY <2>1, HasStays
  <2>4. QED BY <2>1, <2>2, <2>3, <1>a
<1>4. CASE JunkFault
  <2>1. \A u \in Threads : pc'[u] \in Rest
    BY <1>4, BootedFacts, Typed DEF JunkFault
  <2>2. QED BY <2>1, HasNone
<1>5. ASSUME NEW t \in Threads, NetConnect(t)
      PROVE  Safe
  <2>1. ~shared
    <3>1. \/ shared' = shared
          \/ shared' = (shared \/ \E u \in Threads \ {t} : Has(u, chosen'[t]))
      BY <1>5, BeginFacts, DialFacts, FindFacts, CreateFacts, ConnectFacts, CommitFacts
      DEF NetConnect
    <3>2. QED BY <3>1
  <2>2. \A u \in Threads : u # t => \A i \in Slots : Has(u, i)' => Has(u, i)
    BY <1>5, ConnectType, HasStays DEF Apart
  <2>3. \A i \in Slots : Has(t, i)' => Has(t, i) \/ \A u \in Threads \ {t} : ~Has(u, i)
    BY <1>5, ConnectHas
  <2>4. QED BY <2>1, <2>2, <2>3, <1>a
<1>6. ASSUME NEW t \in Threads, NetClose(t)
      PROVE  Safe
  <2>1. ~shared
    BY <1>6, CloseSocketFacts, ClearSlotFacts DEF NetClose
  <2>2. \A u \in Threads : u # t => \A i \in Slots : Has(u, i)' => Has(u, i)
    BY <1>6, CloseType, HasStays DEF Apart
  <2>3. \A i \in Slots : Has(t, i)' => Has(t, i)
    BY <1>6, CloseHas
  <2>4. QED BY <2>1, <2>2, <2>3, <1>a
<1>7. QED BY <1>1, <1>2, <1>3, <1>4, <1>5, <1>6, StepCases

\* A slot in use stays its thread's: whoever clears or leaves it was its holder.
LEMMA StepHeld ==
  ASSUME TypeOK, ContextInv, ValidIsHeld, [Next]_vars
  PROVE  ValidIsHeld'
<1> SUFFICES ASSUME NEW i \in Slots, slot'[i] # Invalid
             PROVE  \E u \in Threads : ctx'[u] = i /\ pc'[u] \notin Rest
  BY DEF ValidIsHeld
<1>a. ASSUME slot[i] # Invalid
      PROVE  \E u \in Threads : ctx[u] = i /\ pc[u] \notin NoContext /\ pc[u] \notin Rest
  BY <1>a, ContextHas DEF ValidIsHeld
<1>b. ASSUME slot[i] # Invalid, NEW t \in Threads,
             \A u \in Threads : u # t => pc'[u] = pc[u] /\ ctx'[u] = ctx[u],
             ctx[t] = i => pc[t] \in NoContext \/ (ctx'[t] = i /\ pc'[t] \notin Rest)
      PROVE  \E u \in Threads : ctx'[u] = i /\ pc'[u] \notin Rest
  <2>1. PICK u \in Threads : ctx[u] = i /\ pc[u] \notin NoContext /\ pc[u] \notin Rest
    BY <1>a, <1>b
  <2>2. QED BY <1>b, <2>1
<1>c. {"main", "idle", "switching", "begin", "dial", "find", "create", "connect", "commit"}
        \subseteq NoContext
  BY DEF NoContext, Rest
<1>1. CASE Calls
  <2>1. PICK t \in Threads :
              \/ Caller(t, "main", "begin") \/ Caller(t, "idle", "begin")
              \/ Caller(t, "connected", "closing") \/ Caller(t, "connected", "reclosing")
              \/ Caller(t, "connected", "closing again")
    BY <1>1, CallsFacts
  <2>2. /\ slot' = slot /\ ctx' = ctx /\ \A u \in Threads : u # t => pc'[u] = pc[u]
        /\ pc'[t] \in {"begin", "closing", "reclosing", "closing again"}
    BY <2>1 DEF Caller
  <2>3. QED BY <2>2, <1>b DEF Rest
<1>2. CASE Joins \/ UNCHANGED vars
  BY <1>2, <1>a, JoinFacts DEF vars
<1>3. CASE SwitchMode \/ SwitchModems
  <2>1. /\ UNCHANGED <<slot, ctx>> /\ pc["menu"] \in {"switching", "idle"}
        /\ "menu" \in Threads
        /\ \A u \in Threads : u # "menu" => pc'[u] = pc[u]
    BY <1>3, SwitchModeFacts, SwitchModemsFacts DEF Threads
  <2>2. QED BY <2>1, <1>b, <1>c
<1>4. CASE JunkFault
  BY <1>4, BootedFacts, Typed DEF JunkFault
<1>5. ASSUME NEW t \in Threads, NetConnect(t)
      PROVE  \E u \in Threads : ctx'[u] = i /\ pc'[u] \notin Rest
  <2>1. Apart(t) /\ pc[t] \in NoContext
    BY <1>5, <1>c, BeginFacts, DialFacts, FindFacts, CreateFacts, ConnectFacts, CommitFacts
    DEF NetConnect
  <2>2. CASE slot'[i] = slot[i]
    BY <2>1, <2>2, <1>b DEF Apart
  <2>3. CASE slot'[i] # slot[i]
    <3>1. CommitSlot(t)
      BY <1>5, <2>3, BeginFacts, DialFacts, FindFacts, CreateFacts, ConnectFacts DEF NetConnect
    <3>2. i = chosen[t] /\ ctx'[t] = i /\ pc'[t] = "connected"
      BY <2>3, <3>1, CommitFacts
    <3>3. QED BY <3>2 DEF Rest
  <2>4. QED BY <2>2, <2>3
<1>6. ASSUME NEW t \in Threads, NetClose(t)
      PROVE  \E u \in Threads : ctx'[u] = i /\ pc'[u] \notin Rest
  <2>1. Apart(t)
    BY <1>6, CloseType
  <2>2. CASE CloseSocket(t)
    <3>1. slot' = slot
      BY <2>2, CloseSocketFacts
    <3>2. ctx[t] = i => ctx'[t] = i /\ pc'[t] \in {"clearing", "reclearing", "clearing again"}
      BY <2>2, <3>1, CloseSocketFacts DEF HasSlot
    <3>3. QED BY <2>1, <3>1, <3>2, <1>b DEF Apart, Rest
  <2>3. CASE ClearSlot(t)
    <3>1. ctx[t] # i /\ slot'[i] = slot[i]
      BY <2>3, ClearSlotFacts
    <3>2. QED BY <2>1, <3>1, <1>b DEF Apart
  <2>4. QED BY <1>6, <2>2, <2>3 DEF NetClose
<1>7. QED BY <1>1, <1>2, <1>3, <1>4, <1>5, <1>6, StepCases

----------------------------------------------------------------------------
(* Whose a socket is *)

\* Two threads never work on one slot, as long as none was found free twice.
LEMMA SlotsApart ==
  ASSUME ContextInv, OneUserInv, ~shared, NEW t \in Threads, NEW u \in Threads, u # t,
         ctx[u] \in Slots
  PROVE  /\ ctx[t] # ctx[u]
         /\ Connecting(t) => chosen[t] # ctx[u]
<1>1. Has(u, ctx[u])
  BY ContextHas
<1>2. ctx[t] = ctx[u] => Has(t, ctx[u])
  BY ContextHas
<1>3. Connecting(t) /\ chosen[t] = ctx[u] => Has(t, ctx[u])
  BY DEF Has
<1>4. ~Has(t, ctx[u])
  BY <1>1 DEF OneUserInv
<1>5. QED BY <1>2, <1>3, <1>4

\* net_connect leaves the slots and sockets of the other thread alone, but for
\* the socket that did not connect, and then says so.
LEMMA ConnectOthers ==
  ASSUME TypeOK, NEW t \in Threads, NetConnect(t), NEW u \in Threads, u # t
  PROVE  /\ \A s \in open' : s.by = u => s \in open
         /\ u \notin stale' => u \notin stale /\ \A s \in open : s.by = u => s \in open'
         /\ \A i \in Slots : slot'[i] = slot[i] \/ (pc[t] = "commit" /\ chosen[t] = i)
<1>1. CASE CreateSocket(t)
  <2>1. open' = open \/ open' = open \cup {[mode |-> mode[t], id |-> sock'[t], by |-> t]}
    BY <1>1, CreateFacts
  <2>2. UNCHANGED <<stale, slot>>
    BY <1>1, CreateFacts
  <2>3. QED BY <2>1, <2>2
<1>2. CASE ConnectSocket(t)
  <2>1. /\ slot' = slot
        /\ UNCHANGED <<open, stale>> \/ Close(t, Mine(t))
    BY <1>2, ConnectFacts
  <2>2. CASE Close(t, Mine(t))
    <3>1. /\ open' = open \ Mine(t) /\ stale \subseteq stale'
          /\ \A s \in Mine(t) : s.by # t => s.by \in stale'
      BY <2>2, MineFacts, CloseFacts
    <3>2. QED BY <2>1, <3>1
  <2>3. QED BY <2>1, <2>2
<1>3. CASE Begin(t)
  BY <1>3, BeginFacts
<1>4. CASE Dial(t) \/ FindSlot(t)
  BY <1>4, DialFacts, FindFacts
<1>5. CASE CommitSlot(t)
  BY <1>5, CommitFacts
<1>6. QED BY <1>1, <1>2, <1>3, <1>4, <1>5 DEF NetConnect

LEMMA CloseOthers ==
  ASSUME TypeOK, ContextInv, NEW t \in Threads, NetClose(t), NEW u \in Threads, u # t
  PROVE  /\ open' \subseteq open
         /\ u \notin stale' => u \notin stale /\ \A s \in open : s.by = u => s \in open'
         /\ \A i \in Slots : slot'[i] = slot[i] \/ (ctx[t] = i /\ slot'[i] = Invalid)
<1>1. CASE CloseSocket(t)
  <2>1. /\ slot' = slot
        /\ UNCHANGED <<open, stale>> \/ Close(t, Reached(t))
    BY <1>1, CloseSocketFacts
  <2>2. CASE Close(t, Reached(t))
    <3>1. /\ open' = open \ Reached(t) /\ stale \subseteq stale'
          /\ \A s \in Reached(t) : s.by # t => s.by \in stale'
      BY <2>2, MineFacts, CloseFacts
    <3>2. QED BY <2>1, <3>1
  <2>3. QED BY <2>1, <2>2
<1>2. CASE ClearSlot(t)
  BY <1>2, ClearSlotFacts
<1>3. QED BY <1>1, <1>2 DEF NetClose

\* A thread that has neither locals nor a slot has no socket left on the modem.
LEMMA Bare ==
  ASSUME ContextInv, NamedInv, ~shared, NEW s \in open, s.mode = commode, s.by \in Threads,
         pc[s.by] \in {"begin", "dial", "find", "create"}
  PROVE  FALSE
<1>1. ctx[s.by] \notin Slots
  BY SlotFacts DEF ContextInv, NoContext
<1>2. Named(s)
  BY DEF NamedInv
<1>3. QED BY <1>1, <1>2 DEF Named

\* A socket stays named while its thread and the slot stay.
LEMMA NamedStays ==
  ASSUME NEW s \in open, Named(s), ~Clearing(s.by),
         UNCHANGED <<pc[s.by], ctx[s.by], mode[s.by], sock[s.by]>>,
         ctx[s.by] \in Slots => slot'[ctx[s.by]] = slot[ctx[s.by]]
  PROVE  Named(s)' /\ ~Clearing(s.by)'
<1>1. ~Clearing(s.by)'
  BY DEF Clearing
<1>2. CASE pc[s.by] \in {"connect", "commit"} /\ mode[s.by] = s.mode /\ sock[s.by] = s.id
  BY <1>1, <1>2 DEF Named
<1>3. CASE \E i \in Slots : slot[i] = s.id /\ ctx[s.by] = i
  <2>1. ctx[s.by] \in Slots /\ slot'[ctx[s.by]] = s.id /\ ctx'[s.by] = ctx[s.by]
    BY <1>3
  <2>2. QED BY <1>1, <2>1 DEF Named
<1>4. QED BY <1>2, <1>3 DEF Named

LEMMA NamedBySlot ==
  ASSUME NEW s, ctx'[s.by] \in Slots, slot'[ctx'[s.by]] = s.id,
         pc'[s.by] \notin {"clearing", "reclearing", "clearing again"}
  PROVE  Named(s)' /\ ~Clearing(s.by)'
  BY DEF Named, Clearing

LEMMA ConnectNamed ==
  ASSUME TypeOK, ContextInv, OneUserInv, NamedInv, NEW t \in Threads, NetConnect(t),
         ~shared, NEW s \in open', s.mode = commode
  PROVE  Named(s)' /\ ~Clearing(s.by)'
<1>0. Apart(t) /\ s.by \in Threads
  <2>1. Apart(t) /\ TypeOK'
    BY ConnectType
  <2>2. s \in [mode : Modes, id : Nat, by : Threads]
    BY <2>1 DEF TypeOK
  <2>3. QED BY <2>1, <2>2
<1>1. CASE s.by # t
  <2>1. s \in open /\ \A i \in Slots : slot'[i] = slot[i] \/ (pc[t] = "commit" /\ chosen[t] = i)
    BY <1>0, <1>1, ConnectOthers
  <2>2. ctx[s.by] \in Slots => slot'[ctx[s.by]] = slot[ctx[s.by]]
    BY <1>0, <1>1, <2>1, SlotsApart DEF Connecting
  <2>3. Named(s) /\ ~Clearing(s.by)
    BY <2>1 DEF NamedInv
  <2>4. QED BY <1>0, <1>1, <2>1, <2>2, <2>3, NamedStays DEF Apart
<1>2. CASE s.by = t /\ (Begin(t) \/ Dial(t) \/ FindSlot(t))
  <2>1. s \in open /\ pc[t] \in {"begin", "dial", "find"}
    BY <1>2, BeginFacts, DialFacts, FindFacts
  <2>2. QED BY <1>0, <1>2, <2>1, Bare
<1>3. CASE s.by = t /\ CreateSocket(t)
  <2>1. s \notin open
    BY <1>0, <1>3, Bare, CreateFacts
  <2>2. /\ pc'[t] = "connect" /\ mode' = mode
        /\ s = [mode |-> mode[t], id |-> sock'[t], by |-> t]
    BY <1>3, <2>1, CreateFacts
  <2>3. QED BY <1>3, <2>2 DEF Named, Clearing
<1>4. CASE s.by = t /\ (ConnectSocket(t) \/ CommitSlot(t))
  <2>1. s \in open /\ pc[t] \in {"connect", "commit"}
    BY <1>4, ConnectFacts, CommitFacts, MineFacts, CloseFacts
  <2>2. ctx[t] \notin Slots
    BY <2>1, SlotFacts DEF ContextInv, NoContext
  <2>3. mode[t] = s.mode /\ sock[t] = s.id
    BY <1>4, <2>1, <2>2 DEF NamedInv, Named
  <2>4. CASE ConnectSocket(t)
    <3>1. s \in Mine(t)
      BY <2>1, <2>3, MineFacts
    <3>2. ~Close(t, Mine(t))
      BY <3>1 DEF Close
    <3>3. pc'[t] = "commit" /\ UNCHANGED <<mode, chosen, sock, ctx>>
      BY <2>4, <3>2, ConnectFacts
    <3>4. QED BY <1>4, <2>3, <3>3 DEF Named, Clearing
  <2>5. CASE CommitSlot(t)
    BY <1>4, <2>3, <2>5, CommitFacts, NamedBySlot
  <2>6. QED BY <1>4, <2>4, <2>5
<1>5. QED BY <1>1, <1>2, <1>3, <1>4 DEF NetConnect

LEMMA CloseNamed ==
  ASSUME TypeOK, ContextInv, OneUserInv, NamedInv, NEW t \in Threads, NetClose(t),
         ~shared, NEW s \in open', s.mode = commode
  PROVE  Named(s)' /\ ~Clearing(s.by)'
<1>1. Apart(t) /\ UNCHANGED <<mode, sock>>
  BY CloseType, CloseSocketFacts, ClearSlotFacts DEF NetClose
<1>2. s \in open
  BY CloseSocketFacts, ClearSlotFacts, MineFacts, CloseFacts DEF NetClose
<1>3. s.by \in Threads /\ s.id \in Nat
  BY <1>2, Typed DEF Sockets
<1>4. Named(s) /\ ~Clearing(s.by)
  BY <1>2 DEF NamedInv
<1>5. CASE s.by # t
  <2>1. \A i \in Slots : slot'[i] = slot[i] \/ ctx[t] = i
    BY <1>3, <1>5, CloseOthers
  <2>2. ctx[s.by] \in Slots => slot'[ctx[s.by]] = slot[ctx[s.by]]
    BY <1>3, <1>5, <2>1, SlotsApart
  <2>3. QED BY <1>1, <1>2, <1>3, <1>4, <1>5, <2>2, NamedStays DEF Apart
<1>6. CASE s.by = t
  <2>1. CloseSocket(t)
    BY <1>4, <1>6, ClearSlotFacts DEF NetClose
  <2>2. Closes(t)
    BY <2>1, CloseSocketFacts
  <2>3. ctx[t] \in Slots /\ slot[ctx[t]] = s.id
    BY <1>4, <1>6, <2>2 DEF Named, Closes
  <2>4. HasSlot(t) /\ s \in Reached(t)
    BY <1>2, <1>3, <2>3, SlotFacts, MineFacts DEF HasSlot
  <2>5. Close(t, Reached(t))
    BY <2>1, <2>4, CloseSocketFacts
  <2>6. QED BY <2>4, <2>5 DEF Close
<1>7. QED BY <1>5, <1>6

LEMMA StepNamed ==
  ASSUME TypeOK, ContextInv, ModemInv, OneUserInv, NamedInv, [Next]_vars
  PROVE  NamedInv'
<1>0. (~shared' => \A s \in open' : s.mode = commode' => Named(s)' /\ ~Clearing(s.by)')
        => NamedInv'
  BY DEF NamedInv
<1> SUFFICES ASSUME ~shared', NEW s \in open', s.mode = commode'
             PROVE  Named(s)' /\ ~Clearing(s.by)'
  BY <1>0
<1>1. CASE Calls
  <2>1. PICK t \in Threads :
              \/ Caller(t, "main", "begin") \/ Caller(t, "idle", "begin")
              \/ Caller(t, "connected", "closing") \/ Caller(t, "connected", "reclosing")
              \/ Caller(t, "connected", "closing again")
    BY <1>1, CallsFacts
  <2>2. /\ UNCHANGED <<commode, open, slot, mode, sock, ctx, shared>>
        /\ pc[t] \in {"main", "idle", "connected"}
        /\ pc'[t] \in {"begin", "closing", "reclosing", "closing again"}
        /\ \A u \in Threads : u # t => pc'[u] = pc[u]
    BY <2>1 DEF Caller
  <2>3. s \in open /\ s.by \in Threads /\ Named(s) /\ ~Clearing(s.by)
    BY <2>2, Typed DEF NamedInv, Sockets
  <2>4. CASE s.by # t
    BY <2>2, <2>3, <2>4, NamedStays
  <2>5. CASE s.by = t
    <3>1. ctx[t] \in Slots /\ slot[ctx[t]] = s.id
      BY <2>2, <2>3, <2>5 DEF Named
    <3>2. QED BY <2>2, <2>5, <3>1, NamedBySlot
  <2>6. QED BY <2>4, <2>5
<1>2. CASE Joins \/ UNCHANGED vars
  <2>1. UNCHANGED <<commode, open, slot, pc, mode, sock, ctx, shared>>
    BY <1>2, JoinFacts DEF vars
  <2>2. s \in open /\ Named(s) /\ ~Clearing(s.by)
    BY <2>1 DEF NamedInv
  <2>3. QED BY <2>1, <2>2, NamedStays
<1>3. CASE SwitchMode
  \* SetCommMode changes the setting first: the sockets are all the old modem's.
  <2>1. /\ commode' = Other(commode) /\ open' = open /\ pc["menu"] = "idle"
    BY <1>3, SwitchModeFacts
  <2>2. s.mode = commode /\ Other(commode) # commode
    BY <2>1, Typed, ModeFacts DEF ModemInv
  <2>3. QED BY <2>1, <2>2
<1>4. CASE SwitchModems
  <2>1. /\ pc["menu"] = "switching" /\ pc'["menu"] = "idle" /\ "menu" \in Threads
        /\ \A u \in Threads : u # "menu" => pc'[u] = pc[u]
        /\ open' = {r \in open : r.mode = commode}
        /\ UNCHANGED <<commode, slot, mode, sock, ctx, shared>>
    BY <1>4, SwitchModemsFacts DEF Threads
  <2>2. s \in open /\ s.by \in Threads /\ Named(s) /\ ~Clearing(s.by)
    BY <2>1, Typed DEF NamedInv, Sockets
  <2>3. CASE s.by # "menu"
    BY <2>1, <2>2, <2>3, NamedStays
  <2>4. CASE s.by = "menu"
    <3>1. ctx["menu"] \in Slots /\ slot[ctx["menu"]] = s.id
      BY <2>1, <2>2, <2>4 DEF Named
    <3>2. QED BY <2>1, <2>4, <3>1, NamedBySlot
  <2>5. QED BY <2>3, <2>4
<1>5. CASE JunkFault
  BY <1>5, BootedFacts, Typed DEF JunkFault
<1>6. ASSUME NEW t \in Threads, NetConnect(t)
      PROVE  Named(s)' /\ ~Clearing(s.by)'
  <2>1. commode' = commode
    BY <1>6, ConnectType
  <2>2. ~shared
    <3>1. \/ shared' = shared
          \/ shared' = (shared \/ \E u \in Threads \ {t} : Has(u, chosen'[t]))
      BY <1>6, BeginFacts, DialFacts, FindFacts, CreateFacts, ConnectFacts, CommitFacts
      DEF NetConnect
    <3>2. QED BY <3>1
  <2>3. QED BY <1>6, <2>1, <2>2, ConnectNamed
<1>7. ASSUME NEW t \in Threads, NetClose(t)
      PROVE  Named(s)' /\ ~Clearing(s.by)'
  <2>1. commode' = commode /\ shared' = shared
    BY <1>7, CloseSocketFacts, ClearSlotFacts DEF NetClose
  <2>2. QED BY <1>7, <2>1, CloseNamed
<1>8. QED BY <1>1, <1>2, <1>3, <1>4, <1>5, <1>6, <1>7, StepCases

\* What a thread that no longer has a slot, and no locals, could name: nothing.
LEMMA OwnsNothing ==
  ASSUME NEW v \in Threads,
         pc'[v] \notin {"dial", "find", "create", "connect", "commit"},
         \/ ctx'[v] \notin Slots
         \/ pc'[v] \in {"clearing", "reclearing", "clearing again"}
         \/ slot'[ctx'[v]] = Invalid
  PROVE  /\ pc'[v] \in {"dial", "find", "create", "connect", "commit"} => mode'[v] = commode'
         /\ pc'[v] \in {"connect", "commit"} =>
              [mode |-> mode'[v], id |-> sock'[v], by |-> v] \in open'
         /\ HasSlot(v)' /\ ~Clearing(v)' /\ ~shared' =>
              [mode |-> commode', id |-> slot'[ctx'[v]], by |-> v] \in open'
<1>1. ~(HasSlot(v)' /\ ~Clearing(v)')
  BY DEF HasSlot, Clearing
<1>2. QED BY <1>1

LEMMA StepOwn ==
  ASSUME TypeOK, ContextInv, OneUserInv, OwnInv, [Next]_vars
  PROVE  OwnInv'
<1> DEFINE A(v) == pc'[v] \in {"dial", "find", "create", "connect", "commit"} =>
                     mode'[v] = commode'
           B(v) == pc'[v] \in {"connect", "commit"} =>
                     [mode |-> mode'[v], id |-> sock'[v], by |-> v] \in open'
           C(v) == HasSlot(v)' /\ ~Clearing(v)' /\ ~shared' =>
                     [mode |-> commode', id |-> slot'[ctx'[v]], by |-> v] \in open'
<1>0. (\A v \in Threads : v \notin stale' => A(v) /\ B(v) /\ C(v)) => OwnInv'
  BY DEF OwnInv
<1> SUFFICES ASSUME NEW v \in Threads, v \notin stale'
             PROVE  A(v) /\ B(v) /\ C(v)
  BY <1>0
<1>a. v \notin stale =>
        /\ pc[v] \in {"dial", "find", "create", "connect", "commit"} => mode[v] = commode
        /\ pc[v] \in {"connect", "commit"} =>
             [mode |-> mode[v], id |-> sock[v], by |-> v] \in open
        /\ HasSlot(v) /\ ~Clearing(v) /\ ~shared =>
             [mode |-> commode, id |-> slot[ctx[v]], by |-> v] \in open
  BY DEF OwnInv
\* A thread the step leaves alone, and whose sockets and slot it leaves alone.
<1>b. ASSUME v \notin stale, UNCHANGED <<commode, pc[v], mode[v], sock[v], ctx[v]>>,
             \A s \in open : s.by = v /\ s.mode = commode => s \in open',
             ~shared' => ~shared,
             ~shared /\ ctx[v] \in Slots =>
               slot'[ctx[v]] = slot[ctx[v]] \/ slot'[ctx[v]] = Invalid
      PROVE  A(v) /\ B(v) /\ C(v)
  <2>1. A(v)
    BY <1>a, <1>b
  <2>2. B(v)
    BY <1>a, <1>b
  <2>3. C(v)
    <3>1. HasSlot(v)' /\ ~Clearing(v)' /\ ~shared' =>
            HasSlot(v) /\ ~Clearing(v) /\ ~shared /\ slot'[ctx[v]] = slot[ctx[v]]
      BY <1>b DEF HasSlot, Clearing
    <3>2. QED BY <1>a, <1>b, <3>1
  <2>4. QED BY <2>1, <2>2, <2>3
<1>c. pc[v] \in NoContext => ctx[v] \notin Slots
  BY SlotFacts DEF ContextInv
<1>1. CASE Calls
  <2>1. PICK t \in Threads :
              \/ Caller(t, "main", "begin") \/ Caller(t, "idle", "begin")
              \/ Caller(t, "connected", "closing") \/ Caller(t, "connected", "reclosing")
              \/ Caller(t, "connected", "closing again")
    BY <1>1, CallsFacts
  <2>2. /\ UNCHANGED <<commode, open, slot, mode, sock, ctx, shared, stale>>
        /\ pc[t] \in {"main", "idle", "connected"}
        /\ pc'[t] \in {"begin", "closing", "reclosing", "closing again"}
        /\ \A u \in Threads : u # t => pc'[u] = pc[u]
    BY <2>1 DEF Caller
  <2>3. CASE v # t
    BY <2>2, <2>3, <1>b
  <2>4. CASE v = t
    <3>1. C(v)
      BY <2>2, <2>4, <1>a DEF HasSlot, Clearing
    <3>2. QED BY <2>2, <2>4, <3>1
  <2>5. QED BY <2>3, <2>4
<1>2. CASE Joins \/ UNCHANGED vars
  BY <1>2, <1>b, JoinFacts DEF vars
<1>3. CASE SwitchMode
  \* Whoever is not at rest has a number of the modem that was.
  <2>1. /\ pc[v] \in Rest /\ ctx' = ctx
        /\ v # "menu" => pc'[v] = pc[v]
        /\ v = "menu" => pc'[v] = "switching"
    BY <1>3, SwitchModeFacts
  <2>2. pc'[v] \notin {"dial", "find", "create", "connect", "commit"} /\ ctx'[v] \notin Slots
    BY <2>1, <1>c DEF Rest, NoContext
  <2>3. QED BY <2>2, OwnsNothing
<1>4. CASE SwitchModems
  <2>1. /\ UNCHANGED <<commode, slot, mode, sock, ctx, shared, stale>>
        /\ open' = {s \in open : s.mode = commode}
        /\ pc["menu"] = "switching" /\ pc'["menu"] = "idle"
        /\ v # "menu" => pc'[v] = pc[v]
    BY <1>4, SwitchModemsFacts
  <2>2. CASE v # "menu"
    BY <2>1, <2>2, <1>b
  <2>3. CASE v = "menu"
    BY <2>1, <2>3, <1>c, OwnsNothing DEF NoContext
  <2>4. QED BY <2>2, <2>3
<1>5. CASE JunkFault
  <2>1. pc'[v] \in Rest /\ ctx'[v] = NoSlot
    BY <1>5, BootedFacts, Typed DEF JunkFault
  <2>2. QED BY <2>1, OwnsNothing, SlotFacts DEF Rest
<1>6. ASSUME NEW t \in Threads, NetConnect(t)
      PROVE  A(v) /\ B(v) /\ C(v)
  <2>1. Apart(t) /\ commode' = commode
    BY <1>6, ConnectType
  <2>2. ~shared' => ~shared
    <3>1. \/ shared' = shared
          \/ shared' = (shared \/ \E u \in Threads \ {t} : Has(u, chosen'[t]))
      BY <1>6, BeginFacts, DialFacts, FindFacts, CreateFacts, ConnectFacts, CommitFacts
      DEF NetConnect
    <3>2. QED BY <3>1
  <2>3. CASE v # t
    <3>1. /\ v \notin stale /\ \A s \in open : s.by = v => s \in open'
          /\ \A i \in Slots : slot'[i] = slot[i] \/ (pc[t] = "commit" /\ chosen[t] = i)
      BY <1>6, <2>3, ConnectOthers
    <3>2. ~shared /\ ctx[v] \in Slots => slot'[ctx[v]] = slot[ctx[v]]
      BY <2>3, <3>1, SlotsApart DEF Connecting
    <3>3. UNCHANGED <<pc[v], mode[v], sock[v], ctx[v]>>
      BY <2>1, <2>3 DEF Apart
    <3>4. QED BY <2>1, <2>2, <3>1, <3>2, <3>3, <1>b
  <2>4. CASE v = t
    <3>1. CASE Begin(t)
      <4>1. mode'[t] = commode /\ ctx' = ctx /\ pc[t] = "begin" /\ pc'[t] \in {"find", "dial"}
        BY <3>1, BeginFacts
      <4>2. ctx'[t] \notin Slots
        BY <2>4, <4>1, <1>c DEF NoContext
      <4>3. QED BY <2>1, <2>4, <4>1, <4>2 DEF HasSlot
    <3>2. CASE pc'[t] = Start(t) /\ ctx'[t] = NoSlot
      BY <2>4, <3>2, OwnsNothing, StartFacts, SlotFacts DEF Rest
    <3>3. CASE Dial(t) \/ FindSlot(t)
      <4>1. /\ v \notin stale /\ pc[t] \in {"dial", "find"}
            /\ \/ pc'[t] = Start(t) /\ ctx'[t] = NoSlot
               \/ pc'[t] \in {"find", "create"} /\ UNCHANGED <<mode, ctx>>
        BY <3>3, DialFacts, FindFacts
      <4>2. CASE pc'[t] \in {"find", "create"} /\ UNCHANGED <<mode, ctx>>
        <5>1. ctx'[t] \notin Slots
          BY <2>4, <4>1, <4>2, <1>c DEF NoContext
        <5>2. mode'[t] = commode
          BY <2>4, <4>1, <4>2, <1>a
        <5>3. QED BY <2>1, <2>4, <4>2, <5>1, <5>2 DEF HasSlot
      <4>3. QED BY <4>1, <4>2, <3>2
    <3>4. CASE CreateSocket(t)
      <4>1. v \notin stale /\ pc[t] = "create"
        BY <3>4, CreateFacts
      <4>2. CASE pc'[t] = "connect" /\ UNCHANGED <<mode, chosen, ctx>> /\
                 open' = open \cup {[mode |-> mode[t], id |-> sock'[t], by |-> t]}
        <5>1. ctx'[t] \notin Slots
          BY <2>4, <4>1, <4>2, <1>c DEF NoContext
        <5>2. mode'[t] = commode
          BY <2>4, <4>1, <4>2, <1>a
        <5>3. [mode |-> mode'[t], id |-> sock'[t], by |-> t] \in open'
          BY <4>2
        <5>4. QED BY <2>1, <2>4, <5>1, <5>2, <5>3 DEF HasSlot
      <4>3. CASE pc'[t] = "connected" /\ ctx'[t] = Junk
        BY <2>4, <4>3, OwnsNothing, SlotFacts
      <4>4. QED BY <3>2, <3>4, <4>2, <4>3, CreateFacts
    <3>5. CASE ConnectSocket(t)
      <4>1. pc[t] = "connect"
        BY <3>5, ConnectFacts
      <4>2. CASE pc'[t] = "commit" /\ UNCHANGED <<mode, chosen, sock, ctx, open, stale>>
        <5>1. ctx'[t] \notin Slots
          BY <2>4, <4>1, <4>2, <1>c DEF NoContext
        <5>2. mode'[t] = commode /\ [mode |-> mode'[t], id |-> sock'[t], by |-> t] \in open'
          BY <2>4, <4>1, <4>2, <1>a
        <5>3. QED BY <2>1, <2>4, <5>1, <5>2 DEF HasSlot
      <4>3. QED BY <3>2, <3>5, <4>2, ConnectFacts
    <3>6. CASE CommitSlot(t)
      <4>1. /\ v \notin stale /\ pc[t] = "commit" /\ pc'[t] = "connected"
            /\ ctx'[t] = chosen[t] /\ slot'[chosen[t]] = sock[t] /\ open' = open
        BY <3>6, CommitFacts
      <4>2. mode[t] = commode /\ [mode |-> mode[t], id |-> sock[t], by |-> t] \in open
        BY <2>4, <4>1, <1>a
      <4>3. QED BY <2>1, <2>4, <4>1, <4>2
    <3>7. QED BY <1>6, <3>1, <3>3, <3>4, <3>5, <3>6 DEF NetConnect
  <2>5. QED BY <2>3, <2>4
<1>7. ASSUME NEW t \in Threads, NetClose(t)
      PROVE  A(v) /\ B(v) /\ C(v)
  <2>1. Apart(t) /\ UNCHANGED <<commode, mode, sock, shared>>
    BY <1>7, CloseType, CloseSocketFacts, ClearSlotFacts DEF NetClose
  <2>2. CASE v # t
    <3>1. /\ v \notin stale /\ \A s \in open : s.by = v => s \in open'
          /\ \A i \in Slots : slot'[i] = slot[i] \/ slot'[i] = Invalid
      BY <1>7, <2>2, CloseOthers
    <3>2. UNCHANGED <<pc[v], mode[v], sock[v], ctx[v]>>
      BY <2>1, <2>2 DEF Apart
    <3>3. QED BY <2>1, <3>1, <3>2, <1>b
  <2>3. CASE v = t
    <3>1. CASE pc'[t] \in {"main", "idle", "begin"} /\ ctx'[t] = NoSlot
      BY <2>3, <3>1, OwnsNothing, SlotFacts
    <3>2. CASE pc'[t] \in {"clearing", "reclearing", "clearing again"}
      BY <2>3, <3>2, OwnsNothing
    <3>3. CASE pc'[t] = "closing again" /\ ctx'[t] = ctx[t]
      <4>1. CASE CloseSocket(t)
        <5>1. ~HasSlot(t) /\ slot' = slot
          BY <3>3, <4>1, CloseSocketFacts
        <5>2. ctx'[t] \notin Slots \/ slot'[ctx'[t]] = Invalid
          BY <3>3, <5>1 DEF HasSlot
        <5>3. QED BY <2>3, <3>3, <5>2, OwnsNothing
      <4>2. CASE ClearSlot(t)
        BY <2>3, <3>3, <4>2, ClearSlotFacts, OwnsNothing
      <4>3. QED BY <1>7, <4>1, <4>2 DEF NetClose
    <3>4. QED BY <1>7, <3>1, <3>2, <3>3, CloseSocketFacts, ClearSlotFacts DEF NetClose
  <2>4. QED BY <2>2, <2>3
<1>8. QED BY <1>1, <1>2, <1>3, <1>4, <1>5, <1>6, <1>7, StepCases

----------------------------------------------------------------------------
(* The theorems *)

LEMMA InitIInv == Init => IInv
<1> SUFFICES ASSUME Init PROVE IInv
  OBVIOUS
<1>1. /\ \A t \in Threads : pc[t] \in Rest /\ ctx[t] = NoSlot /\ pc[t] = Start(t)
      /\ \A i \in Slots : slot[i] = Invalid
      /\ open = {} /\ commode \in Modes /\ "menu" \in Threads
  BY StartFacts DEF Init, Threads
<1>2. TypeOK
  BY InitType
<1>3. ContextInv
  BY <1>1 DEF ContextInv, Clearing, Rest
<1>4. ModemInv
  BY <1>1, ModeFacts DEF Init, ModemInv
<1>5. NumbersInv /\ NamedInv
  BY <1>1 DEF NumbersInv, NamedInv
<1>6. OneUserInv
  BY <1>1 DEF OneUserInv, Has, Connecting, Rest
<1>7. OwnInv
  BY <1>1 DEF OwnInv, HasSlot, Rest
<1>8. ValidIsHeld
  BY <1>1 DEF ValidIsHeld
<1>9. QED BY <1>2, <1>3, <1>4, <1>5, <1>6, <1>7, <1>8 DEF IInv

LEMMA StepIInv == IInv /\ [Next]_vars => IInv'
  BY StepType, StepContext, StepModem, StepNumbers, StepOneUser, StepNamed, StepOwn, StepHeld
  DEF IInv

\* The inductive invariant of the two threads, their slots and their sockets.
THEOREM IInvIsInvariant == Spec => []IInv
  BY InitIInv, StepIInv, PTL DEF Spec

\* Every variable keeps its type: net_connect's locals, the slots, the sockets
\* and the bounds.
THEOREM TypeCorrect == Spec => []TypeOK
<1>1. IInv => TypeOK
  BY DEF IInv
<1>2. QED BY <1>1, IInvIsInvariant, PTL

\* However the two threads interleave in net_connect and net_close, and whatever
\* fails, a slot marked valid is the slot of a thread that will still close it
\* (the FIXME of network.c).
THEOREM SlotsAreHeld == Spec => []ValidIsHeld
<1>1. IInv => ValidIsHeld
  BY DEF IInv
<1>2. QED BY <1>1, IInvIsInvariant, PTL

\* A socket that no thread can close any more was lost because a slot had two
\* users, or is on the modem SetCommMode is switching off.
THEOREM LeaksHaveCauses == Spec => []LeakExplained
<1>1. ASSUME IInv, NEW s \in open
      PROVE  \/ Connecting(s.by) /\ mode[s.by] = s.mode /\ sock[s.by] = s.id
             \/ \E i \in Slots : slot[i] = s.id /\ ctx[s.by] = i
             \/ shared \/ pc["menu"] = "switching"
  <2>1. pc["menu"] # "switching" => s.mode = commode
    BY <1>1 DEF IInv, ModemInv
  <2>2. s.mode = commode /\ ~shared => Named(s)
    BY <1>1 DEF IInv, NamedInv
  <2>3. QED BY <2>1, <2>2 DEF Named, Connecting
<1>2. IInv => LeakExplained
  BY <1>1 DEF LeakExplained
<1>3. QED BY <1>2, IInvIsInvariant, PTL

\* net_close and a failed connect close another thread's socket only after a
\* slot had two users, or after the number the thread holds came to mean another
\* socket.
THEOREM ForeignClosesHaveCauses == Spec => ForeignCloseExplained
<1>1. ASSUME IInv, NEW t \in Threads, NEW s \in open \ open',
             CloseSocket(t) \/ ConnectSocket(t), s.by # t
      PROVE  shared \/ t \in stale
  <2>0. TypeOK /\ NumbersInv /\ OwnInv /\ s \in open /\ s \notin open'
    BY <1>1 DEF IInv
  <2>1. SUFFICES ASSUME ~shared, t \notin stale PROVE FALSE
    OBVIOUS
  <2>2. CASE CloseSocket(t)
    <3>1. HasSlot(t) /\ Closes(t) /\ Close(t, Reached(t))
      BY <2>0, <2>2, CloseSocketFacts
    <3>2. s.mode = commode /\ s.id = slot[ctx[t]]
      BY <2>0, <3>1, MineFacts DEF Close
    <3>3. ~Clearing(t)
      BY <3>1 DEF Closes, Clearing
    <3>4. [mode |-> commode, id |-> slot[ctx[t]], by |-> t] \in open
      BY <2>0, <2>1, <3>1, <3>3 DEF OwnInv
    <3>5. QED BY <1>1, <2>0, <3>2, <3>4 DEF NumbersInv
  <2>3. CASE ConnectSocket(t)
    <3>1. pc[t] = "connect" /\ Close(t, Mine(t))
      BY <2>0, <2>3, ConnectFacts
    <3>2. s.mode = mode[t] /\ s.id = sock[t]
      BY <2>0, <3>1, MineFacts DEF Close
    <3>3. [mode |-> mode[t], id |-> sock[t], by |-> t] \in open
      BY <2>0, <2>1, <3>1 DEF OwnInv
    <3>4. QED BY <1>1, <2>0, <3>2, <3>3 DEF NumbersInv
  <2>4. QED BY <1>1, <2>2, <2>3
<1>2. IInv /\ [Next]_vars =>
        [\A t \in Threads : \A s \in open \ open' :
           (CloseSocket(t) \/ ConnectSocket(t)) /\ s.by # t => shared \/ t \in stale]_vars
  BY <1>1
<1>3. QED BY <1>2, IInvIsInvariant, PTL DEF Spec, ForeignCloseExplained

=============================================================================

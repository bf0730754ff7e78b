---------------------------- MODULE DeviceNetwork ----------------------------
\* The soundbox's sockets (network.c) and the two threads that use them: AppMain
\* with the MQTT client (main.c, mqtt.c) and the menu, which upgrades over VTMS
\* (tms_tms.c) and changes between SIM and WiFi (SetCommMode).  They share the
\* slot of slots and the setting G_sys_param.commode, without a lock.
\*
\* The two modems are external.  Each numbers its sockets from 0, lowest free
\* number first, and forgets them when it is stale off.  A connection can
\* break, and a socket fail to be made or connected, MaxFaults times.
EXTENDS Integers, FiniteSets

CONSTANTS MaxSockets,   \* MAX_SOCKETS
          MaxFaults,    \* bound: failures of the network
          MaxSwitches,  \* bound: changes between SIM and WiFi
          MaxUpgrades   \* bound: connections upgrades make

ASSUME BoundsAssumption ==
    /\ {MaxFaults, MaxSwitches, MaxUpgrades} \subseteq Nat
    /\ MaxSockets \in Nat \ {0}

Threads == {"mqtt", "menu"}
Modes == {"SIM", "WIFI"}
Slots == 1..MaxSockets
Rest == {"main", "idle"}
NoSlot == 0                 \* NULL
Invalid == -1               \* valid = 0; no socket's number
Junk == MaxSockets + 1      \* (void *)-4

VARIABLES
    commode,    \* G_sys_param.commode
    configured, \* an access point is saved: G_sys_param.wifiSsid, wifiPwd
    modem,      \* each modem: off, open (no access point, no PPP), or joined
    open,       \* its sockets: [mode, id, by]
    slot,       \* the socket of a valid slot, or Invalid
    pc,         \* where a thread is
    mode,       \* the branch its net_connect took
    chosen,     \* its local i: the slot it found free
    sock,       \* its local sock
    ctx,        \* n.netContext and s: the slot it got
    faults, switches, upgrades,
    shared,     \* history: a slot was found free while another thread had it
    stale       \* history: threads whose slot's number may now mean another
                \* socket, by a change of commode or another's net_close

locals == <<mode, chosen, sock>>
bounds == <<faults, switches, upgrades>>
history == <<shared, stale>>
vars == <<commode, configured, modem, open, slot, pc, mode, chosen, sock, ctx,
          faults, switches, upgrades, shared, stale>>

TypeOK ==
    /\ commode \in Modes /\ configured \in BOOLEAN
    /\ modem \in [Modes -> {"off", "open", "joined"}]
    /\ open \subseteq [mode : Modes, id : Nat, by : Threads]
    /\ slot \in [Slots -> Nat \cup {Invalid}]
    /\ pc \in [Threads -> {"main", "idle", "switching", "begin", "dial", "find",
                           "create", "connect", "commit", "connected",
                           "closing", "clearing", "reclosing", "reclearing",
                           "closing again", "clearing again"}]
    /\ mode \in [Threads -> Modes] /\ chosen \in [Threads -> Slots]
    /\ sock \in [Threads -> Nat] /\ ctx \in [Threads -> Slots \cup {NoSlot, Junk}]
    /\ faults \in 0..MaxFaults /\ switches \in 0..MaxSwitches
    /\ upgrades \in 0..MaxUpgrades /\ shared \in BOOLEAN /\ stale \subseteq Threads

Other(m) == IF m = "SIM" THEN "WIFI" ELSE "SIM"
Start(t) == IF t = "mqtt" THEN "main" ELSE "idle"

\* InitSys: the saved mode's modem on, the other off, net_init
Booted(m) ==
    /\ modem' = [n \in Modes |-> IF n = m THEN "open" ELSE "off"]
    /\ open' = {} /\ slot' = [i \in Slots |-> Invalid]
    /\ pc' = [t \in Threads |-> Start(t)] /\ ctx' = [t \in Threads |-> NoSlot]
    /\ mode' = [t \in Threads |-> "SIM"] /\ chosen' = [t \in Threads |-> 1]
    /\ sock' = [t \in Threads |-> 0] /\ stale' = {} /\ shared' = FALSE

Init ==
    /\ commode \in Modes /\ configured \in BOOLEAN
    /\ modem = [n \in Modes |-> IF n = commode THEN "open" ELSE "off"]
    /\ open = {} /\ slot = [i \in Slots |-> Invalid]
    /\ pc = [t \in Threads |-> Start(t)] /\ ctx = [t \in Threads |-> NoSlot]
    /\ mode = [t \in Threads |-> "SIM"] /\ chosen = [t \in Threads |-> 1]
    /\ sock = [t \in Threads |-> 0] /\ stale = {} /\ shared = FALSE
    /\ faults = 0 /\ switches = 0 /\ upgrades = 0

Goto(t, where) == pc' = [pc EXCEPT ![t] = where]
MayFail == faults < MaxFaults /\ faults' = faults + 1 /\ UNCHANGED <<switches, upgrades>>
FailsIf(cause) == (cause /\ UNCHANGED bounds) \/ MayFail

-----------------------------------------------------------------------------
\* The callers

\* AppMain, WiFi: join the saved access point ("Configure Wifi first!" without
\* one), open the chip
JoinAccessPoint ==
    /\ pc["mqtt"] = "main" /\ commode = "WIFI" /\ configured /\ modem["WIFI"] = "open"
    /\ modem' = [modem EXCEPT !["WIFI"] = "joined"]
    /\ UNCHANGED <<commode, configured, open, slot, pc, locals, ctx, bounds, history>>

OpenWifi ==
    /\ pc["mqtt"] = "main" /\ commode = "WIFI" /\ modem["WIFI"] = "off"
    /\ modem' = [modem EXCEPT !["WIFI"] = "open"]
    /\ Goto("mqtt", "begin")     \* the access point is not looked at again
    /\ UNCHANGED <<commode, configured, open, slot, locals, ctx, bounds, history>>

\* AppMain: the link is there; mQTTMainThread begins
StartMqtt ==
    /\ pc["mqtt"] = "main"
    /\ IF commode = "WIFI" THEN modem["WIFI"] = "joined" ELSE modem["SIM"] # "off"
    /\ Goto("mqtt", "begin")
    /\ UNCHANGED <<commode, configured, modem, open, slot, locals, ctx, bounds, history>>

\* TmsRemoteUpgrade
StartUpgrade ==
    /\ pc["menu"] = "idle" /\ upgrades < MaxUpgrades
    /\ upgrades' = upgrades + 1 /\ Goto("menu", "begin")
    /\ UNCHANGED <<commode, configured, modem, open, slot, locals, ctx, faults, switches, history>>

\* SetCommMode, first the setting, then the modems
SwitchMode ==
    /\ pc["menu"] = "idle" /\ switches < MaxSwitches
    /\ switches' = switches + 1 /\ commode' = Other(commode)
    /\ stale' = stale \cup {t \in Threads : pc[t] \notin Rest}
    /\ Goto("menu", "switching")
    /\ UNCHANGED <<configured, modem, open, slot, locals, ctx, faults, upgrades, shared>>

\* The WiFi chip may not open and stays as it is; the user may choose no access
\* point or not get into it; only one that is joined is saved.
SwitchModems ==
    /\ pc["menu"] = "switching"
    /\ \E on \in {"open", "joined", modem[commode]} :
          /\ on # "open" => commode = "WIFI"
          /\ modem' = [n \in Modes |-> IF n = commode THEN on ELSE "off"]
          /\ configured' = (configured \/ on = "joined")
    /\ open' = {s \in open : s.mode = commode}
    /\ Goto("menu", "idle")
    /\ UNCHANGED <<commode, slot, locals, ctx, bounds, history>>

\* SetCommMode with WiFi already chosen: an access point at last
ConfigureAccessPoint ==
    /\ pc["menu"] = "idle" /\ commode = "WIFI" /\ modem["WIFI"] = "open"
    /\ modem' = [modem EXCEPT !["WIFI"] = "joined"] /\ configured' = TRUE
    /\ UNCHANGED <<commode, open, slot, pc, locals, ctx, bounds, history>>

-----------------------------------------------------------------------------
\* net_connect

\* It reads commode once and keeps to the branch
Begin(t) ==
    /\ pc[t] = "begin"
    /\ mode' = [mode EXCEPT ![t] = commode]
    /\ stale' = stale \ {t}
    /\ Goto(t, IF commode = "WIFI" THEN "find" ELSE "dial")
    /\ UNCHANGED <<commode, configured, modem, open, slot, chosen, sock, ctx, bounds, shared>>

\* What net_connect returns; the caller gives up on NULL.  The locals are gone.
Return(t, i) ==
    /\ ctx' = [ctx EXCEPT ![t] = i]
    /\ Goto(t, IF i = NoSlot THEN Start(t) ELSE "connected")
    /\ mode' = [mode EXCEPT ![t] = "SIM"] /\ chosen' = [chosen EXCEPT ![t] = 1]
    /\ sock' = [sock EXCEPT ![t] = 0]

\* wirelessCheckPppDial_Api, wirelessPppOpen_Api until timerOutMs have passed
Dial(t) ==
    /\ pc[t] = "dial"
    /\ \/ /\ modem["SIM"] # "off" /\ modem' = [modem EXCEPT !["SIM"] = "joined"]
          /\ Goto(t, "find") /\ UNCHANGED <<locals, ctx, bounds>>
       \/ FailsIf(modem["SIM"] = "off") /\ Return(t, NoSlot) /\ modem' = modem
    /\ UNCHANGED <<commode, configured, open, slot, history>>

\* The first free slot.  It is marked only after the connection is there.
Free == {i \in Slots : slot[i] = Invalid}
First(i) == i \in Free /\ \A j \in Free : i <= j
Connecting(t) == pc[t] \in {"create", "connect", "commit"}
Has(t, i) ==
    \/ Connecting(t) /\ chosen[t] = i
    \/ pc[t] \notin Rest \cup {"begin", "dial", "find", "switching"} /\ ctx[t] = i

FindSlot(t) ==
    /\ pc[t] = "find"
    /\ \/ \E i \in Slots :
             /\ First(i) /\ chosen' = [chosen EXCEPT ![t] = i] /\ Goto(t, "create")
             /\ shared' = (shared \/ \E u \in Threads \ {t} : Has(u, i))
          /\ UNCHANGED <<mode, sock, ctx>>
       \/ Free = {} /\ Return(t, NoSlot) /\ shared' = shared
    /\ UNCHANGED <<commode, configured, modem, open, slot, bounds, stale>>

\* The modem's next number: the lowest that none of its sockets has
NextId(m, n) ==
    /\ \A s \in open : s.mode = m => s.id # n
    /\ \A k \in 0..n : k = n \/ \E s \in open : s.mode = m /\ s.id = k

\* No socket: over WiFi with TLS the error -4 is returned as the slot
CreateSocket(t) ==
    /\ pc[t] = "create"
    /\ \/ /\ modem[mode[t]] # "off"
          /\ \E n \in 0..Cardinality(open) :
                /\ NextId(mode[t], n) /\ sock' = [sock EXCEPT ![t] = n]
                /\ open' = open \cup {[mode |-> mode[t], id |-> n, by |-> t]}
          /\ Goto(t, "connect") /\ UNCHANGED <<mode, chosen, ctx, bounds>>
       \/ /\ FailsIf(modem[mode[t]] = "off")
          /\ Return(t, IF mode[t] = "WIFI" THEN Junk ELSE NoSlot)
          /\ open' = open
    /\ UNCHANGED <<commode, configured, modem, slot, history>>

\* Whatever socket has that number is closed
Close(t, some) ==
    /\ open' = open \ some
    /\ stale' = stale \cup ({s.by : s \in some} \ {t})

Mine(t) == {s \in open : s.mode = mode[t] /\ s.id = sock[t]}

\* Mutant: a socket that does not connect is forgotten
ConnectSocketForgets(t) ==
    /\ pc[t] = "connect"
    /\ \/ /\ Mine(t) # {} /\ modem[mode[t]] = "joined"
          /\ Goto(t, "commit") /\ UNCHANGED <<locals, ctx, bounds>>
       \/ FailsIf(Mine(t) = {} \/ modem[mode[t]] # "joined") /\ Return(t, NoSlot)
    /\ UNCHANGED <<commode, configured, modem, open, slot, history>>

\* Ten to sixty seconds; a socket that does not connect is closed again
ConnectSocket(t) ==
    /\ pc[t] = "connect"
    /\ \/ /\ Mine(t) # {} /\ modem[mode[t]] = "joined"
          /\ Goto(t, "commit") /\ UNCHANGED <<open, locals, ctx, bounds, stale>>
       \/ /\ FailsIf(Mine(t) = {} \/ modem[mode[t]] # "joined")
          /\ Close(t, Mine(t)) /\ Return(t, NoSlot)
    /\ UNCHANGED <<commode, configured, modem, slot, shared>>

CommitSlot(t) ==
    /\ pc[t] = "commit"
    /\ slot' = [slot EXCEPT ![chosen[t]] = sock[t]]
    /\ Return(t, chosen[t])
    /\ UNCHANGED <<commode, configured, modem, open, bounds, history>>

-----------------------------------------------------------------------------
\* net_read, net_write: they take the socket of the slot and the modem of commode

HasSlot(t) == ctx[t] \in Slots /\ slot[ctx[t]] # Invalid
Reached(t) == {s \in open : s.mode = commode /\ ctx[t] \in Slots /\ s.id = slot[ctx[t]]}
Works(t) == HasSlot(t) /\ \E s \in Reached(t) : s.by = t

\* Mutant: mQTTMainThread returns without mqttDisconnect
MqttFailsConnected ==
    /\ pc["mqtt"] = "connected" /\ FailsIf(~Works("mqtt")) /\ Goto("mqtt", "main")
    /\ UNCHANGED <<commode, configured, modem, open, slot, locals, ctx, history>>

\* mQTTMainThread ends when MQTTConnect, MQTTSubscribe, MQTTYield or MQTTPublish
\* fails: on its own socket by a fault, otherwise for certain
MqttFails ==
    /\ pc["mqtt"] = "connected"
    /\ FailsIf(~Works("mqtt"))
    /\ Goto("mqtt", "closing")
    /\ UNCHANGED <<commode, configured, modem, open, slot, locals, ctx, history>>

\* Tms_RecvPacket and Tms_DownloadUrlFilesOneByOne disconnect after an error, and
\* Tms_DisconnBufFree does again
UpgradeFails ==
    /\ pc["menu"] = "connected"
    /\ FailsIf(~Works("menu"))
    /\ Goto("menu", "closing")
    /\ UNCHANGED <<commode, configured, modem, open, slot, locals, ctx, history>>

\* "Connection: close" before the end of the download
UpgradeReconnects ==
    /\ pc["menu"] = "connected" /\ Works("menu")
    /\ upgrades < MaxUpgrades /\ upgrades' = upgrades + 1
    /\ Goto("menu", "reclosing")
    /\ UNCHANGED <<commode, configured, modem, open, slot, locals, ctx, faults, switches, history>>

\* Mutant: Tms_DisconnBufFree frees only the buffers
UpgradeEndsConnected ==
    /\ pc["menu"] = "connected" /\ Works("menu") /\ Goto("menu", "idle")
    /\ UNCHANGED <<commode, configured, modem, open, slot, locals, ctx, bounds, history>>

UpgradeEnds ==
    /\ pc["menu"] = "connected" /\ Works("menu")
    /\ Goto("menu", "closing again")
    /\ UNCHANGED <<commode, configured, modem, open, slot, locals, ctx, bounds, history>>

\* The fields read through a junk pointer: no slot, or a fault that restarts it
JunkFault ==
    /\ \E t \in Threads : pc[t] = "connected" /\ ctx[t] = Junk
    /\ faults < MaxFaults /\ faults' = faults + 1
    /\ Booted(commode)
    /\ UNCHANGED <<commode, configured, switches, upgrades>>

-----------------------------------------------------------------------------
\* net_close

Closes(t) == pc[t] \in {"closing", "reclosing", "closing again"}
Cleared(where) == CASE where = "closing" -> "clearing"
                    [] where = "reclosing" -> "reclearing"
                    [] where = "closing again" -> "clearing again"
Closed(where, t) == CASE where = "clearing" -> IF t = "mqtt" THEN "main" ELSE "closing again"
                      [] where = "reclearing" -> "begin"
                      [] where = "clearing again" -> "idle"

\* After the first disconnect of two the pointer is still there
Leave(t, where) ==
    /\ Goto(t, where)
    /\ ctx' = (IF where = "closing again" THEN ctx ELSE [ctx EXCEPT ![t] = NoSlot])

\* The modem of commode closes the slot's number; NULL and a slot that is not
\* valid are left alone
CloseSocket(t) ==
    /\ Closes(t)
    /\ \/ /\ HasSlot(t)
          /\ Close(t, Reached(t)) /\ Goto(t, Cleared(pc[t])) /\ ctx' = ctx
       \/ /\ ~HasSlot(t)
          /\ UNCHANGED <<open, stale>> /\ Leave(t, Closed(Cleared(pc[t]), t))
    /\ UNCHANGED <<commode, configured, modem, slot, locals, bounds, shared>>

\* Mutant: net_close leaves the slot valid
ClearSlotForgets(t) ==
    /\ pc[t] \in {"clearing", "reclearing", "clearing again"}
    /\ Leave(t, Closed(pc[t], t))
    /\ UNCHANGED <<commode, configured, modem, open, slot, locals, bounds, history>>

ClearSlot(t) ==
    /\ pc[t] \in {"clearing", "reclearing", "clearing again"}
    /\ slot' = [slot EXCEPT ![ctx[t]] = Invalid]
    /\ Leave(t, Closed(pc[t], t))
    /\ UNCHANGED <<commode, configured, modem, open, locals, bounds, history>>

-----------------------------------------------------------------------------
NetConnect(t) ==
    \/ Begin(t) \/ Dial(t) \/ FindSlot(t) \/ CreateSocket(t) \/ ConnectSocket(t)
    \/ CommitSlot(t)
NetClose(t) == CloseSocket(t) \/ ClearSlot(t)

MqttThread ==
    JoinAccessPoint \/ OpenWifi \/ StartMqtt \/ MqttFails \/ NetConnect("mqtt") \/ NetClose("mqtt")
MenuThread ==
    SwitchModems \/ UpgradeFails \/ UpgradeReconnects \/ UpgradeEnds \/ NetConnect("menu") \/ NetClose("menu")

Next ==
    \/ MqttThread \/ MenuThread
    \/ StartUpgrade \/ SwitchMode \/ ConfigureAccessPoint \/ JunkFault

\* Both threads run; a socket that does not work is noticed, and an upgrade that
\* gets its answers comes to its end.
Spec ==
    /\ Init /\ [][Next]_vars
    /\ WF_vars(MqttThread) /\ WF_vars(MenuThread)

-----------------------------------------------------------------------------
\* Properties

\* "FIXME: What if the caller doesn't close the socket??" (network.c): the two
\* callers do, on every path, so a slot in use is always some thread's, and a
\* slot of two slots would do.
ValidIsHeld ==
    \A i \in Slots : slot[i] # Invalid => \E t \in Threads : ctx[t] = i /\ pc[t] \notin Rest

\* A socket nobody can close any more has a cause: a slot had two users, both
\* having found it free while they were connecting (net_connect marks it only
\* then) or one being about to disconnect a second time after an error; or the
\* modem is just being switched off under it.
LeakExplained ==
    \A s \in open :
        \/ Connecting(s.by) /\ mode[s.by] = s.mode /\ sock[s.by] = s.id
        \/ \E i \in Slots : slot[i] = s.id /\ ctx[s.by] = i
        \/ shared \/ pc["menu"] = "switching"

\* A thread closes another's socket only after a slot had two users; when commode
\* was changed under its own (net_close takes the modem of commode, where the
\* same number means another socket); or when its own socket fell to one of
\* these and its number was given out again.
ForeignCloseExplained ==
    [][\A t \in Threads : \A s \in open \ open' :
          (CloseSocket(t) \/ ConnectSocket(t)) /\ s.by # t => shared \/ t \in stale]_vars

(* The inductive invariant behind them. *)

\* Only a thread with a connection, or about to close one, has a slot.
Clearing(t) == pc[t] \in {"clearing", "reclearing", "clearing again"}
NoContext == Rest \cup {"switching", "begin", "dial", "find", "create", "connect", "commit"}
ContextInv ==
    \A t \in Threads : /\ pc[t] \in NoContext => ctx[t] = NoSlot
                       /\ Clearing(t) => ctx[t] \in Slots

\* Outside of SetCommMode one modem is on, and all sockets are its.
ModemInv ==
    pc["menu"] # "switching" => /\ modem[Other(commode)] = "off"
                                /\ \A s \in open : s.mode = commode

\* The numbers of a modem's sockets differ.
NumbersInv == \A s, r \in open : s.mode = r.mode /\ s.id = r.id => s = r

OneUserInv ==
    ~shared => \A t, u \in Threads, i \in Slots : t # u => ~(Has(t, i) /\ Has(u, i))

\* A socket of the modem in use is named by its thread's locals or its slot.
Named(s) ==
    \/ pc[s.by] \in {"connect", "commit"} /\ mode[s.by] = s.mode /\ sock[s.by] = s.id
    \/ \E i \in Slots : slot[i] = s.id /\ ctx[s.by] = i
NamedInv ==
    ~shared => \A s \in open : s.mode = commode => Named(s) /\ ~Clearing(s.by)

\* The other way round, what a thread that is not stale names is its own.
OwnInv ==
    \A t \in Threads \ stale :
        /\ pc[t] \in {"dial", "find", "create", "connect", "commit"} => mode[t] = commode
        /\ pc[t] \in {"connect", "commit"} =>
             [mode |-> mode[t], id |-> sock[t], by |-> t] \in open
        /\ HasSlot(t) /\ ~Clearing(t) /\ ~shared =>
             [mode |-> commode, id |-> slot[ctx[t]], by |-> t] \in open

IInv ==
    /\ TypeOK /\ ContextInv /\ ModemInv /\ NumbersInv /\ OneUserInv /\ NamedInv
    /\ OwnInv /\ ValidIsHeld

(* Liveness. *)

\* Whatever happens to the sockets, once nothing more goes wrong the soundbox is
\* connected to the broker and stays connected (AppMain's endless loop).  The one
\* way out: WiFi is chosen, which SetCommMode saves before an access point, and no
\* access point ever is; then AppMain says "Configure Wifi first!" for good.
ComesBackOnline ==
    \/ <>[](pc["mqtt"] = "connected" /\ Works("mqtt"))
    \/ <>[](pc["mqtt"] = "main" /\ commode = "WIFI" /\ ~configured)
=============================================================================

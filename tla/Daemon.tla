------------------------------- MODULE Daemon -------------------------------
(***************************************************************************)
(* The life of the tcmu-runner daemon: start-up and shutdown (main.c), the *)
(* devices the kernel announces over netlink (libtcmu.c), and the handlers *)
(* that other processes register over D-Bus (main.c for the daemon,        *)
(* libtcmu-register.c for the consumer).                                   *)
(*                                                                         *)
(* Everything but the commands of a device runs in the main loop, one      *)
(* event at a time; adding and removing a device is taken apart into its   *)
(* steps, since the daemon may end between any two of them.                *)
(***************************************************************************)
EXTENDS Naturals, Sequences, FiniteSets, SequencesExt

CONSTANTS
    Devices,    \* uio devices the kernel may have
    Handled,    \* those whose configuration string names a handler
    Builtin,    \* subtypes of the handlers in the handler directory
    Consumers,  \* subtypes of the consumer processes
    Calls,      \* RegisterHandler calls; a call becomes a handler
    MaxKernel,  \* bound on what the kernel does
    MaxNames,   \* bound on the changes of consumers' names
    MaxEnds     \* bound on the times the daemon ends

NoHandler == "none"

ASSUME DaemonAssumption ==
    /\ Handled \subseteq Devices /\ {MaxKernel, MaxNames, MaxEnds} \subseteq Nat
    /\ Builtin \cap Calls = {} /\ NoHandler \notin Builtin \cup Calls
    /\ IsFiniteSet(Devices) /\ IsFiniteSet(Calls)

VARIABLES
    phase,      \* "down", "netlink", "scan", "run", "close"
    todo,       \* devices still to open at start-up, or to close
    act,        \* what the main loop is doing to a device
    served,     \* ctx->devices
    kern,       \* the kernel's devices: present, fds (open files), blocked
                \*   ("no", "yes", or "stuck": blocked, and unblocking it failed)
    pend,       \* the netlink command each device's owner waits for ("lost" if
                \*   the reply could not be sent)
    nlq,        \* the netlink socket
    con,        \* consumers: own (bus name), svc (sees the service), wait
    call,       \* the calls: sub, st, inv (register_invocation), freed, reply
    reg,        \* g_runner_handlers
    exported,   \* the handler behind the D-Bus object of each subtype
    busq,       \* D-Bus events for the main loop
    spent       \* counters for the bounds

devVars == <<todo, act, served, kern, pend, nlq>>
busVars == <<con, call, reg, exported, busq>>
vars == <<phase, devVars, busVars, spent>>

NoAct == [pc |-> "idle", op |-> "none", d |-> "none", ok |-> TRUE]
Unused == [sub |-> "none", st |-> "unused", inv |-> FALSE, freed |-> FALSE, reply |-> "none"]
Subtypes == Builtin \cup Consumers
Subtype(h) == IF h \in Builtin THEN h ELSE call[h].sub
Idle == act = NoAct
Spend(what, max) == spent[what] < max /\ spent' = [spent EXCEPT ![what] = @ + 1]

Init ==
    /\ phase = "down" /\ todo = << >> /\ act = NoAct /\ served = << >>
    /\ kern \in [Devices -> {[present |-> b, blocked |-> "no", fds |-> 0] : b \in BOOLEAN}]
    /\ pend = [d \in Devices |-> "none"] /\ nlq = << >>
    /\ con = [s \in Consumers |-> [own |-> FALSE, svc |-> FALSE, wait |-> NoHandler]]
    /\ call = [c \in Calls |-> Unused] /\ reg = {} /\ exported = [s \in Subtypes |-> NoHandler]
    /\ busq = << >> /\ spent = [kernel |-> 0, names |-> 0, ends |-> 0]

-----------------------------------------------------------------------------
\* The kernel.  A request is announced if somebody listens, and then waits
\* for the reply; a device that is refused or removed goes away.

KernelAsks(d, cmd) ==
    /\ pend[d] = "none" /\ Spend("kernel", MaxKernel)
    /\ CASE cmd = "add" -> ~kern[d].present /\ kern' = [kern EXCEPT ![d].present = TRUE]
         [] cmd = "remove" /\ phase = "down" ->
              kern[d].present /\ kern' = [kern EXCEPT ![d].present = FALSE, ![d].blocked = "no"]
         [] OTHER -> kern[d].present /\ UNCHANGED kern
    /\ IF phase = "down" THEN UNCHANGED <<pend, nlq>>
       ELSE pend' = [pend EXCEPT ![d] = cmd] /\ nlq' = Append(nlq, [cmd |-> cmd, d |-> d])
    /\ UNCHANGED <<phase, todo, act, served, busVars>>

\* send_netlink_reply, and what the kernel makes of it.  That the reply could
\* not be sent is logged, and the kernel waits on.
Replied(d, ok) ==
    \/ /\ pend' = [pend EXCEPT ![d] = "none"]
       /\ kern' = IF pend[d] = "remove" \/ (pend[d] = "add" /\ ~ok)
                  THEN [kern EXCEPT ![d].present = FALSE, ![d].blocked = "no"] ELSE kern
    \/ pend' = [pend EXCEPT ![d] = "lost"] /\ UNCHANGED kern

-----------------------------------------------------------------------------
\* Start-up and shutdown.

\* open_handlers: the handlers of the directory register themselves.
OpenHandlers == reg' = Builtin

\* tcmulib_initialize up to open_devices: from here on the kernel's
\* announcements wait on the netlink socket.
Initialize == phase' = "netlink"

\* main up to the start of tcmulib_initialize.
Start ==
    /\ phase = "down" /\ OpenHandlers /\ Initialize
    /\ UNCHANGED <<devVars, con, call, exported, busq, spent>>

\* open_devices looks for the devices the kernel has by now.
ScanDir ==
    /\ phase = "netlink" /\ phase' = "scan"
    /\ todo' = SetToSeq({d \in Devices : kern[d].present})
    /\ UNCHANGED <<act, served, kern, pend, nlq, busVars, spent>>

ScanNext ==
    /\ phase = "scan" /\ Idle /\ todo # << >>
    /\ act' = [pc |-> "find", op |-> "scan", d |-> Head(todo), ok |-> TRUE] /\ todo' = Tail(todo)
    /\ UNCHANGED <<phase, served, kern, pend, nlq, busVars, spent>>

\* The main loop starts, and dbus_bus_acquired exports the handlers.
Run ==
    /\ phase = "scan" /\ Idle /\ todo = << >> /\ phase' = "run"
    /\ exported' = [s \in Subtypes |-> IF s \in reg THEN s ELSE NoHandler]
    /\ UNCHANGED <<devVars, con, call, reg, busq, spent>>

\* A signal ends the main loop.
Quit ==
    /\ phase = "run" /\ Idle /\ phase' = "close" /\ Spend("ends", MaxEnds)
    /\ todo' = Reverse(served) /\ exported' = [s \in Subtypes |-> NoHandler]
    /\ UNCHANGED <<act, served, kern, pend, nlq, con, call, reg, busq>>

\* close_devices
CloseNext ==
    /\ phase = "close" /\ Idle /\ todo # << >>
    /\ act' = [pc |-> "block", op |-> "close", d |-> Head(todo), ok |-> TRUE] /\ todo' = Tail(todo)
    /\ UNCHANGED <<phase, served, kern, pend, nlq, busVars, spent>>

\* The process is gone: its files are closed, its callers get errors, and the
\* kernel waits no more.
Gone ==
    /\ phase' = "down" /\ todo' = << >> /\ act' = NoAct /\ served' = << >> /\ nlq' = << >>
    /\ kern' = [d \in Devices |-> [kern[d] EXCEPT !.fds = 0]] /\ pend' = [d \in Devices |-> "none"]
    /\ reg' = {} /\ exported' = [s \in Subtypes |-> NoHandler] /\ busq' = << >>
    /\ con' = [s \in Consumers |-> [con[s] EXCEPT !.svc = FALSE, !.wait = NoHandler]]
    /\ call' = [c \in Calls |-> Unused]

Exit == phase = "close" /\ Idle /\ todo = << >> /\ Gone /\ UNCHANGED spent
Crash == phase # "down" /\ Spend("ends", MaxEnds) /\ Gone

-----------------------------------------------------------------------------
\* Devices: handle_netlink, add_device, remove_device and reconfig_device.

\* handle_netlink takes a message.  The device of a removal is looked up at
\* once; what a reconfiguration does to the device is not followed.
Netlink ==
    LET m == Head(nlq) IN
    /\ phase = "run" /\ Idle /\ nlq # << >> /\ nlq' = Tail(nlq)
    /\ act' = [pc |-> CASE m.cmd = "add" -> "find" [] m.cmd = "remove" -> "take" [] OTHER -> "reconfig",
               op |-> "netlink", d |-> m.d, ok |-> TRUE]
    /\ UNCHANGED <<phase, todo, served, kern, pend, busVars, spent>>

ActAt(pc) == act.pc = pc
Then(pc) == act' = [act EXCEPT !.pc = pc]
Fails(pc) == act' = [act EXCEPT !.pc = pc, !.ok = FALSE]
Same == UNCHANGED <<phase, todo, nlq, busVars, spent>>

\* find_handler and check_config.
Find ==
    /\ ActAt("find") /\ UNCHANGED <<served, kern, pend>> /\ Same
    /\ \/ act.d \in Handled /\ Then(IF act.op = "scan" THEN "block" ELSE "open")
       \/ Fails("done")

\* tcmu_block_device, before the device is set up or taken down.  That it
\* failed is logged.
Block ==
    /\ ActAt("block")
    /\ \/ kern' = [kern EXCEPT ![act.d].blocked = IF kern[act.d].present THEN "yes" ELSE "no"]
       \/ UNCHANGED kern
    /\ Then(IF act.op = "scan" THEN "open" ELSE "take")
    /\ UNCHANGED <<served, pend>> /\ Same

\* open of /dev/uioN, which only one file may have open.
OpenUio ==
    /\ ActAt("open") /\ UNCHANGED <<served, pend>> /\ Same
    /\ \/ kern[act.d].present /\ kern[act.d].fds = 0 /\ kern' = [kern EXCEPT ![act.d].fds = 1] /\ Then("added")
       \/ Fails("unblock") /\ UNCHANGED kern

\* Mutant: a device that could not be set up stays open.
AddedLeaks ==
    /\ ActAt("added") /\ UNCHANGED <<kern, pend>> /\ Same
    /\ \/ served' = Append(served, act.d) /\ Then("unblock")
       \/ UNCHANGED served /\ Fails("unblock")

\* The ring is mapped and the handler's added operation called.
Added ==
    /\ ActAt("added") /\ UNCHANGED <<kern, pend>> /\ Same
    /\ \/ served' = Append(served, act.d) /\ Then("unblock")
       \/ UNCHANGED served /\ Fails("close")

\* remove_device takes the first device of that name (after tcmu_flush_device,
\* if the daemon ends).
Take ==
    /\ ActAt("take") /\ UNCHANGED <<kern, pend>> /\ Same
    /\ IF Contains(served, act.d)
       THEN /\ served' = RemoveAt(served, CHOOSE i \in DOMAIN served :
                           served[i] = act.d /\ \A j \in 1 .. i - 1 : served[j] # act.d)
            /\ Then("close")
       ELSE UNCHANGED served /\ Then("done")

CloseUio ==
    /\ ActAt("close") /\ kern' = [kern EXCEPT ![act.d].fds = 0] /\ Then("unblock")
    /\ UNCHANGED <<served, pend>> /\ Same

\* tcmu_unblock_device, for what was blocked.  That it failed is logged, and
\* add_device and remove_device go on as if it had not.
Unblock ==
    /\ ActAt("unblock") /\ Then("done") /\ UNCHANGED <<served, pend>> /\ Same
    /\ \/ act.op = "netlink" /\ UNCHANGED kern
       \/ act.op # "netlink" /\ kern' = [kern EXCEPT ![act.d].blocked = "no"]
       \/ act.op # "netlink" /\ kern[act.d].blocked # "no" /\ kern' = [kern EXCEPT ![act.d].blocked = "stuck"]

\* reconfig_device
Reconfig ==
    /\ ActAt("reconfig") /\ UNCHANGED <<served, kern, pend>> /\ Same
    /\ \/ Contains(served, act.d) /\ Then("done")
       \/ Fails("done")

Done ==
    /\ ActAt("done") /\ act' = NoAct /\ UNCHANGED served /\ Same
    /\ IF act.op = "netlink" THEN Replied(act.d, act.ok) ELSE UNCHANGED <<kern, pend>>

DeviceStep ==
    \/ Find \/ Block \/ OpenUio \/ Added \/ Take \/ CloseUio \/ Unblock \/ Reconfig \/ Done

-----------------------------------------------------------------------------
\* D-Bus, the consumer's side.

\* A RegisterHandler call for subtype s is on its way.
Fresh == {c \in Calls : call[c].st = "unused"}
NextCall == CHOOSE c \in Fresh : TRUE
Send(s, c) ==
    /\ Fresh # {}
    /\ call' = [call EXCEPT ![c] = [Unused EXCEPT !.sub = s, !.st = "sent", !.inv = TRUE]]

Watchers(s) == {c \in Calls : call[c].st = "watching" /\ call[c].sub = s}
Tell(s, what) == [i \in 1 .. Cardinality(Watchers(s)) |-> [ev |-> what, c |-> SetToSeq(Watchers(s))[i]]]

\* tcmulib_reg_name_acquired: register at once if the service is there.
NameAcquired(s) ==
    /\ ~con[s].own /\ con[s].wait = NoHandler /\ Spend("names", MaxNames)
    /\ LET c == NextCall IN
         IF con[s].svc
         THEN /\ Send(s, c) /\ con' = [con EXCEPT ![s].own = TRUE, ![s].wait = c]
              /\ busq' = busq \o Tell(s, "up") \o <<[ev |-> "call", c |-> c]>>
         ELSE /\ con' = [con EXCEPT ![s].own = TRUE] /\ busq' = busq \o Tell(s, "up") /\ UNCHANGED call
    /\ UNCHANGED <<phase, devVars, reg, exported>>

\* tcmulib_reg_name_lost, or the consumer ended: the name is free.
NameLost(s) ==
    /\ con[s].own /\ Spend("names", MaxNames)
    /\ con' = [con EXCEPT ![s].own = FALSE, ![s].wait = NoHandler]
    /\ busq' = busq \o Tell(s, "down")
    /\ UNCHANGED <<phase, devVars, call, reg, exported>>

\* Mutant: handlers that got their name earlier are not registered.
ServiceAppearedLate(s) ==
    /\ phase = "run" /\ ~con[s].svc /\ con[s].wait = NoHandler
    /\ con' = [con EXCEPT ![s].svc = TRUE]
    /\ UNCHANGED <<phase, devVars, call, busq, reg, exported, spent>>

\* tcmulib_reg_name_appeared
ServiceAppeared(s) ==
    /\ phase = "run" /\ ~con[s].svc /\ con[s].wait = NoHandler
    /\ LET c == NextCall IN
         IF con[s].own
         THEN /\ Send(s, c) /\ con' = [con EXCEPT ![s].svc = TRUE, ![s].wait = c]
              /\ busq' = Append(busq, [ev |-> "call", c |-> c])
         ELSE con' = [con EXCEPT ![s].svc = TRUE] /\ UNCHANGED <<call, busq>>
    /\ UNCHANGED <<phase, devVars, reg, exported, spent>>

\* A RegisterHandler call from a process without the bus name.  (The last call
\* is kept for a consumer.)
StrayCall(s) ==
    /\ phase = "run" /\ Spend("names", MaxNames) /\ Cardinality(Fresh) > 1
    /\ LET c == NextCall IN Send(s, c) /\ busq' = Append(busq, [ev |-> "call", c |-> c])
    /\ UNCHANGED <<phase, devVars, con, reg, exported>>

-----------------------------------------------------------------------------
\* D-Bus, the daemon's side.

Event(ev) == phase = "run" /\ Idle /\ busq # << >> /\ Head(busq).ev = ev
Answered(c) == [s \in Consumers |-> IF con[s].wait = c THEN [con[s] EXCEPT !.wait = NoHandler] ELSE con[s]]

\* on_register_handler: watch for the handler's name, whose state is told next.
OnRegister ==
    LET c == Head(busq).c IN
    /\ Event("call")
    /\ \/ /\ call' = [call EXCEPT ![c].st = "watching"] /\ UNCHANGED con
          /\ busq' = Append(Tail(busq), [c |-> c, ev |->
                       IF call[c].sub \in Consumers /\ con[call[c].sub].own THEN "up" ELSE "down"])
       \/ /\ call' = [call EXCEPT ![c].st = "gone", ![c].inv = FALSE, ![c].freed = TRUE, ![c].reply = "FALSE"]
          /\ call[c].sub \notin Consumers
          /\ con' = Answered(c) /\ busq' = Tail(busq)
    /\ UNCHANGED <<phase, devVars, reg, exported, spent>>

\* tcmur_register_handler refuses a subtype that is taken.
Register(c) == IF \E h \in reg : Subtype(h) = call[c].sub THEN reg ELSE reg \cup {c}

\* tcmur_unregister_dbus_handler: a handler is freed if it was registered.
Unregister(c) == reg' = reg \ {c}
Freed(c) == c \in reg

\* on_handler_appeared.  That the subtype is taken is not looked at.
OnAppeared ==
    LET c == Head(busq).c IN
    /\ Event("up") /\ busq' = Tail(busq)
    /\ IF call[c].st = "watching" /\ call[c].inv
       THEN /\ reg' = Register(c)
            /\ exported' = [exported EXCEPT ![call[c].sub] = c]
            /\ call' = [call EXCEPT ![c].inv = FALSE, ![c].reply = "TRUE"] /\ con' = Answered(c)
       ELSE UNCHANGED <<reg, exported, call, con>>
    /\ UNCHANGED <<phase, devVars, spent>>

\* Mutant: the object stays on the bus.
OnVanishedExported ==
    LET c == Head(busq).c IN
    /\ Event("down") /\ busq' = Tail(busq)
    /\ call' = [call EXCEPT ![c].st = "gone", ![c].inv = FALSE, ![c].freed = Freed(c),
                            ![c].reply = IF call[c].inv THEN "FALSE" ELSE @]
    /\ con' = Answered(c) /\ Unregister(c)
    /\ UNCHANGED <<phase, devVars, exported, spent>>

\* Mutant: a call whose handler never showed up is forgotten.
OnVanishedSilent ==
    LET c == Head(busq).c IN
    /\ Event("down") /\ busq' = Tail(busq)
    /\ call' = [call EXCEPT ![c].st = "gone", ![c].inv = FALSE, ![c].freed = Freed(c)]
    /\ con' = Answered(c) /\ Unregister(c)
    /\ exported' = [exported EXCEPT ![call[c].sub] = NoHandler]
    /\ UNCHANGED <<phase, devVars, spent>>

\* on_handler_vanished: the object of the subtype goes, whoever's it is, and a
\* handler that was registered is freed.
OnVanished ==
    LET c == Head(busq).c IN
    /\ Event("down") /\ busq' = Tail(busq)
    /\ IF call[c].st = "watching"
       THEN /\ call' = [call EXCEPT ![c].st = "gone", ![c].inv = FALSE, ![c].freed = Freed(c),
                                    ![c].reply = IF call[c].inv THEN "FALSE" ELSE @]
            /\ con' = Answered(c) /\ Unregister(c)
            /\ exported' = [exported EXCEPT ![call[c].sub] = NoHandler]
       ELSE UNCHANGED <<call, con, reg, exported>>
    /\ UNCHANGED <<phase, devVars, spent>>

BusStep == OnRegister \/ OnAppeared \/ OnVanished

Next ==
    \/ \E d \in Devices, cmd \in {"add", "remove", "reconfig"} : KernelAsks(d, cmd)
    \/ Start \/ ScanDir \/ ScanNext \/ Run \/ Quit \/ CloseNext \/ Exit \/ Crash
    \/ Netlink \/ DeviceStep \/ BusStep
    \/ \E s \in Consumers : NameAcquired(s) \/ NameLost(s) \/ ServiceAppeared(s)
    \/ \E s \in Subtypes : StrayCall(s)

\* The main loop is in an operation of the handler (added, removed, reconfig) or
\* in tcmu_flush_device, which may wait for ever.
Waits == act.pc \in {"added", "close", "reconfig"} \/ (act.pc = "take" /\ act.op = "close")

\* A daemon that was started goes on unless it waits, the main loop serves both
\* of its sources, and the bus delivers.  Nothing says that it is started again.
Fairness ==
    /\ WF_vars(ScanDir \/ ScanNext \/ Run \/ CloseNext \/ Exit)
    /\ WF_vars(DeviceStep /\ ~Waits) /\ SF_vars(Netlink) /\ SF_vars(BusStep)
    /\ \A s \in Consumers : SF_vars(ServiceAppeared(s))

Spec == Init /\ [][Next]_vars /\ Fairness

-----------------------------------------------------------------------------
\* Properties.

\* The values of the state; what is done for the kernel is asked for by it.
TypeOK ==
    /\ phase \in {"down", "netlink", "scan", "run", "close"} /\ todo \in Seq(Devices) /\ served \in Seq(Devices)
    /\ act = NoAct \/ (/\ act.d \in Devices /\ act.op \in {"scan", "netlink", "close"} /\ act.ok \in BOOLEAN
                       /\ act.op = "netlink" => pend[act.d] # "none")
    /\ kern \in [Devices -> [present : BOOLEAN, blocked : {"no", "yes", "stuck"}, fds : 0 .. 1]]
    /\ pend \in [Devices -> {"none", "add", "remove", "reconfig", "lost"}]
    /\ con \in [Consumers -> [own : BOOLEAN, svc : BOOLEAN, wait : Calls \cup {NoHandler}]]
    /\ reg \subseteq Builtin \cup Calls /\ exported \in [Subtypes -> Builtin \cup Calls \cup {NoHandler}]
    /\ \A c \in Calls : call[c].st \in {"unused", "sent", "watching", "gone"}

\* Between events every open uio file belongs to a device that is served, and
\* a device that is served is blocked only if the last attempt to unblock it
\* failed, though additions and removals fail half way, a daemon ends in the
\* middle of one, and a device that came while the daemon started is announced
\* a second time.
DevicesOpenAndRunning ==
    /\ TypeOK
    /\ Idle =>
      \A d \in Devices :
        /\ kern[d].fds = Cardinality({i \in DOMAIN served : served[i] = d})
        /\ Contains(served, d) => kern[d].blocked # "yes"

\* No handler that was freed is registered or can be reached over D-Bus, and no
\* two have the same subtype ("Handler %s has already been registered"),
\* whatever the order of calls and of names that come and go.
HandlersAlive ==
    /\ \A h \in (reg \cup {exported[s] : s \in Subtypes}) \cap Calls : ~call[h].freed
    /\ \A g, h \in reg : Subtype(g) = Subtype(h) => g = h

\* Every request of the kernel and every RegisterHandler call is answered, or
\* its daemon has ended, as long as the main loop returns from what it waits
\* for; the kernel is not told where the reply itself could not be sent.
RequestsAnswered ==
    []<>~Waits =>
      /\ \A d \in Devices : pend[d] # "none" ~> pend[d] \in {"none", "lost"}
      /\ \A c \in Calls : call[c].st # "unused" ~> call[c].reply # "none" \/ call[c].st = "unused"

\* A consumer that keeps its bus name ends up registered with the daemon that
\* stays, also if the name changed hands or the daemon was restarted before, as
\* long as the main loop returns from what it waits for.
ConsumersRegistered ==
    []<>~Waits =>
      \A s \in Consumers :
        <>[](con[s].own /\ phase = "run") => <>[](\E h \in reg : Subtype(h) = s)
=============================================================================

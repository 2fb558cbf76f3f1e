------------------------------ MODULE NodeConfig -----------------------------
(***************************************************************************)
(* Everybody who changes the base configuration of an air node: the ground *)
(* root over the radio (node_config_exchange and the commands of its USB   *)
(* session), the configuration transaction of the node's own console, the  *)
(* single commands of its console and web server, and the factory.  Every  *)
(* one of them reads the whole record, changes a field and saves the whole *)
(* record; the store itself is AppConfigStore.                             *)
(*                                                                         *)
(* Packets arrive at most once (ReplayWindow) and in any order, or not at  *)
(* all.  The 32-bit random token of an exchange is never drawn twice.  All *)
(* configurations are valid, a request that cannot be sent is one that is  *)
(* lost, so is a packet to a node that is not approved or is starting, and *)
(* the deadline of an exchange may pass at any moment.                     *)
(***************************************************************************)
EXTENDS AppConfigStore

CONSTANTS
    Editors,        \* the tasks of the node that execute single commands
    Environments    \* the environments a behaviour may run in: whether the node
                    \* passes through the factory or the flasher or loses its NVS,
                    \* and two bounds: the exchanges and reboots the root starts,
                    \* and the disturbances (power losses, local edits, changes of
                    \* fc, the steps of the workshop)

ASSUME EnvironmentAssumption ==
    Environments \subseteq [workshop : BOOLEAN, exchanges : Nat, disturbances : Nat]

VARIABLES
    rpc,            \* the command the root's USB session executes
    exchange,       \* s_node_config_operation, _token, _done, _result, _value
    tokens,         \* exchanges and reboots started so far
    net,            \* packets under way
    fc,             \* what its router knows of the flight controller
    staged,         \* s_staged_config of its console, {} when no transaction is open
    draft,          \* what each editor is about to save, {} when it is idle
    restarting,     \* schedule_restart was called
    written,        \* history: the generation each write of the root was saved as
    ran,            \* history: what the node ran since the exchange started
    reported,       \* history: the last write reported as saved
    environment,    \* the environment of the behaviour
    disturbances    \* how many of its disturbances have happened

root == <<rpc, exchange, tokens, reported>>
node == <<fc, staged, draft, restarting>>
world == <<environment, disturbances>>
allvars == <<vars, root, node, net, written, ran, world>>

Token == Nat \ {0}
Result == {"ok", "unsafe", "storage"}
Request == [kind : {"read", "write"}, token : Token, config : Value]
           \cup [kind : {"reboot"}]
Response == [kind : {"readResponse", "writeResponse"}, token : Token,
             result : Result, config : Value]
NoExchange == [active |-> FALSE, token |-> 0, done |-> FALSE, result |-> "storage",
               value |-> Default]
NoRpc == [command |-> "none", step |-> "read", config |-> Default]

NodeInit ==
    /\ Init
    /\ rpc = NoRpc /\ exchange = NoExchange /\ tokens = 0 /\ reported = 0
    /\ net = {}
    /\ fc = "starting"
    /\ staged = {} /\ draft = [e \in Editors |-> {}] /\ restarting = FALSE
    /\ environment \in Environments /\ disturbances = 0
    /\ written = [t \in 1..environment.exchanges |-> {}]
    /\ ran = {}

\* airlink_router_fc_armed, and airlink_mesh_global_safe of the node: during its
\* first three seconds the flight controller counts as seen.
Armed == fc = "armed"
Safe == fc \in {"starting", "disarmed"}

Runs(c) == ran' = IF exchange.active THEN ran \cup {c} ELSE ran

Disturbance ==
    /\ disturbances < environment.disturbances
    /\ disturbances' = disturbances + 1
    /\ environment' = environment

-----------------------------------------------------------------------------
(* The ground root. *)

\* node_config_exchange up to the wait.
Ask(kind, config) ==
    /\ tokens < environment.exchanges
    /\ tokens' = tokens + 1
    /\ exchange' = [NoExchange EXCEPT !.active = TRUE, !.token = tokens']
    /\ net' = net \cup {[kind |-> kind, token |-> tokens', config |-> config]}
    /\ ran' = IF pc \in {"up", "identity"} THEN {s_config} ELSE {}

\* The host's "config read" and "config write" start with a read.
Command(command) ==
    /\ rpc = NoRpc
    /\ Ask("read", Default)
    /\ rpc' = [NoRpc EXCEPT !.command = command]
    /\ UNCHANGED <<vars, node, written, reported, world>>

\* Mutant: the token of the response is not compared.
AnyAnswer(m) == exchange.active /\ m.kind \in {"readResponse", "writeResponse"}

Answers(m) ==
    exchange.active /\ m.kind \in {"readResponse", "writeResponse"} /\ m.token = exchange.token

OnResponse(m) ==
    /\ m \in net \cap Response
    /\ net' = net \ {m}
    /\ exchange' =
         IF ~Answers(m) THEN exchange
         ELSE [exchange EXCEPT !.done = TRUE, !.result = m.result,
                               !.value = IF m.kind = "readResponse" /\ m.result = "ok"
                                         THEN m.config ELSE @]
    /\ UNCHANGED <<vars, node, rpc, tokens, written, ran, reported, world>>

\* The wait ends, by an answer or by the deadline.
Succeeded == exchange.done /\ exchange.result = "ok"
Returns(outcome) ==
    /\ exchange.active
    /\ reported' = outcome
    /\ rpc' = NoRpc
    /\ exchange' = NoExchange
    /\ ran' = {}
    /\ UNCHANGED <<vars, node, tokens, net, written, world>>

ReadReturns == rpc.command = "read" /\ Succeeded /\ Returns(reported)

WriteReturns == rpc.step = "write" /\ Succeeded /\ Returns(exchange.token)

\* The command fails: no answer or another one, another serial number than the
\* host expects, or a fleet that the root finds unsafe now.
CommandFails == ~(Succeeded /\ (rpc.command = "read" \/ rpc.step = "write")) /\ Returns(reported)

\* The host's change is applied to the configuration read, and sent back.
WriteBack(p) ==
    /\ exchange.active /\ rpc = [NoRpc EXCEPT !.command = "write"] /\ Succeeded
    /\ LET c == [exchange.value EXCEPT !.password = p]
       IN  /\ rpc' = [rpc EXCEPT !.step = "write", !.config = c]
           /\ Ask("write", c)
    /\ UNCHANGED <<vars, node, written, reported, world>>

\* airlink_mesh_reboot_node: nothing is awaited.
Reboot ==
    /\ rpc = NoRpc /\ tokens < environment.exchanges
    /\ tokens' = tokens + 1
    /\ net' = net \cup {[kind |-> "reboot"]}
    /\ UNCHANGED <<vars, rpc, exchange, reported, node, written, ran, world>>

-----------------------------------------------------------------------------
(* The air node: the packet handlers. *)

Takes(m, kind) == m \in net /\ m.kind = kind /\ pc = "up"
Reply(kind, m, result, config) ==
    [kind |-> kind, token |-> m.token, result |-> result, config |-> config]

OnRead(m) ==
    /\ Takes(m, "read")
    /\ net' = (net \ {m}) \cup {Reply("readResponse", m, "ok", s_config)}
    /\ UNCHANGED <<vars, root, node, written, ran, world>>

\* Mutant: the result of the save is not looked at.
OnWriteAlwaysOk(m) ==
    LET Answer(result) == net' = (net \ {m}) \cup {Reply("writeResponse", m, result, Default)}
    IN  /\ Takes(m, "write")
        /\ \/ /\ ~Safe
              /\ Answer("unsafe")
              /\ UNCHANGED <<vars, restarting, written, ran>>
           \/ /\ Safe
              /\ Save(m.config)
              /\ Answer("ok")
              /\ restarting' = TRUE
              /\ written' = [written EXCEPT ![m.token] = {s_generation'}]
              /\ Runs(m.config)
           \/ /\ Safe /\ "write" \in Faults
              /\ Answer("ok")
              /\ restarting' = TRUE
              /\ UNCHANGED <<vars, written, ran>>
        /\ UNCHANGED <<root, fc, staged, draft, world>>

OnWrite(m) ==
    LET Answer(result) == net' = (net \ {m}) \cup {Reply("writeResponse", m, result, Default)}
    IN  /\ Takes(m, "write")
        /\ \/ /\ ~Safe
              /\ Answer("unsafe")
              /\ UNCHANGED <<vars, restarting, written, ran>>
           \/ /\ Safe
              /\ Save(m.config)
              /\ Answer("ok")
              /\ restarting' = TRUE
              /\ written' = [written EXCEPT ![m.token] = {s_generation'}]
              /\ Runs(m.config)
           \/ /\ Safe /\ "write" \in Faults
              /\ Answer("storage")
              /\ UNCHANGED <<vars, restarting, written, ran>>
        /\ UNCHANGED <<root, fc, staged, draft, world>>

OnReboot(m) ==
    /\ Takes(m, "reboot")
    /\ net' = net \ {m}
    /\ restarting' = (restarting \/ Safe)
    /\ UNCHANGED <<vars, root, fc, staged, draft, written, ran, world>>

-----------------------------------------------------------------------------
(* The air node: its own console and web server. *)

LocalEdit == pc = "up" /\ UNCHANGED <<root, net, fc, restarting, written>>

\* "config set", "usb mavlink", PUT /api/v1/config: the armed state is checked
\* once, then the record is read, changed ...
EditBegin(e, p) ==
    /\ LocalEdit /\ ~Armed /\ draft[e] = {}
    /\ draft' = [draft EXCEPT ![e] = {[s_config EXCEPT !.password = p]}]
    /\ Disturbance
    /\ UNCHANGED <<vars, staged, ran>>

\* ... and saved, or the save fails.
EditEnd(e) ==
    /\ LocalEdit /\ draft[e] # {}
    /\ draft' = [draft EXCEPT ![e] = {}]
    /\ \/ \E c \in draft[e] : Save(c) /\ Runs(c)
       \/ "write" \in Faults /\ UNCHANGED <<vars, ran>>
    /\ UNCHANGED <<staged, world>>

\* config_transaction.
ConfigBegin ==
    /\ LocalEdit /\ ~Armed
    /\ staged' = {s_config}
    /\ Disturbance
    /\ UNCHANGED <<vars, draft, ran>>

ConfigStage(p) ==
    /\ LocalEdit /\ staged # {}
    /\ staged' = {[c EXCEPT !.password = p] : c \in staged}
    /\ UNCHANGED <<vars, draft, ran, world>>

ConfigCommit ==
    /\ LocalEdit /\ ~Armed /\ staged # {}
    /\ \E c \in staged : Save(c) /\ Runs(c)
    /\ staged' = {}
    /\ UNCHANGED <<draft, world>>

\* "config abort", or 30 seconds without a command.
ConfigAbort ==
    /\ LocalEdit /\ staged # {}
    /\ staged' = {}
    /\ UNCHANGED <<vars, draft, ran, world>>

-----------------------------------------------------------------------------
(* The rest of the node, and the world around it. *)

NodeStep ==
    /\ IF pc' \in {"up", "identity"} THEN Runs(s_config') ELSE ran' = ran
    /\ UNCHANGED <<root, node, net>>

\* Start-up and the factory command run to their end.
Continues == Proceeds /\ NodeStep /\ UNCHANGED <<written, world>>

\* "config reset" is refused while armed.
Resets == ~Armed /\ FactoryReset /\ NodeStep /\ Disturbance /\ UNCHANGED written

\* Erased NVS takes the root's writes with it.
AtWorkshop ==
    /\ environment.workshop
    /\ Workshop
    /\ NodeStep
    /\ Disturbance
    /\ written' = [t \in DOMAIN written |->
                      IF DamagedNvs /\ written[t] # {} THEN {0} ELSE written[t]]

\* Power fails, or the scheduled restart comes: RAM is lost.
Stops ==
    /\ PowerLoss
    /\ IF restarting THEN UNCHANGED world ELSE Disturbance
    /\ fc' = "starting" /\ staged' = {} /\ draft' = [e \in Editors |-> {}]
    /\ restarting' = FALSE
    /\ UNCHANGED <<root, net, written, ran>>

\* A heartbeat, or three seconds of silence, which do not end the armed state.
FcChanges ==
    /\ pc = "up"
    /\ fc' \in {"disarmed", "armed"} \cup (IF Armed THEN {} ELSE {"unknown"})
    /\ fc' # fc
    /\ Disturbance
    /\ UNCHANGED <<vars, root, staged, draft, restarting, net, written, ran>>

Lose(m) ==
    /\ m \in net
    /\ net' = net \ {m}
    /\ UNCHANGED <<vars, root, node, written, ran, world>>

RootStep == ReadReturns \/ WriteReturns \/ CommandFails

NodeNext ==
    \/ \E command \in {"read", "write"} : Command(command)
    \/ \E m \in net : OnResponse(m) \/ OnRead(m) \/ OnWrite(m) \/ OnReboot(m) \/ Lose(m)
    \/ RootStep
    \/ \E p \in Password : WriteBack(p) \/ ConfigStage(p)
    \/ Reboot
    \/ \E e \in Editors, p \in Password : EditBegin(e, p)
    \/ \E e \in Editors : EditEnd(e)
    \/ ConfigBegin \/ ConfigCommit \/ ConfigAbort
    \/ Continues \/ Resets \/ AtWorkshop \/ Stops \/ FcChanges

NodeSpec == NodeInit /\ [][NodeNext]_allvars

-----------------------------------------------------------------------------
(* Properties. *)

\* A write the root reports as saved is saved for good: whatever answers arrive
\* late, whatever is edited at the node and wherever power fails, the node's
\* newest record is that write or a later one.
ReportedIsDurable ==
    reported # 0 => \E generation \in written[reported] : Newest(slots).generation >= generation

\* A configuration the root reads, to show it or to change a field of it, was
\* running at the node while it asked, and is no late answer to an earlier question.
ReportedIsCurrent ==
    [][ReadReturns \/ (\E p \in Password : WriteBack(p)) => exchange.value \in ran]_allvars
=============================================================================

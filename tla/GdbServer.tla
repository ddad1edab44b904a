------------------------------ MODULE GdbServer ------------------------------
(***************************************************************************)
(* The sockets of Rosalina's GDB stub and the contexts they are given:     *)
(* the socket thread's loop (source/sock_util.c), with the callbacks of    *)
(* source/gdb/server.c, and what the menu thread does to both: process     *)
(* list (menus/process_list.c), next application and disabling of the      *)
(* debugger (menus/debugger.c), with the task that fetches the next        *)
(* application's debug handle.                                             *)
(*                                                                         *)
(* A slot is an entry of poll_fds and of ctx_ptrs; slots count from 1.     *)
(* Contexts are taken and given back with all their locks; only the menu   *)
(* keeps the locks from one step to another, when it waits for a client to *)
(* be closed.  The monitor thread, which answers each close, is not here.  *)
(***************************************************************************)
EXTENDS Integers, Sequences, FiniteSets, Sublists

CONSTANTS
  MaxDebug,      \* MAX_DEBUG: contexts; there is one port more
  DebugPids,     \* processes of the menu's list
  FetchResults   \* whether pm has a debug handle when the task fetches it

ASSUME StubAssumption == MaxDebug \in Nat \ {0} /\ FetchResults \subseteq BOOLEAN

Contexts == 1 .. MaxDebug
NextPort == MaxDebug                 \* GDB_PORT_BASE + 3, for the next application
Ports == 0 .. NextPort               \* relative to GDB_PORT_BASE
MaxSlots == 2 * (MaxDebug + 1)       \* MAX_CTXS
ClientsPerServer == 1

Nothing == <<"none", 0>>             \* a null pointer in ctx_ptrs
Listening(p) == <<"port", p>>
Client(c) == <<"client", c>>
NoLocalPort == -1
NoPid == -1
NoContext == 0

VARIABLES
  slots,           \* Seq of [open, who]; open: poll_fds[i].fd # -1
  sockIndex,       \* sock_ctx.i of listening sockets and clients
  listener,        \* ctx->serv of each context: the port whose count it is in
  clients,         \* sock_ctx.n of each listening socket
  shouldClose,     \* sock_ctx.should_close
  compactNeeded,
  flags,           \* "selected", "used"
  localPort,
  pid,
  handles,         \* the contexts with ctx->debug # 0
  nextApp,         \* nextApplicationGdbCtx
  socketThread,    \* [at, slot, polled, who]
  menuAt,          \* "idle", "kills", "joins", or "waits" with a context
  stopping         \* shall_terminate_event

socketVars == <<slots, sockIndex, listener, clients, compactNeeded>>
contextVars == <<flags, localPort, pid, handles, nextApp>>
gdbVars == <<socketVars, contextVars, shouldClose, socketThread, menuAt, stopping>>

Allocated(c) == flags[c] # {}
FreeContexts == {c \in Contexts : ~Allocated(c)}
Least(S) == CHOOSE x \in S : \A y \in S : x <= y
Greatest(S) == CHOOSE x \in S : \A y \in S : x >= y

\* The menu holds the locks of all contexts while it waits for a client to be closed.
LocksFree == menuAt[1] # "waits"

At(place) == socketThread.at = place
GoTo(place) == socketThread' = [socketThread EXCEPT !.at = place]
Outside(place) == [at |-> place, slot |-> 0, polled |-> 0, who |-> Nothing]   \* of the slots' loop
Leave(place) == socketThread' = Outside(place)
NextSlot == socketThread' = [socketThread EXCEPT !.at = "slot", !.slot = @ + 1, !.who = Nothing]
ToClose(who) == socketThread' = [socketThread EXCEPT !.at = "close", !.who = who]
Here == slots[socketThread.slot]

\* server_kill_connections: open sockets are closed, and marked for the loop.
AllKilled ==
  /\ slots' = [i \in DOMAIN slots |-> [slots[i] EXCEPT !.open = FALSE]]
  /\ shouldClose' = shouldClose \cup
       {slots[i].who : i \in {j \in DOMAIN slots : slots[j].open /\ slots[j].who # Nothing}}

-----------------------------------------------------------------------------
(***************************************************************************)
(* The socket thread.                                                      *)
(***************************************************************************)

\* server_should_exit, or a poll that fails: all connections are closed and marked.
SeesEnd ==
  /\ At("top") \/ At("polled") \/ At("accepted") \/ At("slots done")
  /\ stopping \/ At("polled")
  /\ AllKilled
  /\ stopping' = TRUE
  /\ Leave("ended")
  /\ UNCHANGED <<sockIndex, listener, clients, compactNeeded, contextVars, menuAt>>

Polls ==
  /\ At("top") /\ ~stopping
  /\ socketThread' = [socketThread EXCEPT !.at = "polled", !.polled = Len(slots)]
  /\ UNCHANGED <<socketVars, contextVars, shouldClose, menuAt, stopping>>

\* With events to handle, or without.
Polled ==
  /\ At("polled") /\ ~stopping
  /\ \/ socketThread' = [socketThread EXCEPT !.at = "slot", !.slot = 1]
     \/ Leave("slots done")
  /\ UNCHANGED <<socketVars, contextVars, shouldClose, menuAt, stopping>>

(***************************************************************************)
(* One turn of the loop over the slots.  Events are those of the poll: a   *)
(* slot added since has none.  A slot that was closed since it was added   *)
(* has no context to look at any more, and the thread dies there.          *)
(***************************************************************************)
LooksAtSlot ==
  /\ At("slot") /\ socketThread.slot <= Len(slots)
  /\ \/ Here.who = Nothing /\ GoTo("died")
     \/ /\ Here.who # Nothing
        /\ Here.who \in shouldClose \/ socketThread.slot <= socketThread.polled
        /\ ToClose(Here.who)
     \/ /\ Here.who # Nothing /\ Here.who \notin shouldClose
        /\ \/ NextSlot
           \/ /\ Here.who[1] = "port" /\ socketThread.slot <= socketThread.polled
              /\ GoTo("accepted")
  /\ UNCHANGED <<socketVars, contextVars, shouldClose, menuAt, stopping>>

AllSlotsSeen ==
  /\ At("slot") /\ socketThread.slot > Len(slots)
  /\ Leave("slots done")
  /\ UNCHANGED <<socketVars, contextVars, shouldClose, menuAt, stopping>>

(***************************************************************************)
(* After accept, which may have failed: no client if there is one already, *)
(* no slot, or no context for the port (GDB_GetClient).  The context tied  *)
(* to the port comes before a free one, which the port of the next         *)
(* application does not get.                                               *)
(***************************************************************************)
TiedTo(p) == {c \in Contexts : localPort[c] = p}

\* mutant: any free context will do
ContextsForFreeFirst(p) == IF FreeContexts # {} THEN {Least(FreeContexts)} ELSE {}

ContextsFor(p) ==
  IF TiedTo(p) # {} THEN {c \in {Least(TiedTo(p))} : "used" \notin flags[c]}
  ELSE IF p # NextPort /\ FreeContexts # {} THEN {Least(FreeContexts)}
  ELSE {}

Refuses ==
  /\ At("accepted") /\ ~stopping
  /\ NextSlot
  /\ UNCHANGED <<socketVars, contextVars, shouldClose, menuAt, stopping>>

GetsClient ==
  /\ At("accepted") /\ ~stopping /\ LocksFree
  /\ LET p == Here.who[2] IN
     /\ clients[p] # ClientsPerServer /\ Len(slots) # MaxSlots
     /\ \E c \in ContextsFor(p) :
          /\ localPort' = [localPort EXCEPT ![c] = p]
          /\ flags' = [flags EXCEPT ![c] = @ \cup {"used"}]
          /\ socketThread' = [socketThread EXCEPT !.at = "got client", !.who = Client(c)]
  /\ UNCHANGED <<socketVars, pid, handles, nextApp, shouldClose, menuAt, stopping>>

\* The next application's client waits until there is a debug handle, however long.
AddsClient ==
  /\ At("got client")
  /\ LET c == socketThread.who[2]
         p == Here.who[2]
     IN  /\ p = NextPort => c \in handles
         /\ slots' = Append(slots, [open |-> TRUE, who |-> Client(c)])
         /\ sockIndex' = [sockIndex EXCEPT ![Client(c)] = Len(slots) + 1]
         /\ listener' = [listener EXCEPT ![c] = p]
         /\ clients' = [clients EXCEPT ![p] = @ + 1]
         /\ shouldClose' = shouldClose \ {Client(c)}
  /\ GoTo("added client")
  /\ UNCHANGED <<compactNeeded, contextVars, menuAt, stopping>>

\* GDB_AcceptClient attaches to the process that was selected, which may fail.
AcceptsClient ==
  /\ At("added client") /\ LocksFree
  /\ LET c == socketThread.who[2] IN
     \/ /\ handles' = IF "selected" \in flags[c] THEN handles \cup {c} ELSE handles
        /\ NextSlot
     \/ "selected" \in flags[c] /\ UNCHANGED handles /\ GoTo("close")
  /\ UNCHANGED <<socketVars, flags, localPort, pid, nextApp, shouldClose, menuAt, stopping>>

(***************************************************************************)
(* server_close_ctx; of a client, with GDB_CloseClient.  What the code     *)
(* leaves in a closed context and does not read again (index, listening    *)
(* socket, pid) is forgotten here.                                         *)
(***************************************************************************)
Released(who) ==
  IF who[1] = "client"
  THEN LET c == who[2] IN
       /\ LocksFree
       /\ flags' = [flags EXCEPT ![c] = {}]
       /\ localPort' = [localPort EXCEPT ![c] = NoLocalPort]
       /\ pid' = [pid EXCEPT ![c] = NoPid]
       /\ handles' = handles \ {c}
       /\ clients' = [clients EXCEPT ![listener[c]] = @ - 1]
       /\ listener' = [listener EXCEPT ![c] = NoLocalPort]
       /\ UNCHANGED nextApp
  ELSE UNCHANGED <<contextVars, clients, listener>>

Closes ==
  /\ At("close")
  /\ LET who == socketThread.who IN
     /\ Released(who)
     /\ shouldClose' = shouldClose \ {who}
     /\ slots' = [slots EXCEPT ![sockIndex[who]] = [open |-> FALSE, who |-> Nothing]]
     /\ sockIndex' = [sockIndex EXCEPT ![who] = 0]
  /\ compactNeeded' = TRUE
  /\ NextSlot
  /\ UNCHANGED <<menuAt, stopping>>

OpenSlots == {s \in Range(slots) : s.open}

\* mutant: sockets keep the index they had before the table was compacted
CompactsKeepingIndex ==
  /\ At("compact")
  /\ slots' = IF compactNeeded THEN Kept(slots, OpenSlots) ELSE slots
  /\ compactNeeded' = FALSE
  /\ Leave("top")
  /\ UNCHANGED <<sockIndex, listener, clients, contextVars, shouldClose, menuAt, stopping>>

\* server_run's last check, and compact.
SlotsDone ==
  /\ At("slots done") /\ ~stopping
  /\ Leave("compact")
  /\ UNCHANGED <<socketVars, contextVars, shouldClose, menuAt, stopping>>

Compacts ==
  /\ At("compact")
  /\ slots' = IF compactNeeded THEN Kept(slots, OpenSlots) ELSE slots
  /\ sockIndex' = [who \in DOMAIN sockIndex |->
       IF \E i \in DOMAIN slots' : slots'[i].who = who
       THEN CHOOSE i \in DOMAIN slots' : slots'[i].who = who
       ELSE sockIndex[who]]
  /\ compactNeeded' = FALSE
  /\ Leave("top")
  /\ UNCHANGED <<listener, clients, contextVars, shouldClose, menuAt, stopping>>

SocketThread ==
  \/ SeesEnd \/ Polls \/ Polled \/ LooksAtSlot \/ AllSlotsSeen \/ Refuses \/ GetsClient
  \/ AddsClient \/ AcceptsClient \/ Closes \/ SlotsDone \/ Compacts

-----------------------------------------------------------------------------
(***************************************************************************)
(* The menu thread.                                                        *)
(***************************************************************************)
Running == socketThread.at \notin {"ended", "finalized", "died"}
MenuIdle == menuAt[1] = "idle"

AllocatedFor(p) == {c \in Contexts : pid[c] = p /\ ("selected" \in flags[c] \/ c \in handles)}
PortFree(p) == \A c \in Contexts : Allocated(c) => localPort[c] # p

\* GDB_SelectAvailableContext, with the pid that the callers then write.
SelectContext(c, ports, p) ==
  /\ c = Least(FreeContexts)
  /\ LET available == {port \in ports : PortFree(port)} IN
     /\ available # {}
     /\ localPort' = [localPort EXCEPT ![c] = Least(available)]
  /\ flags' = [flags EXCEPT ![c] = {"selected"}]
  /\ pid' = [pid EXCEPT ![c] = p]

\* ProcessListMenu_HandleSelected, by what is found of the process.
SelectsProcess(p) ==
  /\ AllocatedFor(p) = {} /\ FreeContexts # {}
  /\ SelectContext(Least(FreeContexts), Ports \ {NextPort}, p)
  /\ UNCHANGED <<handles, nextApp, shouldClose, menuAt>>

UnselectsUnused(p) ==
  /\ AllocatedFor(p) # {}
  /\ LET c == Greatest(AllocatedFor(p)) IN
     /\ flags[c] = {"selected"} /\ localPort[c] \in Ports \ {NextPort}
     /\ flags' = [flags EXCEPT ![c] = {}]
     /\ localPort' = [localPort EXCEPT ![c] = NoLocalPort]
     /\ pid' = [pid EXCEPT ![c] = NoPid]
  /\ UNCHANGED <<handles, nextApp, shouldClose, menuAt>>

\* The menu goes on to wait for the client, with the locks.
UnselectsUsed(p) ==
  /\ AllocatedFor(p) # {}
  /\ LET c == Greatest(AllocatedFor(p)) IN
     /\ flags[c] = {"selected", "used"}
     /\ shouldClose' = shouldClose \cup {Client(c)}
     /\ menuAt' = <<"waits", c>>
  /\ UNCHANGED contextVars

ChoosesProcess(p) ==
  /\ MenuIdle /\ Running
  /\ SelectsProcess(p) \/ UnselectsUnused(p) \/ UnselectsUsed(p)
  /\ UNCHANGED <<socketVars, socketThread, stopping>>

ClientIsClosed ==
  /\ menuAt[1] = "waits" /\ Client(menuAt[2]) \notin shouldClose
  /\ menuAt' = <<"idle", 0>>
  /\ UNCHANGED <<socketVars, contextVars, shouldClose, socketThread, stopping>>

(***************************************************************************)
(* DebuggerMenu_DebugNextApplicationByForce.  If the port is taken, the    *)
(* context that was found gets all flags but "selected".                   *)
(***************************************************************************)
DebugsNextApplication ==
  /\ MenuIdle /\ socketThread.at # "finalized"
  /\ nextApp = NoContext /\ FreeContexts # {}
  /\ LET c == Least(FreeContexts) IN
     IF PortFree(NextPort)
     THEN \/ /\ SelectContext(c, {NextPort}, NoPid)
             /\ nextApp' = c
             /\ handles' = handles \ {c}
          \/ /\ localPort' = [localPort EXCEPT ![c] = NoLocalPort]      \* pm refuses
             /\ handles' = handles \ {c}
             /\ pid' = [pid EXCEPT ![c] = NoPid]
             /\ UNCHANGED <<flags, nextApp>>
     ELSE /\ flags' = [flags EXCEPT ![c] = {"used"}]
          /\ UNCHANGED <<localPort, pid, handles, nextApp>>
  /\ UNCHANGED <<socketVars, shouldClose, socketThread, menuAt, stopping>>

\* debuggerFetchAndSetNextApplicationDebugHandleTask, with a handle or without.
FetchesNextApplication ==
  /\ nextApp # NoContext /\ LocksFree
  /\ \E fetched \in FetchResults :
       /\ handles' = IF fetched THEN handles \cup {nextApp} ELSE handles \ {nextApp}
       /\ flags' = IF fetched THEN flags ELSE [flags EXCEPT ![nextApp] = {}]
  /\ nextApp' = NoContext
  /\ UNCHANGED <<socketVars, localPort, pid, shouldClose, socketThread, menuAt, stopping>>

(***************************************************************************)
(* debuggerDisable: the event, then server_kill_connections as one step    *)
(* between any two of the socket thread; the threads are joined, or the    *)
(* menu gives up waiting for them.                                         *)
(***************************************************************************)
Disables ==
  /\ MenuIdle /\ socketThread.at # "finalized"
  /\ stopping' = TRUE
  /\ menuAt' = <<"kills", 0>>
  /\ UNCHANGED <<socketVars, contextVars, shouldClose, socketThread>>

KillsConnections ==
  /\ menuAt[1] = "kills"
  /\ menuAt' = <<"joins", 0>>
  /\ AllKilled
  /\ UNCHANGED <<sockIndex, listener, clients, compactNeeded, contextVars, socketThread, stopping>>

JoinsThreads ==
  /\ menuAt[1] = "joins"
  /\ menuAt' = <<"idle", 0>>
  /\ nextApp' = NoContext
  /\ UNCHANGED <<socketVars, flags, localPort, pid, handles, shouldClose, socketThread, stopping>>

\* server_finalize closes what is left, and GDB_FinalizeServer the next application's context.
Finalizes ==
  /\ At("ended") /\ LocksFree
  /\ LET left == {c \in Contexts : Client(c) \in {slots[i].who : i \in DOMAIN slots}}
         closed == left \cup handles
     IN  /\ flags' = [c \in Contexts |-> IF c \in closed THEN {} ELSE flags[c]]
         /\ localPort' = [c \in Contexts |-> IF c \in closed THEN NoLocalPort ELSE localPort[c]]
         /\ pid' = [c \in Contexts |-> IF c \in closed THEN NoPid ELSE pid[c]]
         /\ handles' = {}
         /\ clients' = [p \in Ports |-> clients[p] - Cardinality({c \in left : listener[c] = p})]
         /\ shouldClose' = shouldClose \ {slots[i].who : i \in DOMAIN slots}
  /\ slots' = [i \in DOMAIN slots |-> [open |-> FALSE, who |-> Nothing]]
  /\ Leave("finalized")
  /\ UNCHANGED <<sockIndex, listener, compactNeeded, nextApp, menuAt, stopping>>

-----------------------------------------------------------------------------
\* The state after GDB_InitializeServer and the four binds of GDB_RunServer.
FreshServer ==
  [slots |-> [i \in 1 .. MaxDebug + 1 |-> [open |-> TRUE, who |-> Listening(i - 1)]],
   index |-> [who \in {Listening(p) : p \in Ports} \cup {Client(c) : c \in Contexts} |->
                IF who[1] = "port" THEN who[2] + 1 ELSE 0]]

GdbInit ==
  /\ slots = FreshServer.slots
  /\ sockIndex = FreshServer.index
  /\ listener = [c \in Contexts |-> NoLocalPort]
  /\ clients = [p \in Ports |-> 0]
  /\ shouldClose = {}
  /\ compactNeeded = FALSE
  /\ flags = [c \in Contexts |-> {}]
  /\ localPort = [c \in Contexts |-> NoLocalPort]
  /\ pid = [c \in Contexts |-> NoPid]
  /\ handles = {}
  /\ nextApp = NoContext
  /\ socketThread = Outside("top")
  /\ menuAt = <<"idle", 0>>
  /\ stopping = FALSE

\* DebuggerMenu_EnableDebugger, once the last server has gone.
Enables ==
  /\ MenuIdle /\ At("finalized")
  /\ slots' = FreshServer.slots
  /\ sockIndex' = FreshServer.index
  /\ listener' = [c \in Contexts |-> NoLocalPort]
  /\ clients' = [p \in Ports |-> 0]
  /\ shouldClose' = {}
  /\ compactNeeded' = FALSE
  /\ flags' = [c \in Contexts |-> {}]
  /\ localPort' = [c \in Contexts |-> NoLocalPort]
  /\ pid' = [c \in Contexts |-> NoPid]
  /\ handles' = {}
  /\ Leave("top")
  /\ stopping' = FALSE
  /\ UNCHANGED <<nextApp, menuAt>>

GdbNext ==
  \/ SocketThread \/ Finalizes
  \/ \E p \in DebugPids : ChoosesProcess(p)
  \/ ClientIsClosed \/ DebugsNextApplication \/ FetchesNextApplication
  \/ Disables \/ KillsConnections \/ JoinsThreads \/ Enables

GdbSpec == GdbInit /\ [][GdbNext]_gdbVars

(***************************************************************************)
(* The loop's table and the contexts agree, whatever order clients come,   *)
(* go and are moved in, and whatever the menu does meanwhile: each socket  *)
(* knows its slot, a client's context is taken, and each port counts its   *)
(* own clients, so that a port whose client has gone takes another.        *)
(***************************************************************************)
TableAgrees ==
  /\ \A i \in DOMAIN slots : slots[i].who # Nothing => sockIndex[slots[i].who] = i
  /\ ~stopping => \A p \in Ports :
       clients[p] = Cardinality({i \in DOMAIN slots : /\ slots[i].who[1] = "client"
                                                      /\ listener[slots[i].who[2]] = p})
(***************************************************************************)
(* No port is given to two contexts, be they selected in the menu for a    *)
(* client to come, or taken by a client that has come: its client would    *)
(* debug one process while the menu shows the other.                       *)
(***************************************************************************)
OnePortEach ==
  \A c, d \in Contexts :
    /\ Allocated(c) /\ Allocated(d)
    /\ localPort[c] = localPort[d] /\ localPort[c] # NoLocalPort
    => c = d

\* What the loop's table, the contexts and the ports say of a client is the
\* same: closing or moving one never reaches the process of another.
ClientsKeepTheirContexts == TableAgrees /\ OnePortEach
=============================================================================

---------------------------- MODULE NodeLifecycle ----------------------------
(***************************************************************************)
(* How a tree of nodes is registered and deregistered:                     *)
(* initializeRootNode and deinitializeRootNode, with initialize,           *)
(* deinitialize and setParent of BaseImpl, NodeImpl, PortImpl,             *)
(* StateMachineImpl and the PVs.                                           *)
(*                                                                         *)
(* Every call reaches three registers one after the other: the commands    *)
(* and the interface of the control system, and the register of PVs of     *)
(* NdsFactoryImpl.  Other threads see them at every step; so a step here   *)
(* is one call of a register, or one loop that touches none.  The walk     *)
(* through the tree is a stack of the functions it is inside of; an        *)
(* exception drops the stack, and nothing of what was done is undone.      *)
(* A node may be added to two trees: addChild does not see it, setParent   *)
(* does.                                                                   *)
(***************************************************************************)
EXTENDS Naturals, Sequences, FiniteSets, SequencesExt

CONSTANTS
  Threads,
  Components,  \* nodes, state machines, ports and PVs
  Kind,        \* Kind[c]: one of Kinds
  Label,       \* Label[c]: m_name
  Children,    \* Children[c]: m_children, in the order of their names
  Roots,       \* the nodes that drivers call initialize on
  Failing,     \* the calls of the control system that may throw, of FailingCalls
  MaxCalls,    \* bound: calls of initializeRootNode
  NoNode, NoThread

Kinds == {"port", "node", "machine", "input", "output"}

FailingCalls == {"getNewInterface", "registerCommand", "registerPV"}

Ports    == { c \in Components : Kind[c] = "port" }
Machines == { c \in Components : Kind[c] = "machine" }
PVs      == { c \in Components : Kind[c] \in {"input", "output"} }

\* Children are kept by name, each once; only nodes have any, and are roots.  No
\* component is below itself: its full name would have no end.
ASSUME LifecycleAssumption ==
  /\ Kind \in [Components -> Kinds]
  /\ Children \in [Components -> Seq(Components)]
  /\ \A c \in Components : IsInjective(Children[c]) /\ (c \in PVs => Children[c] = <<>>)
  /\ \A S \in SUBSET Components : S # {} =>
       \E c \in S : \A d \in S : c \notin ToSet(Children[d])
  /\ Roots \subseteq Components \ PVs /\ Failing \subseteq FailingCalls
  /\ MaxCalls \in Nat /\ NoNode \notin Components /\ NoThread \notin Threads

VARIABLES
  parent,     \* parent[c]: m_pParent
  name,       \* name[c]: m_cachedFullName, as the sequence of its parts
  commands,   \* the components whose commands the control system knows
  interface,  \* interface[p]: m_pInterface: none, open, or told that all is registered
  published,  \* the PVs registered with the interface of their port
  registry,   \* the PVs in m_registeredInputPVs and m_registeredOutputPVs
  started,    \* the machines whose initial state has been pushed
  request,    \* request[t]: the call t is in
  holder,     \* who has m_initializationMutex
  stack,      \* the functions the holder is inside of, innermost last
  held,       \* the root nodes held by the factory
  last,       \* last[r]: how the last call on root r ended
  calls,      \* calls of initializeRootNode so far (bounded by MaxCalls)
  aborted     \* a throw without an exception ended the process

treeVars == <<parent, name>>
registers == <<commands, interface, published, registry, started>>
callVars == <<request, holder, held, last, calls, aborted>>
vars == <<treeVars, registers, callVars, stack>>

-----------------------------------------------------------------------------
NoCall == [kind |-> "none", root |-> NoNode]

\* A function on component c that has got to a place in its text.
Frame(c, at) == [node |-> c, at |-> at, todo |-> <<>>]

Top == Last(stack)
Replace(f) == stack' = Append(Front(stack), f)
Goto(place) == Replace([Top EXCEPT !.at = place])
Leave == stack' = Front(stack)

\* The holder is about to execute what stands at this place.
At(place) == ~aborted /\ stack # <<>> /\ Top.at = place

\* Where initialize and deinitialize of a component start.
Enter(kind, c) ==
  Frame(c, IF kind = "deinit" THEN IF c \in PVs THEN "deregister" ELSE "uncommand"
           ELSE IF c \in Ports THEN "interface" ELSE "command")

\* An exception leaves the call; the lock_guard is all that notices.
Throw ==
  /\ stack' = <<>>
  /\ request' = [request EXCEPT ![holder] = [@ EXCEPT !.kind = "failed"]]
  /\ UNCHANGED <<holder, held, last, calls, aborted>>

\* A call of the control system, which may throw.
MayThrow(call) == call \in Failing /\ Throw

Init ==
  /\ parent    = [c \in Components |-> NoNode]
  /\ name      = [c \in Components |-> <<Label[c]>>]
  /\ commands  = {} /\ published = {} /\ registry = {} /\ started = {}
  /\ interface = [p \in Ports |-> "none"]
  /\ request   = [t \in Threads |-> NoCall]
  /\ holder    = NoThread
  /\ stack     = <<>>
  /\ held      = {}
  /\ last      = [r \in Roots |-> "new"]
  /\ calls     = 0
  /\ aborted   = FALSE

-----------------------------------------------------------------------------
(* The root node.                                                           *)

\* The check "only the root nodes" precedes the lock.
CallInitialize(t, r) ==
  /\ request[t] = NoCall /\ calls < MaxCalls
  /\ parent[r] = NoNode
  /\ request' = [request EXCEPT ![t] = [kind |-> "init", root |-> r]]
  /\ calls' = calls + 1
  /\ UNCHANGED <<treeVars, registers, holder, stack, held, last, aborted>>

\* The factory deinitializes the root nodes it holds, each once.
CallDeinitialize(t, r) ==
  /\ request[t] = NoCall
  /\ r \in held /\ parent[r] = NoNode
  /\ \A u \in Threads : request[u] # [kind |-> "deinit", root |-> r]
  /\ request' = [request EXCEPT ![t] = [kind |-> "deinit", root |-> r]]
  /\ UNCHANGED <<treeVars, registers, holder, stack, held, last, calls, aborted>>

Lock(t) ==
  /\ request[t] # NoCall /\ holder = NoThread
  /\ holder' = t
  /\ stack' = <<Enter(request[t].kind, request[t].root)>>
  /\ UNCHANGED <<treeVars, registers, request, held, last, calls, aborted>>

\* Mutant of Unlock: an exception leaves the mutex locked.
Mut_UnlockReturning(t) ==
  LET call == request[t] IN
  /\ holder = t /\ stack = <<>> /\ call.kind # "failed"
  /\ holder' = NoThread
  /\ request' = [request EXCEPT ![t] = NoCall]
  /\ held' = IF call.kind = "init" THEN held \cup {call.root} ELSE held \ {call.root}
  /\ last' = [last EXCEPT ![call.root] = call.kind]
  /\ UNCHANGED <<treeVars, registers, stack, calls, aborted>>

\* The function has returned or thrown: holdNode after an initialization that
\* succeeded, the mutex is released.  The factory lets go of what it has
\* deinitialized.
Unlock(t) ==
  LET call == request[t] IN
  /\ holder = t /\ stack = <<>>
  /\ holder' = NoThread
  /\ request' = [request EXCEPT ![t] = NoCall]
  /\ held' = CASE call.kind = "init"   -> held \cup {call.root}
               [] call.kind = "deinit" -> held \ {call.root}
               [] OTHER                -> held
  /\ last' = [last EXCEPT ![call.root] = call.kind]
  /\ UNCHANGED <<treeVars, registers, stack, calls, aborted>>

-----------------------------------------------------------------------------
(* initialize                                                               *)

\* Mutant of GetInterface: registrationTerminated is called before the children
\* are initialized.
Mut_GetInterfaceAnnounced ==
  /\ At("interface")
  /\ interface' = [interface EXCEPT ![Top.node] = "announced"]
  /\ Goto("command")
  /\ UNCHANGED <<treeVars, commands, published, registry, started, callVars>>

\* PortImpl: the interface is created once.
GetInterface ==
  /\ At("interface")
  /\ \/ /\ interface' = [interface EXCEPT ![Top.node] = IF @ = "none" THEN "open" ELSE @]
        /\ Goto("command")
        /\ UNCHANGED callVars
     \/ /\ interface[Top.node] = "none" /\ MayThrow("getNewInterface")
        /\ UNCHANGED interface
  /\ UNCHANGED <<treeVars, commands, published, registry, started>>

\* buildFullName: the labels on the way down from the root.
FullName(c) ==
  LET path[x \in Components] ==
        IF parent[x] = NoNode THEN <<Label[x]>> ELSE Append(path[parent[x]], Label[x])
  IN path[c]

\* BaseImpl: the names are cached, the commands registered one by one.
RegisterCommands ==
  /\ At("command")
  /\ name' = [name EXCEPT ![Top.node] = FullName(Top.node)]
  /\ \/ /\ commands' = commands \cup {Top.node}
        /\ Goto(IF Top.node \in PVs THEN "publish" ELSE "adopt")
        /\ UNCHANGED callVars
     \/ /\ MayThrow("registerCommand")
        /\ commands' \in {commands, commands \cup {Top.node}}
  /\ UNCHANGED <<parent, interface, published, registry, started>>

\* Mutant of Adopt: nobody looks whether the child has a parent.
Mut_AdoptAnyway ==
  /\ At("adopt")
  /\ parent' = [c \in Components |-> IF c \in ToSet(Children[Top.node]) THEN Top.node ELSE parent[c]]
  /\ Replace([Top EXCEPT !.at = "children", !.todo = Children[Top.node]])
  /\ UNCHANGED <<name, registers, callVars>>

\* NodeImpl: all the children get this node for a parent, before the first of
\* them is initialized; one that has a parent already ends it.
Adopt ==
  LET node   == Top.node
      todo   == Children[node]
      taken  == { i \in DOMAIN todo : parent[todo[i]] # NoNode }
      before == { todo[i] : i \in { j \in DOMAIN todo : \A k \in taken : j < k } }
  IN
  /\ At("adopt")
  /\ parent' = [c \in Components |-> IF c \in before THEN node ELSE parent[c]]
  /\ IF taken = {}
       THEN Replace([Top EXCEPT !.at = "children", !.todo = todo]) /\ UNCHANGED callVars
       ELSE Throw
  /\ UNCHANGED <<name, registers>>

\* The loop over the children, in both directions, and where it leads.
NextChild ==
  /\ At("children")
  /\ IF Top.todo # <<>>
       THEN stack' = Append(Front(stack), [Top EXCEPT !.todo = Tail(@)])
                       \o <<Enter(request[holder].kind, Head(Top.todo))>>
       ELSE IF request[holder].kind = "deinit" \/ Kind[Top.node] = "node" THEN Leave
       ELSE Goto(IF Top.node \in Ports THEN "announce" ELSE "start")
  /\ UNCHANGED <<treeVars, registers, callVars>>

\* getPort: the nearest port above, of NoNode if there is none.
PortOf(c) ==
  LET up[x \in Components] ==
        IF Kind[x] = "port" THEN x ELSE IF parent[x] = NoNode THEN NoNode ELSE up[parent[x]]
  IN up[c]

\* Mutant of Publish: an exception of registerPV is passed over.
Mut_PublishAnyway ==
  /\ At("publish")
  /\ PortOf(Top.node) # NoNode
  /\ published' \in {published, published \cup {Top.node}}
  /\ Goto("register")
  /\ UNCHANGED <<treeVars, commands, interface, registry, started, callVars>>

\* PVBaseImpl: getPort()->registerPV.  getPort of a component without a port
\* above says "throw;" outside of a handler, which ends the process.
Publish ==
  /\ At("publish")
  /\ \/ /\ PortOf(Top.node) # NoNode
        /\ published' = published \cup {Top.node}
        /\ Goto("register")
        /\ UNCHANGED callVars
     \/ /\ PortOf(Top.node) # NoNode /\ MayThrow("registerPV")
        /\ UNCHANGED published
     \/ /\ PortOf(Top.node) = NoNode
        /\ aborted' = TRUE
        /\ UNCHANGED <<published, stack, request, holder, held, last, calls>>
  /\ UNCHANGED <<treeVars, commands, interface, registry, started>>

\* registerInputPV, registerOutputPV: PVAlreadyDeclared if the name is taken.
Register ==
  /\ At("register")
  /\ IF \E p \in registry : name[p] = name[Top.node]
       THEN Throw /\ UNCHANGED registry
       ELSE /\ registry' = registry \cup {Top.node}
            /\ Leave
            /\ UNCHANGED callVars
  /\ UNCHANGED <<treeVars, commands, interface, published, started>>

\* StateMachineImpl: the state is off, and pushed through getState.
Start ==
  /\ At("start")
  /\ started' = started \cup {Top.node}
  /\ Leave
  /\ UNCHANGED <<treeVars, commands, interface, published, registry, callVars>>

\* PortImpl: registrationTerminated.
Announce ==
  /\ At("announce")
  /\ interface' = [interface EXCEPT ![Top.node] = "announced"]
  /\ Leave
  /\ UNCHANGED <<treeVars, commands, published, registry, started, callVars>>

-----------------------------------------------------------------------------
(* deinitialize                                                             *)

\* PVBaseInImpl, PVBaseOutImpl: whatever of the same kind has the name leaves the
\* register.
Deregister ==
  /\ At("deregister")
  /\ registry' = { p \in registry : <<Kind[p], name[p]>> # <<Kind[Top.node], name[Top.node]>> }
  /\ Goto("uncommand")
  /\ UNCHANGED <<treeVars, commands, interface, published, started, callVars>>

\* BaseImpl.  Ports check first that they were initialized, which those the
\* factory holds have been; machines join their transition thread (see StateMachine).
DeregisterCommands ==
  /\ At("uncommand")
  /\ commands' = commands \ {Top.node}
  /\ IF Top.node \in PVs THEN Goto("unpublish")
     ELSE Replace([Top EXCEPT !.at = "children", !.todo = Children[Top.node]])
  /\ UNCHANGED <<treeVars, interface, published, registry, started, callVars>>

\* PVBaseImpl: getPort()->deregisterPV.
Unpublish ==
  /\ At("unpublish")
  /\ published' = published \ {Top.node}
  /\ Leave
  /\ UNCHANGED <<treeVars, commands, interface, registry, started, callVars>>

-----------------------------------------------------------------------------
Work ==
  \/ GetInterface \/ RegisterCommands \/ Adopt \/ NextChild \/ Publish \/ Register
  \/ Start \/ Announce
  \/ Deregister \/ DeregisterCommands \/ Unpublish

\* Nobody calls any more, or the process has ended.
Finished ==
  /\ aborted \/ (calls = MaxCalls /\ held = {} /\ \A t \in Threads : request[t] = NoCall)
  /\ UNCHANGED vars

Next ==
  \/ \E t \in Threads :
       /\ ~aborted
       /\ \/ \E r \in Roots : CallInitialize(t, r) \/ CallDeinitialize(t, r)
          \/ Lock(t) \/ Unlock(t)
  \/ Work
  \/ Finished

Spec == Init /\ [][Next]_vars

\* The holder goes on.  The mutex is contended finitely often: there are MaxCalls
\* initializations, and one deinitialization at most for each.
FairSpec ==
  /\ Spec
  /\ WF_vars(Work)
  /\ \A t \in Threads : WF_vars(Lock(t)) /\ WF_vars(Unlock(t))

-----------------------------------------------------------------------------
(* Properties                                                               *)

\* The registers and the call under way are well formed; somebody holds the
\* mutex whenever a tree is being walked through.
TypeOK ==
  /\ parent \in [Components -> Components \cup {NoNode}]
  /\ \A c \in Components : Last(name[c]) = Label[c]
  /\ commands \subseteq Components
  /\ interface \in [Ports -> {"none", "open", "announced"}]
  /\ published \subseteq PVs /\ registry \subseteq PVs /\ started \subseteq Machines
  /\ \A t \in Threads : /\ request[t].kind \in {"none", "init", "deinit", "failed"}
                        /\ request[t].root \in Roots \cup {NoNode}
  /\ holder \in Threads \cup {NoThread}
  /\ holder = NoThread => stack = <<>>
  /\ \A f \in ToSet(stack) : f.node \in Components
  /\ held \subseteq Roots /\ last \in [Roots -> {"new", "init", "deinit", "failed"}]
  /\ calls \in 0..MaxCalls /\ aborted \in BOOLEAN

\* The components of a node's tree, itself included.
Below ==
  [r \in Components |->
     { c \in Components : \A S \in SUBSET Components :
         r \in S /\ (\A d \in S : ToSet(Children[d]) \subseteq S) => c \in S }]

Tree(r) == Below[r]

Registered(set) ==
  set \subseteq commands /\ set \cap PVs \subseteq published \cap registry

\* A PV that others can find by its name, to subscribe to it or to push on it
\* by replication, has at any time a port with an interface that knows the PV:
\* the push that follows reaches something.
KnownIsUsable ==
  \A p \in registry :
    /\ p \in published
    /\ PortOf(p) # NoNode /\ interface[PortOf(p)] # "none"

\* registrationTerminated is "called by the nodes after all the PVs have been
\* registered" (interfaceBaseImpl.h:52): everything below the port, other ports
\* included, has been, and its state machines have pushed their first state.
TerminatedMeansRegistered ==
  [][\A p \in Ports :
       interface[p] # "announced" /\ interface'[p] = "announced" =>
         /\ Registered(Tree(p) \ {p}) /\ p \in commands
         /\ Tree(p) \cap Machines \subseteq started]_vars

\* Between the calls the registers agree on every tree: what is held is in all
\* of them, what was deinitialized in none, whichever calls failed on the way
\* and whatever trees have in common.
RegistersAgree ==
  holder = NoThread /\ ~aborted =>
    \A r \in Roots :
      /\ r \in held => Registered(Tree(r))
      /\ last[r] = "deinit" =>
           Tree(r) \cap (commands \cup published \cup registry) = {}

\* Every call comes to an end: none leaves the static mutex locked.
CallsReturn ==
  \A t \in Threads : request[t] # NoCall ~> request[t] = NoCall \/ aborted

\* NoPortDefinedError "is thrown when there isn't any Port defined in the device
\* structure" (exceptions.h:113-115): the process goes on.
NoPortIsReported == ~aborted

\* A call that failed leaves nothing of its tree in the register of PVs, which
\* holds raw pointers to nodes the driver is about to destroy.
FailureLeavesNothing ==
  holder = NoThread =>
    \A r \in Roots \ held :
      last[r] = "failed" => { p \in registry : name[p][1] = Label[r] } = {}
=============================================================================

--------------------------- MODULE DeviceFactory ---------------------------
(***************************************************************************)
(* How FactoryBaseImpl creates and destroys devices: createDevice,         *)
(* holdNode, destroyDevice and preDelete, with initializeRootNode and      *)
(* deinitializeRootNode of NodeImpl.                                       *)
(*                                                                         *)
(* Two mutexes are involved: the factory's m_mutex, which a creation takes *)
(* three times and a destruction keeps until it is over, and the static    *)
(* m_initializationMutex, which a creation keeps while it waits for the    *)
(* former and a destruction takes inside of it.                            *)
(* A device has one root node, which its driver initializes; a node that   *)
(* is initialized without a device is held under the null pointer.  A      *)
(* device created again may well get the address of the one before: here   *)
(* it always does, the pointer of a device is its name.                    *)
(***************************************************************************)
EXTENDS FiniteSets

CONSTANTS
  Threads,     \* threads that call the factory
  Devices,     \* device names
  Null,        \* the null device pointer
  Outcomes,    \* how an allocation function may end, of AllOutcomes
  Serialized,  \* whether devices are never created while others are destroyed
  NoThread

AllOutcomes == {"ok", "fails", "fails in initialize", "fails after initialize"}

Pointers == Devices \cup {Null}

ASSUME FactoryAssumption ==
  /\ Null \notin Devices /\ NoThread \notin Threads
  /\ Outcomes \subseteq AllOutcomes /\ Serialized \in BOOLEAN

VARIABLES
  allocated,  \* m_allocatedDevices: absent, building (m_pDevice is 0) or ready
  held,       \* m_heldNodes: the pointers that have a node in it
  node,       \* node[p]: the root node of device p: none, live or dead
  object,     \* the device objects that exist
  mutex, initMutex,  \* holders of m_mutex and m_initializationMutex
  pc,         \* where a thread has got to
  asked,      \* asked[t]: the device, or Null, that t's call is about
  pointer,    \* pointer[t]: the device pointer t works on
  orphans,    \* devices whose driver threw after initializing the root node
  closed      \* preDelete has been called

deviceVars == <<allocated, held, node, object, mutex, initMutex, pc, asked, pointer, orphans, closed>>

-----------------------------------------------------------------------------
Creating   == {"construct", "init", "hold", "publish", "fail"}
Destroying == {"destroy", "deinit", "deallocate", "release", "close"}

Goto(t, l) == pc' = [pc EXCEPT ![t] = l]

\* A lock_guard of a single statement block: taken and released in the step.
Factory == mutex = NoThread /\ UNCHANGED mutex

\* A call starts.
Start(t, d, p, l) ==
  /\ pc[t] = "idle" /\ ~closed
  /\ Serialized => \A s \in Threads : pc[s] \notin IF l \in Creating THEN Destroying ELSE Creating
  /\ Goto(t, l)
  /\ asked' = [asked EXCEPT ![t] = d]
  /\ pointer' = [pointer EXCEPT ![t] = p]

DevicesInit ==
  /\ allocated = [d \in Devices |-> "absent"]
  /\ held      = {}
  /\ node      = [p \in Pointers |-> "none"]
  /\ object    = {}
  /\ mutex     = NoThread /\ initMutex = NoThread
  /\ pc        = [t \in Threads |-> "idle"]
  /\ asked     = [t \in Threads |-> Null]
  /\ pointer   = [t \in Threads |-> Null]
  /\ orphans   = {}
  /\ closed    = FALSE

-----------------------------------------------------------------------------
(* createDevice                                                             *)

\* The name is taken, with a null pointer for the time being; if it is taken
\* already DeviceAlreadyCreated is thrown.
Reserve(t, d) ==
  /\ Factory /\ allocated[d] = "absent"
  /\ Start(t, d, d, "construct")
  /\ allocated' = [allocated EXCEPT ![d] = "building"]
  /\ UNCHANGED <<held, node, object, initMutex, orphans, closed>>

\* The allocation function creates the device object, or throws.
Construct(t) ==
  /\ pc[t] = "construct"
  /\ \/ /\ Outcomes # {"fails"}
        /\ object' = object \cup {pointer[t]} /\ Goto(t, "init")
     \/ /\ "fails" \in Outcomes
        /\ Goto(t, "fail") /\ UNCHANGED object
  /\ UNCHANGED <<allocated, held, node, mutex, initMutex, asked, pointer, orphans, closed>>

\* A root node without a device is initialized.
InitializeLoose(t) ==
  /\ node[Null] = "none" /\ \A s \in Threads : ~(pc[s] = "init" /\ pointer[s] = Null)
  /\ Start(t, Null, Null, "init")
  /\ UNCHANGED <<allocated, held, node, object, mutex, initMutex, orphans, closed>>

\* Mutant of InitializeNode: an exception leaves the static mutex locked.
Mut_InitializeLocked(t) ==
  /\ pc[t] = "init" /\ initMutex = NoThread
  /\ initMutex' = t
  /\ \/ /\ node' = [node EXCEPT ![pointer[t]] = "live"]
        /\ Goto(t, "hold")
        /\ UNCHANGED object
     \/ /\ "fails in initialize" \in Outcomes /\ pointer[t] # Null
        /\ object' = object \ {pointer[t]}
        /\ Goto(t, "fail")
        /\ UNCHANGED node
  /\ UNCHANGED <<allocated, held, mutex, asked, pointer, orphans, closed>>

\* initializeRootNode: the node and all below it are registered, or an
\* exception leaves it and the constructor of the device.
InitializeNode(t) ==
  /\ pc[t] = "init" /\ initMutex = NoThread
  /\ \/ /\ node' = [node EXCEPT ![pointer[t]] = "live"]
        /\ initMutex' = t
        /\ Goto(t, "hold")
        /\ UNCHANGED object
     \/ /\ "fails in initialize" \in Outcomes /\ pointer[t] # Null
        /\ object' = object \ {pointer[t]}
        /\ Goto(t, "fail")
        /\ UNCHANGED <<node, initMutex>>
  /\ UNCHANGED <<allocated, held, mutex, asked, pointer, orphans, closed>>

\* holdNode, called with m_initializationMutex locked.  The allocation function
\* may still throw once the root node is held: the node stays.
HoldNode(t) ==
  /\ pc[t] = "hold" /\ Factory
  /\ held' = held \cup {pointer[t]}
  /\ initMutex' = NoThread
  /\ \/ /\ Goto(t, IF pointer[t] = Null THEN "idle" ELSE "publish")
        /\ UNCHANGED <<object, orphans>>
     \/ /\ "fails after initialize" \in Outcomes /\ pointer[t] # Null
        /\ object' = object \ {pointer[t]}
        /\ orphans' = orphans \cup {pointer[t]}
        /\ Goto(t, "fail")
  /\ UNCHANGED <<allocated, node, asked, pointer, closed>>

Publish(t) ==
  /\ pc[t] = "publish" /\ Factory
  /\ allocated' = [allocated EXCEPT ![asked[t]] = "ready"]
  /\ Goto(t, "idle")
  /\ UNCHANGED <<held, node, object, initMutex, asked, pointer, orphans, closed>>

\* Mutant of Fail: the name stays taken.
Mut_FailReserved(t) ==
  /\ pc[t] = "fail" /\ Factory
  /\ Goto(t, "idle")
  /\ UNCHANGED <<allocated, held, node, object, initMutex, asked, pointer, orphans, closed>>

\* catch(...): the name is given back and the exception thrown on.
Fail(t) ==
  /\ pc[t] = "fail" /\ Factory
  /\ allocated' = [allocated EXCEPT ![asked[t]] = "absent"]
  /\ Goto(t, "idle")
  /\ UNCHANGED <<held, node, object, initMutex, asked, pointer, orphans, closed>>

-----------------------------------------------------------------------------
(* destroyDevice                                                            *)

\* By name: the pointer is looked up first, null while the device is being
\* created.  DeviceNotAllocated is thrown if there is no such device.
Find(t, d) ==
  /\ Factory /\ allocated[d] # "absent"
  /\ Start(t, d, IF allocated[d] = "ready" THEN d ELSE Null, "destroy")
  /\ UNCHANGED <<allocated, held, node, object, initMutex, orphans, closed>>

\* With an empty name: the nodes without a device are destroyed.
DestroyLoose(t) ==
  /\ Start(t, Null, Null, "destroy")
  /\ UNCHANGED <<allocated, held, node, object, mutex, initMutex, orphans, closed>>

LockFactory(t) ==
  /\ pc[t] = "destroy" /\ mutex = NoThread
  /\ mutex' = t
  /\ Goto(t, "deinit")
  /\ UNCHANGED <<allocated, held, node, object, initMutex, asked, pointer, orphans, closed>>

\* Mutants of Deinitialize: the nodes are left to their destructors; all
\* the held nodes are gone through.
Mut_DeinitializeNothing(t) ==
  /\ pc[t] = "deinit"
  /\ Goto(t, "deallocate")
  /\ UNCHANGED <<allocated, held, node, object, mutex, initMutex, asked, pointer, orphans, closed>>

Mut_DeinitializeAll(t) ==
  /\ pc[t] = "deinit" /\ initMutex = NoThread
  /\ node' = [p \in Pointers |-> IF p \in held THEN "dead" ELSE node[p]]
  /\ Goto(t, "deallocate")
  /\ UNCHANGED <<allocated, held, object, mutex, initMutex, asked, pointer, orphans, closed>>

\* deinitializeRootNode of the nodes held for the device.
Deinitialize(t) ==
  /\ pc[t] = "deinit"
  /\ IF pointer[t] \in held
       THEN /\ initMutex = NoThread
            /\ node' = [node EXCEPT ![pointer[t]] = "dead"]
       ELSE UNCHANGED node
  /\ Goto(t, "deallocate")
  /\ UNCHANGED <<allocated, held, object, mutex, initMutex, asked, pointer, orphans, closed>>

\* The entries whose pointer is this one: a device being created has a null one.
Entries(p) ==
  IF p = Null THEN { d \in Devices : allocated[d] = "building" }
  ELSE { d \in {p} : allocated[d] = "ready" }

\* The first entry with the pointer is deallocated and erased.  The function of
\* a device that is being created is still empty: std::bad_function_call leaves
\* destroyDevice, which releases m_mutex and leaves the held nodes as they are.
Deallocate(t) ==
  /\ pc[t] = "deallocate"
  /\ IF Entries(pointer[t]) = {}
       THEN Goto(t, "release") /\ UNCHANGED <<allocated, object, mutex>>
     ELSE IF pointer[t] = Null
       THEN Goto(t, "idle") /\ mutex' = NoThread /\ UNCHANGED <<allocated, object>>
     ELSE /\ allocated' = [allocated EXCEPT ![pointer[t]] = "absent"]
          /\ object' = object \ {pointer[t]}
          /\ Goto(t, "release")
          /\ UNCHANGED mutex
  /\ UNCHANGED <<held, node, initMutex, asked, pointer, orphans, closed>>

\* The held nodes are released, and m_mutex.
Release(t) ==
  /\ pc[t] = "release"
  /\ held' = held \ {pointer[t]}
  /\ node' = IF pointer[t] \in held THEN [node EXCEPT ![pointer[t]] = "none"] ELSE node
  /\ mutex' = NoThread
  /\ Goto(t, "idle")
  /\ orphans' = orphans \ {pointer[t]}
  /\ UNCHANGED <<allocated, object, initMutex, asked, pointer, closed>>

-----------------------------------------------------------------------------
(* preDelete, when NDS shuts down and nothing else is going on.             *)

PreDelete(t) ==
  /\ \A s \in Threads : pc[s] = "idle"
  /\ Start(t, Null, Null, "close")
  /\ closed' = TRUE
  /\ mutex' = t
  /\ UNCHANGED <<allocated, held, node, object, initMutex, orphans>>

CloseNode(t, p) ==
  /\ pc[t] = "close" /\ p \in held /\ node[p] = "live"
  /\ initMutex = NoThread
  /\ node' = [node EXCEPT ![p] = "dead"]
  /\ UNCHANGED <<allocated, held, object, mutex, initMutex, pc, asked, pointer, orphans, closed>>

\* m_heldNodes is cleared, the devices are deallocated; m_allocatedDevices is
\* left as it is.
CloseDevices(t) ==
  /\ pc[t] = "close" /\ \A p \in held : node[p] # "live"
  /\ node' = [p \in Pointers |-> IF p \in held THEN "none" ELSE node[p]]
  /\ held' = {}
  /\ object' = { d \in object : allocated[d] = "absent" }
  /\ mutex' = NoThread
  /\ Goto(t, "idle")
  /\ orphans' = {}
  /\ UNCHANGED <<allocated, initMutex, asked, pointer, closed>>

Shut == closed /\ (\A t \in Threads : pc[t] = "idle") /\ UNCHANGED deviceVars

Step(t) ==
  \/ Construct(t) \/ InitializeNode(t) \/ HoldNode(t) \/ Publish(t) \/ Fail(t)
  \/ LockFactory(t) \/ Deinitialize(t) \/ Deallocate(t) \/ Release(t)
  \/ CloseDevices(t)
  \/ \E p \in Pointers : CloseNode(t, p)

DevicesNext ==
  \/ \E t \in Threads :
       \/ \E d \in Devices : Reserve(t, d) \/ Find(t, d)
       \/ InitializeLoose(t) \/ DestroyLoose(t) \/ PreDelete(t)
       \/ Step(t)
  \/ Shut

DevicesSpec == DevicesInit /\ [][DevicesNext]_deviceVars

\* A thread inside a call goes on with it.
FairSpec == DevicesSpec /\ \A t \in Threads : WF_deviceVars(Step(t))

-----------------------------------------------------------------------------
(* Properties                                                               *)

\* The maps and the threads' places are well formed; m_mutex is held exactly
\* from a destruction's lock to its last step, m_initializationMutex from the
\* initialization of a node until it is held.
TypeOK ==
  /\ allocated \in [Devices -> {"absent", "building", "ready"}]
  /\ held \subseteq Pointers
  /\ node \in [Pointers -> {"none", "live", "dead"}]
  /\ object \subseteq Devices
  /\ mutex \in Threads \cup {NoThread} /\ initMutex \in Threads \cup {NoThread}
  /\ pc \in [Threads -> {"idle"} \cup Creating \cup Destroying]
  /\ asked \in [Threads -> Pointers] /\ pointer \in [Threads -> Pointers]
  /\ orphans \subseteq Devices /\ closed \in BOOLEAN
  /\ \A t \in Threads :
       /\ mutex = t <=> pc[t] \in {"deinit", "deallocate", "release", "close"}
       /\ initMutex = t <=> pc[t] = "hold"

\* No node is live without its device object, to which its delegates are bound,
\* unless the driver threw between the two.
NodesDieFirst == \A d \in Devices \ orphans : node[d] = "live" => d \in object

\* Between the calls the two maps, the objects and the nodes tell the same:
\* failed creations leave nothing behind, nor do destructions.
MapsAgree ==
  ~closed /\ (\A t \in Threads : pc[t] = "idle") =>
    \A d \in Devices \ orphans :
      /\ allocated[d] # "building"
      /\ allocated[d] = "ready" <=> d \in object
      /\ allocated[d] = "ready" <=> d \in held
      /\ d \in held <=> node[d] = "live"

\* "Destroy a device created with createDevice()", by "the name given to the
\* device" (factory.h:118-120): the nodes of nothing else are touched.
DestroysWhatWasAsked ==
  [][\A t \in Threads : Deinitialize(t) =>
       \A p \in Pointers : node'[p] # node[p] => p = asked[t]]_deviceVars

\* Once no new ones come, all calls end: the factory's functions serve
\* "create a device" and "destroy a device created with createDevice()"
\* (factory.h:104-122), and neither waits for ever.
NoNewCall == \A t \in Threads : pc[t] = "idle" => pc'[t] = "idle"

CallsReturn ==
  <>[][NoNewCall]_deviceVars => \A t \in Threads : pc[t] # "idle" ~> pc[t] = "idle"
=============================================================================

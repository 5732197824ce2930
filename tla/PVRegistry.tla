----------------------------- MODULE PVRegistry -----------------------------
(***************************************************************************)
(* NdsFactoryImpl's register of PVs and the links between them: register,  *)
(* deregister, subscribe, unsubscribe, replicate and stopReplicationTo,    *)
(* while other threads push values along the links.                        *)
(*                                                                         *)
(* Every operation holds m_lockRegisteredPVs from start to end (the mutex  *)
(* is recursive, the overloads that look a name up call the others inside) *)
(* and takes the m_lockSubscribersList of one input PV after the other.  A *)
(* push takes only the latter; see PVPush for the rest of what it does.    *)
(* Nothing but raw pointers is kept of a PV, which may be freed as soon as *)
(* its deregistration returns.                                             *)
(***************************************************************************)
EXTENDS Naturals, Sequences, FiniteSets, SequencesExt

CONSTANTS
  Threads,    \* control system threads and device threads
  Inputs, Outputs,
  Names,
  Name,       \* Name[p]: getFullName; two PVs may have the same
  Requests,   \* pairs <<i, p>> that someone asks to link, without cycles
  NoThread, NoPV

PVs == Inputs \cup Outputs

ASSUME RegistryAssumption ==
  /\ Inputs \cap Outputs = {} /\ NoPV \notin PVs /\ NoThread \notin Threads
  /\ Name \in [PVs -> Names]
  /\ Requests \subseteq Inputs \X PVs

VARIABLES
  life,      \* life[p]: built, registered, rejected or gone
  registry,  \* m_registeredInputPVs and m_registeredOutputPVs, by name
  links,     \* links[i]: m_subscriberOutputPVs and m_replicationDestinationPVs
  listLock,  \* the holder of an input's m_lockSubscribersList
  op,        \* the operation that holds m_lockRegisteredPVs, or NoOp
  stack      \* stack[t]: the pushes t is in, innermost last

vars == <<life, registry, links, listLock, op, stack>>

-----------------------------------------------------------------------------
NoOp == [by |-> NoThread, kind |-> "none", pv |-> NoPV, todo |-> {}]

Registered(p) == registry[Name[p]] = p
RegisteredInputs == { i \in Inputs : Registered(i) }

\* A thread is either in an operation or in a push.
Free(t) == op.by # t /\ stack[t] = <<>>

\* t holds m_lockRegisteredPVs, and has these input PVs left to go through.
Operation(t, kind, p, todo) == [by |-> t, kind |-> kind, pv |-> p, todo |-> todo]

Init ==
  /\ life     = [p \in PVs |-> "built"]
  /\ registry = [n \in Names |-> NoPV]
  /\ links    = [i \in Inputs |-> {}]
  /\ listLock = [i \in Inputs |-> NoThread]
  /\ op       = NoOp
  /\ stack    = [t \in Threads |-> <<>>]

-----------------------------------------------------------------------------
(* Operations.                                                              *)

\* Mutant of Register: the second PV of a name takes the place of the first.
Mut_RegisterTwice(t, p) ==
  /\ Free(t) /\ op = NoOp
  /\ life[p] = "built"
  /\ life' = [life EXCEPT ![p] = "registered"]
  /\ registry' = [registry EXCEPT ![Name[p]] = p]
  /\ UNCHANGED <<links, listLock, op, stack>>

\* registerInputPV, registerOutputPV: PVAlreadyDeclared if the name is taken
\* in either map.
Register(t, p) ==
  /\ Free(t) /\ op = NoOp
  /\ life[p] = "built"
  /\ IF registry[Name[p]] = NoPV
       THEN /\ life' = [life EXCEPT ![p] = "registered"]
            /\ registry' = [registry EXCEPT ![Name[p]] = p]
       ELSE /\ life' = [life EXCEPT ![p] = "rejected"]
            /\ UNCHANGED registry
  /\ UNCHANGED <<links, listLock, op, stack>>

Pushing(i) == \E t \in Threads : stack[t] # <<>> /\ stack[t][1].pv = i

\* Mutant of Deregister: the links to the PV are left to unsubscribe.
Mut_DeregisterOnly(t, p) ==
  /\ Free(t) /\ op = NoOp
  /\ life[p] = "registered" /\ ~Pushing(p)
  /\ registry' = [registry EXCEPT ![Name[p]] = NoPV]
  /\ op' = Operation(t, "deregister", p, {})
  /\ UNCHANGED <<life, links, listLock, stack>>

\* deregisterInputPV, deregisterOutputPV, once the device has stopped pushing
\* on the PV: erases whatever has the PV's name, then goes through the input
\* PVs that are left.
Deregister(t, p) ==
  /\ Free(t) /\ op = NoOp
  /\ life[p] = "registered" /\ ~Pushing(p)
  /\ registry' = [registry EXCEPT ![Name[p]] = NoPV]
  /\ op' = Operation(t, "deregister", p, { i \in RegisteredInputs : Name[i] # Name[p] })
  /\ UNCHANGED <<life, links, listLock, stack>>

\* Mutant of Link: the sanity check looks only whether the name is known.
Mut_LinkByName(t, n, p) ==
  /\ Free(t) /\ op = NoOp
  /\ life[p] # "gone"
  /\ registry[n] \in Inputs
  /\ registry[Name[p]] # NoPV
  /\ op' = Operation(t, "link", p, {registry[n]})
  /\ UNCHANGED <<life, registry, links, listLock, stack>>

\* subscribe, replicate, with the receiver itself as argument: it must be the
\* PV registered under its name, and the source's name that of an input PV;
\* an exception otherwise.
Link(t, n, p) ==
  /\ Free(t) /\ op = NoOp
  /\ life[p] # "gone"
  /\ registry[n] \in Inputs
  /\ Registered(p)
  /\ op' = Operation(t, "link", p, {registry[n]})
  /\ UNCHANGED <<life, registry, links, listLock, stack>>

\* unsubscribe, stopReplicationTo: all the registered inputs are gone through.
Unlink(t, p) ==
  /\ Free(t) /\ op = NoOp
  /\ life[p] # "gone"
  /\ op' = Operation(t, "unlink", p, RegisteredInputs)
  /\ UNCHANGED <<life, registry, links, listLock, stack>>

\* Mutant of Visit: the list of the input PV is changed without its lock.
Mut_VisitUnlocked(i) ==
  /\ i \in op.todo
  /\ links' = [links EXCEPT ![i] = IF op.kind = "link" THEN @ \cup {op.pv} ELSE @ \ {op.pv}]
  /\ op' = [op EXCEPT !.todo = @ \ {i}]
  /\ UNCHANGED <<life, registry, listLock, stack>>

\* subscribeReceiver, replicateTo, unsubscribeReceiver, stopReplicationTo of
\* the next input PV: one change under the input's list lock.
Visit(i) ==
  /\ i \in op.todo
  /\ listLock[i] = NoThread
  /\ links' = [links EXCEPT ![i] = IF op.kind = "link" THEN @ \cup {op.pv} ELSE @ \ {op.pv}]
  /\ op' = [op EXCEPT !.todo = @ \ {i}]
  /\ UNCHANGED <<life, registry, listLock, stack>>

\* m_lockRegisteredPVs is released.
FinishOperation ==
  /\ op # NoOp /\ op.todo = {}
  /\ op' = NoOp
  /\ life' = IF op.kind = "deregister" THEN [life EXCEPT ![op.pv] = "gone"] ELSE life
  /\ UNCHANGED <<registry, links, listLock, stack>>

-----------------------------------------------------------------------------
(* Pushes along the links.                                                  *)

Frame(i) == [pv |-> i, at |-> "lock", todo |-> {}]

Top(t) == Last(stack[t])
Within(t, place) == stack[t] # <<>> /\ Top(t).at = place

\* A device pushes on a PV of its own.
Push(t, i) ==
  /\ Free(t)
  /\ life[i] = "registered" /\ ~Pushing(i)
  /\ ~(op.kind = "deregister" /\ op.pv = i)
  /\ stack' = [stack EXCEPT ![t] = <<Frame(i)>>]
  /\ UNCHANGED <<life, registry, links, listLock, op>>

LockList(t) ==
  /\ Within(t, "lock")
  /\ listLock[Top(t).pv] = NoThread
  /\ listLock' = [listLock EXCEPT ![Top(t).pv] = t]
  /\ stack' = [stack EXCEPT ![t] =
       Append(Front(@), [Top(t) EXCEPT !.at = "fan", !.todo = links[Top(t).pv]])]
  /\ UNCHANGED <<life, registry, links, op>>

\* The next receiver: an output is written, an input pushed on.
Deliver(t, p) ==
  /\ Within(t, "fan") /\ p \in Top(t).todo
  /\ LET rest == Append(Front(stack[t]), [Top(t) EXCEPT !.todo = @ \ {p}])
     IN stack' = [stack EXCEPT ![t] = IF p \in Inputs THEN Append(rest, Frame(p)) ELSE rest]
  /\ UNCHANGED <<life, registry, links, listLock, op>>

\* Mutant of Return: an empty list is left without unlocking it.
Mut_ReturnLocked(t) ==
  /\ Within(t, "fan") /\ Top(t).todo = {}
  /\ listLock' = IF links[Top(t).pv] = {} THEN listLock
                 ELSE [listLock EXCEPT ![Top(t).pv] = NoThread]
  /\ stack' = [stack EXCEPT ![t] = Front(@)]
  /\ UNCHANGED <<life, registry, links, op>>

Return(t) ==
  /\ Within(t, "fan") /\ Top(t).todo = {}
  /\ listLock' = [listLock EXCEPT ![Top(t).pv] = NoThread]
  /\ stack' = [stack EXCEPT ![t] = Front(@)]
  /\ UNCHANGED <<life, registry, links, op>>

-----------------------------------------------------------------------------
\* Everything has been deregistered.
Finished ==
  /\ \A p \in PVs : life[p] \in {"gone", "rejected"}
  /\ UNCHANGED vars

Work(t) ==
  \/ op.by = t /\ ((\E i \in Inputs : Visit(i)) \/ FinishOperation)
  \/ LockList(t) \/ Return(t)
  \/ \E p \in PVs : Deliver(t, p)

Next ==
  \/ \E t \in Threads :
       \/ \E p \in PVs : Register(t, p) \/ Deregister(t, p) \/ Unlink(t, p)
       \/ \E r \in Requests : Link(t, Name[r[1]], r[2])
       \/ \E i \in Inputs : Push(t, i)
       \/ Work(t)
  \/ Finished

Spec == Init /\ [][Next]_vars

\* A thread that is inside an operation or a push goes on with it.
FairSpec == Spec /\ \A t \in Threads : WF_vars(Work(t))

-----------------------------------------------------------------------------
(* Properties                                                               *)

\* The maps, the lists and the calls under way are well formed.
TypeOK ==
  /\ life \in [PVs -> {"built", "registered", "rejected", "gone"}]
  /\ registry \in [Names -> PVs \cup {NoPV}]
  /\ links \in [Inputs -> SUBSET PVs]
  /\ listLock \in [Inputs -> Threads \cup {NoThread}]
  /\ op \in [by : Threads \cup {NoThread}, kind : {"none", "link", "unlink", "deregister"},
             pv : PVs \cup {NoPV}, todo : SUBSET Inputs]
  /\ \A t \in Threads : \A f \in ToSet(stack[t]) :
       f \in [pv : Inputs, at : {"lock", "fan"}, todo : SUBSET PVs]

\* The register knows exactly the PVs that were accepted and not deregistered,
\* each under its own name: no PV is lost to another one of the same name.
NamesAgree ==
  op = NoOp =>
    /\ \A p \in PVs : life[p] = "registered" <=> Registered(p)
    /\ \A n \in Names : registry[n] # NoPV => Name[registry[n]] = n

\* No pointer to a PV whose deregistration has returned is left in the list of
\* a registered input, nor in what a push still has to go through.
NothingGoneIsReachable ==
  /\ \A i \in RegisteredInputs : \A p \in links[i] : life[p] # "gone"
  /\ \A t \in Threads : \A f \in ToSet(stack[t]) :
       \A p \in f.todo \cup {f.pv} : life[p] # "gone"

\* A push goes through the list as it is when it takes the lock, to the end.
FanOutIsStable ==
  \A t \in Threads : \A f \in ToSet(stack[t]) :
    f.at = "fan" => /\ listLock[f.pv] = t
                    /\ f.todo \subseteq links[f.pv]

\* Every operation and every push comes to an end, once the devices leave the
\* list locks alone: nobody waits for a lock whose holder waits for him.
NoNewPush == ~\E t \in Threads, i \in Inputs : Push(t, i)

EverythingReturns ==
  <>[][NoNewPush]_vars =>
    \A t \in Threads : op.by = t \/ stack[t] # <<>> ~> Free(t)

\* The operations take effect one at a time: PVDirectory, an operation that
\* ends links counting from its first step and one that makes a link from the
\* step that makes it.
Ending == op.kind \in {"unlink", "deregister"}

Directory == INSTANCE PVDirectory WITH
  feeds <- { l \in RegisteredInputs \X PVs :
               l[2] \in links[l[1]] /\ ~(Ending /\ l[2] = op.pv) }

ImplementsDirectory == Directory!Spec
=============================================================================

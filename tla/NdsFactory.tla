----------------------------- MODULE NdsFactory -----------------------------
(***************************************************************************)
(* NdsFactoryImpl: the one object of the process that loads the control    *)
(* systems and the drivers, knows them by name, and hands them out         *)
(* (src/ndsFactoryImpl.cpp:29-179, 393-411).                               *)
(*                                                                         *)
(* It is constructed by the first thread that asks for it, and destroyed   *)
(* when the process exits.  A control system is an object that lives as    *)
(* long as the factory's map or a client's Factory refers to it; the rest  *)
(* of what it does with a device is in DeviceFactory.                      *)
(***************************************************************************)
EXTENDS ModuleFolders

CONSTANTS
  Threads,
  Systems,         \* control system objects (addresses, which may be used again)
  Devices,
  Files,           \* module files
  About,           \* About[f]: what file f is, see AboutFile
  SystemFiles,     \* files named lib*NdsControlSystem[.so]
  DriverFiles,     \* files named lib*NdsDevice.so
  SystemFolders,   \* the values of LD_LIBRARY_PATH and NDS_CONTROL_SYSTEMS
  DriverFolders,   \* ... of LD_LIBRARY_PATH and NDS_DEVICES
  Declared,        \* the folders that these name
  Here,            \* the folder "."
  Folders,         \* the folders of the disk: a function to sets of files
  LateFolders,     \* those of them that appear while the process runs
  Linked,          \* drivers that are part of the program: file names of their own
  Calls,           \* what clients ask for, see the actions
  Replaces,        \* whether clients register systems under names that are taken
  NameOrder,       \* the names of control systems, in order
  None

\* opens: dlopen succeeds; driver and system: what the functions it exports name,
\* or None; static: it has a RegisterDevice object (NDS_DEFINE_DRIVER).
AboutFile == [opens : BOOLEAN, driver : STRING \cup {None}, system : STRING \cup {None},
              static : BOOLEAN]

ASSUME NdsFactoryAssumption ==
  /\ About \in [Files -> AboutFile]
  /\ SystemFiles \subseteq Files /\ DriverFiles \subseteq Files /\ Linked \subseteq Files
  /\ {SystemFolders, DriverFolders} \subseteq Seq(Seq(STRING))
  /\ \A d \in DOMAIN Folders : IsFiniteSet(Folders[d])
  /\ Replaces \in BOOLEAN /\ LateFolders \subseteq DOMAIN Folders
  /\ None \notin Threads \cup Files \cup Systems
  /\ \A c \in Calls :
       /\ c.op \in {"register driver", "load"} => c.file \in Files
       /\ c.op \in {"create", "destroy"} => c.device \in Devices

VARIABLES
  instance,  \* "none", "constructing", "ready", "destroyed" or "terminated"
  builder,   \* the thread that constructs it
  stage,     \* where its constructor is
  todo,      \* the files it has still to load
  disk,      \* the folders that exist
  opened,    \* the modules of the process, in the order they were opened
  drivers,   \* m_driversAllocDealloc: the file whose functions are registered
  systems,   \* m_controlSystems
  pc, call,  \* per thread: where its call is, and which one it is
  handle,    \* handle[t]: the control system t's Factory object refers to
  device     \* device[d]: the system it is in, the modules of its two functions

processVars == <<instance, builder, stage, todo, disk, opened, drivers, systems>>
clientVars  == <<pc, call, handle, device>>
ndsVars     == <<processVars, clientVars>>

-----------------------------------------------------------------------------
NoDevice == [state |-> "absent", system |-> None, alloc |-> None, dealloc |-> None]

Put(map, key, value) ==
  [k \in DOMAIN map \cup {key} |-> IF k = key THEN value ELSE map[k]]

Contents == [f \in disk |-> Folders[f]]

Path(lists) == <<Here>> \o FlattenSeq([i \in DOMAIN lists |-> SeparateFolders(lists[i])])
SystemPath == Path(SystemFolders)
DriverPath == Path(DriverFolders)

\* Control systems that something refers to.
Alive == (Range(systems) \cup Range(handle)) \ {None}

Made(d) == device[d].state = "made"

\* The module whose function dlsym finds: of one that could not be opened the
\* handle is null, and dlsym then looks through all (RTLD_DEFAULT).
Exporting(file, what) ==
  LET with == { i \in DOMAIN opened : About[opened[i]][what] # None }
  IN IF About[file].opens \/ with = {} THEN file ELSE opened[Min(with)]

Exports(file, what) ==
  LET f == Exporting(file, what) IN About[f].opens /\ About[f][what] # None

AddOpened(file) ==
  IF About[file].opens /\ file \notin Range(opened) THEN Append(opened, file) ELSE opened

\* A module's static objects are constructed the first time it is opened.
Registers(file) == About[file].opens /\ About[file].static /\ file \notin Range(opened)

Goto(t, l) == pc' = [pc EXCEPT ![t] = l]

InitNds ==
  /\ instance = "none" /\ builder = None /\ stage = "start" /\ todo = <<>>
  /\ disk = DOMAIN Folders \ LateFolders
  /\ opened = <<>> /\ drivers = <<>> /\ systems = <<>>
  /\ pc = [t \in Threads |-> "idle"] /\ call = [t \in Threads |-> None]
  /\ handle = [t \in Threads |-> None]
  /\ device = [d \in Devices |-> NoDevice]

\* The environment: a folder is made.
MakeFolder ==
  /\ \E f \in LateFolders \ disk : disk' = disk \cup {f}
  /\ UNCHANGED <<instance, builder, stage, todo, opened, drivers, systems, clientVars>>

-----------------------------------------------------------------------------
(* getInstance and the constructor                                          *)

Enter(t, c) ==
  /\ pc[t] = "idle" /\ instance \notin {"destroyed", "terminated"}
  /\ c.op \in {"create", "destroy"} => handle[t] # None
  /\ ~Replaces /\ c.op = "register system" =>
       c.name \notin DOMAIN systems /\ \A s \in Threads : call[s] # c
  /\ Goto(t, IF instance = "ready" THEN "called" ELSE "entering")
  /\ call' = [call EXCEPT ![t] = c]
  /\ UNCHANGED <<processVars, handle, device>>

\* The object is there; a thread that comes while another one constructs it waits.
Pass(t) ==
  /\ pc[t] = "entering" /\ instance = "ready"
  /\ Goto(t, "called")
  /\ UNCHANGED <<processVars, call, handle, device>>

\* The constructor throws: nothing is left but the modules that were opened
\* (RTLD_NODELETE), and the next thread that enters constructs it anew.
Throw(t) ==
  /\ instance' = "none" /\ builder' = None /\ stage' = "start" /\ todo' = <<>>
  /\ drivers' = <<>> /\ systems' = <<>>
  /\ Goto(t, "idle") /\ call' = [call EXCEPT ![t] = None]

\* The constructor starts with the control systems' folders.
Begin(t) ==
  /\ pc[t] = "entering" /\ instance = "none"
  /\ IF CanList(SystemPath, Contents)
       THEN /\ todo' \in FileLists(SystemPath, Contents, SystemFiles)
            /\ instance' = "constructing" /\ builder' = t /\ stage' = "systems"
            /\ Goto(t, "constructing")
            /\ UNCHANGED <<drivers, systems, call>>
       ELSE Throw(t)
  /\ UNCHANGED <<disk, opened, handle, device>>

\* Mutant of LoadSystem: a module that is open already is not asked again.
Mut_LoadSystemOnce(t) ==
  /\ pc[t] = "constructing" /\ stage = "systems" /\ todo # <<>>
  /\ LET file == Head(todo) IN
     /\ opened' = AddOpened(file)
     /\ IF Exports(file, "system") /\ file \notin Range(opened)
          THEN \E s \in Systems \ Alive :
                 /\ s = CHOOSE x \in Systems \ Alive : TRUE
                 /\ systems' = Put(systems, About[Exporting(file, "system")].system, s)
          ELSE UNCHANGED systems
  /\ todo' = Tail(todo)
  /\ UNCHANGED <<instance, builder, stage, disk, drivers, clientVars>>

\* A module that does not export allocateControlSystem is skipped.  The first
\* free address is as good as any.
LoadSystem(t) ==
  /\ pc[t] = "constructing" /\ stage = "systems" /\ todo # <<>>
  /\ LET file == Head(todo) IN
     /\ opened' = AddOpened(file)
     /\ IF Exports(file, "system")
          THEN \E s \in Systems \ Alive :
                 /\ s = CHOOSE x \in Systems \ Alive : TRUE
                 /\ systems' = Put(systems, About[Exporting(file, "system")].system, s)
          ELSE UNCHANGED systems
  /\ todo' = Tail(todo)
  /\ UNCHANGED <<instance, builder, stage, disk, drivers, clientVars>>

\* Then the drivers' folders.
ListDrivers(t) ==
  /\ pc[t] = "constructing" /\ stage = "systems" /\ todo = <<>>
  /\ IF CanList(DriverPath, Contents)
       THEN /\ todo' \in FileLists(DriverPath, Contents, DriverFiles)
            /\ stage' = "drivers"
            /\ UNCHANGED <<instance, builder, drivers, systems, pc, call>>
       ELSE Throw(t)
  /\ UNCHANGED <<disk, opened, handle, device>>

\* loadDriver of a file that was found; one that does not export the three
\* functions is skipped.  A static RegisterDevice calls getInstance, whose object
\* is under construction in this thread: the call never returns.
LoadScanned(t) ==
  /\ pc[t] = "constructing" /\ stage = "drivers" /\ todo # <<>>
  /\ LET file == Head(todo) IN
     IF Registers(file)
       THEN Goto(t, "stuck") /\ UNCHANGED <<opened, drivers, todo>>
       ELSE /\ opened' = AddOpened(file)
            /\ drivers' = IF Exports(file, "driver")
                            THEN LET f == Exporting(file, "driver") IN Put(drivers, About[f].driver, f)
                            ELSE drivers
            /\ todo' = Tail(todo)
            /\ UNCHANGED pc
  /\ UNCHANGED <<instance, builder, stage, disk, systems, call, handle, device>>

Constructed(t) ==
  /\ pc[t] = "constructing" /\ stage = "drivers" /\ todo = <<>>
  /\ instance' = "ready" /\ builder' = None
  /\ Goto(t, "called")
  /\ UNCHANGED <<stage, todo, disk, opened, drivers, systems, call, handle, device>>

-----------------------------------------------------------------------------
(* Calls                                                                    *)

Doing(t, op) == pc[t] = "called" /\ call[t].op = op
Return(t)    == Goto(t, "idle") /\ call' = [call EXCEPT ![t] = None]

\* registerDriver of a linked driver: the functions of a name are replaced.
RegisterDriver(t) ==
  /\ Doing(t, "register driver")
  /\ drivers' = Put(drivers, About[call[t].file].driver, call[t].file)
  /\ Return(t)
  /\ UNCHANGED <<instance, builder, stage, todo, disk, opened, systems, handle, device>>

\* loadDriver: the module is opened, and may register itself ...
OpenDriver(t) ==
  /\ Doing(t, "load")
  /\ LET file == call[t].file IN
     /\ opened' = AddOpened(file)
     /\ drivers' = IF Registers(file) THEN Put(drivers, About[file].driver, file) ELSE drivers
  /\ Goto(t, "opened")
  /\ UNCHANGED <<instance, builder, stage, todo, disk, systems, call, handle, device>>

\* ... and is registered by the functions it exports, or
\* DriverDoesNotExportRegistrationFunctions is thrown.
RegisterLoaded(t) ==
  /\ pc[t] = "opened"
  /\ drivers' = IF Exports(call[t].file, "driver")
                  THEN LET f == Exporting(call[t].file, "driver") IN Put(drivers, About[f].driver, f)
                  ELSE drivers
  /\ Return(t)
  /\ UNCHANGED <<instance, builder, stage, todo, disk, opened, systems, handle, device>>

\* registerControlSystem of an object that the client made; it replaces the one
\* that has its name.
RegisterControlSystem(t) ==
  /\ Doing(t, "register system")
  /\ \E s \in Systems \ Alive :
       /\ s = CHOOSE x \in Systems \ Alive : TRUE
       /\ systems' = Put(systems, call[t].name, s)
  /\ Return(t)
  /\ UNCHANGED <<instance, builder, stage, todo, disk, opened, drivers, handle, device>>

\* getControlSystem, for a Factory object: with an empty name the first one; if
\* there is none a "throw" without an exception ends the process.
GetControlSystem(t) ==
  /\ Doing(t, "get")
  /\ LET name == IF call[t].name = "" /\ systems # <<>> THEN Head(SelectSeq(NameOrder, LAMBDA n : n \in DOMAIN systems)) ELSE call[t].name IN
     IF name = "" THEN instance' = "terminated" /\ UNCHANGED <<handle, pc, call>>
     ELSE /\ handle' = IF name \in DOMAIN systems THEN [handle EXCEPT ![t] = systems[name]] ELSE handle
          /\ Return(t) /\ UNCHANGED instance
  /\ UNCHANGED <<builder, stage, todo, disk, opened, drivers, systems, device>>

\* The Factory object is gone.
Drop(t) ==
  /\ pc[t] = "idle" /\ handle[t] # None /\ instance # "terminated"
  /\ handle' = [handle EXCEPT ![t] = None]
  /\ UNCHANGED <<processVars, pc, call, device>>

\* createDevice: both functions of the driver are copied, under the mutex;
\* without such a driver, or with a name in use, it throws.
Choose(t) ==
  /\ Doing(t, "create")
  /\ LET d == call[t].device IN
     IF call[t].driver \in DOMAIN drivers /\ device[d] = NoDevice
       THEN /\ device' = [device EXCEPT ![d] =
                            [state |-> "chosen", system |-> handle[t],
                             alloc |-> drivers[call[t].driver], dealloc |-> drivers[call[t].driver]]]
            /\ Goto(t, "chosen") /\ UNCHANGED call
       ELSE Return(t) /\ UNCHANGED device
  /\ UNCHANGED <<processVars, handle>>

\* Mutant of Allocate: the deallocation function is looked up afterwards.
Mut_AllocateLookup(t) ==
  /\ pc[t] = "chosen"
  /\ device' = [device EXCEPT ![call[t].device].state = "made",
                              ![call[t].device].dealloc = drivers[call[t].driver]]
  /\ Return(t)
  /\ UNCHANGED <<processVars, handle>>

\* ... and called without it; the device and its deallocation function are kept.
Allocate(t) ==
  /\ pc[t] = "chosen"
  /\ device' = [device EXCEPT ![call[t].device].state = "made"]
  /\ Return(t)
  /\ UNCHANGED <<processVars, handle>>

\* destroyDevice, by the deallocation function that was kept.
Deallocate(t) ==
  /\ Doing(t, "destroy")
  /\ LET d == call[t].device IN
     device' = IF Made(d) /\ device[d].system = handle[t] THEN [device EXCEPT ![d] = NoDevice]
               ELSE device
  /\ Return(t)
  /\ UNCHANGED <<processVars, handle>>

\* Mutant of Exit: the control systems are deleted with their devices.
Mut_ExitAtOnce(t) ==
  /\ instance = "ready" /\ \A s \in Threads : pc[s] = "idle" /\ (s # t => handle[s] = None)
  /\ handle' = [s \in Threads |-> None]
  /\ instance' = "destroyed" /\ drivers' = <<>> /\ systems' = <<>>
  /\ UNCHANGED <<builder, stage, todo, disk, opened, pc, call, device>>

\* The process exits, and the destructor calls preDelete of the control systems.
Exit(t) ==
  /\ instance = "ready" /\ \A s \in Threads : pc[s] = "idle" /\ (s # t => handle[s] = None)
  /\ handle' = [s \in Threads |-> None]
  /\ device' = [d \in Devices |-> IF device[d].system \in Range(systems) THEN NoDevice ELSE device[d]]
  /\ instance' = "destroyed" /\ drivers' = <<>> /\ systems' = <<>>
  /\ UNCHANGED <<builder, stage, todo, disk, opened, pc, call>>

-----------------------------------------------------------------------------
NdsStep(t) ==
  \/ \E c \in Calls : Enter(t, c)
  \/ Pass(t) \/ Begin(t) \/ LoadSystem(t) \/ ListDrivers(t) \/ LoadScanned(t) \/ Constructed(t)
  \/ RegisterDriver(t) \/ OpenDriver(t) \/ RegisterLoaded(t)
  \/ RegisterControlSystem(t) \/ GetControlSystem(t) \/ Drop(t)
  \/ Choose(t) \/ Allocate(t) \/ Deallocate(t) \/ Exit(t)

Ended == instance \in {"destroyed", "terminated"}

-----------------------------------------------------------------------------
\* "The devices are loaded automatically from the folders declared in the
\* enviroment variables" (factory.h:60-61): once getInstance returns, every module
\* in the declared folders that exports the functions is known by its name, also
\* when a first construction failed after it had opened some of them.
DeclaredIsKnown ==
  instance = "ready" =>
    \A f \in UNION { Folders[d] : d \in Declared } :
      About[f].opens =>
        /\ f \in DriverFiles /\ About[f].driver # None => About[f].driver \in DOMAIN drivers
        /\ f \in SystemFiles /\ About[f].system # None => About[f].system \in DOMAIN systems

\* A device is deallocated by the driver that allocated it, whatever has been
\* registered under the driver's name in the meantime, and by other threads.
OwnDeallocator == \A d \in Devices : Made(d) => device[d].dealloc = device[d].alloc

\* No device outlives the control system whose address its components keep, and
\* none is left when the process exits.
SystemsOutliveDevices == \A d \in Devices : Made(d) => device[d].system \in Alive

\* What the code does not keep (README, "Divergences"): a driver that registers
\* itself and is found in a declared folder loads like any other;
BuildersFinish == \A t \in Threads : pc[t] # "stuck"

\* a construction succeeds when the declared folders exist;
FoldersFound ==
  [][instance = "constructing" /\ Declared \subseteq disk => instance' # "none"]_ndsVars

\* a module that cannot be opened registers nothing.
UnopenedIsRefused ==
  [][\A t \in Threads :
       RegisterLoaded(t) /\ ~About[call[t].file].opens => UNCHANGED drivers]_ndsVars
=============================================================================

----------------------------- MODULE MCProcess -----------------------------
(* Two folders, one of which is made later; three drivers of one name, of    *)
(* which one is linked and one is loaded on request; a module that exports   *)
(* nothing.                                                                  *)
EXTENDS Process, TLC

CONSTANTS system, plain, other, linked, extra, empty, broken, static

File(driver, name) == [opens |-> TRUE, driver |-> driver, system |-> name, static |-> FALSE]

Modules ==
  system :> File(None, "epics") @@ plain :> File("osc", None) @@ other :> File("thermo", None)
  @@ linked :> File("osc", None) @@ extra :> [File("osc", None) EXCEPT !.static = TRUE]
  @@ static :> [File("gen", None) EXCEPT !.static = TRUE]
  @@ empty :> File(None, None) @@ broken :> [File("thermo", None) EXCEPT !.opens = FALSE]

HereName == <<"here">>
Lib      == <<"lib">>
Dev      == <<"dev">>
Disk     == HereName :> {} @@ Lib :> {system, plain} @@ Dev :> {other, empty}

Libraries    == <<"lib", ":", ":">>
DevicePaths  == <<" ", "lib", ";", "dev">>
SystemLists  == <<Libraries, <<>>>>
DriverLists  == <<Libraries, DevicePaths>>
DeclaredHere == {HereName, Lib, Dev}
Late         == {Dev}
Order        == <<"epics", "local">>

\* The two threads are alike.
Either == Permutations(Threads)
Requests == {
  [op |-> "register driver", file |-> linked], [op |-> "load", file |-> extra],
  [op |-> "register system", name |-> "local"],
  [op |-> "get", name |-> ""], [op |-> "get", name |-> "local"] }
  \cup [op : {"create"}, driver : {"osc"}, device : Devices]
  \cup [op : {"destroy"}, device : Devices]

\* For the demonstrations: a folder in quotes, a driver with NDS_DEFINE_DRIVER in
\* a folder, a request to load a module that cannot be opened.
Quoted         == <<"'", "lib", "'">>
QuotedLists    == <<Libraries, Quoted>>
WithStatic     == HereName :> {} @@ Lib :> {system, static} @@ Dev :> {other}
BrokenRequests == Requests \cup { [op |-> "load", file |-> broken] }
=============================================================================

------------------------------ MODULE CodeGen ------------------------------
(***************************************************************************)
(* The code generator of codegen/acalsim: a script builds a project out of *)
(* simulators and modules, connects their ports, and has C++ files written *)
(* from templates.  Every call may raise an exception; what the call had   *)
(* done until then stays, and the script may catch it and go on.           *)
(*                                                                         *)
(* A name stands for a name with its group.  A file is reduced to the      *)
(* lines that refer to other files: the ports it declares, the headers it  *)
(* includes, the connections it makes.                                     *)
(***************************************************************************)
EXTENDS Naturals, Sequences, Functions

CONSTANTS
    Sims,      \* the SimBase objects of the script
    Mods,      \* its SimModule objects
    Name,      \* the name each is constructed with
    Shared,    \* the objects constructed with shared=True
    SystemC,   \* the simulators constructed with systemc=True
    App,       \* the application a script names
    NoApp,     \* the empty string
    Top,       \* the SimTop object
    Appless,   \* which objects may be constructed without an application: a set of sets
    PortNames,
    Sizes,     \* sizes of a request queue
    None,      \* a file that is not there
    MaxCalls   \* bound: the calls of a script that get past their first checks

Objects == Sims \cup Mods
Names == {Name[o] : o \in Objects}

(* Two objects with one name would be written to one file. addSimulator and addModule keep
   equal names apart in one place only; equal names elsewhere are the script's affair. *)
ASSUME NameAssumption ==
    /\ Sims \cap Mods = {}
    /\ \A m \in Mods : \A o \in Objects \ {m} : Name[m] # Name[o]

ASSUME BoundAssumption == MaxCalls \in Nat

LinkType == [master : Names, slave : Names, master_port : PortNames, slave_port : PortNames]
PortSizes == UNION {[P -> Sizes] : P \in SUBSET PortNames}

(* What is written to the file of a module, of a simulator, and of the top: something. *)
ModuleFile == [mports : SUBSET PortNames, sports : PortSizes]
SimFile == [mports : SUBSET PortNames, sports : PortSizes,
            includes : SUBSET Names, links : SUBSET LinkType]
TopFile == [systemc : BOOLEAN, includes : SUBSET Names,
            links : SUBSET LinkType, channels : SUBSET LinkType]

ASSUME NoneAssumption == None \notin ModuleFile /\ None \notin SimFile /\ None \notin TopFile

VARIABLES
    topApp, app,                       \* SimTop.app, and that of the objects
    simulators, modules,               \* dictionaries, in the order of insertion
    systemc,                           \* SimTop.systemc
    mports, sports, mchans, schans,    \* the ports of each object
    modLinks, portLinks, chanLinks,    \* linked_mod_simport_list, linked_sim_..._list
    files, topFile, mainFile,          \* what lies in the project's directory
    last,                              \* how the last call ended
    calls

registry == <<app, simulators, modules, systemc>>
ports == <<mports, sports, mchans, schans>>
links == <<modLinks, portLinks, chanLinks>>
project == <<files, topFile, mainFile>>
genVars == <<topApp, registry, ports, links, project, last, calls>>

Init ==
    /\ \E none \in Appless :
           /\ topApp = IF Top \in none THEN NoApp ELSE App
           /\ app = [o \in Objects |-> IF o \in none THEN NoApp ELSE App]
    /\ simulators = << >>
    /\ modules = [s \in Sims |-> << >>]
    /\ systemc = FALSE
    /\ mports = [o \in Objects |-> {}]
    /\ sports = [o \in Objects |-> << >>]
    /\ mchans = [s \in Sims |-> {}]
    /\ schans = [s \in Sims |-> {}]
    /\ modLinks = [s \in Sims |-> {}]
    /\ portLinks = {}
    /\ chanLinks = {}
    /\ files = [n \in Names |-> None]
    /\ topFile = None
    /\ mainFile = FALSE
    /\ last = "none"
    /\ calls = 0

(* A call that gets past the checks in front of its effects. *)
Call(outcome) ==
    /\ calls < MaxCalls
    /\ calls' = calls + 1
    /\ last' = outcome
    /\ UNCHANGED topApp

(* A call whose checks raise an exception before it has done anything. *)
Refuse ==
    /\ last' = "raised"
    /\ UNCHANGED <<topApp, registry, ports, links, project, calls>>

Added(objects) == {Name[o] : o \in Range(objects)}

-----------------------------------------------------------------------------
(* Registration. *)

addModule(s, m) ==
    \/ Name[m] \in Added(modules[s]) /\ Refuse
    \/ /\ Name[m] \notin Added(modules[s])
       /\ modules' = [modules EXCEPT ![s] = Append(@, m)]
       /\ app' = IF m \in Shared THEN app ELSE [app EXCEPT ![m] = app[s]]
       /\ Call("returned")
       /\ UNCHANGED <<simulators, systemc, ports, links, project>>

addSimulator(s) ==
    \/ Name[s] \in Added(simulators) /\ Refuse
    \/ /\ Name[s] \notin Added(simulators)
       /\ s \in SystemC
       /\ systemc' = TRUE
       /\ Call("raised")
       /\ UNCHANGED <<app, simulators, modules, ports, links, project>>
    \/ /\ Name[s] \notin Added(simulators)
       /\ s \notin SystemC
       /\ simulators' = Append(simulators, s)
       /\ app' = IF s \in Shared THEN app ELSE [app EXCEPT ![s] = topApp]
       /\ Call("returned")
       /\ UNCHANGED <<modules, systemc, ports, links, project>>

-----------------------------------------------------------------------------
(* Connections: the master's port is added first, then the slave's, and the
   connection is recorded last. *)

\* Variant: the objects instead of their names.
Link_Objects(master, slave, mp, sp) ==
    [master |-> master, slave |-> slave, master_port |-> mp, slave_port |-> sp]

Link(master, slave, mp, sp) ==
    [master |-> Name[master], slave |-> Name[slave], master_port |-> mp, slave_port |-> sp]

\* Variant: looks for the master only.
Registered_Master(master, slave, objects) == Name[master] \in Added(objects)

Registered(master, slave, objects) == {Name[master], Name[slave]} \subseteq Added(objects)

\* Variant: looks in the other list of ports.
hasMasterSimPort_Slaves(o, port) == port \in DOMAIN sports[o]
hasMasterSimPort(o, port) == port \in mports[o]
hasSlaveSimPort(o, port) == port \in DOMAIN sports[o]

(* Whether the slave's port, as the calls so far have left it, takes the connection. *)
SizeFits(slave, sp, size) == hasSlaveSimPort(slave, sp) => sports[slave][sp] = size

(* sizes with an entry for port. *)
AddPort(sizes, port, size) ==
    [q \in DOMAIN sizes \cup {port} |-> IF q = port THEN size ELSE sizes[q]]

(* What connectSimPort does to the two objects; those of a simulator and those of the top
   are the same lines. *)
addSimPorts(master, slave, mp, sp, size) ==
    /\ mports' = [mports EXCEPT ![master] = @ \cup {mp}]
    /\ sports' = IF SizeFits(slave, sp, size)
                   THEN [sports EXCEPT ![slave] = AddPort(@, sp, size)]
                   ELSE sports
    /\ Call(IF SizeFits(slave, sp, size) THEN "returned" ELSE "raised")
    /\ UNCHANGED <<registry, mchans, schans, chanLinks, project>>

(* SimBase.connectSimPort *)
connectModules(s, master, slave, mp, sp, size) ==
    LET accepted == /\ Registered(master, slave, modules[s])
                    /\ ~hasMasterSimPort(master, mp)
        link == IF SizeFits(slave, sp, size) THEN {Link(master, slave, mp, sp)} ELSE {}
    IN  \/ ~accepted /\ Refuse
        \/ /\ accepted
           /\ addSimPorts(master, slave, mp, sp, size)
           /\ modLinks' = [modLinks EXCEPT ![s] = @ \cup link]
           /\ UNCHANGED portLinks

(* SimTop.connectSimPort *)
connectSimPort(master, slave, mp, sp, size) ==
    LET accepted == /\ Registered(master, slave, simulators)
                    /\ ~hasMasterSimPort(master, mp)
        link == IF SizeFits(slave, sp, size) THEN {Link(master, slave, mp, sp)} ELSE {}
    IN  \/ ~accepted /\ Refuse
        \/ /\ accepted
           /\ addSimPorts(master, slave, mp, sp, size)
           /\ portLinks' = portLinks \cup link
           /\ UNCHANGED modLinks

hasMasterChannelPort(s, port) == port \in mchans[s]
hasSlaveChannelPort(s, port) == port \in schans[s]

connectSimChannel(master, slave, mp, sp) ==
    LET accepted == /\ Registered(master, slave, simulators)
                    /\ ~hasMasterChannelPort(master, mp)
        taken == hasSlaveChannelPort(slave, sp)
    IN  \/ ~accepted /\ Refuse
        \/ /\ accepted
           /\ mchans' = [mchans EXCEPT ![master] = @ \cup {mp}]
           /\ schans' = [schans EXCEPT ![slave] = @ \cup {sp}]
           /\ chanLinks' = IF taken THEN chanLinks
                                    ELSE chanLinks \cup {Link(master, slave, mp, sp)}
           /\ Call(IF taken THEN "raised" ELSE "returned")
           /\ UNCHANGED <<registry, mports, sports, modLinks, portLinks, project>>

-----------------------------------------------------------------------------
(* Generation: CodeGen(instance). Modules are written before the simulator they belong to,
   simulators before the top; the first object without an application ends it. *)

ModuleText(m) == [mports |-> mports[m], sports |-> sports[m]]
SimText(s) == [mports |-> mports[s], sports |-> sports[s],
               includes |-> Added(modules[s]), links |-> modLinks[s]]
TopText == [systemc |-> systemc, includes |-> Added(simulators),
            links |-> portLinks, channels |-> chanLinks]

Text(o) == IF o \in Mods THEN ModuleText(o) ELSE SimText(o)

HasPlace(o) == o \in Shared \/ app[o] # NoApp
Complete(s) == \A o \in {s} \cup Range(modules[s]) : HasPlace(o)

\* Variant: a simulator's own file first.
WrittenBy_SimFirst(s) ==
    LET before == {i \in DOMAIN modules[s] : \A j \in 1 .. i : HasPlace(modules[s][j])}
    IN  IF HasPlace(s) THEN {s} \cup {modules[s][i] : i \in before} ELSE {}

(* The objects that sim.codegen() writes before it returns or raises. *)
WrittenBy(s) ==
    LET before == {i \in DOMAIN modules[s] : \A j \in 1 .. i : HasPlace(modules[s][j])}
    IN  IF HasPlace(s)
          THEN {modules[s][i] : i \in before} \cup (IF Complete(s) THEN {s} ELSE {})
          ELSE {}

\* Variant: leaves a file alone that is there already.
Write_IfMissing(objects) ==
    files' = [n \in Names |-> IF files[n] = None /\ \E o \in objects : Name[o] = n
                                THEN Text(CHOOSE o \in objects : Name[o] = n)
                                ELSE files[n]]

Write(objects) ==
    files' = [n \in Names |-> IF \E o \in objects : Name[o] = n
                                THEN Text(CHOOSE o \in objects : Name[o] = n)
                                ELSE files[n]]

codegenModule(m) ==
    \/ ~HasPlace(m) /\ Refuse
    \/ /\ HasPlace(m)
       /\ Write({m})
       /\ Call("returned")
       /\ UNCHANGED <<registry, ports, links, topFile, mainFile>>

codegenSim(s) ==
    \/ ~HasPlace(s) /\ Refuse
    \/ /\ HasPlace(s)
       /\ Write(WrittenBy(s))
       /\ Call(IF Complete(s) THEN "returned" ELSE "raised")
       /\ UNCHANGED <<registry, ports, links, topFile, mainFile>>

(* The simulators that SimTop.codegen gets to. *)
Reached == {simulators[i] : i \in {j \in DOMAIN simulators :
                                      \A k \in 1 .. j - 1 : Complete(simulators[k])}}

(* Whether SimTop.codegen gets to the file of the top. *)
TopWritten == \A s \in Range(simulators) : Complete(s)

codegenTop ==
    \/ topApp = NoApp /\ Refuse
    \/ /\ topApp # NoApp
       /\ Write(UNION {WrittenBy(s) : s \in Reached})
       /\ topFile' = IF TopWritten THEN TopText ELSE topFile
       /\ mainFile' = (mainFile \/ (TopWritten /\ ~systemc))
       /\ Call(IF TopWritten /\ ~systemc THEN "generated" ELSE "raised")
       /\ UNCHANGED <<registry, ports, links>>

-----------------------------------------------------------------------------
Next ==
    \/ \E s \in Sims, m \in Mods : addModule(s, m)
    \/ \E s \in Sims : addSimulator(s)
    \/ \E s \in Sims, master, slave \in Mods, mp, sp \in PortNames, size \in Sizes :
           connectModules(s, master, slave, mp, sp, size)
    \/ \E master, slave \in Sims, mp, sp \in PortNames, size \in Sizes :
           connectSimPort(master, slave, mp, sp, size)
    \/ \E master, slave \in Sims, mp, sp \in PortNames :
           connectSimChannel(master, slave, mp, sp)
    \/ \E m \in Mods : codegenModule(m)
    \/ \E s \in Sims : codegenSim(s)
    \/ codegenTop

Spec == Init /\ [][Next]_genVars
=============================================================================

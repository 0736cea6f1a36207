---------------------------- MODULE CodeGenProps ----------------------------
(***************************************************************************)
(* What a script may rely on, whichever of its calls raised an exception.  *)
(***************************************************************************)
EXTENDS CodeGen

(* What the theorems about connections and files assume: connections and files are keyed by
   names, and nothing keeps the names of two simulators apart. *)
SimNamesDiffer == \A s, t \in Sims : Name[s] = Name[t] => s = t

(* The dictionaries hold objects, the lists hold ports and connections, the files what a
   template of their kind writes. *)
TypeOK ==
    /\ topApp \in {NoApp, App}
    /\ app \in [Objects -> {NoApp, App}]
    /\ simulators \in Seq(Sims)
    /\ modules \in [Sims -> Seq(Mods)]
    /\ systemc \in BOOLEAN
    /\ mports \in [Objects -> SUBSET PortNames]
    /\ sports \in [Objects -> PortSizes]
    /\ mchans \in [Sims -> SUBSET PortNames]
    /\ schans \in [Sims -> SUBSET PortNames]
    /\ modLinks \in [Sims -> SUBSET LinkType]
    /\ portLinks \subseteq LinkType
    /\ chanLinks \subseteq LinkType
    /\ \A m \in Mods : files[Name[m]] \in {None} \cup ModuleFile
    /\ \A s \in Sims : files[Name[s]] \in {None} \cup SimFile
    /\ topFile \in {None} \cup TopFile
    /\ mainFile \in BOOLEAN
    /\ last \in {"none", "returned", "raised", "generated"}
    /\ calls \in 0 .. MaxCalls

-----------------------------------------------------------------------------
Declares(n, l) == /\ files[n] # None
                  /\ n = l.master => l.master_port \in files[n].mports
                  /\ n = l.slave => l.slave_port \in DOMAIN files[n].sports

FitsFiles(text) ==
    /\ \A n \in text.includes : files[n] # None
    /\ \A l \in text.links : Declares(l.master, l) /\ Declares(l.slave, l)

(* The files lying in the project always fit together: what a file includes is there, and both
   ports of a connection it makes are declared, though generations stop half-way (an object
   without an application), leave files of different ages behind, and are repeated while the
   script goes on connecting (SimTop.codegen, SimBase.codegen, SimModule.codegen; the order
   of registration and port lists in connectSimPort). *)
FilesFitTogether ==
    /\ \A s \in Sims : files[Name[s]] # None => FitsFiles(files[Name[s]])
    /\ topFile # None => FitsFiles(topFile)
    /\ mainFile => topFile # None

(* When CodeGen(SimTop) returns, the project on disk is the one the script has built: every
   simulator added, every module added to one, and every connection made, however many
   generations and refused calls came before. *)
ProjectIsCurrent ==
    last = "generated" =>
        /\ topFile = TopText
        /\ mainFile
        /\ \A s \in Range(simulators) :
               /\ files[Name[s]] = SimText(s)
               /\ \A m \in Range(modules[s]) : files[Name[m]] = ModuleText(m)

(* A master port is in one connection at most, of modules of all the simulators together or
   of simulators; and a channel's slave port as well. Several masters may share a slave
   SimPort. (The checks of connectSimPort and connectSimChannel look at the objects' own
   lists of ports, not at the connections.) *)
OneLinkEach ==
    LET SamePort(l, k) == l.master = k.master /\ l.master_port = k.master_port
        SameSlave(l, k) == l.slave = k.slave /\ l.slave_port = k.slave_port
    IN  /\ \A l, k \in portLinks : SamePort(l, k) => l = k
        /\ \A l, k \in chanLinks : SamePort(l, k) \/ SameSlave(l, k) => l = k
        /\ \A s, t \in Sims : \A l \in modLinks[s], k \in modLinks[t] :
               SamePort(l, k) => s = t /\ l = k

(* Connections join ports of simulators that have been added: "ValueError: If simulators or
   ports are invalid or not added to this SimTop instance." (SimTop.connectSimPort) *)
LinksJoinAdded ==
    \A l \in portLinks :
        \E m, s \in Range(simulators) :
            /\ Name[m] = l.master /\ l.master_port \in mports[m]
            /\ Name[s] = l.slave /\ l.slave_port \in DOMAIN sports[s]
=============================================================================

--------------------------- MODULE CodeGenProofs ---------------------------
(***************************************************************************)
(* Theorems about the code generator, for every script, and every number   *)
(* of simulators, modules and ports.                                       *)
(***************************************************************************)
EXTENDS CodeGenProps, SequenceTheorems, TLAPS

-----------------------------------------------------------------------------
(* Names, dictionaries and ports. *)

\* A module is known by its name.
LEMMA ModuleByName ==
    ASSUME NEW m \in Mods, NEW o \in Objects, Name[m] = Name[o]
    PROVE  m = o
BY NameAssumption

\* A simulator is no module; both have names.
LEMMA KindsDiffer ==
    /\ \A s \in Sims : s \in Objects /\ s \notin Mods /\ Name[s] \in Names
    /\ \A m \in Mods : m \in Objects /\ m \notin Sims /\ Name[m] \in Names
BY NameAssumption DEF Objects, Names

\* What a dictionary holds, as a set.
LEMMA RangeType ==
    ASSUME NEW S, NEW dict \in Seq(S)
    PROVE  /\ Range(dict) \subseteq S
           /\ \A i \in DOMAIN dict : dict[i] \in Range(dict)
           /\ \A x \in Range(dict) : \E i \in DOMAIN dict : dict[i] = x
BY DEF Range

\* And what it holds when something has been added.
LEMMA RangeAppend ==
    ASSUME NEW S, NEW dict \in Seq(S), NEW e \in S
    PROVE  /\ Append(dict, e) \in Seq(S)
           /\ Range(Append(dict, e)) = Range(dict) \cup {e}
<1>1. Append(dict, e) \in Seq(S)
  OBVIOUS
<1>2. DOMAIN Append(dict, e) = DOMAIN dict \cup {Len(dict) + 1}
  OBVIOUS
<1>3. Append(dict, e)[Len(dict) + 1] = e /\ \A i \in DOMAIN dict : Append(dict, e)[i] = dict[i]
  OBVIOUS
<1>4. Range(Append(dict, e)) = {Append(dict, e)[i] : i \in DOMAIN dict \cup {Len(dict) + 1}}
  BY <1>2 DEF Range
<1>. QED
  BY <1>1, <1>3, <1>4 DEF Range

\* The port is there, with its size; the other ports are what they were.
LEMMA AddPortType ==
    ASSUME NEW sizes \in PortSizes, NEW port \in PortNames, NEW size \in Sizes
    PROVE  /\ AddPort(sizes, port, size) \in PortSizes
           /\ DOMAIN AddPort(sizes, port, size) = DOMAIN sizes \cup {port}
<1>1. PICK P \in SUBSET PortNames : sizes \in [P -> Sizes]
  BY DEF PortSizes
<1>2. AddPort(sizes, port, size) \in [P \cup {port} -> Sizes]
  BY <1>1 DEF AddPort
<1>3. P \cup {port} \in SUBSET PortNames
  OBVIOUS
<1>. QED
  BY <1>1, <1>2, <1>3 DEF PortSizes, AddPort

LEMMA PortSizesDomain ==
    ASSUME NEW sizes \in PortSizes
    PROVE  DOMAIN sizes \subseteq PortNames
BY DEF PortSizes

-----------------------------------------------------------------------------
(* What a generation writes. *)

\* The text of an object, and that there is one.
LEMMA TextTypes ==
    ASSUME TypeOK
    PROVE  /\ \A m \in Mods : Text(m) = ModuleText(m) /\ Text(m) \in ModuleFile /\ Text(m) # None
           /\ \A s \in Sims : Text(s) = SimText(s) /\ Text(s) \in SimFile /\ Text(s) # None
           /\ TopText \in TopFile /\ TopText # None
<1>1. \A s \in Sims : Added(modules[s]) \subseteq Names
  BY RangeType, KindsDiffer DEF TypeOK, Added
<1>2. Added(simulators) \subseteq Names
  BY RangeType, KindsDiffer DEF TypeOK, Added
<1>3. \A m \in Mods : ModuleText(m) \in ModuleFile
  BY KindsDiffer DEF TypeOK, ModuleText, ModuleFile
<1>4. \A s \in Sims : SimText(s) \in SimFile
  BY <1>1, KindsDiffer DEF TypeOK, SimText, SimFile
<1>5. TopText \in TopFile
  BY <1>2 DEF TypeOK, TopText, TopFile
<1>. QED
  BY <1>3, <1>4, <1>5, KindsDiffer, NoneAssumption DEF Text

\* What codegen of a simulator writes: all of it when nothing lacks an application.
LEMMA WrittenByType ==
    ASSUME TypeOK, NEW s \in Sims
    PROVE  /\ WrittenBy(s) \subseteq {s} \cup Range(modules[s])
           /\ WrittenBy(s) \subseteq Objects
           /\ Complete(s) => WrittenBy(s) = {s} \cup Range(modules[s])
           /\ s \in WrittenBy(s) => Complete(s)
<1>. DEFINE before == {i \in DOMAIN modules[s] : \A j \in 1 .. i : HasPlace(modules[s][j])}
<1>1. /\ modules[s] \in Seq(Mods)
      /\ Range(modules[s]) \subseteq Mods
      /\ \A i \in DOMAIN modules[s] : modules[s][i] \in Range(modules[s])
      /\ \A x \in Range(modules[s]) : \E i \in DOMAIN modules[s] : modules[s][i] = x
  BY RangeType DEF TypeOK
<1>2. {modules[s][i] : i \in before} \subseteq Range(modules[s])
  BY <1>1
<1>3. ASSUME Complete(s)
      PROVE  HasPlace(s) /\ {modules[s][i] : i \in before} = Range(modules[s])
  <2>1. HasPlace(s) /\ \A m \in Range(modules[s]) : HasPlace(m)
    BY <1>3 DEF Complete
  <2>2. \A i \in DOMAIN modules[s] : \A j \in 1 .. i : j \in DOMAIN modules[s]
    BY <1>1
  <2>3. before = DOMAIN modules[s]
    BY <1>1, <2>1, <2>2
  <2>. QED
    BY <1>1, <2>1, <2>3
<1>4. s \notin Range(modules[s])
  BY <1>1, KindsDiffer
<1>5. WrittenBy(s) = IF HasPlace(s)
                       THEN {modules[s][i] : i \in before} \cup (IF Complete(s) THEN {s} ELSE {})
                       ELSE {}
  BY DEF WrittenBy
<1>. HIDE DEF before
<1>. QED
  BY <1>1, <1>2, <1>3, <1>4, <1>5, KindsDiffer

\* A file is written with the text of the object that has its name, when only one has.
LEMMA WriteWrites ==
    ASSUME NEW W \in SUBSET Objects, Write(W), NEW o \in W,
           \A p \in W : Name[p] = Name[o] => p = o
    PROVE  files'[Name[o]] = Text(o)
<1>1. Name[o] \in Names
  BY DEF Names
<1>2. (CHOOSE p \in W : Name[p] = Name[o]) = o
  OBVIOUS
<1>. QED
  BY <1>1, <1>2 DEF Write

\* A file that no written object has the name of stays.
LEMMA WriteKeeps ==
    ASSUME NEW W \in SUBSET Objects, Write(W), NEW o \in Objects,
           \A p \in W : Name[p] # Name[o]
    PROVE  files'[Name[o]] = files[Name[o]]
<1>1. Name[o] \in Names
  BY DEF Names
<1>. QED
  BY <1>1 DEF Write

\* Files keep their kind.
LEMMA WriteTypes ==
    ASSUME TypeOK, NEW W \in SUBSET Objects, Write(W)
    PROVE  /\ \A m \in Mods : files'[Name[m]] \in {None} \cup ModuleFile
           /\ \A s \in Sims : files'[Name[s]] \in {None} \cup SimFile
<1>1. ASSUME NEW m \in Mods
      PROVE  files'[Name[m]] \in {None} \cup ModuleFile
  <2>1. \A p \in W : Name[p] = Name[m] => p = m
    BY ModuleByName
  <2>2. CASE m \in W
    BY <2>1, <2>2, WriteWrites, TextTypes
  <2>3. CASE m \notin W
    <3>1. files'[Name[m]] = files[Name[m]]
      BY <2>1, <2>3, WriteKeeps, KindsDiffer
    <3>. QED
      BY <3>1 DEF TypeOK
  <2>. QED
    BY <2>2, <2>3
<1>2. ASSUME NEW s \in Sims
      PROVE  files'[Name[s]] \in {None} \cup SimFile
  <2>1. CASE \E p \in W : Name[p] = Name[s]
    <3>. DEFINE q == CHOOSE p \in W : Name[p] = Name[s]
    <3>1. q \in W /\ Name[q] = Name[s]
      BY <2>1
    <3>2. files'[Name[s]] = Text(q)
      BY <2>1, KindsDiffer DEF Write
    <3>. HIDE DEF q
    <3>3. q \notin Mods
      BY <3>1, ModuleByName, KindsDiffer
    <3>4. q \in Sims
      BY <3>1, <3>3 DEF Objects
    <3>. QED
      BY <3>2, <3>4, TextTypes
  <2>2. CASE ~\E p \in W : Name[p] = Name[s]
    <3>1. files'[Name[s]] = files[Name[s]]
      BY <2>2, WriteKeeps, KindsDiffer
    <3>. QED
      BY <3>1 DEF TypeOK
  <2>. QED
    BY <2>1, <2>2
<1>. QED
  BY <1>1, <1>2
-----------------------------------------------------------------------------
(* Type correctness. *)

LEMMA TypeInit == Init => TypeOK
<1>. SUFFICES ASSUME Init PROVE TypeOK
  OBVIOUS
<1>1. << >> \in PortSizes
  <2>1. << >> \in [{} -> Sizes]
    OBVIOUS
  <2>. QED
    BY <2>1 DEF PortSizes
<1>2. << >> \in Seq(Sims) /\ << >> \in Seq(Mods)
  OBVIOUS
<1>3. topApp \in {NoApp, App} /\ app \in [Objects -> {NoApp, App}]
  BY DEF Init
<1>4. /\ simulators \in Seq(Sims) /\ modules \in [Sims -> Seq(Mods)]
      /\ sports \in [Objects -> PortSizes]
  BY <1>1, <1>2 DEF Init
<1>5. /\ \A m \in Mods : files[Name[m]] = None
      /\ \A s \in Sims : files[Name[s]] = None
  BY KindsDiffer DEF Init
<1>. QED
  <2>1. /\ mports \in [Objects -> SUBSET PortNames]
        /\ mchans \in [Sims -> SUBSET PortNames] /\ schans \in [Sims -> SUBSET PortNames]
        /\ modLinks \in [Sims -> SUBSET LinkType]
        /\ portLinks \subseteq LinkType /\ chanLinks \subseteq LinkType
    BY DEF Init
  <2>2. /\ systemc \in BOOLEAN /\ mainFile \in BOOLEAN /\ topFile \in {None} \cup TopFile
        /\ last \in {"none", "returned", "raised", "generated"}
    BY DEF Init
  <2>3. calls \in 0 .. MaxCalls
    BY BoundAssumption DEF Init
  <2>. QED
    BY <1>3, <1>4, <1>5, <2>1, <2>2, <2>3 DEF TypeOK

\* What a call leaves in the counters.
LEMMA CallTypes ==
    ASSUME TypeOK, NEW outcome \in {"returned", "raised", "generated"}, Call(outcome)
    PROVE  /\ calls' \in 0 .. MaxCalls
           /\ last' \in {"none", "returned", "raised", "generated"}
           /\ topApp' \in {NoApp, App}
BY BoundAssumption DEF TypeOK, Call

LEMMA RefuseTypes == TypeOK /\ Refuse => TypeOK'
BY DEF TypeOK, Refuse, registry, ports, links, project

LEMMA AddModuleTypes ==
    ASSUME TypeOK, NEW s \in Sims, NEW m \in Mods, addModule(s, m)
    PROVE  TypeOK'
<1>1. CASE Refuse
  BY <1>1, RefuseTypes
<1>2. CASE ~Refuse
  <2>1. /\ modules' = [modules EXCEPT ![s] = Append(@, m)]
        /\ app' = IF m \in Shared THEN app ELSE [app EXCEPT ![m] = app[s]]
        /\ Call("returned")
        /\ UNCHANGED <<simulators, systemc, ports, links, project>>
    BY <1>2 DEF addModule
  <2>2. modules' \in [Sims -> Seq(Mods)]
    <3>1. Append(modules[s], m) \in Seq(Mods)
      BY RangeAppend DEF TypeOK
    <3>. QED
      BY <2>1, <3>1 DEF TypeOK
  <2>3. app' \in [Objects -> {NoApp, App}]
    BY <2>1, KindsDiffer DEF TypeOK
  <2>. QED
    BY <2>1, <2>2, <2>3, CallTypes DEF TypeOK, ports, links, project
<1>. QED
  BY <1>1, <1>2

LEMMA AddSimulatorTypes ==
    ASSUME TypeOK, NEW s \in Sims, addSimulator(s)
    PROVE  TypeOK'
<1>1. CASE Refuse
  BY <1>1, RefuseTypes
<1>2. CASE /\ systemc' = TRUE
           /\ Call("raised")
           /\ UNCHANGED <<app, simulators, modules, ports, links, project>>
  BY <1>2, CallTypes DEF TypeOK, ports, links, project
<1>3. CASE /\ simulators' = Append(simulators, s)
           /\ app' = IF s \in Shared THEN app ELSE [app EXCEPT ![s] = topApp]
           /\ Call("returned")
           /\ UNCHANGED <<modules, systemc, ports, links, project>>
  <2>1. simulators' \in Seq(Sims)
    BY <1>3, RangeAppend DEF TypeOK
  <2>2. app' \in [Objects -> {NoApp, App}]
    BY <1>3, KindsDiffer DEF TypeOK
  <2>. QED
    BY <1>3, <2>1, <2>2, CallTypes DEF TypeOK, ports, links, project
<1>. QED
  BY <1>1, <1>2, <1>3 DEF addSimulator

\* The ports that a connection leaves.
LEMMA SimPortsType ==
    ASSUME TypeOK, NEW master \in Objects, NEW slave \in Objects,
           NEW mp \in PortNames, NEW sp \in PortNames, NEW size \in Sizes,
           addSimPorts(master, slave, mp, sp, size)
    PROVE  /\ mports' \in [Objects -> SUBSET PortNames]
           /\ sports' \in [Objects -> PortSizes]
           /\ calls' \in 0 .. MaxCalls
           /\ last' \in {"none", "returned", "raised", "generated"}
           /\ topApp' \in {NoApp, App}
<1>1. mports' \in [Objects -> SUBSET PortNames]
  BY DEF TypeOK, addSimPorts
<1>2. AddPort(sports[slave], sp, size) \in PortSizes
  BY AddPortType DEF TypeOK
<1>3. sports' \in [Objects -> PortSizes]
  BY <1>2 DEF TypeOK, addSimPorts
<1>. QED
  BY <1>1, <1>3, CallTypes DEF addSimPorts

\* A connection is between two names.
LEMMA LinkIsLink ==
    ASSUME NEW master \in Objects, NEW slave \in Objects, NEW mp \in PortNames, NEW sp \in PortNames
    PROVE  Link(master, slave, mp, sp) \in LinkType
BY DEF Link, LinkType, Names

LEMMA ConnectModulesTypes ==
    ASSUME TypeOK, NEW s \in Sims, NEW master \in Mods, NEW slave \in Mods,
           NEW mp \in PortNames, NEW sp \in PortNames, NEW size \in Sizes,
           connectModules(s, master, slave, mp, sp, size)
    PROVE  TypeOK'
<1>1. CASE Refuse
  BY <1>1, RefuseTypes
<1>2. CASE ~Refuse
  <2>. DEFINE link == IF SizeFits(slave, sp, size) THEN {Link(master, slave, mp, sp)} ELSE {}
  <2>1. /\ addSimPorts(master, slave, mp, sp, size)
        /\ modLinks' = [modLinks EXCEPT ![s] = @ \cup link]
        /\ UNCHANGED portLinks
    BY <1>2 DEF connectModules
  <2>2. master \in Objects /\ slave \in Objects
    BY KindsDiffer
  <2>3. link \subseteq LinkType
    BY <2>2, LinkIsLink
  <2>. HIDE DEF link
  <2>4. modLinks' \in [Sims -> SUBSET LinkType]
    BY <2>1, <2>3 DEF TypeOK
  <2>5. UNCHANGED <<registry, mchans, schans, chanLinks, project>>
    BY <2>1 DEF addSimPorts
  <2>. QED
    BY <2>1, <2>2, <2>4, <2>5, SimPortsType DEF TypeOK, registry, project
<1>. QED
  BY <1>1, <1>2

LEMMA ConnectSimPortTypes ==
    ASSUME TypeOK, NEW master \in Sims, NEW slave \in Sims,
           NEW mp \in PortNames, NEW sp \in PortNames, NEW size \in Sizes,
           connectSimPort(master, slave, mp, sp, size)
    PROVE  TypeOK'
<1>1. CASE Refuse
  BY <1>1, RefuseTypes
<1>2. CASE ~Refuse
  <2>. DEFINE link == IF SizeFits(slave, sp, size) THEN {Link(master, slave, mp, sp)} ELSE {}
  <2>1. /\ addSimPorts(master, slave, mp, sp, size)
        /\ portLinks' = portLinks \cup link
        /\ UNCHANGED modLinks
    BY <1>2 DEF connectSimPort
  <2>2. master \in Objects /\ slave \in Objects
    BY KindsDiffer
  <2>3. link \subseteq LinkType
    BY <2>2, LinkIsLink
  <2>. HIDE DEF link
  <2>4. portLinks' \subseteq LinkType
    BY <2>1, <2>3 DEF TypeOK
  <2>5. UNCHANGED <<registry, mchans, schans, chanLinks, project>>
    BY <2>1 DEF addSimPorts
  <2>. QED
    BY <2>1, <2>2, <2>4, <2>5, SimPortsType DEF TypeOK, registry, project
<1>. QED
  BY <1>1, <1>2

LEMMA ConnectSimChannelTypes ==
    ASSUME TypeOK, NEW master \in Sims, NEW slave \in Sims,
           NEW mp \in PortNames, NEW sp \in PortNames,
           connectSimChannel(master, slave, mp, sp)
    PROVE  TypeOK'
<1>1. CASE Refuse
  BY <1>1, RefuseTypes
<1>2. CASE ~Refuse
  <2>. DEFINE taken == hasSlaveChannelPort(slave, sp)
  <2>1. /\ mchans' = [mchans EXCEPT ![master] = @ \cup {mp}]
        /\ schans' = [schans EXCEPT ![slave] = @ \cup {sp}]
        /\ chanLinks' = IF taken THEN chanLinks
                                 ELSE chanLinks \cup {Link(master, slave, mp, sp)}
        /\ Call(IF taken THEN "raised" ELSE "returned")
        /\ UNCHANGED <<registry, mports, sports, modLinks, portLinks, project>>
    BY <1>2 DEF connectSimChannel
  <2>. HIDE DEF taken
  <2>2. Link(master, slave, mp, sp) \in LinkType
    BY KindsDiffer, LinkIsLink
  <2>3. chanLinks' \subseteq LinkType
    BY <2>1, <2>2 DEF TypeOK
  <2>4. mchans' \in [Sims -> SUBSET PortNames] /\ schans' \in [Sims -> SUBSET PortNames]
    BY <2>1 DEF TypeOK
  <2>. QED
    BY <2>1, <2>3, <2>4, CallTypes DEF TypeOK, registry, project
<1>. QED
  BY <1>1, <1>2

\* What the generation of an object, or of them all, does.
LEMMA GenerationTypes ==
    ASSUME TypeOK, NEW W \in SUBSET Objects, Write(W),
           NEW outcome \in {"returned", "raised", "generated"}, Call(outcome),
           topFile' \in {None} \cup TopFile, mainFile' \in BOOLEAN,
           UNCHANGED <<registry, ports, links>>
    PROVE  TypeOK'
BY WriteTypes, CallTypes DEF TypeOK, registry, ports, links

LEMMA CodegenModuleTypes ==
    ASSUME TypeOK, NEW m \in Mods, codegenModule(m)
    PROVE  TypeOK'
<1>1. CASE Refuse
  BY <1>1, RefuseTypes
<1>2. CASE ~Refuse
  <2>1. /\ Write({m}) /\ Call("returned")
        /\ UNCHANGED <<registry, ports, links, topFile, mainFile>>
    BY <1>2 DEF codegenModule
  <2>2. {m} \in SUBSET Objects
    BY KindsDiffer
  <2>3. topFile' \in {None} \cup TopFile /\ mainFile' \in BOOLEAN
    BY <2>1 DEF TypeOK
  <2>. QED
    BY <2>1, <2>2, <2>3, GenerationTypes
<1>. QED
  BY <1>1, <1>2

LEMMA CodegenSimTypes ==
    ASSUME TypeOK, NEW s \in Sims, codegenSim(s)
    PROVE  TypeOK'
<1>1. CASE Refuse
  BY <1>1, RefuseTypes
<1>2. CASE ~Refuse
  <2>1. /\ Write(WrittenBy(s)) /\ Call(IF Complete(s) THEN "returned" ELSE "raised")
        /\ UNCHANGED <<registry, ports, links, topFile, mainFile>>
    BY <1>2 DEF codegenSim
  <2>2. WrittenBy(s) \in SUBSET Objects
    BY WrittenByType
  <2>3. topFile' \in {None} \cup TopFile /\ mainFile' \in BOOLEAN
    BY <2>1 DEF TypeOK
  <2>. QED
    BY <2>1, <2>2, <2>3, GenerationTypes
<1>. QED
  BY <1>1, <1>2

\* What a generation of the top writes: objects, and all of them when it gets to the top.
LEMMA ReachedType ==
    ASSUME TypeOK
    PROVE  /\ Reached \subseteq Sims
           /\ UNION {WrittenBy(s) : s \in Reached} \subseteq Objects
           /\ Reached \subseteq Range(simulators)
           /\ TopWritten => Reached = Range(simulators)
<1>1. /\ simulators \in Seq(Sims)
      /\ Range(simulators) \subseteq Sims
      /\ \A i \in DOMAIN simulators : simulators[i] \in Range(simulators)
      /\ \A x \in Range(simulators) : \E i \in DOMAIN simulators : simulators[i] = x
  BY RangeType DEF TypeOK
<1>2. Reached \subseteq Range(simulators)
  BY <1>1 DEF Reached
<1>3. ASSUME TopWritten
      PROVE  Reached = Range(simulators)
  <2>1. \A i \in DOMAIN simulators : \A k \in 1 .. i - 1 : k \in DOMAIN simulators
    BY <1>1
  <2>2. \A i \in DOMAIN simulators : \A k \in 1 .. i - 1 : Complete(simulators[k])
    BY <1>1, <1>3, <2>1 DEF TopWritten
  <2>. QED
    BY <1>1, <2>2 DEF Reached
<1>. QED
  BY <1>1, <1>2, <1>3, WrittenByType

LEMMA CodegenTopTypes ==
    ASSUME TypeOK, codegenTop
    PROVE  TypeOK'
<1>1. CASE Refuse
  BY <1>1, RefuseTypes
<1>2. CASE ~Refuse
  <2>1. /\ Write(UNION {WrittenBy(s) : s \in Reached})
        /\ topFile' = IF TopWritten THEN TopText ELSE topFile
        /\ mainFile' = (mainFile \/ (TopWritten /\ ~systemc))
        /\ Call(IF TopWritten /\ ~systemc THEN "generated" ELSE "raised")
        /\ UNCHANGED <<registry, ports, links>>
    BY <1>2 DEF codegenTop
  <2>2. UNION {WrittenBy(s) : s \in Reached} \in SUBSET Objects
    BY ReachedType
  <2>3. topFile' \in {None} \cup TopFile
    BY <2>1, TextTypes DEF TypeOK
  <2>4. mainFile' \in BOOLEAN
    BY <2>1
  <2>. QED
    BY <2>1, <2>2, <2>3, <2>4, GenerationTypes
<1>. QED
  BY <1>1, <1>2

LEMMA TypeStep ==
    ASSUME TypeOK, [Next]_genVars
    PROVE  TypeOK'
<1>1. CASE UNCHANGED genVars
  BY <1>1 DEF TypeOK, genVars, registry, ports, links, project
<1>2. CASE Next
  BY <1>2, AddModuleTypes, AddSimulatorTypes, ConnectModulesTypes, ConnectSimPortTypes,
     ConnectSimChannelTypes, CodegenModuleTypes, CodegenSimTypes, CodegenTopTypes DEF Next
<1>. QED
  BY <1>1, <1>2

(* Whatever a script calls, and whichever of its calls raised an exception: dictionaries hold
   objects of their kind, connections join names, and every file is what the template of its
   object writes: a module's file never holds the text of a simulator (create). *)
THEOREM GeneratorTypeCorrect == Spec => []TypeOK
<1>1. Init => TypeOK
  BY TypeInit
<1>2. TypeOK /\ [Next]_genVars => TypeOK'
  BY TypeStep
<1>. QED
  BY <1>1, <1>2, PTL DEF Spec

-----------------------------------------------------------------------------
(* The project is current. *)

(* What addSimulator keeps apart. *)
AddedApart == \A s, t \in Range(simulators) : Name[s] = Name[t] => s = t

LEMMA AddedApartStep ==
    ASSUME TypeOK, AddedApart, [Next]_genVars
    PROVE  AddedApart'
<1>1. CASE UNCHANGED simulators
  BY <1>1 DEF AddedApart
<1>2. ASSUME NEW s \in Sims, addSimulator(s)
      PROVE  AddedApart'
  <2>1. CASE /\ Name[s] \notin Added(simulators)
             /\ simulators' = Append(simulators, s)
    <3>1. Range(simulators') = Range(simulators) \cup {s}
      BY <2>1, RangeAppend DEF TypeOK
    <3>2. \A t \in Range(simulators) : Name[t] # Name[s]
      BY <2>1 DEF Added
    <3>. QED
      BY <3>1, <3>2 DEF AddedApart
  <2>2. CASE UNCHANGED simulators
    BY <2>2, <1>1
  <2>. QED
    BY <1>2, <2>1, <2>2 DEF addSimulator, Refuse, registry
<1>3. ASSUME Next, \A s \in Sims : ~addSimulator(s)
      PROVE  UNCHANGED simulators
  <2>1. Refuse => UNCHANGED simulators
    BY DEF Refuse, registry
  <2>2. \A s \in Sims, m \in Mods : addModule(s, m) => UNCHANGED simulators
    BY <2>1 DEF addModule
  <2>3. \A master, slave, mp, sp, size :
            addSimPorts(master, slave, mp, sp, size) => UNCHANGED simulators
    BY DEF addSimPorts, registry
  <2>4. \A s \in Sims, master, slave \in Mods, mp, sp \in PortNames, size \in Sizes :
            connectModules(s, master, slave, mp, sp, size) => UNCHANGED simulators
    BY <2>1, <2>3 DEF connectModules
  <2>5. \A master, slave \in Sims, mp, sp \in PortNames, size \in Sizes :
            connectSimPort(master, slave, mp, sp, size) => UNCHANGED simulators
    BY <2>1, <2>3 DEF connectSimPort
  <2>6. \A master, slave \in Sims, mp, sp \in PortNames :
            connectSimChannel(master, slave, mp, sp) => UNCHANGED simulators
    BY <2>1 DEF connectSimChannel, registry
  <2>7. \A m \in Mods : codegenModule(m) => UNCHANGED simulators
    BY <2>1 DEF codegenModule, registry
  <2>8. \A s \in Sims : codegenSim(s) => UNCHANGED simulators
    BY <2>1 DEF codegenSim, registry
  <2>9. codegenTop => UNCHANGED simulators
    BY <2>1 DEF codegenTop, registry
  <2>. QED
    BY <1>3, <2>2, <2>4, <2>5, <2>6, <2>7, <2>8, <2>9 DEF Next
<1>. QED
  BY <1>1, <1>2, <1>3 DEF genVars, registry

\* Only a generation of the top ends as "generated".
LEMMA GeneratedByTop ==
    ASSUME Next, ~codegenTop
    PROVE  last' # "generated"
<1>1. Refuse => last' # "generated"
  BY DEF Refuse
<1>2. \A outcome : Call(outcome) => last' = outcome
  BY DEF Call
<1>3. ASSUME NEW s \in Sims, NEW m \in Mods, addModule(s, m)
      PROVE  last' # "generated"
  BY <1>1, <1>2, <1>3 DEF addModule
<1>4. ASSUME NEW s \in Sims, addSimulator(s)
      PROVE  last' # "generated"
  BY <1>1, <1>2, <1>4 DEF addSimulator
<1>5. ASSUME NEW master, NEW slave, NEW mp, NEW sp, NEW size,
             addSimPorts(master, slave, mp, sp, size)
      PROVE  last' # "generated"
  BY <1>2, <1>5 DEF addSimPorts
<1>6. ASSUME NEW s \in Sims, NEW master \in Mods, NEW slave \in Mods,
             NEW mp \in PortNames, NEW sp \in PortNames, NEW size \in Sizes,
             connectModules(s, master, slave, mp, sp, size)
      PROVE  last' # "generated"
  BY <1>1, <1>5, <1>6 DEF connectModules
<1>7. ASSUME NEW master \in Sims, NEW slave \in Sims,
             NEW mp \in PortNames, NEW sp \in PortNames, NEW size \in Sizes,
             connectSimPort(master, slave, mp, sp, size)
      PROVE  last' # "generated"
  BY <1>1, <1>5, <1>7 DEF connectSimPort
<1>8. ASSUME NEW master \in Sims, NEW slave \in Sims,
             NEW mp \in PortNames, NEW sp \in PortNames,
             connectSimChannel(master, slave, mp, sp)
      PROVE  last' # "generated"
  BY <1>1, <1>2, <1>8 DEF connectSimChannel
<1>9. ASSUME NEW m \in Mods, codegenModule(m)
      PROVE  last' # "generated"
  BY <1>1, <1>2, <1>9 DEF codegenModule
<1>10. ASSUME NEW s \in Sims, codegenSim(s)
       PROVE  last' # "generated"
  BY <1>1, <1>2, <1>10 DEF codegenSim
<1>. QED
  BY <1>3, <1>4, <1>6, <1>7, <1>8, <1>9, <1>10 DEF Next

\* A generation that gets to the top writes the current text of every simulator and module.
LEMMA TopWritesAll ==
    ASSUME TypeOK, AddedApart, TopWritten, Write(UNION {WrittenBy(s) : s \in Reached}),
           NEW s \in Range(simulators)
    PROVE  /\ files'[Name[s]] = SimText(s)
           /\ \A m \in Range(modules[s]) : files'[Name[m]] = ModuleText(m)
<1>. DEFINE W == UNION {WrittenBy(t) : t \in Reached}
<1>1. Range(simulators) \subseteq Sims /\ \A t \in Sims : Range(modules[t]) \subseteq Mods
  BY RangeType DEF TypeOK
<1>2. W = UNION {WrittenBy(t) : t \in Range(simulators)} /\ W \in SUBSET Objects
  BY ReachedType
<1>3. \A t \in Range(simulators) : WrittenBy(t) = {t} \cup Range(modules[t])
  BY <1>1, WrittenByType DEF TopWritten
<1>4. s \in W /\ Range(modules[s]) \subseteq W
  BY <1>2, <1>3
<1>5. W \cap Sims \subseteq Range(simulators)
  BY <1>1, <1>2, <1>3, KindsDiffer
<1>6. Write(W)
  OBVIOUS
<1>. HIDE DEF W
<1>7. \A p \in W : Name[p] = Name[s] => p = s
  <2>. SUFFICES ASSUME NEW p \in W, Name[p] = Name[s]
                PROVE  p = s
    OBVIOUS
  <2>1. CASE p \in Mods
    BY <1>1, <2>1, ModuleByName, KindsDiffer
  <2>2. CASE p \in Sims
    BY <1>5, <2>2 DEF AddedApart
  <2>. QED
    BY <1>2, <2>1, <2>2 DEF Objects
<1>8. files'[Name[s]] = SimText(s)
  BY <1>1, <1>2, <1>4, <1>6, <1>7, WriteWrites, TextTypes
<1>9. ASSUME NEW m \in Range(modules[s])
      PROVE  files'[Name[m]] = ModuleText(m)
  <2>1. m \in Mods /\ m \in W
    BY <1>1, <1>4
  <2>2. \A p \in W : Name[p] = Name[m] => p = m
    BY <1>2, <2>1, ModuleByName
  <2>. QED
    BY <1>2, <1>6, <2>1, <2>2, WriteWrites, TextTypes
<1>. QED
  BY <1>8, <1>9

\* What is written to a file says what the object is after the generation, too.
LEMMA TextStays ==
    ASSUME UNCHANGED <<registry, ports, links>>
    PROVE  /\ TopText' = TopText
           /\ \A s : SimText(s)' = SimText(s)
           /\ \A m : ModuleText(m)' = ModuleText(m)
BY DEF TopText, SimText, ModuleText, Added, registry, ports, links

LEMMA CurrentStep ==
    ASSUME TypeOK, AddedApart, ProjectIsCurrent, [Next]_genVars
    PROVE  ProjectIsCurrent'
<1>1. CASE UNCHANGED genVars
  BY <1>1, TextStays DEF genVars, project, registry, ProjectIsCurrent
<1>2. CASE Next /\ ~codegenTop
  BY <1>2, GeneratedByTop DEF ProjectIsCurrent
<1>3. CASE codegenTop
  <2>. SUFFICES ASSUME last' = "generated"
                PROVE  ProjectIsCurrent'
    BY DEF ProjectIsCurrent
  <2>1. /\ Write(UNION {WrittenBy(s) : s \in Reached})
        /\ topFile' = IF TopWritten THEN TopText ELSE topFile
        /\ mainFile' = (mainFile \/ (TopWritten /\ ~systemc))
        /\ Call(IF TopWritten /\ ~systemc THEN "generated" ELSE "raised")
        /\ UNCHANGED <<registry, ports, links>>
    BY <1>3 DEF codegenTop, Refuse
  <2>2. TopWritten /\ ~systemc
    BY <2>1 DEF Call
  <2>3. mainFile' /\ topFile' = TopText'
    BY <2>1, <2>2, TextStays
  <2>4. UNCHANGED <<simulators, modules>>
    BY <2>1 DEF registry
  <2>5. ASSUME NEW s \in Range(simulators)
        PROVE  /\ files'[Name[s]] = SimText(s)'
               /\ \A m \in Range(modules[s]) : files'[Name[m]] = ModuleText(m)'
    BY <2>1, <2>2, <2>5, TopWritesAll, TextStays
  <2>. QED
    BY <2>3, <2>4, <2>5 DEF ProjectIsCurrent
<1>. QED
  BY <1>1, <1>2, <1>3

(* When CodeGen(SimTop) returns, the files are those of the simulators, modules and connections
   that the script has made: simulators with one name, which would be written to one file, are
   kept apart where it matters, by addSimulator. *)
THEOREM GeneratedIsCurrent == Spec => []ProjectIsCurrent
<1>1. Init => AddedApart /\ ProjectIsCurrent
  BY DEF Init, AddedApart, ProjectIsCurrent, Range
<1>2. TypeOK /\ AddedApart /\ ProjectIsCurrent /\ [Next]_genVars => (AddedApart /\ ProjectIsCurrent)'
  BY AddedApartStep, CurrentStep
<1>. QED
  BY <1>1, <1>2, GeneratorTypeCorrect, PTL DEF Spec

-----------------------------------------------------------------------------
(* Connections. *)

(* Both ends of a connection are among the objects, with their ports. *)
Joined(objects, masters, slaves, l) ==
    \E o, p \in objects : /\ Name[o] = l.master /\ l.master_port \in masters[o]
                          /\ Name[p] = l.slave /\ l.slave_port \in DOMAIN slaves[p]

ChannelJoined(objects, masters, slaves, l) ==
    \E o, p \in objects : /\ Name[o] = l.master /\ l.master_port \in masters[o]
                          /\ Name[p] = l.slave /\ l.slave_port \in slaves[p]

(* Why the objects' own lists of ports say which connections there are. *)
LinksInv ==
    /\ \A s \in Sims : \A l \in modLinks[s] : Joined(Range(modules[s]), mports, sports, l)
    /\ \A l \in portLinks : Joined(Range(simulators), mports, sports, l)
    /\ \A l \in chanLinks : ChannelJoined(Range(simulators), mchans, schans, l)

(* A call of connectSimPort that gets past its first checks, and what it records. *)
Joins(objects, master, slave, mp, sp, size) ==
    /\ Registered(master, slave, objects)
    /\ ~hasMasterSimPort(master, mp)
    /\ addSimPorts(master, slave, mp, sp, size)

NewLinks(master, slave, mp, sp, size) ==
    IF SizeFits(slave, sp, size) THEN {Link(master, slave, mp, sp)} ELSE {}

JoinsModules(s, master, slave, mp, sp, size) ==
    /\ Joins(modules[s], master, slave, mp, sp, size)
    /\ modLinks' = [modLinks EXCEPT ![s] = @ \cup NewLinks(master, slave, mp, sp, size)]
    /\ UNCHANGED portLinks

JoinsSimulators(master, slave, mp, sp, size) ==
    /\ Joins(simulators, master, slave, mp, sp, size)
    /\ portLinks' = portLinks \cup NewLinks(master, slave, mp, sp, size)
    /\ UNCHANGED modLinks

NewChannels(master, slave, mp, sp) ==
    IF hasSlaveChannelPort(slave, sp) THEN {} ELSE {Link(master, slave, mp, sp)}

JoinsChannels(master, slave, mp, sp) ==
    /\ Registered(master, slave, simulators)
    /\ ~hasMasterChannelPort(master, mp)
    /\ mchans' = [mchans EXCEPT ![master] = @ \cup {mp}]
    /\ schans' = [schans EXCEPT ![slave] = @ \cup {sp}]
    /\ chanLinks' = chanLinks \cup NewChannels(master, slave, mp, sp)
    /\ UNCHANGED <<registry, mports, sports, modLinks, portLinks, project>>

Adds ==
    /\ UNCHANGED <<ports, links, project>>
    /\ \/ UNCHANGED <<simulators, modules>>
       \/ \E s \in Sims : simulators' = Append(simulators, s) /\ UNCHANGED modules
       \/ \E s \in Sims, m \in Mods : /\ modules' = [modules EXCEPT ![s] = Append(@, m)]
                                      /\ UNCHANGED simulators

Generates == codegenTop \/ (\E m \in Mods : codegenModule(m)) \/ (\E s \in Sims : codegenSim(s))

\* A step leaves everything alone or registers an object, connects, or writes files.
LEMMA StepShapes ==
    ASSUME [Next]_genVars
    PROVE  \/ Adds
           \/ \E s \in Sims, master, slave \in Mods, mp, sp \in PortNames, size \in Sizes :
                  JoinsModules(s, master, slave, mp, sp, size)
           \/ \E master, slave \in Sims, mp, sp \in PortNames, size \in Sizes :
                  JoinsSimulators(master, slave, mp, sp, size)
           \/ \E master, slave \in Sims, mp, sp \in PortNames : JoinsChannels(master, slave, mp, sp)
           \/ Generates
<1>1. CASE UNCHANGED genVars
  BY <1>1 DEF Adds, genVars, registry
<1>2. Refuse => Adds
  BY DEF Refuse, Adds, registry
<1>3. ASSUME NEW s \in Sims, NEW m \in Mods, addModule(s, m)
      PROVE  Adds
  BY <1>2, <1>3 DEF addModule, Adds
<1>4. ASSUME NEW s \in Sims, addSimulator(s)
      PROVE  Adds
  BY <1>2, <1>4 DEF addSimulator, Adds
<1>5. ASSUME NEW s \in Sims, NEW master \in Mods, NEW slave \in Mods,
             NEW mp \in PortNames, NEW sp \in PortNames, NEW size \in Sizes,
             connectModules(s, master, slave, mp, sp, size)
      PROVE  Adds \/ JoinsModules(s, master, slave, mp, sp, size)
  BY <1>2, <1>5 DEF connectModules, JoinsModules, Joins, NewLinks
<1>6. ASSUME NEW master \in Sims, NEW slave \in Sims,
             NEW mp \in PortNames, NEW sp \in PortNames, NEW size \in Sizes,
             connectSimPort(master, slave, mp, sp, size)
      PROVE  Adds \/ JoinsSimulators(master, slave, mp, sp, size)
  BY <1>2, <1>6 DEF connectSimPort, JoinsSimulators, Joins, NewLinks
<1>7. ASSUME NEW master \in Sims, NEW slave \in Sims,
             NEW mp \in PortNames, NEW sp \in PortNames,
             connectSimChannel(master, slave, mp, sp)
      PROVE  Adds \/ JoinsChannels(master, slave, mp, sp)
  BY <1>2, <1>7 DEF connectSimChannel, JoinsChannels, NewChannels
<1>. QED
  BY <1>1, <1>3, <1>4, <1>5, <1>6, <1>7 DEF Next, Generates

\* A generation changes nothing but files.
LEMMA GeneratesKeeps == Generates => UNCHANGED <<simulators, modules, ports, links>>
<1>1. Refuse => UNCHANGED <<simulators, modules, ports, links>>
  BY DEF Refuse, registry
<1>. QED
  BY <1>1 DEF Generates, codegenModule, codegenSim, codegenTop, registry

(* Objects only gain ports. *)
PortsGrow ==
    /\ \A o \in Objects : mports[o] \subseteq mports'[o] /\ DOMAIN sports[o] \subseteq DOMAIN sports'[o]
    /\ \A s \in Sims : mchans[s] \subseteq mchans'[s] /\ schans[s] \subseteq schans'[s]

\* The ports after connectSimPort: nothing is lost, and both ports of what is recorded are there.
LEMMA JoinsGrows ==
    ASSUME TypeOK, NEW objects, NEW master \in Objects, NEW slave \in Objects,
           NEW mp \in PortNames, NEW sp \in PortNames, NEW size \in Sizes,
           Joins(objects, master, slave, mp, sp, size)
    PROVE  /\ PortsGrow
           /\ mp \in mports'[master]
           /\ SizeFits(slave, sp, size) => sp \in DOMAIN sports'[slave]
<1>1. /\ mports' = [mports EXCEPT ![master] = @ \cup {mp}]
      /\ sports' = IF SizeFits(slave, sp, size)
                     THEN [sports EXCEPT ![slave] = AddPort(@, sp, size)]
                     ELSE sports
      /\ UNCHANGED <<mchans, schans>>
  BY DEF Joins, addSimPorts
<1>2. DOMAIN AddPort(sports[slave], sp, size) = DOMAIN sports[slave] \cup {sp}
  BY DEF AddPort
<1>3. \A o \in Objects : mports[o] \subseteq mports'[o] /\ mp \in mports'[master]
  BY <1>1 DEF TypeOK
<1>4. ASSUME NEW o \in Objects
      PROVE  DOMAIN sports[o] \subseteq DOMAIN sports'[o]
  BY <1>1, <1>2 DEF TypeOK
<1>5. SizeFits(slave, sp, size) => sp \in DOMAIN sports'[slave]
  BY <1>1, <1>2 DEF TypeOK
<1>. QED
  BY <1>1, <1>3, <1>4, <1>5 DEF PortsGrow

\* No step loses a port, a simulator or a module.
LEMMA StepGrows ==
    ASSUME TypeOK, [Next]_genVars
    PROVE  /\ PortsGrow
           /\ Range(simulators) \subseteq Range(simulators')
           /\ \A s \in Sims : Range(modules[s]) \subseteq Range(modules'[s])
<1>. DEFINE Same == UNCHANGED <<simulators, modules>>
<1>1. UNCHANGED ports => PortsGrow
  BY DEF ports, PortsGrow
<1>2. CASE Adds
  <2>1. ASSUME NEW s \in Sims, simulators' = Append(simulators, s)
        PROVE  Range(simulators) \subseteq Range(simulators')
    BY <2>1, RangeAppend DEF TypeOK
  <2>2. ASSUME NEW s \in Sims, NEW m \in Mods, modules' = [modules EXCEPT ![s] = Append(@, m)],
               NEW t \in Sims
        PROVE  Range(modules[t]) \subseteq Range(modules'[t])
    <3>1. CASE t = s
      <4>1. modules'[t] = Append(modules[t], m) /\ modules[t] \in Seq(Mods)
        BY <2>2, <3>1 DEF TypeOK
      <4>. QED
        BY <4>1, RangeAppend
    <3>2. CASE t # s
      BY <2>2, <3>2 DEF TypeOK
    <3>. QED
      BY <3>1, <3>2
  <2>. QED
    BY <1>1, <1>2, <2>1, <2>2 DEF Adds
<1>3. ASSUME NEW objects, NEW master \in Objects, NEW slave \in Objects,
             NEW mp \in PortNames, NEW sp \in PortNames, NEW size \in Sizes,
             Joins(objects, master, slave, mp, sp, size)
      PROVE  PortsGrow /\ Same
  BY <1>3, JoinsGrows DEF Joins, addSimPorts, registry
<1>4. ASSUME NEW master \in Sims, NEW slave \in Sims,
             NEW mp \in PortNames, NEW sp \in PortNames, JoinsChannels(master, slave, mp, sp)
      PROVE  PortsGrow /\ Same
  BY <1>4 DEF JoinsChannels, PortsGrow, TypeOK, registry
<1>5. CASE Generates
  BY <1>1, <1>5, GeneratesKeeps
<1>6. \A s \in Sims, master, slave \in Mods, mp, sp \in PortNames, size \in Sizes :
          JoinsModules(s, master, slave, mp, sp, size) => PortsGrow /\ Same
  BY <1>3, KindsDiffer DEF JoinsModules
<1>7. \A master, slave \in Sims, mp, sp \in PortNames, size \in Sizes :
          JoinsSimulators(master, slave, mp, sp, size) => PortsGrow /\ Same
  BY <1>3, KindsDiffer DEF JoinsSimulators
<1>. QED
  BY <1>2, <1>4, <1>5, <1>6, <1>7, StepShapes

\* Whatever is connected stays connected when nothing is lost.
LEMMA JoinedGrows ==
    ASSUME PortsGrow, NEW S \in SUBSET Objects, NEW T, S \subseteq T, NEW l, Joined(S, mports, sports, l)
    PROVE  Joined(T, mports', sports', l)
BY DEF PortsGrow, Joined

LEMMA ChannelJoinedGrows ==
    ASSUME PortsGrow, NEW S \in SUBSET Sims, NEW T, S \subseteq T, NEW l, ChannelJoined(S, mchans, schans, l)
    PROVE  ChannelJoined(T, mchans', schans', l)
BY DEF PortsGrow, ChannelJoined

\* With names that differ, an object that is looked up by name among the added is one of them.
LEMMA RegisteredIsAdded ==
    ASSUME SimNamesDiffer, NEW master, NEW slave, NEW dict,
           \/ master \in Mods /\ slave \in Mods /\ Range(dict) \subseteq Mods
           \/ master \in Sims /\ slave \in Sims /\ Range(dict) \subseteq Sims,
           Registered(master, slave, dict)
    PROVE  master \in Range(dict) /\ slave \in Range(dict)
<1>1. PICK o, p \in Range(dict) : Name[o] = Name[master] /\ Name[p] = Name[slave]
  BY DEF Registered, Added
<1>2. \A x, y : (x \in Mods /\ y \in Mods) \/ (x \in Sims /\ y \in Sims) => (Name[x] = Name[y] => x = y)
  BY ModuleByName, KindsDiffer DEF SimNamesDiffer
<1>3. o = master /\ p = slave
  BY <1>1, <1>2
<1>. QED
  BY <1>1, <1>3

LEMMA LinksStep ==
    ASSUME SimNamesDiffer, TypeOK, LinksInv, [Next]_genVars
    PROVE  LinksInv'
<1>1. /\ PortsGrow
      /\ Range(simulators) \subseteq Range(simulators')
      /\ \A s \in Sims : Range(modules[s]) \subseteq Range(modules'[s])
  BY StepGrows
<1>2. /\ Range(simulators) \in SUBSET Sims /\ Range(simulators) \in SUBSET Objects
      /\ \A s \in Sims : Range(modules[s]) \in SUBSET Mods /\ Range(modules[s]) \in SUBSET Objects
  BY RangeType, KindsDiffer DEF TypeOK
<1>3. \A s \in Sims : \A l \in modLinks[s] : Joined(Range(modules'[s]), mports', sports', l)
  BY <1>1, <1>2, JoinedGrows DEF LinksInv
<1>4. \A l \in portLinks : Joined(Range(simulators'), mports', sports', l)
  BY <1>1, <1>2, JoinedGrows DEF LinksInv
<1>5. \A l \in chanLinks : ChannelJoined(Range(simulators'), mchans', schans', l)
  BY <1>1, <1>2, ChannelJoinedGrows DEF LinksInv
<1>6. ASSUME UNCHANGED links
      PROVE  LinksInv'
  BY <1>3, <1>4, <1>5, <1>6 DEF LinksInv, links
<1>7. ASSUME NEW dict, NEW master \in Objects, NEW slave \in Objects,
             NEW mp \in PortNames, NEW sp \in PortNames, NEW size \in Sizes,
             \/ master \in Mods /\ slave \in Mods /\ Range(dict) \subseteq Mods
             \/ master \in Sims /\ slave \in Sims /\ Range(dict) \subseteq Sims,
             Joins(dict, master, slave, mp, sp, size)
      PROVE  /\ UNCHANGED <<simulators, modules, chanLinks>>
             /\ \A l \in NewLinks(master, slave, mp, sp, size) : Joined(Range(dict), mports', sports', l)
  <2>1. UNCHANGED <<simulators, modules, chanLinks>>
    BY <1>7 DEF Joins, addSimPorts, registry
  <2>2. master \in Range(dict) /\ slave \in Range(dict)
    BY <1>7, RegisteredIsAdded DEF Joins
  <2>3. mp \in mports'[master] /\ (SizeFits(slave, sp, size) => sp \in DOMAIN sports'[slave])
    BY <1>7, JoinsGrows
  <2>. QED
    BY <2>1, <2>2, <2>3 DEF Joined, NewLinks, Link
<1>8. ASSUME NEW s \in Sims, NEW master \in Mods, NEW slave \in Mods,
             NEW mp \in PortNames, NEW sp \in PortNames, NEW size \in Sizes,
             JoinsModules(s, master, slave, mp, sp, size)
      PROVE  LinksInv'
  <2>1. /\ UNCHANGED <<simulators, modules, chanLinks, portLinks>>
        /\ \A l \in NewLinks(master, slave, mp, sp, size) : Joined(Range(modules[s]), mports', sports', l)
    BY <1>2, <1>7, <1>8, KindsDiffer DEF JoinsModules
  <2>2. \A t \in Sims : modLinks'[t] = IF t = s THEN modLinks[t] \cup NewLinks(master, slave, mp, sp, size)
                                                ELSE modLinks[t]
    BY <1>8 DEF JoinsModules, TypeOK
  <2>3. \A t \in Sims : \A l \in modLinks'[t] : Joined(Range(modules'[t]), mports', sports', l)
    BY <1>3, <2>1, <2>2
  <2>. QED
    BY <1>4, <1>5, <2>1, <2>3 DEF LinksInv
<1>9. ASSUME NEW master \in Sims, NEW slave \in Sims,
             NEW mp \in PortNames, NEW sp \in PortNames, NEW size \in Sizes,
             JoinsSimulators(master, slave, mp, sp, size)
      PROVE  LinksInv'
  <2>1. /\ UNCHANGED <<simulators, modules, chanLinks, modLinks>>
        /\ \A l \in NewLinks(master, slave, mp, sp, size) : Joined(Range(simulators), mports', sports', l)
    BY <1>2, <1>7, <1>9, KindsDiffer DEF JoinsSimulators
  <2>2. \A l \in portLinks' : Joined(Range(simulators'), mports', sports', l)
    BY <1>4, <1>9, <2>1 DEF JoinsSimulators
  <2>. QED
    BY <1>3, <1>5, <2>1, <2>2 DEF LinksInv
<1>10. ASSUME NEW master \in Sims, NEW slave \in Sims,
              NEW mp \in PortNames, NEW sp \in PortNames, JoinsChannels(master, slave, mp, sp)
       PROVE  LinksInv'
  <2>1. /\ UNCHANGED <<simulators, modules, modLinks, portLinks>>
        /\ chanLinks' = chanLinks \cup NewChannels(master, slave, mp, sp)
        /\ mp \in mchans'[master] /\ sp \in schans'[slave]
    BY <1>10 DEF JoinsChannels, TypeOK, registry
  <2>2. master \in Range(simulators) /\ slave \in Range(simulators)
    BY <1>2, <1>10, RegisteredIsAdded DEF JoinsChannels
  <2>3. \A l \in NewChannels(master, slave, mp, sp) : ChannelJoined(Range(simulators), mchans', schans', l)
    BY <2>1, <2>2 DEF ChannelJoined, NewChannels, Link
  <2>4. \A l \in chanLinks' : ChannelJoined(Range(simulators'), mchans', schans', l)
    BY <1>5, <2>1, <2>3
  <2>. QED
    BY <1>3, <1>4, <2>1, <2>4 DEF LinksInv
<1>. QED
  BY <1>6, <1>8, <1>9, <1>10, StepShapes, GeneratesKeeps DEF Adds

(* What the theorems about connections and files stand on. *)
ConnectedInv == SimNamesDiffer /\ TypeOK /\ LinksInv

LEMMA ConnectedAlways == Spec /\ SimNamesDiffer => []ConnectedInv
<1>1. SimNamesDiffer /\ TypeOK /\ Init => ConnectedInv
  BY DEF Init, LinksInv, ConnectedInv
<1>2. ConnectedInv /\ TypeOK' /\ [Next]_genVars => ConnectedInv'
  BY LinksStep DEF ConnectedInv, SimNamesDiffer
<1>. QED
  BY <1>1, <1>2, GeneratorTypeCorrect, PTL DEF Spec

(* Connections join simulators that have been added, when no two simulators have one name: with
   two, a connection names a port that another simulator has got (the run not_added). *)
THEOREM ConnectionsJoinAdded == Spec /\ SimNamesDiffer => []LinksJoinAdded
<1>1. ConnectedInv => LinksJoinAdded
  BY DEF ConnectedInv, LinksInv, LinksJoinAdded, Joined
<1>. QED
  BY <1>1, ConnectedAlways, PTL

-----------------------------------------------------------------------------
(* One connection for a port. *)

SamePort(l, k) == l.master = k.master /\ l.master_port = k.master_port

\* A port that its object does not have yet is in no connection among objects of its kind.
LEMMA NewPortIsFree ==
    ASSUME SimNamesDiffer, NEW S, NEW masters, NEW slaves, NEW master, NEW mp,
           \/ S \subseteq Mods /\ master \in Mods
           \/ S \subseteq Sims /\ master \in Sims,
           mp \notin masters[master], NEW l,
           l.master = Name[master], l.master_port = mp
    PROVE  ~Joined(S, masters, slaves, l) /\ ~ChannelJoined(S, masters, slaves, l)
<1>1. \A o \in S : Name[o] = Name[master] => o = master
  BY ModuleByName, KindsDiffer DEF SimNamesDiffer
<1>. QED
  BY <1>1 DEF Joined, ChannelJoined

LEMMA NewSlaveIsFree ==
    ASSUME SimNamesDiffer, NEW S \in SUBSET Sims, NEW masters, NEW slaves, NEW slave \in Sims, NEW sp,
           sp \notin slaves[slave], NEW l,
           l.slave = Name[slave], l.slave_port = sp
    PROVE  ~ChannelJoined(S, masters, slaves, l)
<1>1. \A o \in S : Name[o] = Name[slave] => o = slave
  BY DEF SimNamesDiffer
<1>. QED
  BY <1>1 DEF ChannelJoined

LEMMA OneLinkStep ==
    ASSUME ConnectedInv, OneLinkEach, [Next]_genVars
    PROVE  OneLinkEach'
<1>. USE DEF ConnectedInv
<1>1. /\ Range(simulators) \subseteq Sims
      /\ \A s \in Sims : Range(modules[s]) \subseteq Mods
  BY RangeType DEF TypeOK
<1>2. ASSUME UNCHANGED links
      PROVE  OneLinkEach'
  BY <1>2 DEF OneLinkEach, links
<1>3. \A master, slave, mp, sp, size : \A l \in NewLinks(master, slave, mp, sp, size) :
          /\ l = Link(master, slave, mp, sp)
          /\ l.master = Name[master] /\ l.master_port = mp
  BY DEF NewLinks, Link
<1>4. ASSUME NEW s \in Sims, NEW master \in Mods, NEW slave \in Mods,
             NEW mp \in PortNames, NEW sp \in PortNames, NEW size \in Sizes,
             JoinsModules(s, master, slave, mp, sp, size)
      PROVE  OneLinkEach'
  <2>1. UNCHANGED <<portLinks, chanLinks>> /\ mp \notin mports[master]
    BY <1>4 DEF JoinsModules, Joins, addSimPorts, hasMasterSimPort
  <2>2. \A t \in Sims : modLinks'[t] = IF t = s THEN modLinks[t] \cup NewLinks(master, slave, mp, sp, size)
                                                ELSE modLinks[t]
    BY <1>4 DEF JoinsModules, TypeOK
  <2>3. \A t \in Sims : \A k \in modLinks[t] : \A l \in NewLinks(master, slave, mp, sp, size) :
            ~SamePort(l, k) /\ ~SamePort(k, l)
    <3>. SUFFICES ASSUME NEW t \in Sims, NEW k \in modLinks[t],
                         k.master = Name[master], k.master_port = mp
                  PROVE  FALSE
      BY <1>3 DEF SamePort
    <3>1. Joined(Range(modules[t]), mports, sports, k)
      BY DEF LinksInv
    <3>. QED
      BY <1>1, <2>1, <3>1, NewPortIsFree
  <2>4. \A t, u \in Sims : \A l \in modLinks'[t], k \in modLinks'[u] :
            SamePort(l, k) => t = u /\ l = k
    <3>. SUFFICES ASSUME NEW t \in Sims, NEW u \in Sims, NEW l \in modLinks'[t], NEW k \in modLinks'[u],
                         SamePort(l, k)
                  PROVE  t = u /\ l = k
      OBVIOUS
    <3>1. CASE l \in modLinks[t] /\ k \in modLinks[u]
      BY <3>1 DEF OneLinkEach, SamePort
    <3>2. CASE l \notin modLinks[t] /\ k \notin modLinks[u]
      <4>1. t = s /\ u = s
        BY <2>2, <3>2
      <4>2. /\ l \in NewLinks(master, slave, mp, sp, size)
            /\ k \in NewLinks(master, slave, mp, sp, size)
        BY <2>2, <3>2
      <4>3. l = Link(master, slave, mp, sp) /\ k = Link(master, slave, mp, sp)
        BY <1>3, <4>2
      <4>. QED
        BY <4>1, <4>3
    <3>3. CASE l \in modLinks[t] /\ k \notin modLinks[u]
      BY <2>2, <2>3, <3>3
    <3>4. CASE l \notin modLinks[t] /\ k \in modLinks[u]
      BY <2>2, <2>3, <3>4
    <3>. QED
      BY <3>1, <3>2, <3>3, <3>4
  <2>. QED
    BY <2>1, <2>4 DEF OneLinkEach, SamePort
<1>5. ASSUME NEW master \in Sims, NEW slave \in Sims,
             NEW mp \in PortNames, NEW sp \in PortNames, NEW size \in Sizes,
             JoinsSimulators(master, slave, mp, sp, size)
      PROVE  OneLinkEach'
  <2>1. UNCHANGED <<modLinks, chanLinks>> /\ mp \notin mports[master]
    BY <1>5 DEF JoinsSimulators, Joins, addSimPorts, hasMasterSimPort
  <2>2. \A k \in portLinks : \A l \in NewLinks(master, slave, mp, sp, size) :
            ~SamePort(l, k) /\ ~SamePort(k, l)
    <3>. SUFFICES ASSUME NEW k \in portLinks, k.master = Name[master], k.master_port = mp
                  PROVE  FALSE
      BY <1>3 DEF SamePort
    <3>1. Joined(Range(simulators), mports, sports, k)
      BY DEF LinksInv
    <3>. QED
      BY <1>1, <2>1, <3>1, NewPortIsFree
  <2>3. \A l, k \in portLinks' : SamePort(l, k) => l = k
    BY <1>3, <1>5, <2>2 DEF JoinsSimulators, OneLinkEach, SamePort
  <2>. QED
    BY <2>1, <2>3 DEF OneLinkEach, SamePort
<1>6. ASSUME NEW master \in Sims, NEW slave \in Sims,
             NEW mp \in PortNames, NEW sp \in PortNames, JoinsChannels(master, slave, mp, sp)
      PROVE  OneLinkEach'
  <2>. DEFINE new == NewChannels(master, slave, mp, sp)
  <2>1. /\ UNCHANGED <<modLinks, portLinks>> /\ chanLinks' = chanLinks \cup new
        /\ mp \notin mchans[master]
    BY <1>6 DEF JoinsChannels, hasMasterChannelPort
  <2>2. \A l \in new : /\ l = Link(master, slave, mp, sp) /\ sp \notin schans[slave]
                       /\ l.master = Name[master] /\ l.master_port = mp
                       /\ l.slave = Name[slave] /\ l.slave_port = sp
    BY DEF NewChannels, hasSlaveChannelPort, Link
  <2>. HIDE DEF new
  <2>3. ASSUME NEW k \in chanLinks, NEW l \in new
        PROVE  /\ ~(l.master = k.master /\ l.master_port = k.master_port)
               /\ ~(l.slave = k.slave /\ l.slave_port = k.slave_port)
    <3>1. ChannelJoined(Range(simulators), mchans, schans, k)
      BY DEF LinksInv
    <3>. QED
      BY <1>1, <2>1, <2>2, <3>1, NewPortIsFree, NewSlaveIsFree
  <2>4. \A l, k \in chanLinks' :
            \/ l.master = k.master /\ l.master_port = k.master_port
            \/ l.slave = k.slave /\ l.slave_port = k.slave_port
            => l = k
    BY <2>1, <2>2, <2>3 DEF OneLinkEach
  <2>. QED
    BY <2>1, <2>4 DEF OneLinkEach
<1>. QED
  BY <1>2, <1>4, <1>5, <1>6, StepShapes, GeneratesKeeps DEF Adds

(* A master port is in one connection at most, and a channel's slave port as well, whatever was
   refused: what a refused call leaves is a port without a connection, never the reverse. *)
THEOREM OneConnectionEach == Spec /\ SimNamesDiffer => []OneLinkEach
<1>1. Init => OneLinkEach
  BY DEF Init, OneLinkEach
<1>2. ConnectedInv /\ OneLinkEach /\ [Next]_genVars => OneLinkEach'
  BY OneLinkStep
<1>. QED
  BY <1>1, <1>2, ConnectedAlways, PTL DEF Spec

-----------------------------------------------------------------------------
(* The files fit together. *)

(* What lies in a file is older than its object: the object has the ports that the file
   declares, and a file written again declares no fewer. *)
FilesAreOlder ==
    \A o \in Objects : files[Name[o]] # None =>
        /\ files[Name[o]].mports \subseteq mports[o]
        /\ DOMAIN files[Name[o]].sports \subseteq DOMAIN sports[o]

(* Files appear, and gain ports. *)
FilesGrow ==
    \A n \in Names : files[n] # None =>
        /\ files'[n] # None
        /\ files[n].mports \subseteq files'[n].mports
        /\ DOMAIN files[n].sports \subseteq DOMAIN files'[n].sports

(* FitsFiles, of the files that a step leaves. *)
FitsAfter(text) ==
    /\ \A n \in text.includes : files'[n] # None
    /\ \A l \in text.links : /\ files'[l.master] # None
                             /\ files'[l.slave] # None
                             /\ l.master_port \in files'[l.master].mports
                             /\ l.slave_port \in DOMAIN files'[l.slave].sports

\* What fitted the files fits them when they have grown.
LEMMA FitsGrown ==
    ASSUME FilesGrow, NEW text, text.includes \subseteq Names, text.links \subseteq LinkType,
           FitsFiles(text)
    PROVE  FitsAfter(text)
BY DEF FilesGrow, FitsFiles, FitsAfter, Declares, LinkType

\* The text of the top and of a simulator fits when all it refers to has just been written.
LEMMA FitsWritten ==
    ASSUME TypeOK, NEW S \in SUBSET Objects, NEW text, text.includes = {Name[o] : o \in S},
           \A l \in text.links : Joined(S, mports, sports, l),
           \A o \in S : /\ files'[Name[o]] # None
                        /\ files'[Name[o]].mports = mports[o]
                        /\ files'[Name[o]].sports = sports[o]
    PROVE  FitsAfter(text)
BY DEF FitsAfter, Joined

\* Objects are known by their names.
LEMMA ObjectByName ==
    ASSUME SimNamesDiffer, NEW o \in Objects, NEW p \in Objects, Name[o] = Name[p]
    PROVE  o = p
BY ModuleByName, KindsDiffer DEF SimNamesDiffer, Objects

\* What a generation does to the files.
LEMMA WriteAll ==
    ASSUME SimNamesDiffer, TypeOK, NEW W \in SUBSET Objects, Write(W)
    PROVE  /\ \A o \in W : /\ files'[Name[o]] = Text(o)
                           /\ files'[Name[o]] # None
                           /\ files'[Name[o]].mports = mports[o]
                           /\ files'[Name[o]].sports = sports[o]
           /\ \A o \in Objects \ W : files'[Name[o]] = files[Name[o]]
<1>1. ASSUME NEW o \in W
      PROVE  files'[Name[o]] = Text(o)
  <2>1. \A p \in W : Name[p] = Name[o] => p = o
    BY ObjectByName
  <2>. QED
    BY <2>1, WriteWrites
<1>2. ASSUME NEW o \in W
      PROVE  Text(o) # None /\ Text(o).mports = mports[o] /\ Text(o).sports = sports[o]
  <2>1. CASE o \in Mods
    BY <2>1, TextTypes DEF ModuleText
  <2>2. CASE o \in Sims
    BY <2>2, TextTypes DEF SimText
  <2>. QED
    BY <2>1, <2>2 DEF Objects
<1>3. ASSUME NEW o \in Objects \ W
      PROVE  files'[Name[o]] = files[Name[o]]
  <2>1. \A p \in W : Name[p] # Name[o]
    BY <1>3, ObjectByName
  <2>. QED
    BY <2>1, WriteKeeps
<1>. QED
  BY <1>1, <1>2, <1>3

(* Why the files fit together, and go on doing so. *)
FilesInv == ConnectedInv /\ FilesAreOlder /\ FilesFitTogether

\* A generation, of objects that include the modules of each simulator it writes.
LEMMA GenerationFits ==
    ASSUME FilesInv, NEW W \in SUBSET Objects, Write(W),
           \A s \in W \cap Sims : Range(modules[s]) \subseteq W
    PROVE  /\ FilesGrow
           /\ \A s \in Sims : files'[Name[s]] # None => FitsAfter(files'[Name[s]])
<1>. USE DEF FilesInv, ConnectedInv
<1>1. /\ \A o \in W : /\ files'[Name[o]] = Text(o)
                      /\ files'[Name[o]] # None
                      /\ files'[Name[o]].mports = mports[o]
                      /\ files'[Name[o]].sports = sports[o]
      /\ \A o \in Objects \ W : files'[Name[o]] = files[Name[o]]
  BY WriteAll
<1>2. FilesGrow
  <2>. SUFFICES ASSUME NEW o \in Objects, files[Name[o]] # None
                PROVE  /\ files'[Name[o]] # None
                       /\ files[Name[o]].mports \subseteq files'[Name[o]].mports
                       /\ DOMAIN files[Name[o]].sports \subseteq DOMAIN files'[Name[o]].sports
    BY DEF FilesGrow, Names
  <2>1. CASE o \in W
    BY <1>1, <2>1 DEF FilesAreOlder
  <2>2. CASE o \notin W
    BY <1>1, <2>2
  <2>. QED
    BY <2>1, <2>2
<1>3. ASSUME NEW s \in Sims, s \in W
      PROVE  FitsAfter(files'[Name[s]])
  <2>1. files'[Name[s]] = SimText(s)
    BY <1>1, <1>3, TextTypes
  <2>2. /\ SimText(s).includes = {Name[o] : o \in Range(modules[s])}
        /\ SimText(s).links = modLinks[s]
    BY DEF SimText, Added
  <2>3. Range(modules[s]) \subseteq W
    BY <1>3
  <2>4. \A l \in modLinks[s] : Joined(Range(modules[s]), mports, sports, l)
    BY DEF LinksInv
  <2>5. Range(modules[s]) \in SUBSET Objects
    BY <2>3
  <2>. QED
    BY <1>1, <2>1, <2>2, <2>3, <2>4, <2>5, FitsWritten
<1>4. ASSUME NEW s \in Sims, s \notin W, files'[Name[s]] # None
      PROVE  FitsAfter(files'[Name[s]])
  <2>1. files'[Name[s]] = files[Name[s]]
    BY <1>1, <1>4, KindsDiffer
  <2>2. files[Name[s]] \in SimFile /\ FitsFiles(files[Name[s]])
    BY <1>4, <2>1 DEF TypeOK, FilesFitTogether
  <2>3. files[Name[s]].includes \subseteq Names /\ files[Name[s]].links \subseteq LinkType
    BY <2>2 DEF SimFile
  <2>. QED
    BY <1>2, <2>1, <2>2, <2>3, FitsGrown
<1>. QED
  BY <1>2, <1>3, <1>4

\* What a generation must show: the files it leaves fit together.
LEMMA GenerationStep ==
    ASSUME FilesInv, NEW W \in SUBSET Objects, Write(W),
           \A s \in W \cap Sims : Range(modules[s]) \subseteq W,
           UNCHANGED <<simulators, modules, ports, links>>,
           topFile' # None => FitsAfter(topFile'),
           mainFile' => topFile' # None
    PROVE  FilesAreOlder' /\ FilesFitTogether'
<1>. USE DEF FilesInv, ConnectedInv
<1>1. FilesAreOlder'
  <2>. SUFFICES ASSUME NEW o \in Objects, files'[Name[o]] # None
                PROVE  /\ files'[Name[o]].mports \subseteq mports[o]
                       /\ DOMAIN files'[Name[o]].sports \subseteq DOMAIN sports[o]
    BY DEF FilesAreOlder, ports
  <2>1. CASE o \in W
    BY <2>1, WriteAll
  <2>2. CASE o \notin W
    BY <2>2, WriteAll DEF FilesAreOlder
  <2>. QED
    BY <2>1, <2>2
<1>2. \A s \in Sims : files'[Name[s]] # None => FitsAfter(files'[Name[s]])
  BY GenerationFits
<1>3. \A text : FitsAfter(text) =>
          /\ \A n \in text.includes : files'[n] # None
          /\ \A l \in text.links : Declares(l.master, l)' /\ Declares(l.slave, l)'
  BY DEF FitsAfter, Declares
<1>. QED
  BY <1>1, <1>2, <1>3 DEF FilesFitTogether, FitsFiles

\* The text of the top that lies there still fits.
LEMMA TopStays ==
    ASSUME FilesInv, FilesGrow, UNCHANGED <<topFile, mainFile>>
    PROVE  /\ topFile' # None => FitsAfter(topFile')
           /\ mainFile' => topFile' # None
<1>. USE DEF FilesInv, ConnectedInv
<1>1. mainFile' => topFile' # None
  BY DEF FilesFitTogether
<1>2. ASSUME topFile # None
      PROVE  FitsAfter(topFile)
  <2>1. topFile \in TopFile /\ FitsFiles(topFile)
    BY <1>2 DEF TypeOK, FilesFitTogether
  <2>2. topFile.includes \subseteq Names /\ topFile.links \subseteq LinkType
    BY <2>1 DEF TopFile
  <2>. QED
    BY <2>1, <2>2, FitsGrown
<1>. QED
  BY <1>1, <1>2

LEMMA CodegenModuleFits ==
    ASSUME FilesInv, NEW m \in Mods, codegenModule(m), ~Refuse
    PROVE  FilesAreOlder' /\ FilesFitTogether'
<1>1. Write({m}) /\ UNCHANGED <<topFile, mainFile>>
  BY DEF codegenModule
<1>2. {m} \in SUBSET Objects /\ \A s \in {m} \cap Sims : Range(modules[s]) \subseteq {m}
  BY KindsDiffer
<1>3. UNCHANGED <<simulators, modules, ports, links>>
  BY GeneratesKeeps DEF Generates
<1>4. FilesGrow
  BY <1>1, <1>2, GenerationFits
<1>. QED
  BY <1>1, <1>2, <1>3, <1>4, TopStays, GenerationStep

\* What a simulator's codegen writes includes the modules of what it writes.
LEMMA WrittenByClosed ==
    ASSUME TypeOK, NEW s \in Sims, NEW t \in WrittenBy(s) \cap Sims
    PROVE  Range(modules[t]) \subseteq WrittenBy(s)
<1>1. Range(modules[s]) \subseteq Mods
  BY RangeType DEF TypeOK
<1>2. t = s
  BY <1>1, WrittenByType, KindsDiffer
<1>. QED
  BY <1>2, WrittenByType

LEMMA CodegenSimFits ==
    ASSUME FilesInv, NEW s \in Sims, codegenSim(s), ~Refuse
    PROVE  FilesAreOlder' /\ FilesFitTogether'
<1>1. Write(WrittenBy(s)) /\ UNCHANGED <<topFile, mainFile>>
  BY DEF codegenSim
<1>2. /\ WrittenBy(s) \in SUBSET Objects
      /\ \A t \in WrittenBy(s) \cap Sims : Range(modules[t]) \subseteq WrittenBy(s)
  BY WrittenByType, WrittenByClosed DEF FilesInv, ConnectedInv
<1>3. UNCHANGED <<simulators, modules, ports, links>>
  BY GeneratesKeeps DEF Generates
<1>4. FilesGrow
  BY <1>1, <1>2, GenerationFits
<1>. QED
  BY <1>1, <1>2, <1>3, <1>4, TopStays, GenerationStep

LEMMA CodegenTopFits ==
    ASSUME FilesInv, codegenTop, ~Refuse
    PROVE  FilesAreOlder' /\ FilesFitTogether'
<1>. USE DEF FilesInv, ConnectedInv
<1>. DEFINE W == UNION {WrittenBy(s) : s \in Reached}
<1>1. /\ Write(W)
      /\ topFile' = IF TopWritten THEN TopText ELSE topFile
      /\ mainFile' = (mainFile \/ (TopWritten /\ ~systemc))
  BY DEF codegenTop
<1>2. W \in SUBSET Objects /\ Reached \subseteq Sims
  BY ReachedType
<1>3. \A s \in W \cap Sims : Range(modules[s]) \subseteq W
  BY <1>2, WrittenByClosed
<1>4. UNCHANGED <<simulators, modules, ports, links>>
  BY GeneratesKeeps DEF Generates
<1>5. TopWritten => Range(simulators) \subseteq W
  <2>. SUFFICES ASSUME TopWritten, NEW s \in Range(simulators)
                PROVE  s \in W
    OBVIOUS
  <2>1. s \in Reached /\ s \in Sims /\ Complete(s)
    BY ReachedType DEF TopWritten
  <2>2. s \in WrittenBy(s)
    BY <2>1, WrittenByType
  <2>. QED
    BY <2>1, <2>2
<1>. HIDE DEF W
<1>6. FilesGrow
  BY <1>1, <1>2, <1>3, GenerationFits
<1>7. ASSUME TopWritten
      PROVE  FitsAfter(TopText)
  <2>1. TopText.includes = {Name[o] : o \in Range(simulators)} /\ TopText.links = portLinks
    BY DEF TopText, Added
  <2>2. \A l \in portLinks : Joined(Range(simulators), mports, sports, l)
    BY DEF LinksInv
  <2>3. Range(simulators) \in SUBSET Objects /\ Range(simulators) \subseteq W
    BY <1>2, <1>5, <1>7
  <2>. QED
    BY <1>1, <1>2, <2>1, <2>2, <2>3, WriteAll, FitsWritten
<1>8. CASE TopWritten
  <2>1. topFile' = TopText /\ TopText # None
    BY <1>1, <1>8, TextTypes
  <2>. QED
    BY <1>1, <1>2, <1>3, <1>4, <1>7, <1>8, <2>1, GenerationStep
<1>9. CASE ~TopWritten
  <2>1. UNCHANGED <<topFile, mainFile>>
    BY <1>1, <1>9 DEF TypeOK
  <2>. QED
    BY <1>1, <1>2, <1>3, <1>4, <1>6, <2>1, TopStays, GenerationStep
<1>. QED
  BY <1>8, <1>9

\* A step that writes nothing leaves the files, and their objects with more ports.
LEMMA ProjectStays ==
    ASSUME FilesInv, PortsGrow, UNCHANGED project
    PROVE  FilesAreOlder' /\ FilesFitTogether'
<1>1. FilesFitTogether'
  BY DEF FilesInv, FilesFitTogether, FitsFiles, Declares, project
<1>2. FilesAreOlder'
  BY DEF FilesInv, FilesAreOlder, PortsGrow, project
<1>. QED
  BY <1>1, <1>2

LEMMA FilesStep ==
    ASSUME FilesInv, [Next]_genVars
    PROVE  FilesAreOlder' /\ FilesFitTogether'
<1>. USE DEF FilesInv, ConnectedInv
<1>1. CASE UNCHANGED project
  BY <1>1, StepGrows, ProjectStays
<1>2. CASE Generates
  <2>1. Refuse => UNCHANGED project
    BY DEF Refuse
  <2>. QED
    BY <1>1, <1>2, <2>1, CodegenModuleFits, CodegenSimFits, CodegenTopFits DEF Generates
<1>3. \A dict, master, slave, mp, sp, size :
          Joins(dict, master, slave, mp, sp, size) => UNCHANGED project
  BY DEF Joins, addSimPorts
<1>. QED
  BY <1>1, <1>2, <1>3, StepShapes DEF Adds, JoinsModules, JoinsSimulators, JoinsChannels

(* The files lying in the project fit together, when simulators have names that differ: what a
   file includes is there, and both ports of every connection it makes are declared, after any
   number of calls that returned or raised and of generations that stopped half-way. The
   invariant behind it is that a file is never ahead of its object (FilesAreOlder), so that
   writing it again takes away no port that another file, older or newer, refers to. *)
THEOREM FilesAlwaysFit == Spec /\ SimNamesDiffer => []FilesFitTogether
<1>1. Init => FilesAreOlder /\ FilesFitTogether
  <2>1. Init => \A o \in Objects : files[Name[o]] = None
    BY DEF Init, Names
  <2>. QED
    BY <2>1, KindsDiffer DEF Init, FilesAreOlder, FilesFitTogether
<1>2. FilesInv => FilesFitTogether
  BY DEF FilesInv
<1>3. ConnectedInv /\ FilesAreOlder /\ FilesFitTogether /\ [Next]_genVars
          => FilesAreOlder' /\ FilesFitTogether'
  BY FilesStep DEF FilesInv
<1>. QED
  BY <1>1, <1>2, <1>3, ConnectedAlways, PTL DEF Spec
=============================================================================

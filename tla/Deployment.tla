----------------------------- MODULE Deployment ------------------------------
(***************************************************************************)
(* Deploying the contracts with lib-deploy.js, factory-deploy.js and       *)
(* twamm-deploy.js.  An operator runs one script after the other and, in   *)
(* between, copies the addresses that were printed into the scripts, one   *)
(* at a time, and into hardhat.config.js.  A script may be aborted at any  *)
(* point: what it has printed by then stands there all the same.           *)
(*                                                                         *)
(* An address is a network and the place of a contract among those that    *)
(* the operator has deployed there.                                        *)
(***************************************************************************)
EXTENDS Naturals, Sequences, FiniteSets

CONSTANTS
  Deployed,      \* the networks that deployed.js lists
  Fresh,         \* networks where nothing is deployed
  MaxRuns,       \* bound: runs of a script
  Careful        \* whether the operator keeps to the order of the scripts

ASSUME NetworksAssumption == Deployed # {} /\ Deployed \cap Fresh = {}
ASSUME CarefulAssumption == Careful \in BOOLEAN

VARIABLES code,     \* the contracts on each network, those sent included
          libs,     \* addresses of libraries in factory- and twamm-deploy.js
          config,   \* address of the factory for each network
          printed,  \* addresses of libraries last printed for each network
          proc,     \* the script that runs, or the last one that has
          runs

vars == <<code, libs, config, printed, proc, runs>>

Network == Deployed \cup Fresh

LibName == {"TransferHelper", "OrderPoolLib", "BinarySearchTreeLib",
            "LongTermOrdersLib", "Library"}

ContractName == LibName \cup {"Factory", "TWAMM"}

NoAddress == <<"", 0>>

\* The libraries to link into each contract; the pair's into whoever makes it.
LibrariesOf ==
  [name \in ContractName |->
     CASE name = "LongTermOrdersLib" -> {"OrderPoolLib", "BinarySearchTreeLib"}
       [] name \in {"Library", "Factory"} -> {"LongTermOrdersLib", "BinarySearchTreeLib"}
       [] name = "TWAMM" -> {"Library", "TransferHelper"}
       [] OTHER -> {}]

Contract(name, addresses, factory, state) ==
  [name |-> name, links |-> [lib \in LibrariesOf[name] |-> addresses[lib]],
   factory |-> factory, twamm |-> NoAddress, state |-> state]

At(c, address) == c[address[1]][address[2]]

HasCode(c, address, name) ==
  /\ address[1] \in Network
  /\ address[2] \in DOMAIN c[address[1]]
  /\ At(c, address).name = name
  /\ At(c, address).state = "live"
-----------------------------------------------------------------------------
\* What each script deploys, in this order.
LibDeploy == <<"TransferHelper", "OrderPoolLib", "BinarySearchTreeLib",
               "LongTermOrdersLib", "Library">>

FactoryDeploy == <<"Factory">>

TwammDeploy == <<"TWAMM">>

Script == {LibDeploy, FactoryDeploy, TwammDeploy}

\* The libraries of which addresses stand in a script as constants.
Constants(script) == IF script = LibDeploy THEN {} ELSE LibrariesOf[script[1]]

NoLibs == [lib \in LibName |-> NoAddress]

\* deployed.js: the libraries, the factory and the router of a network.
LibsListed(net) == [lib \in LibName |->
  <<net, CHOOSE i \in DOMAIN LibDeploy : LibDeploy[i] = lib>>]

FactoryListed(net) == <<net, 6>>

Listed(net) ==
  [i \in 1 .. 5 |-> Contract(LibDeploy[i], LibsListed(net), NoAddress, "live")]
  \o <<[Contract("Factory", LibsListed(net), NoAddress, "live")
          EXCEPT !.twamm = <<net, 7>>],
       Contract("TWAMM", LibsListed(net), FactoryListed(net), "live")>>

\* A process that ends leaves nothing but its exit code, and what it has printed.
Ended(exit) == [script |-> LibDeploy, net |-> "", pc |-> 1, own |-> NoLibs,
                sent |-> NoAddress, exit |-> exit]

\* The scripts have the libraries of one of the networks.
Init ==
  /\ code = [net \in Network |-> IF net \in Deployed THEN Listed(net) ELSE <<>>]
  /\ printed = [net \in Network |-> IF net \in Deployed THEN LibsListed(net) ELSE NoLibs]
  /\ libs \in {printed[net] : net \in Deployed}
  /\ config = [net \in Network |-> IF net \in Deployed THEN FactoryListed(net) ELSE NoAddress]
  /\ proc = Ended("0")
  /\ runs = 0

Running == proc.exit = "running"

\* Addresses of one run ascend: none but the first ones has been replaced since
\* if the first one still comes before the last.
OfOneRun(addresses) == addresses["TransferHelper"][2] < addresses["Library"][2]

(***************************************************************************)
(* A careful operator goes by the addresses of a run of lib-deploy.js that *)
(* has printed them all, if none was begun since; waits until the script   *)
(* has them; and runs twamm-deploy.js with a factory deployed after them.  *)
(***************************************************************************)
InOrder(script, net) ==
  script # LibDeploy =>
    /\ OfOneRun(printed[net])
    /\ \A lib \in Constants(script) : libs[lib] = printed[net][lib]
    /\ script = TwammDeploy => config[net][2] > printed[net]["Library"][2]

Start(script, net) ==
  /\ ~Running
  /\ runs < MaxRuns
  /\ Careful => InOrder(script, net)
  /\ proc' = [script |-> script, net |-> net, pc |-> 1, own |-> NoLibs,
              sent |-> NoAddress, exit |-> "running"]
  /\ runs' = runs + 1
  /\ UNCHANGED <<code, libs, config, printed>>

-----------------------------------------------------------------------------
CanInitializeAgain(c, address) == HasCode(c, address, "Factory")

\* The constructor of TWAMM initializes the factory, once and for all.
CanInitialize(c, address) ==
  HasCode(c, address, "Factory") /\ At(c, address).twamm = NoAddress

Constructs(c, contract) ==
  contract.name = "TWAMM" => CanInitialize(c, contract.factory)

\* The addresses to link: of this run, or the ones written into the script.
KnownToScript == libs

Known == IF proc.script = LibDeploy THEN proc.own ELSE libs

ToDeploy ==
  Contract(proc.script[proc.pc], Known, config[proc.net], "pending")

Sending == Running /\ proc.pc <= Len(proc.script)

\* lib-deploy.js waits for no deployment.  It prints each address once the
\* library is sent, unless it is stopped in between.
Deploy ==
  LET address == <<proc.net, Len(code[proc.net]) + 1>>
      own == IF proc.script = LibDeploy
             THEN [proc.own EXCEPT ![ToDeploy.name] = address] ELSE proc.own
      last == proc.script = LibDeploy /\ proc.pc = Len(LibDeploy) IN
  /\ Sending
  /\ Constructs(code, ToDeploy)
  /\ code' = [code EXCEPT ![proc.net] = Append(@, ToDeploy)]
  /\ \E stopped \in BOOLEAN :
       /\ proc' = IF stopped THEN Ended("aborted") ELSE IF last THEN Ended("0")
                  ELSE [proc EXCEPT !.pc = @ + 1, !.own = own, !.sent = address]
       /\ printed' = IF proc.script = LibDeploy /\ ~stopped
                     THEN [printed EXCEPT ![proc.net][ToDeploy.name] = address]
                     ELSE printed
  /\ UNCHANGED <<libs, config, runs>>

\* The estimate of the gas has failed.
FailToDeploy ==
  /\ Sending
  /\ ~Constructs(code, ToDeploy)
  /\ proc' = Ended("1")
  /\ UNCHANGED <<code, libs, config, printed, runs>>

\* The other two wait until what they have sent is deployed, and print it.
WaitDeployed ==
  /\ Running
  /\ proc.pc > Len(proc.script)
  /\ At(code, proc.sent).state # "pending"
  /\ proc' = IF At(code, proc.sent).state = "live"
             THEN [proc EXCEPT !.exit = "0"] ELSE Ended("1")
  /\ UNCHANGED <<code, libs, config, printed, runs>>

\* Ctrl + C.
Abort ==
  /\ Running
  /\ proc' = Ended("aborted")
  /\ UNCHANGED <<code, libs, config, printed, runs>>

\* The next transaction of the operator is included in a block.
Include(net) ==
  \E i \in DOMAIN code[net] :
    LET contract == code[net][i]
        live == [code EXCEPT ![net][i].state = "live"] IN
    /\ contract.state = "pending"
    /\ \A j \in 1 .. i - 1 : code[net][j].state # "pending"
    /\ code' = IF ~Constructs(code, contract)
               THEN [code EXCEPT ![net][i].state = "failed"]
               ELSE IF contract.name # "TWAMM" THEN live
               ELSE [live EXCEPT
                 ![contract.factory[1]][contract.factory[2]].twamm = <<net, i>>]
    /\ UNCHANGED <<libs, config, printed, proc, runs>>

\* The operator copies what was printed into one of the scripts, whether all of
\* it comes from one run or not.
EditScript(script, net) ==
  /\ ~Running
  /\ \A lib \in Constants(script) : printed[net][lib] # NoAddress
  /\ libs' = [lib \in LibName |-> IF lib \in Constants(script)
                                 THEN printed[net][lib] ELSE libs[lib]]
  /\ UNCHANGED <<code, config, printed, proc, runs>>

EditConfig ==
  /\ proc.script = FactoryDeploy
  /\ proc.exit = "0"
  /\ config' = [config EXCEPT ![proc.net] = proc.sent]
  /\ UNCHANGED <<code, libs, printed, proc, runs>>

Next ==
  \/ \E script \in Script, net \in Network : Start(script, net)
  \/ Deploy
  \/ FailToDeploy
  \/ WaitDeployed
  \/ Abort
  \/ \E net \in Network : Include(net)
  \/ \E script \in Script \ {LibDeploy}, net \in Network : EditScript(script, net)
  \/ EditConfig

Spec == Init /\ [][Next]_vars
-----------------------------------------------------------------------------
DeploymentTypeOK ==
  /\ \A net \in Network : \A i \in DOMAIN code[net] :
       /\ code[net][i].name \in ContractName
       /\ code[net][i].state \in {"pending", "live", "failed"}
  /\ proc.script \in Script
  /\ proc.exit \in {"running", "0", "1", "aborted"}

Live(name) ==
  {address \in UNION {{net} \X DOMAIN code[net] : net \in Network} :
     HasCode(code, address, name)}

(***************************************************************************)
(* A factory obeys the one router that has it: of two runs of              *)
(* twamm-deploy.js for a factory, the one of an aborted run that was mined *)
(* after all among them, one fails.                                        *)
(***************************************************************************)
OneTwammPerFactory ==
  \A address \in Live("TWAMM") :
    LET factory == At(code, address).factory IN
      HasCode(code, factory, "Factory") /\ At(code, factory).twamm = address

(***************************************************************************)
(* What is linked as a library is this library and has its code there,     *)
(* though lib-deploy.js waits for no deployment and may be stopped between *)
(* any two: with an operator that keeps to the order.                      *)
(***************************************************************************)
LinksRight ==
  \A net \in Network : \A i \in DOMAIN code[net] :
    LET contract == code[net][i] IN
      contract.state = "live" =>
        \A lib \in DOMAIN contract.links :
          HasCode(code, contract.links[lib], lib) /\ contract.links[lib][1] = net

(***************************************************************************)
(* The router computes the address of a pair from the bytecode that the    *)
(* library of it has, the factory deploys its own: they are the same code, *)
(* linked alike, so that the router finds the pairs of its factory.  The   *)
(* addresses in them were copied into two scripts at two times, and those  *)
(* printed last may be of several runs.                                    *)
(***************************************************************************)
PairFound ==
  \A address \in Live("TWAMM") :
    LET twamm == At(code, address) IN
      At(code, twamm.links["Library"]).links = At(code, twamm.factory).links
==============================================================================

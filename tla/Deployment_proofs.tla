-------------------------- MODULE Deployment_proofs --------------------------
(***************************************************************************)
(* A factory obeys the one router that has it, for any networks, any       *)
(* number of runs and any operator; and for a careful one, what is linked  *)
(* as a library is this library, and routers find the pairs of their       *)
(* factories.                                                              *)
(***************************************************************************)
EXTENDS Deployment, SequenceTheorems, TLAPS

Address == (Network \cup {""}) \X Nat

Links == UNION {[L -> Address] : L \in SUBSET LibName}

Contracts ==
  [name : ContractName, links : Links, factory : Address, twamm : Address,
   state : {"pending", "live", "failed"}]

Exit == {"running", "0", "1", "aborted"}

CodeTyped == code \in [Network -> Seq(Contracts)]

WrittenTyped ==
  /\ libs \in [LibName -> Address]
  /\ config \in [Network -> Address]
  /\ printed \in [Network -> [LibName -> Address]]

ProcTyped ==
  /\ proc \in [script : Script, net : Network \cup {""}, pc : Nat \ {0},
               own : [LibName -> Address], sent : Address, exit : Exit]
  /\ Running => proc.net \in Network

\* OneTwammPerFactory, network by network.
Bound(c) ==
  \A net \in Network : \A i \in DOMAIN c[net] :
    HasCode(c, <<net, i>>, "TWAMM") =>
      LET factory == c[net][i].factory IN
        HasCode(c, factory, "Factory") /\ At(c, factory).twamm = <<net, i>>

DInv == CodeTyped /\ WrittenTyped /\ ProcTyped /\ Bound(code)

\* Bound is the property that the run checks, read network by network.
LEMMA BoundIsProperty == OneTwammPerFactory <=> Bound(code)
<1>1. ASSUME OneTwammPerFactory, NEW net \in Network, NEW i \in DOMAIN code[net],
             HasCode(code, <<net, i>>, "TWAMM")
      PROVE  LET factory == code[net][i].factory IN
               /\ HasCode(code, factory, "Factory")
               /\ At(code, factory).twamm = <<net, i>>
  <2>1. <<net, i>> \in Live("TWAMM")  BY <1>1 DEF Live
  <2>2. At(code, <<net, i>>).factory = code[net][i].factory  BY DEF At
  <2> QED  BY <1>1, <2>1, <2>2 DEF OneTwammPerFactory
<1>2. ASSUME Bound(code), NEW address \in Live("TWAMM")
      PROVE  LET factory == At(code, address).factory IN
               /\ HasCode(code, factory, "Factory")
               /\ At(code, factory).twamm = address
  <2>0. PICK net \in Network : address \in {net} \X DOMAIN code[net]
    BY <1>2 DEF Live
  <2>1. PICK i \in DOMAIN code[net] : address = <<net, i>>
    BY <2>0
  <2>2. HasCode(code, <<net, i>>, "TWAMM")  BY <1>2, <2>1 DEF Live
  <2>3. At(code, address).factory = code[net][i].factory  BY <2>1 DEF At
  <2> QED  BY <1>2, <2>1, <2>2, <2>3 DEF Bound
<1> QED  BY <1>1, <1>2 DEF OneTwammPerFactory, Bound

(***************************************************************************)
(* Facts about the contracts of a state c.                                 *)
(***************************************************************************)
LEMMA NoAddressTyped == NoAddress \in Address
BY DEF NoAddress, Address

\* What a deployment sends is a contract.
LEMMA ContractTyped ==
  ASSUME NEW name \in ContractName, NEW addresses \in [LibName -> Address],
         NEW factory \in Address, NEW state \in {"pending", "live", "failed"}
  PROVE  Contract(name, addresses, factory, state) \in Contracts
<1>1. LibrariesOf[name] \in SUBSET LibName
  BY DEF LibrariesOf, LibName, ContractName
<1>2. [lib \in LibrariesOf[name] |-> addresses[lib]] \in [LibrariesOf[name] -> Address]
  BY <1>1
<1>3. [lib \in LibrariesOf[name] |-> addresses[lib]] \in Links
  BY <1>1, <1>2 DEF Links
<1> QED  BY <1>3, NoAddressTyped DEF Contract, Contracts

\* A contract that is added does not matter until it is live.
LEMMA AppendKeepsBound ==
  ASSUME NEW c \in [Network -> Seq(Contracts)], Bound(c),
         NEW net \in Network, NEW contract \in Contracts, contract.state = "pending"
  PROVE  Bound([c EXCEPT ![net] = Append(@, contract)])
<1> DEFINE d == [c EXCEPT ![net] = Append(@, contract)]
<1>1. ASSUME NEW n \in Network, NEW i \in Nat, i \in DOMAIN c[n]
      PROVE  i \in DOMAIN d[n] /\ d[n][i] = c[n][i]
  <2>1. c[n] \in Seq(Contracts)  OBVIOUS
  <2>2. CASE n = net
    <3>1. d[n] = Append(c[n], contract)  BY <2>2
    <3> QED  BY <3>1, <2>1, <1>1
  <2>3. CASE n # net
    BY <2>3, <1>1
  <2> QED  BY <2>2, <2>3
<1>2. ASSUME NEW n \in Network, NEW i \in DOMAIN d[n], d[n][i].state = "live"
      PROVE  i \in Nat /\ i \in DOMAIN c[n]
  <2>1. c[n] \in Seq(Contracts)  OBVIOUS
  <2>2. CASE n = net
    <3>1. d[n] = Append(c[n], contract)  BY <2>2
    <3>2. i \in 1 .. Len(c[n]) + 1  BY <3>1, <2>1
    <3>3. i # Len(c[n]) + 1  BY <3>1, <2>1, <1>2
    <3> QED  BY <3>2, <3>3, <2>1
  <2>3. CASE n # net
    BY <2>3, <2>1
  <2> QED  BY <2>2, <2>3
<1>3. ASSUME NEW n \in Network, NEW i \in DOMAIN d[n], HasCode(d, <<n, i>>, "TWAMM")
      PROVE  LET factory == d[n][i].factory IN
               HasCode(d, factory, "Factory") /\ At(d, factory).twamm = <<n, i>>
  <2>1. d[n][i].state = "live" /\ d[n][i].name = "TWAMM"  BY <1>3 DEF HasCode, At
  <2>2. i \in Nat /\ i \in DOMAIN c[n]  BY <2>1, <1>2
  <2>3. d[n][i] = c[n][i]  BY <2>2, <1>1
  <2>4. HasCode(c, <<n, i>>, "TWAMM")  BY <2>1, <2>2, <2>3 DEF HasCode, At
  <2> DEFINE f == c[n][i].factory
  <2>5. HasCode(c, f, "Factory") /\ At(c, f).twamm = <<n, i>>
    BY <2>2, <2>4 DEF Bound
  <2>6. f[1] \in Network /\ f[2] \in DOMAIN c[f[1]]  BY <2>5 DEF HasCode
  <2>7. f[2] \in Nat  BY <2>6
  <2>8. f[2] \in DOMAIN d[f[1]] /\ d[f[1]][f[2]] = c[f[1]][f[2]]
    BY <2>6, <2>7, <1>1
  <2>9. HasCode(d, f, "Factory") /\ At(d, f).twamm = <<n, i>>
    BY <2>5, <2>6, <2>8 DEF HasCode, At
  <2> QED  BY <2>3, <2>9
<1> QED  BY <1>3 DEF Bound

\* Nor does what changes neither who is a live router nor what factories have.
LEMMA SameKeepsBound ==
  ASSUME NEW c \in [Network -> Seq(Contracts)], NEW d \in [Network -> Seq(Contracts)],
         Bound(c),
         \A n \in Network : DOMAIN d[n] = DOMAIN c[n],
         \A n \in Network : \A j \in DOMAIN c[n] :
           /\ d[n][j].factory = c[n][j].factory
           /\ HasCode(d, <<n, j>>, "TWAMM") => HasCode(c, <<n, j>>, "TWAMM"),
         \A address \in Address : HasCode(c, address, "Factory") =>
           HasCode(d, address, "Factory") /\ At(d, address).twamm = At(c, address).twamm
  PROVE  Bound(d)
<1> SUFFICES ASSUME NEW n \in Network, NEW j \in DOMAIN c[n], HasCode(d, <<n, j>>, "TWAMM")
             PROVE  LET factory == d[n][j].factory IN
                      /\ HasCode(d, factory, "Factory")
                      /\ At(d, factory).twamm = <<n, j>>
  BY DEF Bound
<1>1. HasCode(c, <<n, j>>, "TWAMM")  OBVIOUS
<1>2. /\ HasCode(c, c[n][j].factory, "Factory")
      /\ At(c, c[n][j].factory).twamm = <<n, j>>
  BY <1>1 DEF Bound
<1>3. c[n][j].factory \in Address
  <2>1. c[n] \in Seq(Contracts)  OBVIOUS
  <2>2. c[n][j] \in Contracts  BY <2>1
  <2> QED  BY <2>2 DEF Contracts
<1> QED  BY <1>2, <1>3

(***************************************************************************)
(* At first the routers that deployed.js lists have their factories.       *)
(***************************************************************************)
LEMMA LibsListedTyped ==
  ASSUME NEW net \in Network
  PROVE  LibsListed(net) \in [LibName -> Address]
<1> SUFFICES ASSUME NEW lib \in LibName
             PROVE  (CHOOSE i \in DOMAIN LibDeploy : LibDeploy[i] = lib) \in Nat
  BY DEF LibsListed, Address
<1>1. DOMAIN LibDeploy = 1 .. 5  BY DEF LibDeploy
<1>2. \E i \in DOMAIN LibDeploy : LibDeploy[i] = lib
  BY DEF LibDeploy, LibName
<1> QED  BY <1>1, <1>2

\* The entries of a sequence of five, followed by one of two.
LEMMA FiveAndTwo ==
  ASSUME NEW S, NEW s \in Seq(S), NEW t \in Seq(S), Len(s) = 5, Len(t) = 2
  PROVE  /\ s \o t \in Seq(S) /\ Len(s \o t) = 7
         /\ \A i \in 1 .. 5 : (s \o t)[i] = s[i]
         /\ (s \o t)[6] = t[1] /\ (s \o t)[7] = t[2]
<1>1. /\ s \o t \in Seq(S) /\ Len(s \o t) = Len(s) + Len(t)
      /\ \A i \in 1 .. Len(s) + Len(t) :
           (s \o t)[i] = IF i <= Len(s) THEN s[i] ELSE t[i - Len(s)]
  BY ConcatProperties
<1>2. \A i \in 1 .. 7 : (s \o t)[i] = IF i <= 5 THEN s[i] ELSE t[i - 5]
  BY <1>1
<1> QED  BY <1>1, <1>2

\* What a network has from the start: the libraries, then a factory and its router.
LEMMA ListedTyped ==
  ASSUME NEW net \in Network
  PROVE  /\ Listed(net) \in Seq(Contracts)
         /\ Len(Listed(net)) = 7
         /\ \A i \in 1 .. 5 : Listed(net)[i].name = LibDeploy[i]
         /\ Listed(net)[6] = [Contract("Factory", LibsListed(net), NoAddress, "live")
                                EXCEPT !.twamm = <<net, 7>>]
         /\ Listed(net)[7] = Contract("TWAMM", LibsListed(net), FactoryListed(net), "live")
<1> DEFINE first == [i \in 1 .. 5 |->
                       Contract(LibDeploy[i], LibsListed(net), NoAddress, "live")]
           made == Contract("Factory", LibsListed(net), NoAddress, "live")
           factory == [made EXCEPT !.twamm = <<net, 7>>]
           router == Contract("TWAMM", LibsListed(net), FactoryListed(net), "live")
<1>1. \A i \in 1 .. 5 : LibDeploy[i] \in ContractName
  BY DEF LibDeploy, ContractName, LibName
<1>2. \A i \in 1 .. 5 : first[i] \in Contracts
  BY <1>1, LibsListedTyped, NoAddressTyped, ContractTyped
<1>3. first \in Seq(Contracts) /\ Len(first) = 5
  BY <1>2
<1>4. "Factory" \in ContractName /\ "TWAMM" \in ContractName  BY DEF ContractName
<1>5. made \in Contracts
  BY <1>4, LibsListedTyped, NoAddressTyped, ContractTyped
<1>6. factory \in Contracts
  BY <1>5 DEF Contracts, Address
<1>7. router \in Contracts
  <2>1. FactoryListed(net) \in Address  BY DEF FactoryListed, Address
  <2> QED  BY <1>4, <2>1, LibsListedTyped, ContractTyped
<1> DEFINE last == <<factory, router>>
<1>8. last \in Seq(Contracts) /\ Len(last) = 2 /\ last[1] = factory /\ last[2] = router
  BY <1>6, <1>7
<1>9. Listed(net) = first \o last  BY DEF Listed
<1>10. \A i \in 1 .. 5 : first[i].name = LibDeploy[i]  BY DEF Contract
<1> HIDE DEF first, last, factory, router
<1>11. first \o last \in Seq(Contracts) /\ Len(first \o last) = 7
  BY <1>3, <1>8, FiveAndTwo
<1>12. \A i \in 1 .. 5 : (first \o last)[i] = first[i]
  BY <1>3, <1>8, FiveAndTwo
<1>13. (first \o last)[6] = factory /\ (first \o last)[7] = router
  BY <1>3, <1>8, FiveAndTwo
<1> QED  BY <1>9, <1>10, <1>11, <1>12, <1>13 DEF factory, router

\* What is left of a process that ends.
LEMMA EndedTyped ==
  ASSUME NEW exit \in Exit
  PROVE  /\ Ended(exit) \in [script : Script, net : Network \cup {""}, pc : Nat \ {0},
                           own : [LibName -> Address], sent : Address, exit : Exit]
         /\ Ended(exit).script = LibDeploy /\ Ended(exit).exit = exit
<1>1. NoLibs \in [LibName -> Address]  BY NoAddressTyped DEF NoLibs
<1>2. LibDeploy \in Script /\ 1 \in Nat \ {0} /\ "" \in Network \cup {""}
  BY DEF Script
<1> QED  BY <1>1, <1>2, NoAddressTyped DEF Ended

\* The first states satisfy the inductive invariant.
LEMMA InitInv == Init => DInv
<1> SUFFICES ASSUME Init PROVE DInv  OBVIOUS
<1>1. CodeTyped
  <2>1. \A net \in Network : (IF net \in Deployed THEN Listed(net) ELSE <<>>) \in Seq(Contracts)
    BY ListedTyped, EmptySeq
  <2> QED  BY <2>1 DEF Init, CodeTyped
<1>2. \A net \in Network : NoLibs \in [LibName -> Address]
  BY NoAddressTyped DEF NoLibs
<1>3. WrittenTyped
  <2>1. \A net \in Network : FactoryListed(net) \in Address
    BY DEF FactoryListed, Address
  <2>2. printed \in [Network -> [LibName -> Address]]
    BY <1>2, LibsListedTyped DEF Init
  <2>3. config \in [Network -> Address]
    BY <2>1, NoAddressTyped DEF Init
  <2>4. libs \in [LibName -> Address]
    BY <2>2 DEF Init, Network
  <2> QED  BY <2>2, <2>3, <2>4 DEF WrittenTyped
<1>4. ProcTyped
  <2>3. proc = Ended("0")  BY DEF Init
  <2>4. "0" \in Exit /\ "0" # "running"  BY DEF Exit
  <2>5. Ended("0") \in [script : Script, net : Network \cup {""}, pc : Nat \ {0},
                       own : [LibName -> Address], sent : Address, exit : Exit]
    BY <2>4, EndedTyped
  <2>6. ~Running  BY <2>3, <2>4, EndedTyped DEF Running
  <2> QED  BY <2>3, <2>5, <2>6 DEF ProcTyped
<1>5. Bound(code)
  <2> SUFFICES ASSUME NEW net \in Network, NEW i \in DOMAIN code[net],
                      HasCode(code, <<net, i>>, "TWAMM")
               PROVE  LET factory == code[net][i].factory IN
                        /\ HasCode(code, factory, "Factory")
                        /\ At(code, factory).twamm = <<net, i>>
    BY DEF Bound
  <2>1. code[net] = Listed(net)
    <3>1. DOMAIN code[net] # {}  OBVIOUS
    <3>2. CASE net \notin Deployed
      <4>1. code[net] = <<>>  BY <3>2 DEF Init
      <4> QED  BY <3>1, <4>1
    <3> QED  BY <3>2 DEF Init
  <2>2. Listed(net) \in Seq(Contracts) /\ Len(Listed(net)) = 7  BY ListedTyped
  <2>3. i \in 1 .. 7  BY <2>1, <2>2
  <2>4. Listed(net)[i].name = "TWAMM"  BY <2>1 DEF HasCode, At
  <2>5. i \notin 1 .. 5
    <3> SUFFICES ASSUME i \in 1 .. 5 PROVE FALSE  OBVIOUS
    <3>1. LibDeploy[i] # "TWAMM"  BY DEF LibDeploy
    <3> QED  BY <3>1, <2>4, ListedTyped
  <2>6. Listed(net)[6].name = "Factory" /\ Listed(net)[6].state = "live"
           /\ Listed(net)[6].twamm = <<net, 7>>
    BY ListedTyped DEF Contract
  <2>7. Listed(net)[7].factory = <<net, 6>>
    <3>1. Listed(net)[7] = Contract("TWAMM", LibsListed(net), FactoryListed(net), "live")
      BY ListedTyped
    <3>2. Contract("TWAMM", LibsListed(net), FactoryListed(net), "live").factory
            = FactoryListed(net)
      BY DEF Contract
    <3> QED  BY <3>1, <3>2 DEF FactoryListed
  <2>8. i = 7  BY <2>3, <2>4, <2>5, <2>6
  <2>9. 6 \in DOMAIN code[net]  BY <2>1, <2>2
  <2> QED  BY <2>1, <2>6, <2>7, <2>8, <2>9 DEF HasCode, At
<1> QED  BY <1>1, <1>3, <1>4, <1>5 DEF DInv

(***************************************************************************)
(* Including a transaction.                                                *)
(***************************************************************************)
LEMMA ChangedTyped ==
  ASSUME NEW c \in [Network -> Seq(Contracts)], NEW net \in Network,
         NEW i \in DOMAIN c[net], NEW contract \in Contracts
  PROVE  LET d == [c EXCEPT ![net][i] = contract] IN
         /\ d \in [Network -> Seq(Contracts)]
         /\ \A n \in Network : DOMAIN d[n] = DOMAIN c[n]
         /\ \A n \in Network : \A j \in DOMAIN c[n] :
              d[n][j] = IF <<n, j>> = <<net, i>> THEN contract ELSE c[n][j]
<1> DEFINE s == [c[net] EXCEPT ![i] = contract]
           d == [c EXCEPT ![net][i] = contract]
<1>1. c[net] \in Seq(Contracts)  OBVIOUS
<1>2. i \in 1 .. Len(c[net])  BY <1>1
<1>3. /\ s \in Seq(Contracts)
      /\ Len(s) = Len(c[net])
      /\ \A j \in 1 .. Len(c[net]) : s[j] = IF j = i THEN contract ELSE c[net][j]
  BY <1>1, <1>2, ExceptSeq
<1>4. DOMAIN s = DOMAIN c[net]  OBVIOUS
<1>5. d = [c EXCEPT ![net] = s]  OBVIOUS
<1> HIDE DEF s
<1>6. d[net] = s /\ \A n \in Network : n # net => d[n] = c[n]
  BY <1>5
<1>7. d \in [Network -> Seq(Contracts)]
  BY <1>3, <1>5
<1>8. DOMAIN c[net] = 1 .. Len(c[net])  BY <1>1
<1> HIDE DEF d
<1>9. \A n \in Network : DOMAIN d[n] = DOMAIN c[n]
  BY <1>4, <1>6
<1>10. ASSUME NEW n \in Network, NEW j \in DOMAIN c[n]
       PROVE  d[n][j] = IF <<n, j>> = <<net, i>> THEN contract ELSE c[n][j]
  <2>1. CASE n = net  BY <2>1, <1>3, <1>6, <1>8, <1>10
  <2>2. CASE n # net  BY <2>2, <1>6
  <2> QED  BY <2>1, <2>2
<1> QED  BY <1>7, <1>9, <1>10 DEF d

\* A contract that is mined, or is given its router, is a contract.
LEMMA FieldsTyped ==
  ASSUME NEW contract \in Contracts
  PROVE  /\ \A state \in {"pending", "live", "failed"} :
              [contract EXCEPT !.state = state] \in Contracts
         /\ \A address \in Address : [contract EXCEPT !.twamm = address] \in Contracts
BY DEF Contracts

\* A pair is the tuple of its components.
LEMMA PairsAreTuples ==
  ASSUME NEW S, NEW T, NEW p \in S \X T
  PROVE  p = <<p[1], p[2]>> /\ p[1] \in S /\ p[2] \in T
OBVIOUS

\* A contract at an address of a state.
LEMMA AddressOf ==
  ASSUME NEW c \in [Network -> Seq(Contracts)], NEW address \in Address, NEW name,
         HasCode(c, address, name)
  PROVE  /\ address[1] \in Network /\ address[2] \in DOMAIN c[address[1]]
         /\ address[2] \in Nat /\ address = <<address[1], address[2]>>
         /\ c[address[1]][address[2]].name = name
         /\ c[address[1]][address[2]].state = "live"
<1>1. address = <<address[1], address[2]>> /\ address[2] \in Nat
  BY PairsAreTuples DEF Address
<1> QED  BY <1>1 DEF HasCode, At

\* Mining a deployment, with what its constructor does, keeps a router bound to its
\* factory: the factory that it takes had none.
LEMMA IncludeKeeps ==
  ASSUME CodeTyped, Bound(code), NEW net \in Network, Include(net)
  PROVE  CodeTyped' /\ Bound(code')
<1>1. PICK i \in DOMAIN code[net] :
        /\ code[net][i].state = "pending"
        /\ code' = IF ~Constructs(code, code[net][i])
                   THEN [code EXCEPT ![net][i].state = "failed"]
                   ELSE IF code[net][i].name # "TWAMM"
                   THEN [code EXCEPT ![net][i].state = "live"]
                   ELSE [[code EXCEPT ![net][i].state = "live"] EXCEPT
                     ![code[net][i].factory[1]][code[net][i].factory[2]].twamm = <<net, i>>]
  BY DEF Include
<1> DEFINE contract == code[net][i]
           ended(state) == [contract EXCEPT !.state = state]
           after(state) == [code EXCEPT ![net][i] = ended(state)]
<1>2. code \in [Network -> Seq(Contracts)]  BY DEF CodeTyped
<1>3. code[net] \in Seq(Contracts)  BY <1>2
<1>4. i \in 1 .. Len(code[net])  BY <1>3
<1>5. contract \in Contracts  BY <1>3, <1>4, ElementOfSeq
<1>6. \A state \in {"failed", "live"} :
        /\ ended(state) \in Contracts
        /\ [code EXCEPT ![net][i].state = state] = after(state)
        /\ ended(state).name = contract.name
        /\ ended(state).factory = contract.factory
        /\ ended(state).twamm = contract.twamm
        /\ ended(state).state = state
  BY <1>5, FieldsTyped DEF Contracts
<1> HIDE DEF contract, ended
<1>7. ASSUME NEW state \in {"failed", "live"}
      PROVE  /\ after(state) \in [Network -> Seq(Contracts)]
             /\ \A n \in Network : DOMAIN after(state)[n] = DOMAIN code[n]
             /\ \A n \in Network : \A j \in DOMAIN code[n] :
                  after(state)[n][j] =
                    IF <<n, j>> = <<net, i>> THEN ended(state) ELSE code[n][j]
  <2>1. ended(state) \in Contracts  BY <1>6
  <2> QED  BY <1>2, <2>1, ChangedTyped
<1> HIDE DEF after
\* A factory that was live is not the contract that is included.
<1>8. ASSUME NEW state \in {"failed", "live"}, NEW address \in Address,
             NEW name \in ContractName, HasCode(code, address, name)
      PROVE  /\ HasCode(after(state), address, name)
             /\ At(after(state), address) = At(code, address)
             /\ address # <<net, i>>
  <2>1. /\ address[1] \in Network /\ address[2] \in DOMAIN code[address[1]]
        /\ address = <<address[1], address[2]>>
        /\ code[address[1]][address[2]].state = "live"
    BY <1>2, <1>8, AddressOf
  <2>2. address # <<net, i>>
    <3> SUFFICES ASSUME address = <<net, i>> PROVE FALSE  OBVIOUS
    <3>1. address[1] = net /\ address[2] = i  OBVIOUS
    <3> QED  BY <3>1, <2>1, <1>1
  <2>3. after(state)[address[1]][address[2]] = code[address[1]][address[2]]
    BY <2>1, <2>2, <1>7
  <2> QED  BY <2>1, <2>2, <2>3, <1>7, <1>8 DEF HasCode, At
\* The contract that is included is not yet a router that is live.
<1>9. CASE ~Constructs(code, contract) \/ contract.name # "TWAMM"
  <2>1. PICK state \in {"failed", "live"} :
          code' = after(state) /\ (state = "failed" \/ contract.name # "TWAMM")
    BY <1>1, <1>6, <1>9 DEF contract
  <2>2. CodeTyped'  BY <2>1, <1>7 DEF CodeTyped
  <2>3. ASSUME NEW n \in Network, NEW j \in DOMAIN code[n]
        PROVE  /\ after(state)[n][j].factory = code[n][j].factory
               /\ HasCode(after(state), <<n, j>>, "TWAMM") => HasCode(code, <<n, j>>, "TWAMM")
    <3>1. CASE <<n, j>> = <<net, i>>
      <4>1. after(state)[n][j] = ended(state) /\ code[n][j] = contract
        BY <3>1, <1>7 DEF contract
      <4>2. ended(state).state # "live" \/ ended(state).name # "TWAMM"
        BY <2>1, <1>6
      <4> QED  BY <4>1, <4>2, <1>6 DEF HasCode, At
    <3>2. CASE <<n, j>> # <<net, i>>
      <4>1. after(state)[n][j] = code[n][j]  BY <3>2, <1>7
      <4> QED  BY <4>1, <1>7 DEF HasCode, At
    <3> QED  BY <3>1, <3>2
  <2>4. \A address \in Address : HasCode(code, address, "Factory") =>
          /\ HasCode(after(state), address, "Factory")
          /\ At(after(state), address).twamm = At(code, address).twamm
    BY <1>8 DEF ContractName
  <2>5. Bound(after(state))  BY <2>3, <2>4, <1>2, <1>7, SameKeepsBound
  <2> QED  BY <2>1, <2>2, <2>5
\* A router that is constructed takes a factory that no router has.
<1>10. CASE Constructs(code, contract) /\ contract.name = "TWAMM"
  <2> DEFINE f == contract.factory
             taken == [after("live")[f[1]][f[2]] EXCEPT !.twamm = <<net, i>>]
             d == [after("live") EXCEPT ![f[1]][f[2]] = taken]
  <2>1. HasCode(code, f, "Factory") /\ At(code, f).twamm = NoAddress
    BY <1>10 DEF Constructs, CanInitialize
  <2>2. f \in Address  BY <1>5 DEF Contracts
  <2>3. /\ HasCode(after("live"), f, "Factory") /\ f # <<net, i>>
        /\ At(after("live"), f) = At(code, f)
    BY <2>1, <2>2, <1>8 DEF ContractName
  <2>4. code' = d
    BY <1>1, <1>6, <1>10 DEF contract
  <2>5. after("live") \in [Network -> Seq(Contracts)]  BY <1>7
  <2>6. /\ f[1] \in Network /\ f[2] \in DOMAIN after("live")[f[1]]
        /\ f = <<f[1], f[2]>>
        /\ after("live")[f[1]][f[2]].name = "Factory"
        /\ after("live")[f[1]][f[2]].state = "live"
    BY <2>2, <2>3, <2>5, AddressOf
  <2>7. /\ taken \in Contracts /\ taken.name = "Factory" /\ taken.state = "live"
        /\ taken.twamm = <<net, i>>
    <3>1. after("live")[f[1]] \in Seq(Contracts)  BY <2>5, <2>6
    <3>2. after("live")[f[1]][f[2]] \in Contracts  BY <3>1, <2>6
    <3>3. <<net, i>> \in Address
      <4>1. i \in Nat  BY <1>3, <1>4
      <4> QED  BY <4>1 DEF Address
    <3> QED  BY <2>6, <3>2, <3>3, FieldsTyped DEF Contracts
  <2>8. /\ d \in [Network -> Seq(Contracts)]
        /\ \A n \in Network : DOMAIN d[n] = DOMAIN after("live")[n]
        /\ \A n \in Network : \A j \in DOMAIN after("live")[n] :
             d[n][j] = IF <<n, j>> = <<f[1], f[2]>> THEN taken ELSE after("live")[n][j]
    <3> HIDE DEF taken
    <3> QED  BY <2>5, <2>6, <2>7, ChangedTyped
  <2> HIDE DEF d, taken, f
  <2>9. CodeTyped'  BY <2>4, <2>8 DEF CodeTyped
  <2>10. ASSUME NEW n \in Network, NEW j \in DOMAIN d[n], HasCode(d, <<n, j>>, "TWAMM")
         PROVE  LET factory == d[n][j].factory IN
                  /\ HasCode(d, factory, "Factory")
                  /\ At(d, factory).twamm = <<n, j>>
    <3>1. d[n][j].name = "TWAMM" /\ d[n][j].state = "live"  BY <2>10 DEF HasCode, At
    <3>2. d[n][j] = after("live")[n][j]  BY <3>1, <2>7, <2>8, <2>10
    <3>3. CASE <<n, j>> = <<net, i>>
      <4>1. d[n][j].factory = f  BY <3>2, <3>3, <1>6, <1>7, <2>8 DEF f
      <4>2. d[f[1]][f[2]] = taken /\ f[2] \in DOMAIN d[f[1]]  BY <2>6, <2>8
      <4> QED  BY <4>1, <4>2, <2>6, <2>7, <3>3 DEF HasCode, At
    <3>4. CASE <<n, j>> # <<net, i>>
      <4> DEFINE g == code[n][j].factory
      <4>1. d[n][j] = code[n][j] /\ j \in DOMAIN code[n]
        BY <3>2, <3>4, <1>7, <2>8
      <4>2. HasCode(code, <<n, j>>, "TWAMM")  BY <3>1, <4>1 DEF HasCode, At
      <4>3. HasCode(code, g, "Factory") /\ At(code, g).twamm = <<n, j>>
        BY <4>1, <4>2 DEF Bound
      <4>4. code[n][j] \in Contracts /\ j # 0
        <5>1. code[n] \in Seq(Contracts)  BY <1>2
        <5> QED  BY <5>1, <4>1
      <4>5. g \in Address  BY <4>4 DEF Contracts
      <4>6. <<n, j>> # NoAddress  BY <4>4 DEF NoAddress
      <4>7. g # f  BY <4>3, <4>6, <2>1
      <4>8. /\ HasCode(after("live"), g, "Factory")
            /\ At(after("live"), g) = At(code, g)
        BY <4>3, <4>5, <1>8 DEF ContractName
      <4>9. /\ g[1] \in Network /\ g[2] \in DOMAIN after("live")[g[1]]
            /\ g = <<g[1], g[2]>>
        BY <4>5, <4>8, <2>5, AddressOf
      <4>10. <<g[1], g[2]>> # <<f[1], f[2]>>  BY <4>7, <4>9, <2>6
      <4>11. d[g[1]][g[2]] = after("live")[g[1]][g[2]]  BY <4>9, <4>10, <2>8
      <4>12. HasCode(d, g, "Factory") /\ At(d, g).twamm = <<n, j>>
        BY <4>3, <4>8, <4>9, <4>11, <2>8 DEF HasCode, At
      <4> QED  BY <4>1, <4>12
    <3> QED  BY <3>3, <3>4
  <2>11. Bound(d)  BY <2>10 DEF Bound
  <2> QED  BY <2>4, <2>9, <2>11
<1> QED  BY <1>9, <1>10

(***************************************************************************)
(* Sending a transaction.                                                  *)
(***************************************************************************)
\* What a script sends is a contract, and pending.
LEMMA ToDeployTyped ==
  ASSUME WrittenTyped, ProcTyped, Deploy
  PROVE  ToDeploy \in Contracts /\ ToDeploy.state = "pending"
<1>1. proc.net \in Network  BY DEF Deploy, Sending, ProcTyped
<1>2. proc.script[proc.pc] \in ContractName
  <2>1. proc.script \in Script /\ proc.pc \in Nat \ {0} /\ proc.pc <= Len(proc.script)
    BY DEF ProcTyped, Deploy, Sending
  <2>2. CASE proc.script = LibDeploy
    <3>1. proc.pc \in 1 .. 5  BY <2>1, <2>2 DEF LibDeploy
    <3> QED  BY <2>2, <3>1 DEF LibDeploy, ContractName, LibName
  <2>3. CASE proc.script = FactoryDeploy
    <3>1. proc.pc = 1  BY <2>1, <2>3 DEF FactoryDeploy
    <3> QED  BY <2>3, <3>1 DEF FactoryDeploy, ContractName
  <2>4. CASE proc.script = TwammDeploy
    <3>1. proc.pc = 1  BY <2>1, <2>4 DEF TwammDeploy
    <3> QED  BY <2>4, <3>1 DEF TwammDeploy, ContractName
  <2> QED  BY <2>1, <2>2, <2>3, <2>4 DEF Script
<1>3. proc.own \in [LibName -> Address]  BY DEF ProcTyped
<1>4. Known \in [LibName -> Address]
  BY <1>3 DEF Known, WrittenTyped
<1>5. config[proc.net] \in Address  BY <1>1 DEF WrittenTyped
<1> QED
  <2>1. ToDeploy \in Contracts
    BY <1>2, <1>4, <1>5, ContractTyped DEF ToDeploy
  <2> QED  BY <2>1 DEF ToDeploy, Contract

\* Sending keeps the types, and which router a factory has.
LEMMA DeployKeeps ==
  ASSUME CodeTyped, WrittenTyped, ProcTyped, Bound(code), Deploy
  PROVE  CodeTyped' /\ WrittenTyped' /\ ProcTyped' /\ Bound(code')
<1> DEFINE address == <<proc.net, Len(code[proc.net]) + 1>>
           own == IF proc.script = LibDeploy
                  THEN [proc.own EXCEPT ![ToDeploy.name] = address] ELSE proc.own
           last == proc.script = LibDeploy /\ proc.pc = Len(LibDeploy)
<1>1. proc.net \in Network  BY DEF Deploy, Sending, ProcTyped
<1>2. code \in [Network -> Seq(Contracts)]  BY DEF CodeTyped
<1>3. address \in Address
  <2>1. code[proc.net] \in Seq(Contracts)  BY <1>1, <1>2
  <2>2. Len(code[proc.net]) + 1 \in Nat  BY <2>1
  <2> QED  BY <1>1, <2>2 DEF Address
<1>5. proc.own \in [LibName -> Address]  BY DEF ProcTyped
<1>8. ToDeploy \in Contracts /\ ToDeploy.state = "pending"
  BY ToDeployTyped
<1>9. own \in [LibName -> Address]
  BY <1>3, <1>5
<1>10. /\ code' = [code EXCEPT ![proc.net] = Append(@, ToDeploy)]
       /\ libs' = libs /\ config' = config
  BY DEF Deploy
<1>15. PICK stopped \in BOOLEAN :
       /\ proc' = IF stopped THEN Ended("aborted") ELSE IF last THEN Ended("0")
                  ELSE [proc EXCEPT !.pc = @ + 1, !.own = own, !.sent = address]
       /\ printed' = IF proc.script = LibDeploy /\ ~stopped
                     THEN [printed EXCEPT ![proc.net][ToDeploy.name] = address]
                     ELSE printed
  BY DEF Deploy
<1> HIDE DEF address, own, last
<1>11. CodeTyped'
  <2>1. code[proc.net] \in Seq(Contracts)  BY <1>1, <1>2
  <2>2. Append(code[proc.net], ToDeploy) \in Seq(Contracts)
    BY <2>1, <1>8, AppendProperties
  <2> QED  BY <2>2, <1>1, <1>2, <1>10 DEF CodeTyped
<1>12. Bound(code')  BY <1>1, <1>2, <1>8, <1>10, AppendKeepsBound
<1>13. WrittenTyped'
  <2>1. printed \in [Network -> [LibName -> Address]]  BY DEF WrittenTyped
  <2>2. [printed EXCEPT ![proc.net][ToDeploy.name] = address]
          \in [Network -> [LibName -> Address]]
    BY <1>1, <1>3, <2>1
  <2>3. printed' \in [Network -> [LibName -> Address]]  BY <1>15, <2>1, <2>2
  <2> QED  BY <1>10, <2>3 DEF WrittenTyped
<1>14. ProcTyped'
  <2> DEFINE next == [proc EXCEPT !.pc = @ + 1, !.own = own, !.sent = address]
  <2>1. next \in [script : Script, net : Network \cup {""}, pc : Nat \ {0},
                  own : [LibName -> Address], sent : Address, exit : Exit]
    <3>1. proc \in [script : Script, net : Network \cup {""}, pc : Nat \ {0},
                    own : [LibName -> Address], sent : Address, exit : Exit]
      BY DEF ProcTyped
    <3>2. proc.pc + 1 \in Nat \ {0}
      <4>1. proc.pc \in Nat  BY <3>1
      <4> QED  BY <4>1
    <3> QED  BY <1>3, <1>9, <3>1, <3>2
  <2>2. next.net = proc.net  BY DEF ProcTyped
  <2> HIDE DEF next
  <2>3. CASE stopped \/ last
    <3>1. PICK exit \in {"0", "aborted"} : proc' = Ended(exit)  BY <1>15, <2>3
    <3>2. exit \in Exit /\ exit # "running"  BY DEF Exit
    <3> QED  BY <3>1, <3>2, EndedTyped DEF ProcTyped, Running
  <2>4. CASE ~stopped /\ ~last
    <3>1. proc' = next  BY <1>15, <2>4 DEF next
    <3> QED  BY <1>1, <2>1, <2>2, <3>1 DEF ProcTyped
  <2> QED  BY <2>3, <2>4
<1> QED  BY <1>11, <1>12, <1>13, <1>14

(***************************************************************************)
(* The actions that change nothing on chain.                               *)
(***************************************************************************)
LEMMA OffChainKeeps ==
  ASSUME WrittenTyped, ProcTyped,
         \/ \E script \in Script, net \in Network : Start(script, net)
         \/ FailToDeploy
         \/ WaitDeployed
         \/ Abort
         \/ \E script \in Script \ {LibDeploy}, net \in Network : EditScript(script, net)
         \/ EditConfig
  PROVE  code' = code /\ WrittenTyped' /\ ProcTyped'
<1>1. CASE \E script \in Script, net \in Network : Start(script, net)
  <2>1. \E script \in Script : \E net \in Network : Start(script, net)  BY <1>1
  <2>2. PICK script \in Script : \E net \in Network : Start(script, net)  BY <2>1
  <2>3. PICK net \in Network : Start(script, net)  BY <2>2
  <2>4. NoLibs \in [LibName -> Address]  BY NoAddressTyped DEF NoLibs
  <2>5. proc' = [script |-> script, net |-> net, pc |-> 1, own |-> NoLibs,
                 sent |-> NoAddress, exit |-> "running"]
    BY <2>3 DEF Start
  <2>6. proc' \in [script : Script, net : Network \cup {""}, pc : Nat \ {0},
                   own : [LibName -> Address], sent : Address, exit : Exit]
    <3>1. "running" \in Exit /\ 1 \in Nat \ {0}  BY DEF Exit
    <3> QED  BY <2>4, <2>5, <3>1, NoAddressTyped
  <2>7. ProcTyped'  BY <2>5, <2>6 DEF ProcTyped
  <2>8. code' = code /\ WrittenTyped'  BY <2>3 DEF Start, WrittenTyped
  <2> QED  BY <2>7, <2>8
<1>2. CASE FailToDeploy \/ Abort \/ (WaitDeployed /\ proc' = Ended("1"))
  <2>1. PICK exit \in {"1", "aborted"} : proc' = Ended(exit)
    BY <1>2 DEF FailToDeploy, Abort
  <2>2. exit \in Exit /\ exit # "running"  BY DEF Exit
  <2>3. ProcTyped'  BY <2>1, <2>2, EndedTyped DEF ProcTyped, Running
  <2> QED  BY <1>2, <2>3 DEF FailToDeploy, Abort, WaitDeployed, WrittenTyped
<1>3. CASE WaitDeployed /\ proc' = [proc EXCEPT !.exit = "0"]
  BY <1>3 DEF WaitDeployed, WrittenTyped, ProcTyped, Running, Exit
<1>4. CASE WaitDeployed
  BY <1>2, <1>3, <1>4 DEF WaitDeployed
<1>5. CASE \E script \in Script \ {LibDeploy}, net \in Network : EditScript(script, net)
  <2>1. \E script \in Script \ {LibDeploy} : \E net \in Network : EditScript(script, net)
    BY <1>5
  <2>2. PICK script \in Script \ {LibDeploy} : \E net \in Network : EditScript(script, net)
    BY <2>1
  <2>3. PICK net \in Network : EditScript(script, net)  BY <2>2
  <2>4. /\ libs' = [lib \in LibName |-> IF lib \in Constants(script)
                                       THEN printed[net][lib] ELSE libs[lib]]
        /\ code' = code /\ config' = config /\ printed' = printed /\ proc' = proc
    BY <2>3 DEF EditScript
  <2>5. libs' \in [LibName -> Address]
    BY <2>4 DEF WrittenTyped
  <2> QED  BY <2>4, <2>5 DEF WrittenTyped, ProcTyped, Running
<1>6. CASE EditConfig
  BY <1>6 DEF EditConfig, WrittenTyped, ProcTyped, Running
<1> QED  BY <1>1, <1>2, <1>3, <1>4, <1>5, <1>6

\* Every step keeps the inductive invariant.
LEMMA StepInv == DInv /\ [Next]_vars => DInv'
<1> SUFFICES ASSUME DInv, [Next]_vars PROVE DInv'  OBVIOUS
<1>1. CodeTyped /\ WrittenTyped /\ ProcTyped /\ Bound(code)
  BY DEF DInv
<1>2. CodeTyped' /\ WrittenTyped' /\ ProcTyped' /\ Bound(code')
  <2>1. CASE Deploy
    BY <1>1, <2>1, DeployKeeps
  <2>2. CASE \E net \in Network : Include(net)
    <3>1. PICK net \in Network : Include(net)  BY <2>2
    <3>2. CodeTyped' /\ Bound(code')  BY <1>1, <3>1, IncludeKeeps
    <3>3. WrittenTyped' /\ ProcTyped'
      BY <1>1, <3>1 DEF Include, WrittenTyped, ProcTyped, Running
    <3> QED  BY <3>2, <3>3
  <2>3. CASE \/ \E script \in Script, net \in Network : Start(script, net)
             \/ FailToDeploy
             \/ WaitDeployed
             \/ Abort
             \/ \E script \in Script \ {LibDeploy}, net \in Network : EditScript(script, net)
             \/ EditConfig
    <3>1. code' = code /\ WrittenTyped' /\ ProcTyped'
      BY <1>1, <2>3, OffChainKeeps
    <3> QED  BY <1>1, <3>1 DEF CodeTyped
  <2>4. CASE UNCHANGED vars
    BY <1>1, <2>4 DEF vars, CodeTyped, WrittenTyped, ProcTyped, Running
  <2> QED  BY <2>1, <2>2, <2>3, <2>4 DEF Next
<1> QED  BY <1>2 DEF DInv

\* Every state of every run of the operator has the invariant: Ctrl + C, pending
\* transactions and careless orders of the scripts (twamm-deploy.js twice, for
\* one factory) included.
THEOREM SpecInv == Spec => []DInv
BY InitInv, StepInv, PTL DEF Spec

\* Types, for any networks and any number of runs.
THEOREM TypesHold == Spec => []DeploymentTypeOK
<1>1. DInv => DeploymentTypeOK
  <2> SUFFICES ASSUME DInv PROVE DeploymentTypeOK  OBVIOUS
  <2>1. \A net \in Network : \A i \in DOMAIN code[net] : code[net][i] \in Contracts
    <3> SUFFICES ASSUME NEW net \in Network, NEW i \in DOMAIN code[net]
                 PROVE  code[net][i] \in Contracts
      OBVIOUS
    <3>1. code[net] \in Seq(Contracts)  BY DEF DInv, CodeTyped
    <3> QED  BY <3>1
  <2>2. proc.script \in Script /\ proc.exit \in Exit  BY DEF DInv, ProcTyped
  <2> QED  BY <2>1, <2>2 DEF DeploymentTypeOK, Contracts, Exit
<1> QED  BY <1>1, SpecInv, PTL

\* The constructor of TWAMM and Factory.initialize: no two live routers share a
\* factory, and each finds itself as the router of its own.
THEOREM RouterOfItsFactory == Spec => []OneTwammPerFactory
<1>1. DInv => OneTwammPerFactory  BY BoundIsProperty DEF DInv
<1> QED  BY <1>1, SpecInv, PTL

(***************************************************************************)
(* A careful operator: what is linked is right.                            *)
(***************************************************************************)
\* A transaction is mined after those sent before it; only a router can fail.
MinedAt(c, net, i) ==
  /\ c[net][i].state = "failed" => c[net][i].name = "TWAMM"
  /\ c[net][i].state # "pending" =>
       \A j \in 1 .. i - 1 : c[net][j].state # "pending"

\* A contract of this name was sent, mined or not.
IsA(c, net, address, name) ==
  /\ address[1] = net
  /\ address[2] \in DOMAIN c[net]
  /\ c[net][address[2]].name = name

\* What a contract links was sent before it.
LinkedAt(c, net, i) ==
  LET links == c[net][i].links IN
    /\ DOMAIN links = LibrariesOf[c[net][i].name]
    /\ \A lib \in DOMAIN links :
         IsA(c, net, links[lib], lib) /\ links[lib][2] < i

\* A router's library and its factory link the same code of pairs.
FindsAt(c, net, i) ==
  c[net][i].name = "TWAMM" =>
    LET twamm == c[net][i] IN
      /\ IsA(c, net, twamm.factory, "Factory")
      /\ c[net][twamm.links["Library"][2]].links
           = c[net][twamm.factory[2]].links

SentRight(c) ==
  \A net \in Network : \A i \in DOMAIN c[net] :
    MinedAt(c, net, i) /\ LinkedAt(c, net, i) /\ FindsAt(c, net, i)

PairLibs(addresses) == [lib \in LibrariesOf["Factory"] |-> addresses[lib]]

\* Libraries of one run, which a factory sent after them links.
PrintedAt(c, net, addresses) ==
  /\ \A lib \in LibName : IsA(c, net, addresses[lib], lib)
  /\ c[net][addresses["Library"][2]].links = PairLibs(addresses)
  /\ \A i \in DOMAIN c[net] :
       (c[net][i].name = "Factory" /\ addresses["Library"][2] < i)
         => c[net][i].links = PairLibs(addresses)

\* The addresses printed last are such libraries if they are of one run, and not
\* if a run that was begun since has replaced some of them.
PrintedRight == \A net \in Network :
  /\ OfOneRun(printed[net]) => PrintedAt(code, net, printed[net])
  /\ printed[net]["Library"] # NoAddress
       => IsA(code, net, printed[net]["Library"], "Library")

ConfigRight == \A net \in Network :
  config[net] # NoAddress => IsA(code, net, config[net], "Factory")

\* What the script that runs has done, and what it goes by.
ProcRight ==
  /\ (Running /\ proc.script = LibDeploy) =>
       /\ proc.pc <= 5
       /\ \A k \in 1 .. proc.pc - 1 :
            /\ IsA(code, proc.net, proc.own[LibDeploy[k]], LibDeploy[k])
            /\ printed[proc.net][LibDeploy[k]] = proc.own[LibDeploy[k]]
       /\ proc.pc > 1 => ~OfOneRun(printed[proc.net])
  /\ (Running /\ proc.script # LibDeploy) => InOrder(proc.script, proc.net)
  /\ (proc.script = FactoryDeploy /\ proc.exit = "0") => proc.pc > 1
  /\ (proc.script = FactoryDeploy /\ proc.pc > 1) =>
       proc.net \in Network /\ IsA(code, proc.net, proc.sent, "Factory")

CarefulInv ==
  /\ Careful
  /\ DInv
  /\ SentRight(code)
  /\ PrintedRight
  /\ ConfigRight
  /\ ProcRight

\* The contracts of c are in d, whatever has become of their state.
Kept(c, d) ==
  \A net \in Network : \A i \in DOMAIN c[net] :
    /\ i \in DOMAIN d[net]
    /\ d[net][i].name = c[net][i].name
    /\ d[net][i].links = c[net][i].links
    /\ d[net][i].factory = c[net][i].factory

\* What an address is stays so as long as contracts keep name, links and factory.
LEMMA KeptIsA ==
  ASSUME NEW c, NEW d, Kept(c, d), NEW net \in Network, NEW address, NEW name,
         IsA(c, net, address, name)
  PROVE  /\ IsA(d, net, address, name)
         /\ d[net][address[2]].links = c[net][address[2]].links
BY DEF Kept, IsA

\* Contracts that were right stay right.
LEMMA KeptRight ==
  ASSUME NEW c, NEW d, Kept(c, d), NEW net \in Network, NEW i \in DOMAIN c[net],
         LinkedAt(c, net, i), FindsAt(c, net, i)
  PROVE  LinkedAt(d, net, i) /\ FindsAt(d, net, i)
<1>1. /\ d[net][i].name = c[net][i].name
      /\ d[net][i].links = c[net][i].links
      /\ d[net][i].factory = c[net][i].factory
  BY DEF Kept
<1>2. LinkedAt(d, net, i)
  <2>1. \A lib \in DOMAIN c[net][i].links :
          IsA(d, net, c[net][i].links[lib], lib) /\ c[net][i].links[lib][2] < i
    BY KeptIsA DEF LinkedAt
  <2> QED  BY <1>1, <2>1 DEF LinkedAt
<1>3. FindsAt(d, net, i)
  <2> SUFFICES ASSUME c[net][i].name = "TWAMM" PROVE FindsAt(d, net, i)
    BY <1>1 DEF FindsAt
  <2> DEFINE twamm == c[net][i]
  <2>1. /\ IsA(c, net, twamm.factory, "Factory")
        /\ c[net][twamm.links["Library"][2]].links = c[net][twamm.factory[2]].links
    BY DEF FindsAt
  <2>2. "Library" \in DOMAIN twamm.links
    <3>1. "Library" \in LibrariesOf["TWAMM"]  BY DEF LibrariesOf, ContractName
    <3> QED  BY <3>1 DEF LinkedAt
  <2>3. IsA(c, net, twamm.links["Library"], "Library")
    BY <2>2 DEF LinkedAt
  <2>4. /\ IsA(d, net, twamm.factory, "Factory")
        /\ d[net][twamm.factory[2]].links = c[net][twamm.factory[2]].links
    BY <2>1, KeptIsA
  <2>5. d[net][twamm.links["Library"][2]].links = c[net][twamm.links["Library"][2]].links
    BY <2>3, KeptIsA
  <2> QED  BY <1>1, <2>1, <2>4, <2>5 DEF FindsAt
<1> QED  BY <1>2, <1>3

\* Printed libraries stay right, if a factory that is new links them.
LEMMA KeptPrinted ==
  ASSUME NEW c, NEW d, Kept(c, d), NEW net \in Network,
         NEW addresses \in [LibName -> Address], PrintedAt(c, net, addresses),
         \A i \in DOMAIN d[net] \ DOMAIN c[net] :
           d[net][i].name = "Factory" => d[net][i].links = PairLibs(addresses)
  PROVE  PrintedAt(d, net, addresses)
<1>1. \A lib \in LibName : IsA(d, net, addresses[lib], lib)
  BY KeptIsA DEF PrintedAt
<1>2. IsA(c, net, addresses["Library"], "Library")  BY DEF PrintedAt, LibName
<1>3. d[net][addresses["Library"][2]].links = PairLibs(addresses)
  BY <1>2, KeptIsA DEF PrintedAt
<1>4. ASSUME NEW i \in DOMAIN d[net], d[net][i].name = "Factory",
             addresses["Library"][2] < i
      PROVE  d[net][i].links = PairLibs(addresses)
  <2>1. CASE i \in DOMAIN c[net]
    BY <1>4, <2>1 DEF Kept, PrintedAt
  <2>2. CASE i \notin DOMAIN c[net]
    BY <1>4, <2>2
  <2> QED  BY <2>1, <2>2
<1> QED  BY <1>1, <1>3, <1>4 DEF PrintedAt

\* Mining changes the state of one contract, the first that is pending, and at
\* most the router of another.
LEMMA IncludeMines ==
  ASSUME CodeTyped, NEW net \in Network, Include(net)
  PROVE  /\ Kept(code, code')
         /\ \A n \in Network : DOMAIN code'[n] = DOMAIN code[n]
         /\ \E i \in DOMAIN code[net] :
              /\ \A j \in 1 .. i - 1 : code[net][j].state # "pending"
              /\ code'[net][i].state \in {"failed", "live"}
              /\ code'[net][i].state = "failed" => code[net][i].name = "TWAMM"
              /\ \A n \in Network : \A j \in DOMAIN code[n] :
                   <<n, j>> # <<net, i>> => code'[n][j].state = code[n][j].state
<1>1. PICK i \in DOMAIN code[net] :
        /\ \A j \in 1 .. i - 1 : code[net][j].state # "pending"
        /\ code' = IF ~Constructs(code, code[net][i])
                   THEN [code EXCEPT ![net][i].state = "failed"]
                   ELSE IF code[net][i].name # "TWAMM"
                   THEN [code EXCEPT ![net][i].state = "live"]
                   ELSE [[code EXCEPT ![net][i].state = "live"] EXCEPT
                     ![code[net][i].factory[1]][code[net][i].factory[2]].twamm = <<net, i>>]
  BY DEF Include
<1> DEFINE contract == code[net][i]
           ended(state) == [contract EXCEPT !.state = state]
           after(state) == [code EXCEPT ![net][i] = ended(state)]
<1>2. code \in [Network -> Seq(Contracts)] /\ code[net] \in Seq(Contracts)
  BY DEF CodeTyped
<1>3. i \in Nat /\ contract \in Contracts
  <2>1. i \in 1 .. Len(code[net])  BY <1>2
  <2> QED  BY <1>2, <2>1, ElementOfSeq
<1>4. ASSUME NEW state \in {"failed", "live"}
      PROVE  /\ after(state) = [code EXCEPT ![net][i].state = state]
             /\ after(state) \in [Network -> Seq(Contracts)]
             /\ \A n \in Network : DOMAIN after(state)[n] = DOMAIN code[n]
             /\ \A n \in Network : \A j \in DOMAIN code[n] : after(state)[n][j] =
                  IF <<n, j>> = <<net, i>> THEN ended(state) ELSE code[n][j]
  <2>1. ended(state) \in Contracts  BY <1>3, FieldsTyped
  <2>2. after(state) = [code EXCEPT ![net][i].state = state]  BY <1>2, <1>3
  <2> QED  BY <1>2, <2>1, <2>2, ChangedTyped
<1>5. ASSUME NEW state \in {"failed", "live"}
      PROVE  /\ ended(state).state = state
             /\ ended(state).name = contract.name
             /\ ended(state).links = contract.links
             /\ ended(state).factory = contract.factory
  BY <1>3 DEF Contracts
<1> HIDE DEF after, ended, contract
<1>6. ASSUME NEW state \in {"failed", "live"}, NEW d \in [Network -> Seq(Contracts)],
             state = "failed" => code[net][i].name = "TWAMM", code' = d,
             \A n \in Network : DOMAIN d[n] = DOMAIN code[n],
             \A n \in Network : \A j \in DOMAIN code[n] :
               /\ d[n][j].name = after(state)[n][j].name
               /\ d[n][j].links = after(state)[n][j].links
               /\ d[n][j].factory = after(state)[n][j].factory
               /\ d[n][j].state = after(state)[n][j].state
      PROVE  /\ Kept(code, code')
             /\ \A n \in Network : DOMAIN code'[n] = DOMAIN code[n]
             /\ code'[net][i].state = state
             /\ \A n \in Network : \A j \in DOMAIN code[n] :
                  <<n, j>> # <<net, i>> => code'[n][j].state = code[n][j].state
  <2>1. \A n \in Network : \A j \in DOMAIN code[n] :
          /\ d[n][j].name = code[n][j].name
          /\ d[n][j].links = code[n][j].links
          /\ d[n][j].factory = code[n][j].factory
          /\ <<n, j>> # <<net, i>> => d[n][j].state = code[n][j].state
    <3> SUFFICES ASSUME NEW n \in Network, NEW j \in DOMAIN code[n]
                 PROVE  /\ d[n][j].name = code[n][j].name
                        /\ d[n][j].links = code[n][j].links
                        /\ d[n][j].factory = code[n][j].factory
                        /\ <<n, j>> # <<net, i>> => d[n][j].state = code[n][j].state
      OBVIOUS
    <3>1. CASE <<n, j>> = <<net, i>>
      <4>1. after(state)[n][j] = ended(state) /\ code[n][j] = contract
        BY <3>1, <1>4 DEF contract
      <4> QED  BY <3>1, <4>1, <1>5, <1>6
    <3>2. CASE <<n, j>> # <<net, i>>
      <4>1. after(state)[n][j] = code[n][j]  BY <3>2, <1>4
      <4> QED  BY <4>1, <1>6
    <3> QED  BY <3>1, <3>2
  <2>2. d[net][i].state = state
    <3>1. after(state)[net][i] = ended(state)  BY <1>4
    <3> QED  BY <3>1, <1>5, <1>6
  <2> QED  BY <1>6, <2>1, <2>2 DEF Kept
<1>7. \E state \in {"failed", "live"} : \E d \in [Network -> Seq(Contracts)] :
        /\ state = "failed" => code[net][i].name = "TWAMM"
        /\ code' = d
        /\ \A n \in Network : DOMAIN d[n] = DOMAIN code[n]
        /\ \A n \in Network : \A j \in DOMAIN code[n] :
             /\ d[n][j].name = after(state)[n][j].name
             /\ d[n][j].links = after(state)[n][j].links
             /\ d[n][j].factory = after(state)[n][j].factory
             /\ d[n][j].state = after(state)[n][j].state
  <2>1. CASE ~Constructs(code, code[net][i])
    <3>1. code' = after("failed") /\ code[net][i].name = "TWAMM"
      BY <1>1, <1>4, <2>1 DEF Constructs
    <3> QED  BY <1>4, <3>1
  <2>2. CASE Constructs(code, code[net][i]) /\ code[net][i].name # "TWAMM"
    <3>1. code' = after("live")
      BY <1>1, <1>4, <2>2
    <3> QED  BY <1>4, <3>1
  <2>3. CASE Constructs(code, code[net][i]) /\ code[net][i].name = "TWAMM"
    <3> DEFINE f == contract.factory
               taken == [after("live")[f[1]][f[2]] EXCEPT !.twamm = <<net, i>>]
               d == [after("live") EXCEPT ![f[1]][f[2]] = taken]
    <3>1. HasCode(code, f, "Factory") /\ f \in Address
      BY <1>3, <2>3 DEF Constructs, CanInitialize, contract, Contracts
    <3>2. f[1] \in Network /\ f[2] \in DOMAIN code[f[1]]
      BY <3>1 DEF HasCode
    <3>3. after("live") \in [Network -> Seq(Contracts)] /\ f[2] \in DOMAIN after("live")[f[1]]
      BY <1>4, <3>2
    <3>4. code' = d
      BY <1>1, <1>4, <2>3, <3>3 DEF contract
    <3>5. after("live")[f[1]][f[2]] \in Contracts
      <4>1. after("live")[f[1]] \in Seq(Contracts)  BY <3>2, <3>3
      <4> QED  BY <3>3, <4>1
    <3>6. /\ taken \in Contracts
          /\ taken.name = after("live")[f[1]][f[2]].name
          /\ taken.links = after("live")[f[1]][f[2]].links
          /\ taken.factory = after("live")[f[1]][f[2]].factory
          /\ taken.state = after("live")[f[1]][f[2]].state
      <4>1. <<net, i>> \in Address  BY <1>3 DEF Address
      <4> QED  BY <3>5, <4>1, FieldsTyped DEF Contracts
    <3> HIDE DEF taken, f
    <3>7. /\ d \in [Network -> Seq(Contracts)]
          /\ \A n \in Network : DOMAIN d[n] = DOMAIN after("live")[n]
          /\ \A n \in Network : \A j \in DOMAIN after("live")[n] :
               d[n][j] = IF <<n, j>> = <<f[1], f[2]>> THEN taken ELSE after("live")[n][j]
      BY <3>2, <3>3, <3>6, ChangedTyped
    <3> HIDE DEF d
    <3>8. \A n \in Network : DOMAIN d[n] = DOMAIN code[n]
      BY <1>4, <3>7
    <3>9. ASSUME NEW n \in Network, NEW j \in DOMAIN code[n]
          PROVE  /\ d[n][j].name = after("live")[n][j].name
                 /\ d[n][j].links = after("live")[n][j].links
                 /\ d[n][j].factory = after("live")[n][j].factory
                 /\ d[n][j].state = after("live")[n][j].state
      <4>1. j \in DOMAIN after("live")[n]  BY <1>4, <3>9
      <4>2. CASE <<n, j>> = <<f[1], f[2]>>
        <5>1. d[n][j] = taken /\ n = f[1] /\ j = f[2]  BY <3>7, <4>1, <4>2
        <5> QED  BY <5>1, <3>6
      <4>3. CASE <<n, j>> # <<f[1], f[2]>>
        <5>1. d[n][j] = after("live")[n][j]  BY <3>7, <4>1, <4>3
        <5> QED  BY <5>1
      <4> QED  BY <4>2, <4>3
    <3>10. \A n \in Network : \A j \in DOMAIN code[n] :
             /\ d[n][j].name = after("live")[n][j].name
             /\ d[n][j].links = after("live")[n][j].links
             /\ d[n][j].factory = after("live")[n][j].factory
             /\ d[n][j].state = after("live")[n][j].state
      BY <3>9
    <3> QED  BY <3>4, <3>7, <3>8, <3>10
  <2> QED  BY <2>1, <2>2, <2>3
<1>8. PICK state \in {"failed", "live"} :
        /\ state = "failed" => code[net][i].name = "TWAMM"
        /\ Kept(code, code')
        /\ \A n \in Network : DOMAIN code'[n] = DOMAIN code[n]
        /\ code'[net][i].state = state
        /\ \A n \in Network : \A j \in DOMAIN code[n] :
             <<n, j>> # <<net, i>> => code'[n][j].state = code[n][j].state
  <2>1. PICK state \in {"failed", "live"} : \E d \in [Network -> Seq(Contracts)] :
          /\ state = "failed" => code[net][i].name = "TWAMM"
          /\ code' = d
          /\ \A n \in Network : DOMAIN d[n] = DOMAIN code[n]
          /\ \A n \in Network : \A j \in DOMAIN code[n] :
               /\ d[n][j].name = after(state)[n][j].name
               /\ d[n][j].links = after(state)[n][j].links
               /\ d[n][j].factory = after(state)[n][j].factory
               /\ d[n][j].state = after(state)[n][j].state
    BY <1>7
  <2> QED  BY <2>1, <1>6, ZenonT(60)
<1>9. \A j \in 1 .. i - 1 : code[net][j].state # "pending"  BY <1>1
<1>10. code'[net][i].state = "failed" => code[net][i].name = "TWAMM"  BY <1>8
<1>11. code'[net][i].state \in {"failed", "live"}  BY <1>8
<1> QED  BY <1>8, <1>9, <1>10, <1>11, ZenonT(60)

\* The places before a contract are places of contracts.
LEMMA PlacesBefore ==
  ASSUME NEW c \in [Network -> Seq(Contracts)], NEW net \in Network,
         NEW i \in DOMAIN c[net]
  PROVE  /\ i \in Nat \ {0} /\ c[net][i] \in Contracts
         /\ \A j \in 1 .. i - 1 : j \in DOMAIN c[net] /\ j # i
<1>1. c[net] \in Seq(Contracts)  OBVIOUS
<1>2. DOMAIN c[net] = 1 .. Len(c[net]) /\ Len(c[net]) \in Nat  BY <1>1
<1>3. c[net][i] \in Contracts  BY <1>1, <1>2, ElementOfSeq
<1> QED  BY <1>2, <1>3

\* Mining keeps all that is right.
LEMMA IncludeRight ==
  ASSUME CarefulInv, NEW net \in Network, Include(net)
  PROVE  SentRight(code') /\ PrintedRight' /\ ConfigRight' /\ ProcRight'
<1>1. /\ CodeTyped /\ WrittenTyped
      /\ SentRight(code) /\ PrintedRight /\ ConfigRight /\ ProcRight
  BY DEF CarefulInv, DInv
<1>2. /\ Kept(code, code')
      /\ \A n \in Network : DOMAIN code'[n] = DOMAIN code[n]
  BY <1>1, IncludeMines
<1>3. PICK i \in DOMAIN code[net] :
        /\ \A j \in 1 .. i - 1 : code[net][j].state # "pending"
        /\ code'[net][i].state \in {"failed", "live"}
        /\ code'[net][i].state = "failed" => code[net][i].name = "TWAMM"
        /\ \A n \in Network : \A j \in DOMAIN code[n] :
             <<n, j>> # <<net, i>> => code'[n][j].state = code[n][j].state
  BY <1>1, IncludeMines
<1>4. code \in [Network -> Seq(Contracts)]  BY <1>1 DEF CodeTyped
<1>5. /\ libs' = libs /\ config' = config /\ printed' = printed /\ proc' = proc
  BY DEF Include
<1>6. ASSUME NEW n \in Network, NEW j \in DOMAIN code[n]
      PROVE  MinedAt(code', n, j)
  <2>1. MinedAt(code, n, j) /\ code'[n][j].name = code[n][j].name
    BY <1>1, <1>2 DEF SentRight, Kept
  <2>2. \A k \in 1 .. j - 1 : k \in DOMAIN code[n] /\ k # j
    BY <1>4, PlacesBefore
  <2>3. CASE <<n, j>> = <<net, i>>
    <3>1. n = net /\ j = i  BY <2>3
    <3>2. \A k \in 1 .. i - 1 : code'[net][k].state # "pending"
      BY <1>3, <2>2, <3>1
    <3> QED  BY <1>3, <2>1, <3>1, <3>2 DEF MinedAt
  <2>4. CASE <<n, j>> # <<net, i>>
    <3>1. code'[n][j].state = code[n][j].state  BY <1>3, <2>4
    <3>2. ASSUME NEW k \in 1 .. j - 1, code[n][k].state # "pending"
          PROVE  code'[n][k].state # "pending"
      <4>1. CASE <<n, k>> = <<net, i>>  BY <1>3, <4>1
      <4>2. CASE <<n, k>> # <<net, i>>  BY <1>3, <2>2, <3>2, <4>2
      <4> QED  BY <4>1, <4>2
    <3> QED  BY <2>1, <3>1, <3>2 DEF MinedAt
  <2> QED  BY <2>3, <2>4
<1>7. SentRight(code')
  <2> SUFFICES ASSUME NEW n \in Network, NEW j \in DOMAIN code'[n]
               PROVE  MinedAt(code', n, j) /\ LinkedAt(code', n, j) /\ FindsAt(code', n, j)
    BY DEF SentRight
  <2>1. j \in DOMAIN code[n]  BY <1>2
  <2>2. LinkedAt(code, n, j) /\ FindsAt(code, n, j)  BY <1>1, <2>1 DEF SentRight
  <2> QED  BY <1>2, <1>6, <2>1, <2>2, KeptRight
<1>8. ASSUME NEW n \in Network, NEW address, NEW name, IsA(code, n, address, name)
      PROVE  IsA(code', n, address, name)
  BY <1>2, <1>8, KeptIsA
<1>9. PrintedRight'
  <2>1. ASSUME NEW n \in Network, OfOneRun(printed[n])
        PROVE  PrintedAt(code', n, printed[n])
    <3>1. PrintedAt(code, n, printed[n]) /\ printed[n] \in [LibName -> Address]
      BY <1>1, <2>1 DEF PrintedRight, WrittenTyped
    <3>2. DOMAIN code'[n] \ DOMAIN code[n] = {}  BY <1>2
    <3> QED  BY <1>2, <3>1, <3>2, KeptPrinted
  <2>2. ASSUME NEW n \in Network, printed[n]["Library"] # NoAddress
        PROVE  IsA(code', n, printed[n]["Library"], "Library")
    BY <1>1, <1>8, <2>2 DEF PrintedRight
  <2> QED  BY <1>5, <2>1, <2>2 DEF PrintedRight, OfOneRun
<1>10. ConfigRight'
  BY <1>1, <1>5, <1>8 DEF ConfigRight
<1>11. ProcRight'
  <2>1. proc.script \in Script /\ proc.exit \in Exit /\ (Running => proc.net \in Network)
    BY DEF CarefulInv, DInv, ProcTyped
  <2>2. (proc.net \in Network /\ IsA(code, proc.net, proc.sent, "Factory"))
          => IsA(code', proc.net, proc.sent, "Factory")
    BY <1>8
  <2>3. ASSUME Running, proc.script = LibDeploy
        PROVE  \A k \in 1 .. proc.pc - 1 :
                 IsA(code', proc.net, proc.own[LibDeploy[k]], LibDeploy[k])
    BY <1>1, <1>8, <2>1, <2>3 DEF ProcRight
  <2> QED
    BY <1>1, <1>5, <2>2, <2>3 DEF ProcRight, Running, InOrder, OfOneRun
<1> QED  BY <1>7, <1>9, <1>10, <1>11

\* What the scripts link is there.
LEMMA LibrariesLinked ==
  /\ \A name \in ContractName : LibrariesOf[name] \in SUBSET LibName
  /\ LibrariesOf["TransferHelper"] = {} /\ LibrariesOf["OrderPoolLib"] = {}
  /\ LibrariesOf["BinarySearchTreeLib"] = {}
  /\ LibrariesOf["LongTermOrdersLib"] = {"OrderPoolLib", "BinarySearchTreeLib"}
  /\ LibrariesOf["Library"] = {"LongTermOrdersLib", "BinarySearchTreeLib"}
  /\ LibrariesOf["Factory"] = {"LongTermOrdersLib", "BinarySearchTreeLib"}
  /\ LibrariesOf["TWAMM"] = {"Library", "TransferHelper"}
BY DEF LibrariesOf, LibName, ContractName

\* The scripts, and what a run of them deploys.
LEMMA ScriptsFacts ==
  /\ LibDeploy # FactoryDeploy /\ LibDeploy # TwammDeploy /\ FactoryDeploy # TwammDeploy
  /\ Len(LibDeploy) = 5 /\ Len(FactoryDeploy) = 1 /\ Len(TwammDeploy) = 1
  /\ FactoryDeploy[1] = "Factory" /\ TwammDeploy[1] = "TWAMM"
  /\ LibDeploy[1] = "TransferHelper" /\ LibDeploy[2] = "OrderPoolLib"
  /\ LibDeploy[3] = "BinarySearchTreeLib" /\ LibDeploy[4] = "LongTermOrdersLib"
  /\ LibDeploy[5] = "Library"
  /\ \A j, k \in 1 .. 5 : LibDeploy[j] = LibDeploy[k] => j = k
  /\ \A lib \in LibName : \E k \in 1 .. 5 : LibDeploy[k] = lib
<1>1. Len(LibDeploy) = 5 /\ Len(FactoryDeploy) = 1 /\ Len(TwammDeploy) = 1
  BY DEF LibDeploy, FactoryDeploy, TwammDeploy
<1>2. FactoryDeploy[1] = "Factory" /\ TwammDeploy[1] = "TWAMM"
  BY DEF FactoryDeploy, TwammDeploy
<1>3. /\ LibDeploy[1] = "TransferHelper" /\ LibDeploy[2] = "OrderPoolLib"
      /\ LibDeploy[3] = "BinarySearchTreeLib" /\ LibDeploy[4] = "LongTermOrdersLib"
      /\ LibDeploy[5] = "Library"
  BY DEF LibDeploy
<1>4. \A j, k \in 1 .. 5 : LibDeploy[j] = LibDeploy[k] => j = k
  <2>1. \A j \in 1 .. 5 : j = 1 \/ j = 2 \/ j = 3 \/ j = 4 \/ j = 5  OBVIOUS
  <2> QED  BY <1>3, <2>1
<1>5. \A lib \in LibName : \E k \in 1 .. 5 : LibDeploy[k] = lib
  BY <1>3 DEF LibName
<1>6. LibDeploy # FactoryDeploy /\ LibDeploy # TwammDeploy /\ FactoryDeploy # TwammDeploy
  BY <1>1, <1>2
<1> QED  BY <1>1, <1>2, <1>3, <1>4, <1>5, <1>6

\* A deployment that is sent is the last contract of its network.
LEMMA DeploySends ==
  ASSUME CodeTyped, WrittenTyped, ProcTyped, Deploy
  PROVE  LET n == Len(code[proc.net]) + 1 IN
         /\ proc.net \in Network /\ n \in Nat \ {0}
         /\ code' \in [Network -> Seq(Contracts)]
         /\ Kept(code, code')
         /\ \A net \in Network : net # proc.net => DOMAIN code'[net] = DOMAIN code[net]
         /\ DOMAIN code[proc.net] = 1 .. n - 1 /\ DOMAIN code'[proc.net] = 1 .. n
         /\ code'[proc.net][n] = ToDeploy
         /\ \A net \in Network : \A i \in DOMAIN code[net] : code'[net][i] = code[net][i]
<1>1. proc.net \in Network /\ code \in [Network -> Seq(Contracts)]
  BY DEF Deploy, Sending, ProcTyped, CodeTyped
<1>2. code[proc.net] \in Seq(Contracts)  BY <1>1
<1>3. code' = [code EXCEPT ![proc.net] = Append(@, ToDeploy)]  BY DEF Deploy
<1>4. code' \in [Network -> Seq(Contracts)]
  <2>1. ToDeploy \in Contracts  BY ToDeployTyped
  <2> QED  BY <1>1, <1>2, <1>3, <2>1, AppendProperties
<1> DEFINE s == code[proc.net]
           n == Len(s) + 1
<1>5. code'[proc.net] = Append(s, ToDeploy)  BY <1>1, <1>3
<1>6. \A net \in Network : net # proc.net => code'[net] = code[net]  BY <1>1, <1>3
<1>7. /\ n \in Nat \ {0} /\ DOMAIN s = 1 .. n - 1 /\ DOMAIN Append(s, ToDeploy) = 1 .. n
      /\ Append(s, ToDeploy)[n] = ToDeploy
      /\ \A i \in 1 .. n - 1 : Append(s, ToDeploy)[i] = s[i]
  BY <1>2
<1> HIDE DEF n
<1>8. \A net \in Network : \A i \in DOMAIN code[net] :
        i \in DOMAIN code'[net] /\ code'[net][i] = code[net][i]
  <2> SUFFICES ASSUME NEW net \in Network, NEW i \in DOMAIN code[net]
               PROVE  i \in DOMAIN code'[net] /\ code'[net][i] = code[net][i]
    OBVIOUS
  <2>1. CASE net = proc.net  BY <2>1, <1>5, <1>7
  <2>2. CASE net # proc.net  BY <2>2, <1>6
  <2> QED  BY <2>1, <2>2
<1>9. Kept(code, code')  BY <1>8 DEF Kept
<1> QED  BY <1>1, <1>4, <1>5, <1>6, <1>7, <1>8, <1>9 DEF n

\* What a deployment is linked with was sent before it.
LEMMA DeployLinks ==
  ASSUME CarefulInv, Deploy
  PROVE  /\ ToDeploy.name \in ContractName /\ ToDeploy.name = proc.script[proc.pc]
         /\ ToDeploy.links = [lib \in LibrariesOf[ToDeploy.name] |-> Known[lib]]
         /\ \A lib \in LibrariesOf[ToDeploy.name] : IsA(code, proc.net, Known[lib], lib)
         /\ proc.script # LibDeploy =>
              /\ OfOneRun(printed[proc.net])
              /\ \A lib \in LibrariesOf[ToDeploy.name] :
                   Known[lib] = printed[proc.net][lib]
<1>1. /\ WrittenTyped /\ ProcTyped /\ PrintedRight /\ ProcRight
      /\ Running /\ proc.pc <= Len(proc.script)
  BY DEF CarefulInv, DInv, Deploy, Sending
<1>2. proc.net \in Network /\ proc.pc \in Nat \ {0} /\ proc.script \in Script
  BY <1>1 DEF ProcTyped
<1>3. /\ ToDeploy.name = proc.script[proc.pc]
      /\ ToDeploy.links = [lib \in LibrariesOf[ToDeploy.name] |-> Known[lib]]
  BY DEF ToDeploy, Contract
<1>4. ToDeploy.name \in ContractName
  BY <1>1, ToDeployTyped DEF Contracts
<1>5. ASSUME proc.script # LibDeploy
      PROVE  /\ OfOneRun(printed[proc.net])
             /\ \A lib \in LibrariesOf[ToDeploy.name] :
                  Known[lib] = printed[proc.net][lib]
  <2>1. proc.script = FactoryDeploy \/ proc.script = TwammDeploy
    BY <1>2, <1>5 DEF Script
  <2>2. proc.pc = 1
    <3>1. Len(proc.script) = 1  BY <2>1, ScriptsFacts
    <3> QED  BY <1>1, <1>2, <3>1
  <2>3. Constants(proc.script) = LibrariesOf[ToDeploy.name]
    BY <1>3, <1>5, <2>2 DEF Constants
  <2> QED  BY <1>1, <1>5, <2>3 DEF ProcRight, InOrder, Known
<1>6. ASSUME NEW lib \in LibrariesOf[ToDeploy.name]
      PROVE  IsA(code, proc.net, Known[lib], lib)
  <2>1. CASE proc.script = LibDeploy
    <3>1. /\ proc.pc \in 1 .. 5 /\ Known = proc.own
          /\ \A k \in 1 .. proc.pc - 1 :
               IsA(code, proc.net, proc.own[LibDeploy[k]], LibDeploy[k])
      BY <1>1, <1>2, <2>1, ScriptsFacts DEF ProcRight, Known
    <3>2. \E k \in 1 .. proc.pc - 1 : LibDeploy[k] = lib
      <4>1. proc.pc = 1 \/ proc.pc = 2 \/ proc.pc = 3 \/ proc.pc = 4 \/ proc.pc = 5
        BY <3>1
      <4>2. ToDeploy.name = LibDeploy[proc.pc]  BY <1>3, <2>1
      <4>3. proc.pc = 4 \/ proc.pc = 5
        BY <4>1, <4>2, <1>6, LibrariesLinked, ScriptsFacts
      <4>4. CASE proc.pc = 4
        <5>1. lib = LibDeploy[2] \/ lib = LibDeploy[3]
          BY <4>2, <4>4, <1>6, LibrariesLinked, ScriptsFacts
        <5>2. 2 \in 1 .. proc.pc - 1 /\ 3 \in 1 .. proc.pc - 1  BY <4>4
        <5> QED  BY <5>1, <5>2
      <4>5. CASE proc.pc = 5
        <5>1. lib = LibDeploy[4] \/ lib = LibDeploy[3]
          BY <4>2, <4>5, <1>6, LibrariesLinked, ScriptsFacts
        <5>2. 4 \in 1 .. proc.pc - 1 /\ 3 \in 1 .. proc.pc - 1  BY <4>5
        <5> QED  BY <5>1, <5>2
      <4> QED  BY <4>3, <4>4, <4>5
    <3> QED  BY <3>1, <3>2
  <2>2. CASE proc.script # LibDeploy
    <3>1. OfOneRun(printed[proc.net]) /\ Known[lib] = printed[proc.net][lib]
      BY <1>5, <2>2
    <3>2. PrintedAt(code, proc.net, printed[proc.net])
      BY <1>1, <1>2, <3>1 DEF PrintedRight
    <3>3. lib \in LibName  BY <1>4, <1>6, LibrariesLinked
    <3> QED  BY <3>1, <3>2, <3>3 DEF PrintedAt
  <2> QED  BY <2>1, <2>2
<1> QED  BY <1>3, <1>4, <1>5, <1>6

\* Sending keeps what is right on chain right.
LEMMA DeploySentRight ==
  ASSUME CarefulInv, Deploy
  PROVE  SentRight(code')
<1> DEFINE n == Len(code[proc.net]) + 1
<1>1. /\ CodeTyped /\ WrittenTyped /\ ProcTyped
      /\ SentRight(code) /\ PrintedRight /\ ConfigRight /\ ProcRight /\ Running
  BY DEF CarefulInv, DInv, Deploy, Sending
<1>2. /\ proc.net \in Network /\ n \in Nat \ {0}
      /\ code' \in [Network -> Seq(Contracts)]
      /\ Kept(code, code')
      /\ \A net \in Network : net # proc.net => DOMAIN code'[net] = DOMAIN code[net]
      /\ DOMAIN code[proc.net] = 1 .. n - 1 /\ DOMAIN code'[proc.net] = 1 .. n
      /\ code'[proc.net][n] = ToDeploy
      /\ \A net \in Network : \A i \in DOMAIN code[net] : code'[net][i] = code[net][i]
  BY <1>1, DeploySends
<1> HIDE DEF n
<1>3. /\ ToDeploy.name \in ContractName /\ ToDeploy.name = proc.script[proc.pc]
      /\ ToDeploy.links = [lib \in LibrariesOf[ToDeploy.name] |-> Known[lib]]
      /\ \A lib \in LibrariesOf[ToDeploy.name] : IsA(code, proc.net, Known[lib], lib)
      /\ proc.script # LibDeploy =>
           /\ OfOneRun(printed[proc.net])
           /\ \A lib \in LibrariesOf[ToDeploy.name] :
                Known[lib] = printed[proc.net][lib]
  BY DeployLinks
<1>4. ToDeploy.state = "pending" /\ ToDeploy.factory = config[proc.net]
  BY DEF ToDeploy, Contract
<1>5. MinedAt(code', proc.net, n)
  BY <1>2, <1>4 DEF MinedAt
<1>6. LinkedAt(code', proc.net, n)
  <2>1. ASSUME NEW lib \in LibrariesOf[ToDeploy.name]
        PROVE  IsA(code', proc.net, Known[lib], lib) /\ Known[lib][2] < n
    <3>1. IsA(code, proc.net, Known[lib], lib)  BY <1>3, <2>1
    <3>2. IsA(code', proc.net, Known[lib], lib)  BY <1>2, <3>1, KeptIsA
    <3>3. Known[lib][2] \in 1 .. n - 1  BY <1>2, <3>1 DEF IsA
    <3> QED  BY <1>2, <3>2, <3>3
  <2> QED  BY <1>2, <1>3, <2>1 DEF LinkedAt
<1>7. FindsAt(code', proc.net, n)
  <2> SUFFICES ASSUME ToDeploy.name = "TWAMM" PROVE FindsAt(code', proc.net, n)
    BY <1>2 DEF FindsAt
  <2>1. proc.script = TwammDeploy
    <3>1. proc.script \in Script /\ proc.pc \in Nat \ {0} /\ proc.pc <= Len(proc.script)
      BY <1>1 DEF ProcTyped, Deploy, Sending
    <3>2. proc.script # FactoryDeploy
      <4> SUFFICES ASSUME proc.script = FactoryDeploy PROVE FALSE  OBVIOUS
      <4>1. proc.pc = 1  BY <3>1, ScriptsFacts
      <4> QED  BY <4>1, <1>3, ScriptsFacts
    <3>3. proc.script # LibDeploy
      <4> SUFFICES ASSUME proc.script = LibDeploy PROVE FALSE  OBVIOUS
      <4>1. \/ proc.pc = 1 \/ proc.pc = 2 \/ proc.pc = 3 \/ proc.pc = 4 \/ proc.pc = 5
        BY <3>1, ScriptsFacts
      <4> QED  BY <4>1, <1>3, ScriptsFacts
    <3> QED  BY <3>1, <3>2, <3>3 DEF Script
  <2> DEFINE last == printed[proc.net]
  <2>2. OfOneRun(last) /\ config[proc.net][2] > last["Library"][2]
    BY <1>1, <2>1, ScriptsFacts DEF ProcRight, InOrder
  <2>3. PrintedAt(code, proc.net, last)
    BY <1>1, <1>2, <2>2 DEF PrintedRight
  <2>4. IsA(code, proc.net, last["Library"], "Library")
    BY <2>3 DEF PrintedAt, LibName
  <2>5. last["Library"][2] \in 1 .. n - 1  BY <1>2, <2>4 DEF IsA
  <2>6. config[proc.net] # NoAddress
    <3>1. NoAddress[2] = 0  BY DEF NoAddress
    <3> QED  BY <1>2, <2>2, <2>5, <3>1
  <2>7. IsA(code, proc.net, config[proc.net], "Factory")
    BY <1>1, <1>2, <2>6 DEF ConfigRight
  <2>8. code[proc.net][config[proc.net][2]].links = code[proc.net][last["Library"][2]].links
    BY <2>2, <2>3, <2>7 DEF PrintedAt, IsA
  <2>9. /\ IsA(code', proc.net, config[proc.net], "Factory")
        /\ code'[proc.net][config[proc.net][2]].links
             = code[proc.net][config[proc.net][2]].links
        /\ code'[proc.net][last["Library"][2]].links
             = code[proc.net][last["Library"][2]].links
    BY <1>2, <2>4, <2>7, KeptIsA
  <2>10. ToDeploy.links["Library"] = last["Library"]
    BY <1>3, <2>1, LibrariesLinked, ScriptsFacts
  <2> QED  BY <1>2, <1>4, <2>8, <2>9, <2>10 DEF FindsAt
<1>8. ASSUME NEW net \in Network, NEW i \in DOMAIN code[net]
      PROVE  MinedAt(code', net, i) /\ LinkedAt(code', net, i) /\ FindsAt(code', net, i)
  <2>1. MinedAt(code, net, i) /\ LinkedAt(code, net, i) /\ FindsAt(code, net, i)
    BY <1>1 DEF SentRight
  <2>2. LinkedAt(code', net, i) /\ FindsAt(code', net, i)
    BY <1>2, <2>1, KeptRight
  <2>3. \A j \in 1 .. i - 1 : j \in DOMAIN code[net]
    BY <1>1, PlacesBefore DEF CodeTyped
  <2>4. MinedAt(code', net, i)
    BY <1>2, <2>1, <2>3 DEF MinedAt
  <2> QED  BY <2>2, <2>4
<1> QED
  <2> SUFFICES ASSUME NEW net \in Network, NEW i \in DOMAIN code'[net]
               PROVE  MinedAt(code', net, i) /\ LinkedAt(code', net, i) /\ FindsAt(code', net, i)
    BY DEF SentRight
  <2>1. CASE i \in DOMAIN code[net]  BY <1>8, <2>1
  <2>2. CASE i \notin DOMAIN code[net]
    <3>1. net = proc.net /\ i = n  BY <1>2, <2>2
    <3> QED  BY <3>1, <1>5, <1>6, <1>7
  <2> QED  BY <2>1, <2>2

\* Sending keeps what is printed and configured right: from the first library of
\* a run to its last the addresses printed are of several runs, and show it.
LEMMA DeployRestRight ==
  ASSUME CarefulInv, Deploy
  PROVE  PrintedRight' /\ ConfigRight' /\ ProcRight'
<1> DEFINE n == Len(code[proc.net]) + 1
           address == <<proc.net, n>>
           own == IF proc.script = LibDeploy
                  THEN [proc.own EXCEPT ![ToDeploy.name] = address] ELSE proc.own
           last == proc.script = LibDeploy /\ proc.pc = Len(LibDeploy)
           next == [proc EXCEPT !.pc = @ + 1, !.own = own, !.sent = address]
<1>1. /\ CodeTyped /\ WrittenTyped /\ ProcTyped
      /\ PrintedRight /\ ConfigRight /\ ProcRight /\ Running
      /\ proc.pc <= Len(proc.script)
  BY DEF CarefulInv, DInv, Deploy, Sending
<1>2. /\ proc.net \in Network /\ n \in Nat \ {0}
      /\ Kept(code, code')
      /\ \A net \in Network : net # proc.net => DOMAIN code'[net] = DOMAIN code[net]
      /\ DOMAIN code[proc.net] = 1 .. n - 1 /\ DOMAIN code'[proc.net] = 1 .. n
      /\ code'[proc.net][n] = ToDeploy
  BY <1>1, DeploySends
<1>3. PICK stopped \in BOOLEAN :
      /\ proc' = IF stopped THEN Ended("aborted") ELSE IF last THEN Ended("0") ELSE next
      /\ printed' = IF proc.script = LibDeploy /\ ~stopped
                    THEN [printed EXCEPT ![proc.net][ToDeploy.name] = address]
                    ELSE printed
      /\ libs' = libs /\ config' = config
  BY DEF Deploy
<1> HIDE DEF n, own, last
<1>4. /\ proc.script \in Script /\ proc.pc \in Nat \ {0}
      /\ proc.own \in [LibName -> Address] /\ proc.exit = "running"
      /\ printed[proc.net] \in [LibName -> Address]
  BY <1>1, <1>2 DEF ProcTyped, WrittenTyped, Running
<1>5. /\ next.script = proc.script /\ next.net = proc.net /\ next.pc = proc.pc + 1
      /\ next.own = own /\ next.sent = address /\ next.exit = "running"
  <2>1. proc \in [script : Script, net : Network \cup {""}, pc : Nat \ {0},
                  own : [LibName -> Address], sent : Address, exit : Exit]
    BY <1>1 DEF ProcTyped
  <2> QED  BY <1>4, <2>1
<1> HIDE DEF address, next
<1>6. /\ ToDeploy.name \in ContractName /\ ToDeploy.name = proc.script[proc.pc]
      /\ ToDeploy.links = [lib \in LibrariesOf[ToDeploy.name] |-> Known[lib]]
      /\ proc.script # LibDeploy =>
           /\ OfOneRun(printed[proc.net])
           /\ \A lib \in LibrariesOf[ToDeploy.name] :
                Known[lib] = printed[proc.net][lib]
  BY DeployLinks
<1>7. ASSUME NEW net \in Network, NEW a, NEW name, IsA(code, net, a, name)
      PROVE  IsA(code', net, a, name)
  BY <1>2, <1>7, KeptIsA
<1>8. IsA(code', proc.net, address, ToDeploy.name) /\ address[2] = n
  <2>1. n \in DOMAIN code'[proc.net]  BY <1>2
  <2> QED  BY <1>2, <2>1 DEF IsA, address
\* The libraries that this run has sent.
<1>9. ASSUME proc.script = LibDeploy
      PROVE  /\ proc.pc \in 1 .. 5 /\ ToDeploy.name = LibDeploy[proc.pc]
             /\ \A k \in 1 .. 5 : LibDeploy[k] \in LibName
             /\ own[LibDeploy[proc.pc]] = address
             /\ \A lib \in LibName : lib # LibDeploy[proc.pc] => own[lib] = proc.own[lib]
             /\ \A k \in 1 .. proc.pc : IsA(code', proc.net, own[LibDeploy[k]], LibDeploy[k])
  <2>1. proc.pc \in 1 .. 5  BY <1>1, <1>4, <1>9, ScriptsFacts
  <2>2. \A k \in 1 .. 5 : LibDeploy[k] \in LibName
    <3>1. \A k \in 1 .. 5 : k = 1 \/ k = 2 \/ k = 3 \/ k = 4 \/ k = 5  OBVIOUS
    <3> QED  BY <3>1, ScriptsFacts DEF LibName
  <2>3. own = [proc.own EXCEPT ![LibDeploy[proc.pc]] = address]
    BY <1>6, <1>9 DEF own
  <2>4. /\ own[LibDeploy[proc.pc]] = address
        /\ \A lib \in LibName : lib # LibDeploy[proc.pc] => own[lib] = proc.own[lib]
    BY <1>4, <2>1, <2>2, <2>3
  <2>5. ASSUME NEW k \in 1 .. proc.pc
        PROVE  IsA(code', proc.net, own[LibDeploy[k]], LibDeploy[k])
    <3>1. CASE k = proc.pc  BY <1>6, <1>8, <1>9, <2>4, <3>1
    <3>2. CASE k # proc.pc
      <4>1. k \in 1 .. proc.pc - 1 /\ k \in 1 .. 5  BY <2>1, <3>2
      <4>2. LibDeploy[k] # LibDeploy[proc.pc]  BY <2>1, <3>2, <4>1, ScriptsFacts
      <4>3. own[LibDeploy[k]] = proc.own[LibDeploy[k]]  BY <2>2, <2>4, <4>1, <4>2
      <4>4. IsA(code, proc.net, proc.own[LibDeploy[k]], LibDeploy[k])
        BY <1>1, <1>9, <4>1 DEF ProcRight
      <4> QED  BY <1>2, <1>7, <4>3, <4>4
    <3> QED  BY <3>1, <3>2
  <2> QED  BY <1>6, <1>9, <2>1, <2>2, <2>4, <2>5
\* The addresses it has printed.
<1>10. ASSUME proc.script = LibDeploy, ~stopped
       PROVE  /\ printed'[proc.net][LibDeploy[proc.pc]] = address
              /\ \A lib \in LibName : lib # LibDeploy[proc.pc] =>
                   printed'[proc.net][lib] = printed[proc.net][lib]
              /\ \A net \in Network : net # proc.net => printed'[net] = printed[net]
              /\ \A k \in 1 .. proc.pc : printed'[proc.net][LibDeploy[k]] = own[LibDeploy[k]]
              /\ proc.pc # 5 => ~OfOneRun(printed'[proc.net])
  <2> DEFINE old == printed[proc.net]
             new == printed'[proc.net]
  <2>1. printed' = [printed EXCEPT ![proc.net] = [old EXCEPT ![LibDeploy[proc.pc]] = address]]
    BY <1>3, <1>9, <1>10
  <2>2. /\ new = [old EXCEPT ![LibDeploy[proc.pc]] = address]
        /\ \A net \in Network : net # proc.net => printed'[net] = printed[net]
    BY <1>1, <1>2, <2>1 DEF WrittenTyped
  <2>3. /\ new[LibDeploy[proc.pc]] = address
        /\ \A lib \in LibName : lib # LibDeploy[proc.pc] => new[lib] = old[lib]
    BY <1>4, <1>9, <1>10, <2>2
  <2>4. ASSUME NEW k \in 1 .. proc.pc
        PROVE  new[LibDeploy[k]] = own[LibDeploy[k]]
    <3>1. CASE k = proc.pc  BY <1>9, <1>10, <2>3, <3>1
    <3>2. CASE k # proc.pc
      <4>1. k \in 1 .. proc.pc - 1 /\ k \in 1 .. 5 /\ proc.pc \in 1 .. 5
        BY <1>9, <1>10, <3>2
      <4>2. LibDeploy[k] # LibDeploy[proc.pc] /\ LibDeploy[k] \in LibName
        BY <1>9, <1>10, <3>2, <4>1, ScriptsFacts
      <4>3. old[LibDeploy[k]] = proc.own[LibDeploy[k]]
        BY <1>1, <1>10, <4>1 DEF ProcRight
      <4> QED  BY <1>9, <1>10, <2>3, <4>2, <4>3
    <3> QED  BY <3>1, <3>2
  <2>5. ASSUME proc.pc # 5  PROVE ~OfOneRun(new)
    <3>1. new["Library"] = old["Library"]
      BY <1>9, <1>10, <2>3, <2>5, ScriptsFacts DEF LibName
    <3>2. CASE proc.pc = 1
      <4>1. new["TransferHelper"][2] = n  BY <1>8, <2>3, <3>2, ScriptsFacts
      <4>2. old["Library"] = NoAddress \/ old["Library"][2] \in 1 .. n - 1
        BY <1>1, <1>2 DEF PrintedRight, IsA
      <4>3. NoAddress[2] = 0  BY DEF NoAddress
      <4>4. ~(n < old["Library"][2])  BY <1>2, <4>2, <4>3
      <4> QED  BY <3>1, <4>1, <4>4 DEF OfOneRun
    <3>3. CASE proc.pc # 1
      <4>1. new["TransferHelper"] = old["TransferHelper"]
        BY <1>9, <1>10, <2>3, <3>3, ScriptsFacts DEF LibName
      <4>2. proc.pc > 1  BY <1>4, <3>3
      <4>3. ~OfOneRun(old)  BY <1>1, <1>10, <4>2 DEF ProcRight
      <4> QED  BY <3>1, <4>1, <4>3 DEF OfOneRun
    <3> QED  BY <3>2, <3>3
  <2> QED  BY <2>2, <2>3, <2>4, <2>5
<1>11. ConfigRight'
  BY <1>1, <1>3, <1>7 DEF ConfigRight
<1>12. ASSUME NEW net \in Network, OfOneRun(printed'[net])
       PROVE  PrintedAt(code', net, printed'[net])
  <2>1. CASE proc.script = LibDeploy /\ ~stopped /\ net = proc.net
    <3> DEFINE new == printed'[net]
    <3>1. proc.pc = 5  BY <1>10, <1>12, <2>1
    <3>2. \A lib \in LibName : new[lib] = own[lib] /\ IsA(code', net, own[lib], lib)
      BY <1>9, <1>10, <2>1, <3>1, ScriptsFacts
    <3>3. new["Library"] = address /\ ToDeploy.name = "Library" /\ Known = proc.own
      BY <1>9, <1>10, <2>1, <3>1, ScriptsFacts DEF Known
    <3>4. new["Library"][2] = n  BY <1>8, <3>3
    <3>5. code'[net][n].links = PairLibs(new)
      <4>1. \A lib \in LibrariesOf["Factory"] : new[lib] = proc.own[lib]
        BY <1>9, <2>1, <3>1, <3>2, LibrariesLinked, ScriptsFacts DEF LibName
      <4> HIDE DEF new
      <4> QED  BY <1>2, <1>6, <2>1, <3>3, <4>1, LibrariesLinked DEF PairLibs
    <3>6. \A i \in DOMAIN code'[net] : ~(n < i)
      BY <1>2, <2>1
    <3> HIDE DEF new
    <3>7. PrintedAt(code', net, new)
      BY <3>2, <3>4, <3>5, <3>6 DEF PrintedAt
    <3> QED  BY <3>7 DEF new
  <2>2. CASE ~(proc.script = LibDeploy /\ ~stopped /\ net = proc.net)
    <3>1. printed'[net] = printed[net]  BY <1>3, <1>10, <2>2
    <3>2. PrintedAt(code, net, printed[net]) /\ printed[net] \in [LibName -> Address]
      BY <1>1, <1>12, <3>1 DEF PrintedRight, WrittenTyped
    <3>3. ASSUME NEW i \in DOMAIN code'[net] \ DOMAIN code[net], code'[net][i].name = "Factory"
          PROVE  code'[net][i].links = PairLibs(printed[net])
      <4>1. net = proc.net /\ i = n  BY <1>2, <3>3
      <4>2. ToDeploy.name = "Factory"  BY <1>2, <3>3, <4>1
      <4>3. proc.script # LibDeploy
        <5> SUFFICES ASSUME proc.script = LibDeploy PROVE FALSE  OBVIOUS
        <5>1. proc.pc = 1 \/ proc.pc = 2 \/ proc.pc = 3 \/ proc.pc = 4 \/ proc.pc = 5
          BY <1>9
        <5> QED  BY <5>1, <1>6, <4>2, ScriptsFacts
      <4> QED  BY <1>2, <1>6, <4>1, <4>2, <4>3 DEF PairLibs
    <3> QED  BY <1>2, <3>1, <3>2, <3>3, KeptPrinted
  <2> QED  BY <2>1, <2>2
<1>13. ASSUME NEW net \in Network, printed'[net]["Library"] # NoAddress
       PROVE  IsA(code', net, printed'[net]["Library"], "Library")
  <2>1. CASE printed'[net]["Library"] = printed[net]["Library"]
    BY <1>1, <1>7, <1>13, <2>1 DEF PrintedRight
  <2>2. CASE printed'[net]["Library"] # printed[net]["Library"]
    <3>1. proc.script = LibDeploy /\ ~stopped /\ net = proc.net
      BY <1>3, <1>10, <2>2
    <3>2. LibDeploy[proc.pc] = "Library"
      BY <1>10, <2>2, <3>1 DEF LibName
    <3> QED  BY <1>8, <1>9, <1>10, <3>1, <3>2
  <2> QED  BY <2>1, <2>2
<1>14. PrintedRight'
  BY <1>12, <1>13 DEF PrintedRight, OfOneRun
<1>15. ProcRight'
  <2>1. CASE stopped \/ last
    <3>1. PICK exit \in {"0", "aborted"} : proc' = Ended(exit)  BY <1>3, <2>1
    <3>2. proc'.script = LibDeploy /\ proc'.exit = exit
      BY <3>1, EndedTyped DEF Exit
    <3> QED  BY <3>2, ScriptsFacts DEF ProcRight, Running
  <2>2. CASE ~stopped /\ ~last
    <3>1. /\ proc'.script = proc.script /\ proc'.net = proc.net
          /\ proc'.pc = proc.pc + 1 /\ proc'.own = own /\ proc'.sent = address
          /\ proc'.exit = "running"
      BY <1>3, <1>5, <2>2
    <3>2. ASSUME proc.script = LibDeploy
          PROVE  /\ proc'.pc <= 5
                 /\ \A k \in 1 .. proc'.pc - 1 :
                      /\ IsA(code', proc'.net, proc'.own[LibDeploy[k]], LibDeploy[k])
                      /\ printed'[proc'.net][LibDeploy[k]] = proc'.own[LibDeploy[k]]
                 /\ ~OfOneRun(printed'[proc'.net])
      <4>1. proc.pc \in 1 .. 5 /\ proc.pc # 5
        BY <1>9, <2>2, <3>2, ScriptsFacts DEF last
      <4>2. proc.pc + 1 <= 5 /\ 1 .. (proc.pc + 1) - 1 = 1 .. proc.pc  BY <4>1
      <4> QED  BY <1>9, <1>10, <2>2, <3>1, <3>2, <4>1, <4>2
    <3>3. ASSUME proc.script # LibDeploy
          PROVE  InOrder(proc.script, proc.net)'
      <4>1. InOrder(proc.script, proc.net)  BY <1>1, <3>3 DEF ProcRight
      <4> QED  BY <1>3, <3>1, <3>3, <4>1 DEF InOrder, OfOneRun
    <3>4. proc.script = FactoryDeploy => IsA(code', proc'.net, proc'.sent, "Factory")
      <4> SUFFICES ASSUME proc.script = FactoryDeploy
                   PROVE  IsA(code', proc'.net, proc'.sent, "Factory")
        OBVIOUS
      <4>1. proc.pc = 1  BY <1>1, <1>4, ScriptsFacts
      <4> QED  BY <4>1, <1>6, <1>8, <3>1, ScriptsFacts
    <3>5. proc'.net \in Network /\ proc'.exit # "0"  BY <1>2, <3>1
    <3> QED  BY <3>1, <3>2, <3>3, <3>4, <3>5 DEF ProcRight, OfOneRun
  <2> QED  BY <2>1, <2>2
<1> QED  BY <1>11, <1>14, <1>15

\* The operator's steps: a careful one starts a script only with the addresses
\* printed for the network, and copies what was printed.
LEMMA OffChainRight ==
  ASSUME CarefulInv,
         \/ \E script \in Script, net \in Network : Start(script, net)
         \/ FailToDeploy
         \/ WaitDeployed
         \/ Abort
         \/ \E script \in Script \ {LibDeploy}, net \in Network : EditScript(script, net)
         \/ EditConfig
  PROVE  code' = code /\ PrintedRight' /\ ConfigRight' /\ ProcRight'
<1>1. /\ WrittenTyped /\ ProcTyped
      /\ PrintedRight /\ ConfigRight /\ ProcRight /\ Careful
  BY DEF CarefulInv, DInv
<1>2. proc \in [script : Script, net : Network \cup {""}, pc : Nat \ {0},
                own : [LibName -> Address], sent : Address, exit : Exit]
  BY <1>1 DEF ProcTyped
<1>3. CASE \E script \in Script, net \in Network : Start(script, net)
  <2>1. PICK script \in Script : \E net \in Network : Start(script, net)  BY <1>3
  <2>2. PICK net \in Network : Start(script, net)  BY <2>1
  <2>3. proc' = [script |-> script, net |-> net, pc |-> 1, own |-> NoLibs,
                 sent |-> NoAddress, exit |-> "running"]
    BY <2>2 DEF Start
  <2>4. /\ code' = code /\ libs' = libs /\ config' = config /\ printed' = printed
        /\ InOrder(script, net)
    BY <1>1, <2>2 DEF Start
  <2>5. InOrder(script, net)'  BY <2>4 DEF InOrder, OfOneRun
  <2>6. PrintedRight' /\ ConfigRight'
    BY <1>1, <2>4 DEF PrintedRight, ConfigRight, OfOneRun
  <2>7. 1 .. 1 - 1 = {} /\ ~(1 > 1)  OBVIOUS
  <2>8. ProcRight'
    BY <2>3, <2>5, <2>7 DEF ProcRight, Running
  <2> QED  BY <2>4, <2>6, <2>8
<1>4. CASE FailToDeploy \/ WaitDeployed \/ Abort
  <2>1. code' = code /\ libs' = libs /\ config' = config /\ printed' = printed
    BY <1>4 DEF FailToDeploy, WaitDeployed, Abort
  <2>2. PrintedRight' /\ ConfigRight'
    BY <1>1, <2>1 DEF PrintedRight, ConfigRight, OfOneRun
  <2>3. ASSUME NEW exit \in {"1", "aborted"}, proc' = Ended(exit)  PROVE ProcRight'
    <3>1. proc'.script = LibDeploy /\ proc'.exit = exit
      BY <2>3, EndedTyped DEF Exit
    <3> QED  BY <3>1, ScriptsFacts DEF ProcRight, Running
  <2>4. ASSUME WaitDeployed, proc' = [proc EXCEPT !.exit = "0"]  PROVE ProcRight'
    <3>1. /\ proc'.exit = "0" /\ proc'.script = proc.script /\ proc'.net = proc.net
          /\ proc'.pc = proc.pc /\ proc'.sent = proc.sent
      BY <1>2, <2>4
    <3>2. proc.script = FactoryDeploy => proc.pc > 1
      <4>1. proc.pc > Len(proc.script)  BY <2>4 DEF WaitDeployed
      <4> QED  BY <1>2, <4>1, ScriptsFacts
    <3>3. ~Running'  BY <3>1 DEF Running
    <3>4. (proc.script = FactoryDeploy /\ proc.pc > 1) =>
            proc.net \in Network /\ IsA(code, proc.net, proc.sent, "Factory")
      BY <1>1 DEF ProcRight
    <3> QED  BY <2>1, <3>1, <3>2, <3>3, <3>4 DEF ProcRight
  <2>5. CASE FailToDeploy \/ Abort
    <3>1. proc' = Ended("1") \/ proc' = Ended("aborted")
      BY <2>5 DEF FailToDeploy, Abort
    <3> QED  BY <2>1, <2>2, <2>3, <3>1
  <2>6. CASE WaitDeployed
    <3>1. proc' = Ended("1") \/ proc' = [proc EXCEPT !.exit = "0"]
      BY <2>6 DEF WaitDeployed
    <3> QED  BY <2>1, <2>2, <2>3, <2>4, <2>6, <3>1
  <2> QED  BY <1>4, <2>5, <2>6
<1>5. CASE \E script \in Script \ {LibDeploy}, net \in Network : EditScript(script, net)
  <2>1. /\ code' = code /\ config' = config /\ printed' = printed /\ proc' = proc
        /\ ~Running
    BY <1>5 DEF EditScript
  <2>2. PrintedRight' /\ ConfigRight'
    BY <1>1, <2>1 DEF PrintedRight, ConfigRight, OfOneRun
  <2>3. ProcRight'
    BY <1>1, <2>1 DEF ProcRight, Running
  <2> QED  BY <2>1, <2>2, <2>3
<1>6. CASE EditConfig
  <2>1. /\ code' = code /\ libs' = libs /\ printed' = printed /\ proc' = proc
        /\ config' = [config EXCEPT ![proc.net] = proc.sent]
        /\ proc.script = FactoryDeploy /\ proc.exit = "0"
    BY <1>6 DEF EditConfig
  <2>2. PrintedRight'  BY <1>1, <2>1 DEF PrintedRight, OfOneRun
  <2>3. IsA(code, proc.net, proc.sent, "Factory")  BY <1>1, <2>1 DEF ProcRight
  <2>4. ConfigRight'
    <3> SUFFICES ASSUME NEW net \in Network, config'[net] # NoAddress
                 PROVE  IsA(code, net, config'[net], "Factory")
      BY <2>1 DEF ConfigRight
    <3>1. CASE net = proc.net
      BY <1>1, <2>1, <2>3, <3>1 DEF WrittenTyped
    <3>2. CASE net # proc.net
      BY <1>1, <2>1, <3>2 DEF WrittenTyped, ConfigRight
    <3> QED  BY <3>1, <3>2
  <2>5. ProcRight'
    BY <1>1, <2>1 DEF ProcRight, Running
  <2> QED  BY <2>1, <2>2, <2>4, <2>5
<1> QED  BY <1>3, <1>4, <1>5, <1>6

\* The addresses that deployed.js lists, in the order of deployment.
LEMMA ListedAt ==
  ASSUME NEW net \in Network
  PROVE  \A k \in 1 .. 5 : LibsListed(net)[LibDeploy[k]] = <<net, k>>
<1> SUFFICES ASSUME NEW k \in 1 .. 5 PROVE LibsListed(net)[LibDeploy[k]] = <<net, k>>
  OBVIOUS
<1>1. DOMAIN LibDeploy = 1 .. 5  BY DEF LibDeploy
<1>2. LibDeploy[k] \in LibName
  <2>1. k = 1 \/ k = 2 \/ k = 3 \/ k = 4 \/ k = 5  OBVIOUS
  <2> QED  BY <2>1, ScriptsFacts DEF LibName
<1>3. (CHOOSE i \in DOMAIN LibDeploy : LibDeploy[i] = LibDeploy[k]) = k
  BY <1>1, ScriptsFacts
<1> QED  BY <1>2, <1>3 DEF LibsListed

\* The libraries that deployed.js lists.
LEMMA ListedLibraries ==
  ASSUME NEW net \in Network
  PROVE  \A i \in 1 .. 5 :
           Listed(net)[i] = Contract(LibDeploy[i], LibsListed(net), NoAddress, "live")
<1> DEFINE first == [i \in 1 .. 5 |->
                       Contract(LibDeploy[i], LibsListed(net), NoAddress, "live")]
           last == <<[Contract("Factory", LibsListed(net), NoAddress, "live")
                        EXCEPT !.twamm = <<net, 7>>],
                     Contract("TWAMM", LibsListed(net), FactoryListed(net), "live")>>
<1>1. Listed(net) = first \o last  BY DEF Listed
<1> DEFINE S == {first[i] : i \in 1 .. 5} \cup {last[1], last[2]}
<1>2. first \in Seq(S) /\ Len(first) = 5  OBVIOUS
<1>3. last \in Seq(S) /\ Len(last) = 2  OBVIOUS
<1>4. \A i \in 1 .. 5 : first[i] = Contract(LibDeploy[i], LibsListed(net), NoAddress, "live")
  OBVIOUS
<1> HIDE DEF first, last, S
<1>5. \A i \in 1 .. 5 : (first \o last)[i] = first[i]
  BY <1>2, <1>3, FiveAndTwo
<1> QED  BY <1>1, <1>4, <1>5

\* The networks that deployed.js lists are linked right.
LEMMA ListedRight ==
  ASSUME Init, NEW net \in Deployed
  PROVE  /\ PrintedAt(code, net, LibsListed(net))
         /\ IsA(code, net, FactoryListed(net), "Factory")
         /\ \A i \in DOMAIN code[net] :
              MinedAt(code, net, i) /\ LinkedAt(code, net, i) /\ FindsAt(code, net, i)
<1> DEFINE c == code[net]
           listed == LibsListed(net)
<1>1. net \in Network /\ c = Listed(net)  BY DEF Init, Network
<1>2. /\ c \in Seq(Contracts) /\ DOMAIN c = 1 .. 7
      /\ \A i \in 1 .. 5 : c[i].name = LibDeploy[i]
      /\ c[6] = [Contract("Factory", listed, NoAddress, "live") EXCEPT !.twamm = <<net, 7>>]
      /\ c[7] = Contract("TWAMM", listed, FactoryListed(net), "live")
  BY <1>1, ListedTyped
<1>3. \A i \in 1 .. 5 : c[i] = Contract(LibDeploy[i], listed, NoAddress, "live")
  BY <1>1, ListedLibraries
<1>4. \A k \in 1 .. 5 : listed[LibDeploy[k]] = <<net, k>>
  BY <1>1, ListedAt
<1> HIDE DEF c, listed
<1>5. /\ c[6].name = "Factory" /\ c[7].name = "TWAMM"
      /\ c[6].state = "live" /\ c[7].state = "live"
      /\ c[6].links = [lib \in LibrariesOf["Factory"] |-> listed[lib]]
      /\ c[7].links = [lib \in LibrariesOf["TWAMM"] |-> listed[lib]]
      /\ c[7].factory = <<net, 6>>
  BY <1>2 DEF Contract, FactoryListed
<1>6. \A i \in 1 .. 5 : /\ c[i].state = "live"
                        /\ c[i].links = [lib \in LibrariesOf[LibDeploy[i]] |-> listed[lib]]
  BY <1>3 DEF Contract
<1>7. /\ listed["TransferHelper"] = <<net, 1>> /\ listed["OrderPoolLib"] = <<net, 2>>
      /\ listed["BinarySearchTreeLib"] = <<net, 3>>
      /\ listed["LongTermOrdersLib"] = <<net, 4>> /\ listed["Library"] = <<net, 5>>
  BY <1>4, ScriptsFacts
<1>8. \A i \in 1 .. 7 : i = 1 \/ i = 2 \/ i = 3 \/ i = 4 \/ i = 5 \/ i = 6 \/ i = 7
  OBVIOUS
<1>9. \A i \in 1 .. 5 : c[i].name # "Factory" /\ c[i].name # "TWAMM"
  <2>1. \A i \in 1 .. 5 : i = 1 \/ i = 2 \/ i = 3 \/ i = 4 \/ i = 5  OBVIOUS
  <2> QED  BY <1>2, <2>1, ScriptsFacts
<1>10. \A i \in 1 .. 7 : c[i].state = "live"
  BY <1>5, <1>6, <1>8
<1>11. \A lib \in LibName : IsA(code, net, listed[lib], lib) /\ listed[lib][2] \in 1 .. 5
  <2> SUFFICES ASSUME NEW lib \in LibName
               PROVE  IsA(code, net, listed[lib], lib) /\ listed[lib][2] \in 1 .. 5
    OBVIOUS
  <2>1. PICK k \in 1 .. 5 : LibDeploy[k] = lib  BY ScriptsFacts
  <2>2. listed[lib] = <<net, k>>  BY <1>4, <2>1
  <2> QED  BY <1>2, <2>1, <2>2, SMTT(60) DEF IsA, c
<1>12. PrintedAt(code, net, listed)
  <2>1. c[5].links = PairLibs(listed)
    BY <1>6, LibrariesLinked, ScriptsFacts DEF PairLibs
  <2>2. c[6].links = PairLibs(listed)  BY <1>5 DEF PairLibs
  <2>3. \A i \in DOMAIN c : c[i].name = "Factory" => c[i].links = PairLibs(listed)
    <3> SUFFICES ASSUME NEW i \in DOMAIN c, c[i].name = "Factory"
                 PROVE  c[i].links = PairLibs(listed)
      OBVIOUS
    <3>1. i \in 1 .. 7  BY <1>2
    <3>2. CASE i \in 1 .. 5  BY <1>9, <3>2
    <3>3. CASE i = 6  BY <2>2, <3>3
    <3>4. CASE i = 7  BY <1>5, <3>4
    <3> QED  BY <1>8, <3>1, <3>2, <3>3, <3>4
  <2>4. listed["Library"][2] = 5  BY <1>7
  <2> QED  BY <1>11, <2>1, <2>3, <2>4 DEF PrintedAt, c
<1>13. IsA(code, net, FactoryListed(net), "Factory")
  <2>1. 6 \in DOMAIN c  BY <1>2
  <2>2. FactoryListed(net)[1] = net /\ FactoryListed(net)[2] = 6  BY DEF FactoryListed
  <2> QED  BY <1>5, <2>1, <2>2 DEF IsA, c
<1>14. ASSUME NEW i \in DOMAIN code[net]
       PROVE  MinedAt(code, net, i) /\ LinkedAt(code, net, i) /\ FindsAt(code, net, i)
  <2>1. i \in 1 .. 7  BY <1>2 DEF c
  <2>2. MinedAt(code, net, i)
    <3>1. \A j \in 1 .. i - 1 : j \in 1 .. 7  BY <2>1
    <3> QED  BY <1>10, <2>1, <3>1 DEF MinedAt, c
  <2>3. LinkedAt(code, net, i)
    <3>1. c[i].links = [lib \in LibrariesOf[c[i].name] |-> listed[lib]]
      <4>1. CASE i \in 1 .. 5  BY <1>2, <1>6, <4>1
      <4>2. CASE i = 6 \/ i = 7  BY <1>5, <4>2
      <4> QED  BY <2>1, <4>1, <4>2
    <3>2. \A lib \in LibrariesOf[c[i].name] :
            IsA(code, net, listed[lib], lib) /\ listed[lib][2] < i
      <4>1. CASE i \in 1 .. 5
        <5>1. i = 1 \/ i = 2 \/ i = 3 \/ i = 4 \/ i = 5  BY <4>1
        <5>2. c[i].name = LibDeploy[i]  BY <1>2, <4>1
        <5>3. CASE i = 1 \/ i = 2 \/ i = 3
          BY <5>2, <5>3, LibrariesLinked, ScriptsFacts
        <5>4. CASE i = 4
          BY <5>2, <5>4, <1>7, <1>11, LibrariesLinked, ScriptsFacts DEF LibName
        <5>5. CASE i = 5
          BY <5>2, <5>5, <1>7, <1>11, LibrariesLinked, ScriptsFacts DEF LibName
        <5> QED  BY <5>1, <5>3, <5>4, <5>5
      <4>2. CASE i = 6 \/ i = 7
        <5>1. c[i].name \in ContractName
          BY <1>5, <4>2 DEF ContractName
        <5>2. LibrariesOf[c[i].name] \in SUBSET LibName  BY <5>1, LibrariesLinked
        <5>3. ASSUME NEW lib \in LibrariesOf[c[i].name]
              PROVE  IsA(code, net, listed[lib], lib) /\ listed[lib][2] < i
          <6>1. lib \in LibName  BY <5>2, <5>3
          <6>2. IsA(code, net, listed[lib], lib) /\ listed[lib][2] \in 1 .. 5
            BY <6>1, <1>11
          <6> QED  BY <6>2, <4>2
        <5> QED  BY <5>3
      <4> QED  BY <2>1, <4>1, <4>2
    <3> QED  BY <3>1, <3>2 DEF LinkedAt, c
  <2>4. FindsAt(code, net, i)
    <3> SUFFICES ASSUME c[i].name = "TWAMM" PROVE FindsAt(code, net, i)
      BY DEF FindsAt, c
    <3>1. i = 7
      BY <1>5, <1>8, <1>9, <2>1
    <3>2. c[7].links["Library"] = <<net, 5>>
      BY <1>5, <1>7, LibrariesLinked
    <3>3. c[5].links = c[6].links
      BY <1>5, <1>6, LibrariesLinked, ScriptsFacts
    <3>4. IsA(code, net, c[7].factory, "Factory")
      BY <1>5, <1>13 DEF FactoryListed
    <3> QED  BY <1>5, <3>1, <3>2, <3>3, <3>4 DEF FindsAt, c
  <2> QED  BY <2>2, <2>3, <2>4
<1> QED  BY <1>12, <1>13, <1>14 DEF listed

\* What deployed.js lists is right, and nothing else is there.
LEMMA CarefulInit == Careful /\ Init => CarefulInv
<1> SUFFICES ASSUME Careful, Init PROVE CarefulInv  OBVIOUS
<1>1. ASSUME NEW net \in Network \ Deployed
      PROVE  /\ DOMAIN code[net] = {} /\ printed[net] = NoLibs
             /\ config[net] = NoAddress
  <2>1. code[net] = <<>> /\ printed[net] = NoLibs /\ config[net] = NoAddress
    BY <1>1 DEF Init
  <2>2. DOMAIN <<>> = {}  OBVIOUS
  <2> QED  BY <2>1, <2>2
<1>2. ASSUME NEW net \in Deployed
      PROVE  printed[net] = LibsListed(net) /\ config[net] = FactoryListed(net)
  BY <1>2 DEF Init, Network
<1>3. SentRight(code)
  BY <1>1, ListedRight DEF SentRight
<1>4. PrintedRight
  <2> SUFFICES ASSUME NEW net \in Network
               PROVE  /\ OfOneRun(printed[net]) => PrintedAt(code, net, printed[net])
                      /\ printed[net]["Library"] # NoAddress
                           => IsA(code, net, printed[net]["Library"], "Library")
    BY DEF PrintedRight
  <2>1. CASE net \in Deployed
    <3>1. PrintedAt(code, net, printed[net])  BY <1>2, <2>1, ListedRight
    <3> QED  BY <3>1 DEF PrintedAt, LibName
  <2>2. CASE net \notin Deployed
    <3>1. printed[net]["Library"] = NoAddress /\ printed[net]["TransferHelper"] = NoAddress
      BY <1>1, <2>2 DEF NoLibs, LibName
    <3>2. ~(NoAddress[2] < NoAddress[2])  BY DEF NoAddress
    <3> QED  BY <3>1, <3>2 DEF OfOneRun
  <2> QED  BY <2>1, <2>2
<1>5. ConfigRight
  <2> SUFFICES ASSUME NEW net \in Network, config[net] # NoAddress
               PROVE  IsA(code, net, config[net], "Factory")
    BY DEF ConfigRight
  <2>1. net \in Deployed  BY <1>1
  <2> QED  BY <1>2, <2>1, ListedRight
<1>6. ProcRight
  <2>1. proc = Ended("0") /\ "0" \in Exit  BY DEF Init, Exit
  <2>2. proc.script = LibDeploy /\ proc.exit = "0"  BY <2>1, EndedTyped
  <2> QED  BY <2>2, ScriptsFacts DEF ProcRight, Running
<1> QED  BY <1>3, <1>4, <1>5, <1>6, InitInv DEF CarefulInv

\* Every step of a careful operator, and every block, keeps what is right.
LEMMA CarefulStep == CarefulInv /\ [Next]_vars => CarefulInv'
<1> SUFFICES ASSUME CarefulInv, [Next]_vars PROVE CarefulInv'  OBVIOUS
<1>1. DInv' /\ Careful'
  BY StepInv DEF CarefulInv
<1>2. SentRight(code') /\ PrintedRight' /\ ConfigRight' /\ ProcRight'
  <2>1. CASE Deploy
    BY <2>1, DeploySentRight, DeployRestRight
  <2>2. CASE \E net \in Network : Include(net)
    BY <2>2, IncludeRight
  <2>3. CASE \/ \E script \in Script, net \in Network : Start(script, net)
             \/ FailToDeploy
             \/ WaitDeployed
             \/ Abort
             \/ \E script \in Script \ {LibDeploy}, net \in Network : EditScript(script, net)
             \/ EditConfig
    <3>1. code' = code /\ PrintedRight' /\ ConfigRight' /\ ProcRight'
      BY <2>3, OffChainRight
    <3> QED  BY <3>1 DEF CarefulInv
  <2>4. CASE UNCHANGED vars
    BY <2>4 DEF vars, CarefulInv, PrintedRight, ConfigRight, ProcRight, Running,
                InOrder, OfOneRun
  <2> QED  BY <2>1, <2>2, <2>3, <2>4 DEF Next
<1> QED  BY <1>1, <1>2 DEF CarefulInv

\* With a careful operator the contracts are as the scripts mean them, and the
\* addresses printed last are right if they are of one run.  A run that is
\* stopped has printed some, and from then on they are not.
THEOREM SpecCareful == Careful /\ Spec => []CarefulInv
BY CarefulInit, CarefulStep, PTL DEF Spec

\* Of a contract that is live, all that it links is mined.
LEMMA LiveLinks ==
  ASSUME CarefulInv, NEW name \in ContractName, NEW address \in Live(name)
  PROVE  /\ address[1] \in Network /\ address[2] \in DOMAIN code[address[1]]
         /\ At(code, address).name = name
         /\ \A lib \in DOMAIN At(code, address).links :
              /\ HasCode(code, At(code, address).links[lib], lib)
              /\ At(code, address).links[lib][1] = address[1]
<1>1. HasCode(code, address, name)  BY DEF Live
<1> DEFINE net == address[1]
           i == address[2]
<1>2. /\ net \in Network /\ i \in DOMAIN code[net]
      /\ code[net][i].name = name /\ code[net][i].state = "live"
  BY <1>1 DEF HasCode, At
<1>3. code \in [Network -> Seq(Contracts)]  BY DEF CarefulInv, DInv, CodeTyped
<1>4. MinedAt(code, net, i) /\ LinkedAt(code, net, i)
  BY <1>2 DEF CarefulInv, SentRight
<1>5. i \in Nat  BY <1>2, <1>3, PlacesBefore
<1> HIDE DEF net, i
<1>6. ASSUME NEW lib \in DOMAIN code[net][i].links
      PROVE  /\ HasCode(code, code[net][i].links[lib], lib)
             /\ code[net][i].links[lib][1] = net
  <2> DEFINE k == code[net][i].links[lib][2]
  <2>1. IsA(code, net, code[net][i].links[lib], lib) /\ k < i
    BY <1>4, <1>6 DEF LinkedAt
  <2>2. k \in DOMAIN code[net] /\ code[net][k].name = lib  BY <2>1 DEF IsA
  <2>3. k \in Nat \ {0} /\ code[net][k] \in Contracts  BY <1>2, <1>3, <2>2, PlacesBefore
  <2>4. k \in 1 .. i - 1  BY <1>5, <2>1, <2>3
  <2>5. code[net][k].state # "pending"  BY <1>2, <1>4, <2>4 DEF MinedAt
  <2>6. MinedAt(code, net, k)  BY <1>2, <2>2 DEF CarefulInv, SentRight
  <2>7. lib # "TWAMM"
    <3>1. lib \in LibrariesOf[name]  BY <1>2, <1>4, <1>6 DEF LinkedAt
    <3> QED  BY <3>1, LibrariesLinked DEF LibName
  <2>8. code[net][k].state # "failed"  BY <2>2, <2>6, <2>7 DEF MinedAt
  <2>9. code[net][k].state = "live"  BY <2>3, <2>5, <2>8 DEF Contracts
  <2> QED  BY <1>2, <2>1, <2>2, <2>9 DEF HasCode, IsA, At
<1> QED  BY <1>2, <1>6 DEF At, net, i

\* lib-deploy.js waits for no deployment, and may be stopped after any address it
\* prints: all the same, what is linked as a library is this library, mined, for
\* a careful operator.
THEOREM LinksCorrect == Careful /\ Spec => []LinksRight
<1>1. CarefulInv => LinksRight
  <2> SUFFICES ASSUME CarefulInv, NEW net \in Network, NEW i \in DOMAIN code[net],
                      code[net][i].state = "live",
                      NEW lib \in DOMAIN code[net][i].links
               PROVE  /\ HasCode(code, code[net][i].links[lib], lib)
                      /\ code[net][i].links[lib][1] = net
    BY DEF LinksRight
  <2> DEFINE address == <<net, i>>
             name == code[net][i].name
  <2>1. At(code, address) = code[net][i]  BY DEF At
  <2>2. name \in ContractName
    <3>1. code \in [Network -> Seq(Contracts)]  BY DEF CarefulInv, DInv, CodeTyped
    <3>2. code[net][i] \in Contracts  BY <3>1
    <3> QED  BY <3>2 DEF Contracts
  <2>3. address \in Live(name)
    <3>1. HasCode(code, address, name)  BY <2>1 DEF HasCode
    <3>2. address \in {net} \X DOMAIN code[net]  OBVIOUS
    <3> QED  BY <3>1, <3>2 DEF Live
  <2>4. \A l \in DOMAIN At(code, address).links :
          /\ HasCode(code, At(code, address).links[l], l)
          /\ At(code, address).links[l][1] = address[1]
    BY <2>2, <2>3, LiveLinks
  <2> QED  BY <2>1, <2>4
<1> QED  BY <1>1, SpecCareful, PTL

\* The router of a careful operator computes the addresses at which its factory
\* deploys pairs: its Library and the factory have the same libraries in them,
\* although runs that were stopped leave addresses of several runs printed.
THEOREM PairFoundCorrect == Careful /\ Spec => []PairFound
<1>1. CarefulInv => PairFound
  <2> SUFFICES ASSUME CarefulInv, NEW address \in Live("TWAMM")
               PROVE  At(code, At(code, address).links["Library"]).links
                        = At(code, At(code, address).factory).links
    BY DEF PairFound
  <2>1. "TWAMM" \in ContractName  BY DEF ContractName
  <2>2. /\ address[1] \in Network /\ address[2] \in DOMAIN code[address[1]]
        /\ At(code, address).name = "TWAMM"
        /\ \A lib \in DOMAIN At(code, address).links :
             At(code, address).links[lib][1] = address[1]
    BY <2>1, LiveLinks
  <2>3. /\ LinkedAt(code, address[1], address[2])
        /\ FindsAt(code, address[1], address[2])
    BY <2>2 DEF CarefulInv, SentRight
  <2>4. "Library" \in DOMAIN At(code, address).links
    BY <2>2, <2>3, LibrariesLinked DEF LinkedAt, At
  <2>5. At(code, address).links["Library"][1] = address[1]  BY <2>2, <2>4
  <2> QED  BY <2>2, <2>3, <2>5 DEF FindsAt, IsA, At
<1> QED  BY <1>1, SpecCareful, PTL
==============================================================================

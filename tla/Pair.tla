-------------------------------- MODULE Pair --------------------------------
(***************************************************************************)
(* contracts/Pair.sol: liquidity, the protocol's fee and instant swaps of  *)
(* a pair, together with its long-term orders (LongTermOrders), as the     *)
(* users reach them through the router (contracts/TWAMM.sol).              *)
(*                                                                         *)
(* A transaction is one action: what the router takes from the user before *)
(* it calls the pair, and what it passes on afterwards, appears as the     *)
(* change of `balance'.  The router's limits (amountInMax, amountOutMin,   *)
(* deadline) are the user's to choose and make a call revert at most.      *)
(***************************************************************************)
EXTENDS LongTermOrders

CONSTANTS
  Collector,       \* the account that the protocol's fee is minted to
  NoAddress,       \* address(0)
  FeeArg,          \* bound: the values of feeArg
  InitialAmounts,  \* bound: the amounts of the initial liquidity
  LpAmount,        \* bound: the shares that users mint and burn
  SwapAmount,      \* bound: the amounts of instant swaps
  MaxSupply,       \* bound: no deposit if there were more shares after it
  MaxReserve       \* bound: no instant swap if a reserve were larger after it

ASSUME PairAssumption ==
  /\ Collector \notin Account
  /\ NoAddress \notin Account \cup {Collector}
  /\ FeeArg \subseteq Nat
  /\ InitialAmounts \subseteq [Token -> Nat]
  /\ LpAmount \subseteq Nat
  /\ SwapAmount \subseteq Nat

VARIABLES
  totalSupply,     \* shares of the pair (ERC20)
  balanceOf,       \* holder -> its shares
  rootKLast,       \* root of the product of the reserves, when last measured
  feeTo,           \* Factory: who gets the fee
  feeArg           \* Factory: the fee is 1 / (feeArg + 1) of the growth

shareVars == <<totalSupply, balanceOf, rootKLast>>
orderVars == <<orderId, orderMap, orderIdMap, orderIdStatusMap>>
feeVars   == <<feeTo, feeArg>>
pairVars  == <<vars, shareVars, feeVars>>

Holder == Account \cup {Collector}
-----------------------------------------------------------------------------
\* PRBMathUD60x18: the root of an integer as a fixed-point number, rounded down.
Sqrt(n) == CHOOSE r \in 0 .. n * SCALE :
             r * r <= n * SCALE * SCALE /\ n * SCALE * SCALE < (r + 1) * (r + 1)

\* PRBMath's mul rounds to the nearest unit, its toUint down.
RootK(reserve) ==
  ((Sqrt(reserve["A"]) * Sqrt(reserve["B"]) + SCALE \div 2) \div SCALE) \div SCALE

FeeOn == feeTo # NoAddress

(***************************************************************************)
(* mintFee: the shares that the growth of the pool since rootKLast was     *)
(* measured brings to the protocol, and what is left in rootKLast after    *)
(* the whole operation: with the fee off, mintFee clears it.               *)
(***************************************************************************)
FeeSharesOfOldRoot(reserve) ==
  LET rootK == RootK(reserve)
  IN  IF FeeOn /\ rootKLast # 0 /\ rootK > rootKLast
      THEN (totalSupply * (rootK - rootKLast)) \div (rootKLast * (feeArg + 1))
      ELSE 0

FeeShares(reserve) ==
  LET rootK == RootK(reserve)
  IN  IF FeeOn /\ rootKLast # 0 /\ rootK > rootKLast
      THEN (totalSupply * (rootK - rootKLast)) \div (rootK * feeArg + rootKLast)
      ELSE 0

RootKLastKept(reserve) == IF FeeOn THEN RootK(reserve) ELSE rootKLast

RootKLastAfter(reserve) == IF FeeOn THEN RootK(reserve) ELSE 0

\* The holders' shares when the fee is minted.
SharesWithFee(reserve) ==
  [h \in Holder |-> balanceOf[h] + IF h = feeTo THEN FeeShares(reserve) ELSE 0]
-----------------------------------------------------------------------------
\* The pair exists (createPairWrapper) and has no liquidity yet.
PairInit ==
  /\ Deployed
  /\ reserveMap = [t \in Token |-> 0]
  /\ balance = [t \in Token |-> 0]
  /\ totalSupply = 0
  /\ balanceOf = [h \in Holder |-> 0]
  /\ rootKLast = 0
  /\ feeTo = NoAddress
  /\ feeArg = 0

(***************************************************************************)
(* provideInitialLiquidity: nothing is executed; lastVirtualOrderBlock     *)
(* stays what it was when the pair was deployed.                           *)
(***************************************************************************)
ProvideInitialLiquidity(to, amount) ==
  LET lp == RootK(amount)
  IN  /\ \A t \in Token : amount[t] > 0
      /\ totalSupply = 0
      /\ reserveMap' = amount
      /\ totalSupply' = lp
      /\ balanceOf' = [balanceOf EXCEPT ![to] = @ + lp]
      /\ rootKLast' = RootKLastAfter(amount)
      /\ UNCHANGED <<lastVirtualOrderBlock, OrderPoolMap, expiries>>

\* The router has moved the amounts to the pair.
AddInitialLiquidity(sender, amount) ==
  /\ ProvideInitialLiquidity(sender, amount)
  /\ balance' = [t \in Token |-> balance[t] + amount[t]]
  /\ UNCHANGED <<block, orderVars, feeVars>>

\* What lp out of totalSupply shares are worth in the reserves.
Worth(lp, reserve) ==
  [t \in Token |-> (lp * reserve[t]) \div totalSupply]

(***************************************************************************)
(* provideLiquidity, called when the virtual orders have been executed up  *)
(* to the current block with result y and the tree is `tree'.  The block   *)
(* is executed once more.                                                  *)
(***************************************************************************)
ProvideLiquidity(y, tree, to, lp) ==
  LET x     == ExecuteVirtualTradesAndOrderExpiries(y, block)
      in    == Worth(lp, x.reserve)
      after == [t \in Token |-> x.reserve[t] + in[t]]
  IN  /\ x.ok
      /\ lp > 0
      /\ totalSupply # 0
      /\ lastVirtualOrderBlock' = x.last
      /\ OrderPoolMap' = x.pool
      /\ reserveMap' = after
      /\ expiries' = TrimTree(tree, block, block)
      /\ totalSupply' = totalSupply + FeeShares(x.reserve) + lp
      /\ balanceOf' = [SharesWithFee(x.reserve) EXCEPT ![to] = @ + lp]
      /\ rootKLast' = RootKLastAfter(after)

(***************************************************************************)
(* addLiquidity: the router executes the virtual orders, takes from the    *)
(* user what the shares are worth then, and calls provideLiquidity, which  *)
(* computes the amounts again.                                             *)
(***************************************************************************)
TakenBeforeExecution(lp, x) == Worth(lp, reserveMap)

Taken(lp, x) == Worth(lp, x.reserve)

AddLiquidity(sender, lp) ==
  LET x     == ExecuteUntil(expiries, block)
      taken == Taken(lp, x)
  IN  /\ totalSupply # 0
      /\ totalSupply + lp <= MaxSupply   \* bound
      /\ ProvideLiquidity(x, TrimTree(expiries, lastVirtualOrderBlock, block),
                          sender, lp)
      /\ balance' = [t \in Token |-> balance[t] + taken[t]]
      /\ UNCHANGED <<block, orderVars, feeVars>>

(***************************************************************************)
(* removeLiquidity: the amounts are computed from the supply before the    *)
(* protocol's fee is minted.  The last shares cannot be burned.            *)
(***************************************************************************)
CanBurnAll(shares, from, lp) ==
  /\ lp > 0 /\ lp <= totalSupply
  /\ shares[from] >= lp

CanBurnOfOthers(shares, from, lp) ==
  /\ lp > 0 /\ lp < totalSupply

CanBurn(shares, from, lp) ==
  /\ lp > 0 /\ lp < totalSupply
  /\ shares[from] >= lp

RemoveLiquidity(from, lp) ==
  LET x      == ExecuteUntil(expiries, block)
      out    == Worth(lp, x.reserve)
      after  == [t \in Token |-> x.reserve[t] - out[t]]
      shares == SharesWithFee(x.reserve)
  IN  /\ x.ok
      /\ CanBurn(shares, from, lp)
      /\ \A t \in Token : balance[t] >= out[t]
      /\ lastVirtualOrderBlock' = x.last
      /\ OrderPoolMap' = x.pool
      /\ reserveMap' = after
      /\ expiries' = TrimTree(expiries, lastVirtualOrderBlock, block)
      /\ balance' = [t \in Token |-> balance[t] - out[t]]
      /\ totalSupply' = totalSupply + FeeShares(x.reserve) - lp
      /\ balanceOf' = [shares EXCEPT ![from] = @ - lp]
      /\ rootKLast' = RootKLastAfter(after)
      /\ UNCHANGED <<block, orderVars, feeVars>>

\* withdrawLiquidity: the router passes on what the pair pays.
WithdrawLiquidity(sender, lp) == RemoveLiquidity(sender, lp)

(***************************************************************************)
(* instantSwapFromAToB (or B to A) and performInstantSwap: a trade against *)
(* the reserves as an execution leaves them, by the constant product       *)
(* formula, less the fee.  `held' is what the pair holds when it is called.*)
(***************************************************************************)
AmountOutAtOldPrice(reserve, from, amountIn) ==
  (reserve[Other(from)] * amountIn) \div reserve[from]

AmountOut(reserve, from, amountIn) ==
  (reserve[Other(from)] * amountIn) \div (reserve[from] + amountIn)

PerformInstantSwap(from, amountIn, held) ==
  LET x   == ExecuteUntil(expiries, block)
      to  == Other(from)
      out == (AmountOut(x.reserve, from, amountIn) * (FEE_BASE - LP_FEE))
               \div FEE_BASE
  IN  /\ \A t \in Token : reserveMap[t] > 0
      /\ amountIn > 0
      /\ x.ok
      /\ x.reserve[from] + amountIn <= MaxReserve   \* bound
      /\ x.reserve[to] >= out /\ held[to] >= out
      /\ lastVirtualOrderBlock' = x.last
      /\ OrderPoolMap' = x.pool
      /\ reserveMap' = [x.reserve EXCEPT ![from] = @ + amountIn, ![to] = @ - out]
      /\ expiries' = TrimTree(expiries, lastVirtualOrderBlock, block)
      /\ balance' = [held EXCEPT ![to] = @ - out]
      /\ UNCHANGED <<block, orderVars, shareVars, feeVars>>

\* instantSwapTokenToToken: the router moves the user's tokens to the pair first.
InstantSwap(from, amountIn) ==
  PerformInstantSwap(from, amountIn, [balance EXCEPT ![from] = @ + amountIn])

\* Factory.setFeeTo and setFeeArg: the pair is not told.
SetFeeTo(to) ==
  /\ feeTo' = to
  /\ UNCHANGED <<vars, shareVars, feeArg>>

SetFeeArg(arg) ==
  /\ feeArg' = arg
  /\ UNCHANGED <<vars, shareVars, feeTo>>

SetFee ==
  \/ \E to \in {NoAddress, Collector} : SetFeeTo(to)
  \/ \E arg \in FeeArg : SetFeeArg(arg)

PairNext ==
  \/ Next /\ UNCHANGED <<shareVars, feeVars>>
  \/ \E to \in Account, amount \in InitialAmounts :
        AddInitialLiquidity(to, amount)
  \/ \E sender \in Account, lp \in LpAmount : AddLiquidity(sender, lp)
  \/ \E sender \in Holder, lp \in LpAmount : WithdrawLiquidity(sender, lp)
  \/ \E from \in Token, amountIn \in SwapAmount : InstantSwap(from, amountIn)
  \/ SetFee

PairSpec == PairInit /\ [][PairNext]_pairVars
-----------------------------------------------------------------------------
(***************************************************************************)
(* The properties.                                                         *)
(***************************************************************************)
PairTypeOK ==
  /\ block \in Block
  /\ lastVirtualOrderBlock \in 0 .. block
  /\ OrderPoolMap \in [Token -> Pool]
  /\ reserveMap \in [Token -> Nat]
  /\ balance \in [Token -> Nat]
  /\ totalSupply \in Nat
  /\ balanceOf \in [Holder -> Nat]
  /\ rootKLast \in Nat
  /\ feeTo \in {NoAddress, Collector}
  /\ feeArg \in Nat

(***************************************************************************)
(* Once there are shares there are reserves of both tokens, and no         *)
(* sequence of withdrawals, swaps and executions uses either up: with an   *)
(* empty reserve no execution, hence no operation, would succeed again.    *)
(***************************************************************************)
SharesMeanReserves ==
  \A t \in Token : totalSupply > 0 <=> reserveMap[t] > 0

(***************************************************************************)
(* What mintFee takes for growth is growth by trading: the root that was   *)
(* measured last is never ahead of the reserves, except by rounding,       *)
(* although liquidity comes and goes and the fee is switched on and off.   *)
(***************************************************************************)
RootKLastNotAhead == rootKLast <= RootK(reserveMap) + 1

(***************************************************************************)
(* While no fee is due to the protocol, no operation of anybody takes from *)
(* the value of a share (the product of the reserves per share, squared),  *)
(* but for the two roundings of a deposit.                                 *)
(***************************************************************************)
ShareValueKept ==
  [][ (totalSupply > 0 /\ (~FeeOn \/ rootKLast = 0))
      => LET d == IF totalSupply' > totalSupply THEN 1 ELSE 0
         IN  (reserveMap'["A"] + d) * (reserveMap'["B"] + d)
               * totalSupply * totalSupply
             >= reserveMap["A"] * reserveMap["B"]
                  * totalSupply' * totalSupply' ]_pairVars

(***************************************************************************)
(* Pair.sol, line 82: the protocol gets at most 1 / (feeArg + 1) of the    *)
(* growth of the root since it was measured, whatever else the operation   *)
(* does to the reserves and the supply.  (Stated for operations in a block *)
(* executed before, where the reserves that the fee is for can be seen.)   *)
(***************************************************************************)
FeeIsPartOfGrowth ==
  [][ (lastVirtualOrderBlock = block /\ balanceOf'[Collector] > balanceOf[Collector])
      => LET minted == balanceOf'[Collector] - balanceOf[Collector]
             rootK  == RootK(reserveMap)
         IN  minted * rootK * (feeArg + 1)
               <= (rootK - rootKLast) * (totalSupply + minted) ]_pairVars
-----------------------------------------------------------------------------
(***************************************************************************)
(* addLiquidity executes its block twice by itself.  OrderlyPairSpec       *)
(* leaves out the steps that execute again a block at which orders end     *)
(* (see LongTermOrders), be it by a second call or within addLiquidity;    *)
(* the settings of the fee execute nothing.                                *)
(***************************************************************************)
DepositReexecutes ==
  /\ OrdersEndAt(block)
  /\ \E sender \in Account, lp \in LpAmount : AddLiquidity(sender, lp)

OrderlyPairNext == PairNext /\ (SetFee \/ ~(Reexecutes \/ DepositReexecutes))

OrderlyPairSpec == PairInit /\ [][OrderlyPairNext]_pairVars

\* Only the second calls are left out, not the deposits.
OneCallNext == PairNext /\ (SetFee \/ ~Reexecutes)
-----------------------------------------------------------------------------
(***************************************************************************)
(* LongTermOrders.sol, line 220: proceeds can be withdrawn from an order,  *)
(* expired or ongoing.  So a pair that has liquidity is never locked, with *)
(* orders placed, deposits and swaps made in any order.                    *)
(***************************************************************************)
FundedNeverLocked == totalSupply > 0 => NeverLocked

(***************************************************************************)
(* Pair.sol, line 212: the ratio between the number of underlying tokens   *)
(* and the number of lp tokens must remain invariant after burn.           *)
(* With the fee on, a withdrawal changes it by the protocol's part of the  *)
(* growth; but what is left to a share is not less than when the root was  *)
(* measured last, before the growth (one unit is allowed for rounding).    *)
(***************************************************************************)
BurnKeepsMeasuredValue ==
  [][ (totalSupply' < totalSupply /\ rootKLast # 0 /\ FeeOn)
      => (RootK(reserveMap') + 1) * totalSupply >= rootKLast * totalSupply' ]_pairVars
=============================================================================

---------------------------- MODULE SwanPayment ----------------------------
(***************************************************************************)
(* The escrow contract on-chain/contracts/SwanPayment.sol.  A user locks   *)
(* ERC20 tokens for a content id: as a token payment (txMap), which only   *)
(* its owner takes back after the deadline, or as a car payment            *)
(* (txCarMap), from which unlockCarPayment takes the cost of the Filecoin  *)
(* deals and refund returns the rest.                                      *)
(*                                                                         *)
(* One action is one successful transaction.  A transaction that reverts,  *)
(* unlockTokenPayment before the deadline, and unlockCarPayment at service *)
(* cost 0 leave the state as it is: they are stuttering steps.             *)
(*                                                                         *)
(* The owner can point the contract at another oracle and price feed       *)
(* (setOracle, setPriceFeed), so what these answer is an input of          *)
(* unlockCarPayment.  The fields id, token, recipient and copyLimit of a   *)
(* payment are written and never read; they are left out.                  *)
(***************************************************************************)
EXTENDS Integers, FiniteSets, FiniteSetsExt

CONSTANTS
    Cids,        \* content ids that payments are locked for
    Users,       \* accounts that lock payments
    Mcs,         \* the account deal costs are paid to (the recipient argument)
    This,        \* the contract's own account
    Nobody,      \* the zero address, owner of an empty entry
    Funds,       \* tokens each user has at first
    Amounts, MinPayments, LockTimes, Sizes,  \* arguments of lockTokenPayment
    TokenAmounts,   \* answers of the price feed
    MaxRepeat,      \* bound: how often a cid occurs in a cid list
    LoopLimit,      \* highest length a uint8 loop counter gets through (255)
    MaxTime         \* bound on the block timestamp

Accounts == Users \cup {Mcs, This}

ASSUME ConstantsAssumption ==
    /\ IsFiniteSet(Cids) /\ IsFiniteSet(Users)
    /\ Mcs \notin Users /\ This \notin Users /\ Mcs # This
    /\ Nobody \notin Users
    /\ Funds \in Nat /\ MaxTime \in Nat /\ MaxRepeat \in Nat /\ LoopLimit \in Nat
    /\ Amounts \subseteq Nat /\ MinPayments \subseteq Nat /\ LockTimes \subseteq Nat
    /\ Sizes \subseteq Nat /\ TokenAmounts \subseteq Nat

VARIABLES
    txMap,       \* token payments
    txCarMap,    \* car payments
    balance,     \* ERC20 balances
    allowance,   \* what each user approved the contract to spend
    timestamp,   \* block.timestamp
    dust         \* history: tokens paid out by unlockCarPayment that no payment was charged

vars == <<txMap, txCarMap, balance, allowance, timestamp, dust>>

TxInfo == [_isExisted : BOOLEAN, owner : Users \cup {Nobody},
           lockedFee : Nat, deadline : Nat, size : Nat]

NoTx == [_isExisted |-> FALSE, owner |-> Nobody, lockedFee |-> 0, deadline |-> 0, size |-> 0]

\* A cid list of the calls below: the order never matters, only how often a cid occurs.
CidLists == {l \in [Cids -> 0 .. MaxRepeat] : SumFunction(l) \in 0 .. LoopLimit}

Existing(map) == {c \in Cids : map[c]._isExisted}

Fees(map, S) == SumFunctionOnSet([c \in Cids |-> map[c].lockedFee], S)

Init ==
    /\ txMap = [c \in Cids |-> NoTx]
    /\ txCarMap = [c \in Cids |-> NoTx]
    /\ balance = [a \in Accounts |-> IF a \in Users THEN Funds ELSE 0]
    /\ allowance = [u \in Users |-> 0]
    /\ timestamp = 0
    /\ dust = 0

(***************************************************************************)
(* The ERC20 token: approve, transferFrom and transfer.                    *)
(***************************************************************************)
Approve(u, amount) ==
    /\ allowance' = [allowance EXCEPT ![u] = amount]
    /\ UNCHANGED <<txMap, txCarMap, balance, timestamp, dust>>

TransferFrom(u, amount) ==
    /\ allowance[u] >= amount
    /\ balance[u] >= amount
    /\ allowance' = [allowance EXCEPT ![u] = @ - amount]
    /\ balance' = [balance EXCEPT ![u] = @ - amount, ![This] = @ + amount]

Transfer(to, amount) ==
    /\ balance[This] >= amount
    /\ balance' = [balance EXCEPT ![This] = @ - amount, ![to] = @ + amount]

(***************************************************************************)
(* The contract's transactions.                                            *)
(***************************************************************************)
LockTokenPayment(u, c, amount, minPayment, lockTime, size) ==
    /\ ~txMap[c]._isExisted
    /\ minPayment > 0 /\ amount > minPayment
    /\ TransferFrom(u, amount)
    /\ LET locked == [_isExisted |-> TRUE, owner |-> u, lockedFee |-> amount,
                      deadline |-> timestamp + lockTime, size |-> size]
       IN IF size > 0
          THEN txCarMap' = [txCarMap EXCEPT ![c] = locked] /\ UNCHANGED txMap
          ELSE txMap' = [txMap EXCEPT ![c] = locked] /\ UNCHANGED txCarMap
    /\ UNCHANGED <<timestamp, dust>>

\* Mutant: the deadline itself is late enough.
UnlockTokenAtDeadline(sender, c) ==
    /\ txMap[c]._isExisted
    /\ timestamp >= txMap[c].deadline
    /\ txMap[c].owner = sender
    /\ txMap' = [txMap EXCEPT ![c]._isExisted = FALSE, ![c].lockedFee = 0]
    /\ Transfer(sender, txMap[c].lockedFee)
    /\ UNCHANGED <<txCarMap, allowance, timestamp, dust>>

UnlockTokenPayment(sender, c) ==
    /\ txMap[c]._isExisted
    /\ timestamp > txMap[c].deadline
    /\ txMap[c].owner = sender
    /\ txMap' = [txMap EXCEPT ![c]._isExisted = FALSE, ![c].lockedFee = 0]
    /\ Transfer(sender, txMap[c].lockedFee)
    /\ UNCHANGED <<txCarMap, allowance, timestamp, dust>>

\* What unlockCarPayment takes from each payment: every cid of the list is
\* charged, also one without a payment (the second loop has no existence test).
Charge(c, list, unitPrice) == list[c] * (unitPrice * txCarMap[c].size)

\* The first loop: the size of the listed payments that exist.
ListedSize(list) ==
    SumFunctionOnSet([c \in Cids |-> list[c] * txCarMap[c].size], Existing(txCarMap))

\* Mutant: unchecked arithmetic.
CoveredAlways(list, unitPrice) == TRUE

\* Checked subtraction: the transaction reverts where a fee would be negative.
Covered(list, unitPrice) ==
    \A c \in Cids : Charge(c, list, unitPrice) <= txCarMap[c].lockedFee

\* The oracle lets the recipient be paid and lists the cids of the deal.
UnlockCarPayment(list, tokenAmount) ==
    LET size == ListedSize(list)
        unitPrice == tokenAmount \div size
    IN /\ size \in Nat \ {0}
       /\ Covered(list, unitPrice)
       /\ txCarMap' = [c \in Cids |->
             [txCarMap[c] EXCEPT !.lockedFee = @ - Charge(c, list, unitPrice)]]
       /\ Transfer(Mcs, tokenAmount)
       /\ dust' = dust + (tokenAmount - unitPrice * size)
       /\ UNCHANGED <<txMap, allowance, timestamp>>

\* The cids of the list whose payment refund returns: a cid that occurs twice
\* is found not to exist the second time.
Refunded(list) == {c \in Existing(txCarMap) : list[c] > 0}

\* Mutant: a cid is refunded as often as the list names it.
RefundedToPerListing(u, list) ==
    SumFunctionOnSet([c \in Cids |-> list[c] * txCarMap[c].lockedFee],
                     {c \in Refunded(list) : txCarMap[c].owner = u})

RefundedTo(u, list) == Fees(txCarMap, {c \in Refunded(list) : txCarMap[c].owner = u})

\* Mutant: the entries stay.
RefundKeepsEntries(list) ==
    /\ balance[This] >= Fees(txCarMap, Refunded(list))
    /\ balance' = [a \in Accounts |->
          CASE a \in Users -> balance[a] + RefundedTo(a, list)
            [] a = This    -> balance[This] - Fees(txCarMap, Refunded(list))
            [] OTHER       -> balance[a]]
    /\ UNCHANGED <<txMap, txCarMap, allowance, timestamp, dust>>

Refund(list) ==
    /\ txCarMap' = [c \in Cids |->
          [txCarMap[c] EXCEPT !._isExisted = @ /\ c \notin Refunded(list)]]
    /\ balance[This] >= Fees(txCarMap, Refunded(list))
    /\ balance' = [a \in Accounts |->
          CASE a \in Users -> balance[a] + RefundedTo(a, list)
            [] a = This    -> balance[This] - Fees(txCarMap, Refunded(list))
            [] OTHER       -> balance[a]]
    /\ UNCHANGED <<txMap, allowance, timestamp, dust>>

Tick ==
    /\ timestamp < MaxTime
    /\ timestamp' = timestamp + 1
    /\ UNCHANGED <<txMap, txCarMap, balance, allowance, dust>>

Next ==
    \/ \E u \in Users, amount \in Amounts : Approve(u, amount)
    \/ \E u \in Users, c \in Cids, amount \in Amounts, minPayment \in MinPayments,
          lockTime \in LockTimes, size \in Sizes :
          LockTokenPayment(u, c, amount, minPayment, lockTime, size)
    \/ \E u \in Users, c \in Cids : UnlockTokenPayment(u, c)
    \/ \E list \in CidLists, tokenAmount \in TokenAmounts : UnlockCarPayment(list, tokenAmount)
    \/ \E list \in CidLists : Refund(list)
    \/ Tick

Spec == Init /\ [][Next]_vars
(***************************************************************************)
(* Properties.                                                             *)
(***************************************************************************)

\* Every entry is a payment record and no account, fee or balance is ever
\* negative: unlockCarPayment subtracts only what is there.
TypeOK ==
    /\ txMap \in [Cids -> TxInfo]
    /\ txCarMap \in [Cids -> TxInfo]
    /\ balance \in [Accounts -> Nat]
    /\ allowance \in [Users -> Nat]
    /\ timestamp \in Nat
    /\ dust \in Nat

\* The contract holds the fees of all payments that exist, short of the tokens
\* unlockCarPayment sends beyond what it charges: tokenAmount is paid in full,
\* the payments are charged unitPrice * size with unitPrice rounded down
\* (SwanPayment.sol 233-244).
SolventUpToDust ==
    balance[This] + dust >=
        Fees(txMap, Existing(txMap)) + Fees(txCarMap, Existing(txCarMap))

\* README.md: the locked overpayment is returned to the user's wallet in the refund
\* step.  So the contract can always pay the fee of a car payment that exists.
\* The code pays the rounding remainder out of other payments: no run checks this.
RefundPayable ==
    \A c \in Existing(txCarMap) : txCarMap[c].lockedFee <= balance[This]

\* unlockTokenPayment (180-195): a token payment stays as it was locked until its
\* deadline has passed; then it leaves at once, in full, to its owner.
TokenPaymentHeld ==
    [][\A c \in Cids : txMap[c]._isExisted /\ txMap'[c] # txMap[c] =>
          /\ timestamp > txMap[c].deadline
          /\ ~txMap'[c]._isExisted
          /\ balance'[txMap[c].owner] = balance[txMap[c].owner] + txMap[c].lockedFee]_vars

\* The payments of u that a step closes, in one of the two maps.
Closed(map, u) == {c \in Existing(map) : map[c].owner = u /\ ~map'[c]._isExisted}

\* refund (250-261) and unlockTokenPayment: what a user receives in a step is the
\* sum of the fees of the payments of that user the step closes, each counted
\* once however often refund's list names it, and a closed payment is always paid.
OwnerPaidExactly ==
    [][\A u \in Users :
          (balance'[u] > balance[u] \/ Closed(txMap, u) # {} \/ Closed(txCarMap, u) # {}) =>
              balance'[u] = balance[u] + Fees(txMap, Closed(txMap, u))
                                       + Fees(txCarMap, Closed(txCarMap, u))]_vars

\* The assertion of lockTokenPayment, "Payment of transaction is already locked"
\* (116): while a car payment exists no lock replaces it.  The code looks for the
\* id in txMap alone, also when it writes txCarMap: no run checks this.
CarPaymentNotReplaced ==
    [][\A c \in Cids : txCarMap[c]._isExisted /\ txCarMap'[c]._isExisted =>
          /\ txCarMap'[c].owner = txCarMap[c].owner
          /\ txCarMap'[c].lockedFee <= txCarMap[c].lockedFee]_vars
=============================================================================

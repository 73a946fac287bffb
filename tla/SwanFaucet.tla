----------------------------- MODULE SwanFaucet -----------------------------
(***************************************************************************)
(* SwanFaucet.sol: the faucet of the test networks.  An admin sends each   *)
(* of a list of tokens to an address; then the address waits for waitTime  *)
(* (24 hours).  Time is counted in parts of a day.  "Every sender" below   *)
(* is the msg.sender of the call; a call whose require fails is reverted   *)
(* and is no step.                                                         *)
(***************************************************************************)
EXTENDS Naturals

CONSTANTS Accounts,     \* addresses that call the faucet or are served by it
          Owner,        \* the address that deployed it
          Tokens,       \* NATIVE and the ERC-20 tokens of faucet-run.js
          WaitTime,     \* 24 hours
          Funds,        \* what it was paid of a token, when it was
          MaxTime       \* bound: the clock stops here

VARIABLES timestamp,        \* block.timestamp
          nextAccessTime,   \* of each address: when it may be served again
          isAdmin,          \* the admins
          balance,          \* what the faucet holds of each token
          received          \* what each address was sent, a history variable

FaucetTypeOK ==
    /\ timestamp \in Nat
    /\ nextAccessTime \in [Accounts -> Nat]
    /\ isAdmin \subseteq Accounts
    /\ balance \in [Tokens -> Nat]
    /\ received \in [Accounts -> [Tokens -> Nat]]

\* initialize makes the deployer the owner and an admin; somebody paid in tokens.
FaucetInit ==
    /\ timestamp = 0
    /\ nextAccessTime = [a \in Accounts |-> 0]
    /\ isAdmin = {Owner}
    /\ balance \in [Tokens -> {0, Funds}]
    /\ received = [a \in Accounts |-> [t \in Tokens |-> 0]]

SetAdmin(sender, address) ==
    /\ sender = Owner
    /\ isAdmin' = isAdmin \cup {address}
    /\ UNCHANGED <<timestamp, nextAccessTime, balance, received>>

allowedToWithdraw(address) == timestamp >= nextAccessTime[address]

\* Bug: the wait starts only when every token was sent.
SendMultiTokensPartly(sender, address) ==
    LET sent(t) == IF balance[t] >= 1 THEN 1 ELSE 0
    IN /\ sender \in isAdmin
       /\ allowedToWithdraw(address)
       /\ nextAccessTime' = IF \A t \in Tokens : sent(t) = 1
                            THEN [nextAccessTime EXCEPT ![address] = timestamp + WaitTime]
                            ELSE nextAccessTime
       /\ balance' = [t \in Tokens |-> balance[t] - sent(t)]
       /\ received' = [received EXCEPT ![address] = [t \in Tokens |-> @[t] + sent(t)]]
       /\ UNCHANGED <<timestamp, isAdmin>>

\* The amounts of faucet-run.js, a unit of each token: a token of which the
\* faucet holds too little is skipped in silence, the wait starts all the same.
SendMultiTokens(sender, address) ==
    LET sent(t) == IF balance[t] >= 1 THEN 1 ELSE 0
    IN /\ sender \in isAdmin
       /\ allowedToWithdraw(address)
       /\ nextAccessTime' = [nextAccessTime EXCEPT ![address] = timestamp + WaitTime]
       /\ balance' = [t \in Tokens |-> balance[t] - sent(t)]
       /\ received' = [received EXCEPT ![address] = [t \in Tokens |-> @[t] + sent(t)]]
       /\ UNCHANGED <<timestamp, isAdmin>>

\* The next block comes later.
Tick ==
    /\ timestamp < MaxTime
    /\ timestamp' = timestamp + 1
    /\ UNCHANGED <<nextAccessTime, isAdmin, balance, received>>

\* Whoever asks, through the script or an admin of his own, however short the
\* faucet is of some of the tokens: an address gets at most one portion of each
\* token per day (SwanFaucet.sol:50-65).
OnePortionPerDay ==
    \A a \in Accounts, t \in Tokens : received[a][t] * WaitTime <= timestamp + WaitTime
=============================================================================

------------------------ MODULE OnChainScriptsProofs ------------------------
(***************************************************************************)
(* Proofs about OnChainScripts.  The faucet first: its state is its own,   *)
(* so its invariant needs nothing of the scripts.  Then the types, that    *)
(* payments and proxies only know contracts that were deployed, which      *)
(* follows from what is known of every transaction on its way, and that a  *)
(* script which configures an oracle and ends well has done it.            *)
(***************************************************************************)
EXTENDS OnChainScripts, TLAPS

-----------------------------------------------------------------------------
(* The faucet.                                                              *)

\* Every portion is accounted for by a wait that has begun.
Waiting ==
    /\ Faucet!FaucetTypeOK
    /\ \A a \in Accounts : /\ nextAccessTime[a] <= timestamp + WaitTime
                           /\ \A t \in Tokens : received[a][t] * WaitTime <= nextAccessTime[a]

LEMMA OnePortionMore ==
    \A n, w \in Nat : (n + 0) * w = n * w /\ (n + 1) * w = n * w + w
OBVIOUS

\* The faucet keeps the account, whoever asks for whom.
LEMMA SendKeepsWaiting ==
    ASSUME Waiting, NEW sender, NEW a \in Accounts, Faucet!SendMultiTokens(sender, a)
    PROVE  Waiting'
<1> DEFINE sent(t) == IF balance[t] >= 1 THEN 1 ELSE 0
<1> USE DEF Waiting, Faucet!FaucetTypeOK
<1>0. WaitTime \in Nat
  BY ScriptsAssumption
<1>1. /\ timestamp >= nextAccessTime[a]
      /\ nextAccessTime' = [nextAccessTime EXCEPT ![a] = timestamp + WaitTime]
      /\ balance' = [t \in Tokens |-> balance[t] - sent(t)]
      /\ received' = [received EXCEPT ![a] = [t \in Tokens |-> received[a][t] + sent(t)]]
      /\ UNCHANGED <<timestamp, isAdmin>>
  BY DEF Faucet!SendMultiTokens, Faucet!allowedToWithdraw
<1>2. \A t \in Tokens : sent(t) \in {0, 1} /\ balance[t] - sent(t) \in Nat
  OBVIOUS
<1> HIDE DEF sent
<1>3. Faucet!FaucetTypeOK'
  <2>1. received' \in [Accounts -> [Tokens -> Nat]]
    BY <1>1, <1>2
  <2>2. QED
    BY <1>0, <1>1, <1>2, <2>1
<1>4. ASSUME NEW b \in Accounts
      PROVE  /\ nextAccessTime'[b] <= timestamp' + WaitTime
             /\ \A t \in Tokens : received'[b][t] * WaitTime <= nextAccessTime'[b]
  <2>1. CASE b # a
    BY <1>1, <2>1
  <2>2. CASE b = a
    <3>1. nextAccessTime'[b] = timestamp + WaitTime
      BY <1>1, <2>2
    <3>2. ASSUME NEW t \in Tokens PROVE received'[b][t] * WaitTime <= timestamp + WaitTime
      <4>1. received'[b][t] = received[a][t] + sent(t)
        BY <1>1, <2>2
      <4>2. received[a][t] \in Nat /\ timestamp \in Nat /\ nextAccessTime[a] \in Nat
        OBVIOUS
      <4>3. received[a][t] * WaitTime \in Nat
        BY <1>0, <4>2
      <4>4. received'[b][t] * WaitTime <= received[a][t] * WaitTime + WaitTime
        BY <1>0, <1>2, <4>1, <4>2, <4>3, OnePortionMore
      <4>5. received[a][t] * WaitTime <= timestamp
        BY <1>1, <4>2, <4>3
      <4>6. received'[b][t] * WaitTime \in Nat
        BY <1>0, <1>2, <4>1, <4>2
      <4>7. QED
        BY <1>0, <4>2, <4>3, <4>4, <4>5, <4>6
    <3>3. QED
      BY <1>0, <1>1, <3>1, <3>2
  <2>3. QED
    BY <2>1, <2>2
<1>5. QED
  BY <1>3, <1>4

LEMMA FaucetStep ==
    ASSUME Waiting, [Next]_vars
    PROVE  Waiting'
<1>1. CASE UNCHANGED faucet
  BY <1>1 DEF faucet, Waiting, Faucet!FaucetTypeOK
<1>2. CASE Faucet!SetAdmin(Deployer, Admin2)
  BY <1>2, ScriptsAssumption DEF Waiting, Faucet!FaucetTypeOK, Faucet!SetAdmin
<1>3. ASSUME NEW s, NEW a \in Accounts, Faucet!SendMultiTokens(s, a) PROVE Waiting'
  BY <1>3, SendKeepsWaiting
<1>4. CASE Faucet!Tick
  <2>1. /\ timestamp \in Nat /\ timestamp' = timestamp + 1
        /\ UNCHANGED <<nextAccessTime, isAdmin, balance, received>>
    BY <1>4 DEF Waiting, Faucet!FaucetTypeOK, Faucet!Tick
  <2>2. \A a \in Accounts : nextAccessTime[a] <= timestamp' + WaitTime
    BY <2>1, ScriptsAssumption DEF Waiting, Faucet!FaucetTypeOK
  <2>3. QED
    BY <2>1, <2>2 DEF Waiting, Faucet!FaucetTypeOK
<1>5. CASE Mine
  <2>1. \/ Faucet!SetAdmin(Deployer, Admin2)
        \/ Faucet!SendMultiTokens(Deployer, Receiver)
        \/ UNCHANGED faucet
    BY <1>5 DEF Mine, OfFaucet
  <2>2. QED
    BY <1>1, <1>2, <1>3, <2>1, ScriptsAssumption
<1>6. CASE OthersAtFaucet
  BY <1>3, <1>4, <1>6 DEF OthersAtFaucet
<1>7. CASE UNCHANGED vars
  BY <1>1, <1>7 DEF vars, faucet
<1>8. ASSUME Next, ~Mine, ~OthersAtFaucet PROVE UNCHANGED faucet
  BY <1>8 DEF Next, Start, Script, SendTransaction, Awaited, Thrown, Interrupted, Finished, Leave,
              ReadOnly, CallStatic, Poll, Revert, OthersRequest, FulfillRandomness
<1>9. QED
  BY <1>1, <1>5, <1>6, <1>7, <1>8

LEMMA WaitingInit == Init => Waiting
<1> SUFFICES ASSUME Init PROVE Waiting
  OBVIOUS
<1>1. /\ timestamp = 0 /\ nextAccessTime = [a \in Accounts |-> 0] /\ isAdmin = {Deployer}
      /\ balance \in [Tokens -> {0, Funds}]
      /\ received = [a \in Accounts |-> [t \in Tokens |-> 0]]
  BY DEF Init, Faucet!FaucetInit
<1>2. Faucet!FaucetTypeOK
  BY <1>1, ScriptsAssumption DEF Faucet!FaucetTypeOK
<1>3. WaitTime \in Nat /\ 0 * WaitTime = 0
  BY ScriptsAssumption
<1>4. QED
  BY <1>1, <1>2, <1>3 DEF Waiting

LEMMA AlwaysWaiting == Spec => []Waiting
BY WaitingInit, FaucetStep, PTL DEF Spec

\* However the faucet is asked, and whatever it is short of, an address gets at
\* most a portion of each token a day (SwanFaucet.sol:50-65).
THEOREM PortionPerDay == Spec => []OnePortionPerDay
<1>1. ASSUME Waiting PROVE OnePortionPerDay
  <2>1. ASSUME NEW a \in Accounts, NEW t \in Tokens
        PROVE  received[a][t] * WaitTime <= timestamp + WaitTime
    <3>1. /\ received[a][t] \in Nat /\ timestamp \in Nat /\ nextAccessTime[a] \in Nat
          /\ received[a][t] * WaitTime <= nextAccessTime[a]
          /\ nextAccessTime[a] <= timestamp + WaitTime
      BY <1>1 DEF Waiting, Faucet!FaucetTypeOK
    <3>2. received[a][t] * WaitTime \in Nat
      BY <3>1, ScriptsAssumption
    <3>3. QED
      BY <3>1, <3>2, ScriptsAssumption
  <2>2. QED
    BY <2>1 DEF OnePortionPerDay, Faucet!OnePortionPerDay
<1>2. QED
  BY <1>1, AlwaysWaiting, PTL

-----------------------------------------------------------------------------
(* The programs.                                                            *)

Upgrades == {"upgradePayment", "upgradeOracle"}
Steps == [call : Calls, does : {"await", "send", "read", "throw"}]

\* The script's first step deploys a contract of this kind and waits for it.
Begins(s, kind) == Program(s)[1] = Await(kind)

\* What the proofs use of a program: a payment is deployed with a given oracle or
\* with the one the script deployed first, a proxy is moved to the implementation
\* deployed just before.
Sound(s) ==
    /\ Program(s) \in Seq(Steps)
    /\ Len(Program(s)) \in Nat
    /\ \A i \in 1 .. Len(Program(s)) :
          /\ Program(s)[i].call = "SwanPayment" =>
                s = "deploy" \/ (i = 3 /\ Begins(s, "FilswanOracle"))
          /\ Program(s)[i].call \in {"FilswanOracle", "implementation"} =>
                i = 1 /\ Begins(s, Program(s)[i].call) /\ s # "deploy"
          /\ Program(s)[i].call \in Upgrades => i = 2 /\ Begins(s, "implementation")

\* The calls that matter to no other contract.
Plain == Calls \ (Upgrades \cup {"SwanPayment", "FilswanOracle", "implementation"})

LEMMA StepTypes ==
    \A c \in Calls : /\ {Await(c), Send(c), Read(c), Misfit(c)} \subseteq Steps
                     /\ Await(c).call = c /\ Send(c).call = c
                     /\ Read(c).call = c /\ Misfit(c).call = c
BY DEF Steps, Await, Send, Read, Misfit

LEMMA SoundOne ==
    ASSUME NEW s, NEW a \in Steps, Program(s) = <<a>>,
           a.call \in Plain \/ (s = "deploy" /\ a.call = "SwanPayment")
    PROVE  Sound(s)
BY DEF Sound, Plain, Upgrades

LEMMA SoundTwo ==
    ASSUME NEW s, NEW a \in Steps, NEW b \in Steps, Program(s) = <<a, b>>,
           \/ a.call \in Plain /\ b.call \in Plain
           \/ /\ s # "deploy" /\ a = Await("implementation") /\ a.call = "implementation"
              /\ b.call \in Upgrades \cup Plain
    PROVE  Sound(s)
BY DEF Sound, Plain, Upgrades, Begins

LEMMA SoundThree ==
    ASSUME NEW s, NEW a \in Steps, NEW b \in Steps, NEW c \in Steps, Program(s) = <<a, b, c>>,
           \/ a.call \in Plain /\ b.call \in Plain /\ c.call \in Plain
           \/ /\ s # "deploy" /\ a = Await("FilswanOracle") /\ a.call = "FilswanOracle"
              /\ b.call \in Plain /\ c.call \in Plain \cup {"SwanPayment"}
    PROVE  Sound(s)
BY DEF Sound, Plain, Upgrades, Begins

LEMMA CallTypes ==
    /\ Plain \subseteq Calls
    /\ {"SwanPayment", "FilswanOracle", "implementation"} \cup Upgrades \subseteq Calls
    /\ Calls \ (Upgrades \cup {"SwanPayment", "FilswanOracle", "implementation"}) \subseteq Plain
    /\ {"FilinkConsumer", "setFilinkOracle", "setChainlinkOracle", "setDAOUsers", "hasRole",
        "getCarPaymentVotes", "upgradeFaucet", "setAdmin", "sendMultiTokens", "mintUSDC",
        "mintWFIL", "approve", "unlockTokenPayment", "unlockCarPayment", "signTransaction",
        "updatePaymentInfo", "getPair", "SwanVRFConsumer", "callStatic", "getRandomNumber",
        "poll"} \subseteq Plain
BY DEF Plain, Upgrades, Calls, Kinds

LEMMA ProgramsSound == \A s \in ScriptNames : Sound(s)
<1>1. Sound("deploy")
  <2>1. Program("deploy") = <<Await("SwanPayment")>>
    BY DEF Program, DeployPayment
  <2>2. QED
    BY <2>1, CallTypes, StepTypes, SoundOne DEF Upgrades
<1>2. Sound("chainlink-deploy")
  <2>1. Program("chainlink-deploy") = <<Send("FilinkConsumer")>>
    BY DEF Program, ChainlinkDeploy
  <2>2. QED
    BY <2>1, CallTypes, StepTypes, SoundOne DEF Upgrades
<1>3. Sound("set-dao")
  <2>1. Program("set-dao") = <<Await("setDAOUsers"), Read("hasRole")>>
    BY DEF Program, SetDao
  <2>2. QED
    BY <2>1, CallTypes, StepTypes, SoundTwo DEF Upgrades
<1>4. Sound("check-dao-status")
  <2>1. Program("check-dao-status") = <<Misfit("getCarPaymentVotes")>>
    BY DEF Program, CheckDaoStatus
  <2>2. QED
    BY <2>1, CallTypes, StepTypes, SoundOne DEF Upgrades
<1>5. Sound("upgrade")
  <2>1. Program("upgrade") = <<Await("implementation"), Send("upgradePayment")>>
    BY DEF Program, UpgradePayment
  <2>2. QED
    BY <2>1, CallTypes, StepTypes, SoundTwo DEF Upgrades
<1>6. Sound("upgrade-dao")
  <2>1. Program("upgrade-dao") = <<Await("implementation"), Send("upgradeOracle")>>
    BY DEF Program, UpgradeDao
  <2>2. QED
    BY <2>1, CallTypes, StepTypes, SoundTwo DEF Upgrades
<1>7. Sound("mumbai-dev/deploy")
  <2>1. Program("mumbai-dev/deploy")
          = <<Await("FilswanOracle"), Send("FilinkConsumer"), Await("SwanPayment")>>
    BY DEF Program, DeployAll
  <2>2. QED
    BY <2>1, CallTypes, StepTypes, SoundThree DEF Upgrades
<1>8. Sound("mumbai-dev/chainlink-deploy")
  <2>1. Program("mumbai-dev/chainlink-deploy") = <<Send("FilinkConsumer")>>
    BY DEF Program, ChainlinkDeployDev, ChainlinkDeploy
  <2>2. QED
    BY <2>1, CallTypes, StepTypes, SoundOne DEF Upgrades
<1>9. Sound("mumbai-dev/set-chainlink")
  <2>1. Program("mumbai-dev/set-chainlink")
          = <<Await("setFilinkOracle"), Await("setChainlinkOracle")>>
    BY DEF Program, SetChainlink
  <2>2. QED
    BY <2>1, CallTypes, StepTypes, SoundTwo DEF Upgrades
<1>10. Sound("mumbai-dev/set-dao")
  <2>1. Program("mumbai-dev/set-dao") = <<Await("setDAOUsers"), Read("hasRole")>>
    BY DEF Program, SetDaoDev, SetDao
  <2>2. QED
    BY <2>1, CallTypes, StepTypes, SoundTwo DEF Upgrades
<1>11. Sound("mumbai-dev/upgrade")
  <2>1. Program("mumbai-dev/upgrade") = <<Await("implementation"), Send("upgradePayment")>>
    BY DEF Program, UpgradePaymentDev, UpgradePayment
  <2>2. QED
    BY <2>1, CallTypes, StepTypes, SoundTwo DEF Upgrades
<1>12. Sound("mumbai-dev/upgrade-dao")
  <2>1. Program("mumbai-dev/upgrade-dao") = <<Await("implementation"), Send("upgradeOracle")>>
    BY DEF Program, UpgradeDaoDev, UpgradeDao
  <2>2. QED
    BY <2>1, CallTypes, StepTypes, SoundTwo DEF Upgrades
<1>13. Sound("faucet-deploy")
  <2>1. Program("faucet-deploy") = <<Await("implementation"), Send("upgradeFaucet")>>
    BY DEF Program, FaucetDeploy
  <2>2. QED
    BY <2>1, CallTypes, StepTypes, SoundTwo DEF Upgrades
<1>14. Sound("faucet-set-admin")
  <2>1. Program("faucet-set-admin") = <<Send("setAdmin")>>
    BY DEF Program, FaucetSetAdmin
  <2>2. QED
    BY <2>1, CallTypes, StepTypes, SoundOne DEF Upgrades
<1>15. Sound("faucet-run")
  <2>1. Program("faucet-run") = <<Await("sendMultiTokens")>>
    BY DEF Program, FaucetRun
  <2>2. QED
    BY <2>1, CallTypes, StepTypes, SoundOne DEF Upgrades
<1>16. Sound("mint-token")
  <2>1. Program("mint-token") = <<Send("mintUSDC"), Send("mintWFIL")>>
    BY DEF Program, MintToken
  <2>2. QED
    BY <2>1, CallTypes, StepTypes, SoundTwo DEF Upgrades
<1>17. Sound("lock-script")
  <2>1. Program("lock-script") = <<Send("approve")>>
    BY DEF Program, LockScript
  <2>2. QED
    BY <2>1, CallTypes, StepTypes, SoundOne DEF Upgrades
<1>18. Sound("unlock-script")
  <2>1. Program("unlock-script") = <<Await("unlockTokenPayment")>>
    BY DEF Program, UnlockScript
  <2>2. QED
    BY <2>1, CallTypes, StepTypes, SoundOne DEF Upgrades
<1>19. Sound("unlock-car-script")
  <2>1. Program("unlock-car-script") = <<Misfit("unlockCarPayment")>>
    BY DEF Program, UnlockCarScript
  <2>2. QED
    BY <2>1, CallTypes, StepTypes, SoundOne DEF Upgrades
<1>20. Sound("sign-transaction")
  <2>1. Program("sign-transaction") = <<Misfit("signTransaction")>>
    BY DEF Program, SignTransaction
  <2>2. QED
    BY <2>1, CallTypes, StepTypes, SoundOne DEF Upgrades
<1>21. Sound("oracle")
  <2>1. Program("oracle") = <<Await("updatePaymentInfo")>>
    BY DEF Program, Oracle
  <2>2. QED
    BY <2>1, CallTypes, StepTypes, SoundOne DEF Upgrades
<1>22. Sound("deploy-token")
  <2>1. Program("deploy-token") = <<Read("getPair")>>
    BY DEF Program, DeployToken
  <2>2. QED
    BY <2>1, CallTypes, StepTypes, SoundOne DEF Upgrades
<1>23. Sound("vrf-deploy")
  <2>1. Program("vrf-deploy") = <<Send("SwanVRFConsumer")>>
    BY DEF Program, VrfDeploy
  <2>2. QED
    BY <2>1, CallTypes, StepTypes, SoundOne DEF Upgrades
<1>24. Sound("vrf-run")
  <2>1. Program("vrf-run") = <<Read("callStatic"), Await("getRandomNumber"), Read("poll")>>
    BY DEF Program, VrfRun
  <2>2. QED
    BY <2>1, CallTypes, StepTypes, SoundThree DEF Upgrades
<1>25. QED
  BY <1>1, <1>2, <1>3, <1>4, <1>5, <1>6, <1>7, <1>8, <1>9, <1>10, <1>11, <1>12,
     <1>13, <1>14, <1>15, <1>16, <1>17, <1>18,
     <1>19, <1>20, <1>21, <1>22, <1>23, <1>24 DEF ScriptNames

-----------------------------------------------------------------------------
(* Types.                                                                   *)

Transactions == [call : Calls, args : Args]

LEMMA BlankType ==
    \A k \in Kinds \cup {"implementation", "call", "reverted"} :
        /\ Blank(k) \in Contracts
        /\ Blank(k).kind = k /\ Blank(k).code = 0 /\ Blank(k).filink = 0
BY DEF Blank, Contracts, Lists

\* A contract is replaced, or none is when the address is not one, and the call
\* leaves its trace.
LEMMA Replaced ==
    ASSUME mined \in Seq(Contracts), NEW to \in Nat, NEW new,
           to \in 1 .. Len(mined) => new \in Contracts
    PROVE  /\ Change(to, new) \in Seq(Contracts)
           /\ Len(Change(to, new)) = Len(mined) + 1
           /\ \A p \in 1 .. Len(mined) : Change(to, new)[p] = IF p = to THEN new ELSE mined[p]
           /\ Change(to, new)[Len(mined) + 1] = Blank("call")
<1> DEFINE changed == [mined EXCEPT ![to] = new]
<1>1. changed \in Seq(Contracts) /\ Len(changed) = Len(mined)
  <2>1. CASE to \in 1 .. Len(mined)
    BY <2>1
  <2>2. CASE to \notin 1 .. Len(mined)
    <3>1. changed = mined
      BY <2>2
    <3>2. QED
      BY <3>1
  <2>3. QED
    BY <2>1, <2>2
<1>2. \A p \in 1 .. Len(mined) : changed[p] = IF p = to THEN new ELSE mined[p]
  OBVIOUS
<1>3. Blank("call") \in Contracts
  BY BlankType
<1> HIDE DEF changed
<1>4. /\ Append(changed, Blank("call")) \in Seq(Contracts)
      /\ Len(Append(changed, Blank("call"))) = Len(mined) + 1
      /\ \A p \in 1 .. Len(mined) : Append(changed, Blank("call"))[p] = changed[p]
      /\ Append(changed, Blank("call"))[Len(mined) + 1] = Blank("call")
  BY <1>1, <1>3
<1>5. Change(to, new) = Append(changed, Blank("call"))
  BY DEF Change, changed
<1>6. QED
  BY <1>2, <1>4, <1>5

LEMMA Updated ==
    ASSUME NEW c \in Contracts
    PROVE  /\ \A x \in Nat : LET d == [c EXCEPT !.filink = x]
                             IN /\ d \in Contracts /\ d.kind = c.kind /\ d.oracle = c.oracle
                                /\ d.code = c.code /\ d.filink = x
           /\ \A x \in Lists : LET d == [c EXCEPT !.dao = x, !.roles = @ \cup {x}]
                               IN /\ d \in Contracts /\ d.kind = c.kind /\ d.oracle = c.oracle
                                  /\ d.code = c.code /\ d.filink = c.filink
           /\ \A x \in Nat : LET d == [c EXCEPT !.code = x]
                             IN /\ d \in Contracts /\ d.kind = c.kind /\ d.oracle = c.oracle
                                /\ d.code = x /\ d.filink = c.filink
BY DEF Contracts

LEMMA Appended ==
    ASSUME mined \in Seq(Contracts), NEW new \in Contracts
    PROVE  /\ Append(mined, new) \in Seq(Contracts)
           /\ Len(Append(mined, new)) = Len(mined) + 1
           /\ \A p \in 1 .. Len(mined) : Append(mined, new)[p] = mined[p]
           /\ Append(mined, new)[Len(mined) + 1] = new
OBVIOUS

\* What a mined transaction does to the contracts: it adds one, keeps the kinds and
\* the oracles of the others, moves a proxy only to the code it names and sets a
\* FilinkConsumer only to the one it names.
AfterIsRight(tx) ==
    /\ After(tx) \in Seq(Contracts)
    /\ Len(After(tx)) = Len(mined) + 1
    /\ \A p \in 1 .. Len(mined) :
          /\ After(tx)[p].kind = mined[p].kind
          /\ After(tx)[p].oracle = mined[p].oracle
          /\ After(tx)[p].filink \in {mined[p].filink, tx.args.filink}
          /\ \/ After(tx)[p].code = mined[p].code
             \/ tx.call \in Upgrades /\ After(tx)[p].code = tx.args.code
    /\ LET new == After(tx)[Len(mined) + 1]
       IN /\ new.kind = IF tx.call \in Kinds \cup {"implementation"} THEN tx.call ELSE "call"
          /\ new.code = 0 /\ new.filink \in {0, tx.args.filink}
          /\ tx.call = "SwanPayment" => new.oracle = tx.args.oracle

LEMMA AfterTypes ==
    ASSUME mined \in Seq(Contracts), NEW tx \in Transactions
    PROVE  AfterIsRight(tx)
<1> DEFINE a == tx.args
<1>0. /\ a \in Args /\ tx.call \in Calls
      /\ a.oracle \in Nat /\ a.filink \in Nat /\ a.payment \in Nat /\ a.code \in Nat
      /\ a.list \in Lists
  BY DEF Transactions, Args
<1>k. {"FilswanOracle", "FilinkConsumer", "SwanPayment"} = Kinds
  BY DEF Kinds
<1>e. \A p \in 1 .. Len(mined) : mined[p] \in Contracts
  OBVIOUS
<1>1. CASE tx.call \in {"FilswanOracle", "FilinkConsumer", "implementation"}
  <2>1. After(tx) = Append(mined, Blank(tx.call))
    BY <1>1 DEF After
  <2>2. /\ Blank(tx.call) \in Contracts /\ Blank(tx.call).kind = tx.call
        /\ Blank(tx.call).code = 0 /\ Blank(tx.call).filink = 0
    BY <1>1, <1>k, BlankType
  <2>3. tx.call # "SwanPayment"
    BY <1>1
  <2>4. QED
    BY <1>1, <1>k, <2>1, <2>2, <2>3, Appended DEF AfterIsRight
<1>2. CASE tx.call = "SwanPayment"
  <2> DEFINE new == [Blank("SwanPayment") EXCEPT !.oracle = a.oracle, !.filink = a.filink]
  <2>1. After(tx) = Append(mined, new)
    BY <1>2 DEF After
  <2>2. /\ new \in Contracts /\ new.kind = "SwanPayment" /\ new.code = 0
        /\ new.oracle = a.oracle /\ new.filink = a.filink
    BY <1>0, <1>k DEF Blank, Contracts, Lists
  <2> HIDE DEF new
  <2>3. QED
    BY <1>2, <1>k, <2>1, <2>2, Appended DEF AfterIsRight
<1>3. CASE tx.call = "setFilinkOracle"
  <2> DEFINE new == [mined[a.oracle] EXCEPT !.filink = a.filink]
  <2>1. After(tx) = Change(a.oracle, new)
    BY <1>3 DEF After
  <2>2. a.oracle \in 1 .. Len(mined) =>
          /\ new \in Contracts /\ new.kind = mined[a.oracle].kind
          /\ new.oracle = mined[a.oracle].oracle /\ new.code = mined[a.oracle].code
          /\ new.filink \in {mined[a.oracle].filink, a.filink}
    BY <1>0, <1>e, Updated
  <2> HIDE DEF new
  <2>3. tx.call \notin Kinds \cup {"implementation"}
    BY <1>3 DEF Kinds
  <2>4. /\ Change(a.oracle, new) \in Seq(Contracts)
        /\ Len(Change(a.oracle, new)) = Len(mined) + 1
        /\ \A p \in 1 .. Len(mined) :
              Change(a.oracle, new)[p] = IF p = a.oracle THEN new ELSE mined[p]
        /\ Change(a.oracle, new)[Len(mined) + 1] = Blank("call")
    <3>1. a.oracle \in Nat /\ (a.oracle \in 1 .. Len(mined) => new \in Contracts)
      BY <1>0, <2>2
    <3>2. QED
      BY <3>1, Replaced
  <2>5. /\ Blank("call").kind = "call" /\ Blank("call").code = 0 /\ Blank("call").filink = 0
        /\ tx.call # "SwanPayment"
    BY <1>k, <2>3, BlankType
  <2>6. \A p \in 1 .. Len(mined) :
          /\ After(tx)[p].kind = mined[p].kind
          /\ After(tx)[p].oracle = mined[p].oracle
          /\ After(tx)[p].filink \in {mined[p].filink, a.filink}
          /\ \/ After(tx)[p].code = mined[p].code
             \/ tx.call \in Upgrades /\ After(tx)[p].code = a.code
    BY <2>1, <2>2, <2>3, <2>4
  <2>7. QED
    BY <2>1, <2>3, <2>4, <2>5, <2>6 DEF AfterIsRight
<1>4. CASE tx.call = "setDAOUsers"
  <2> DEFINE new == [mined[a.oracle] EXCEPT !.dao = a.list, !.roles = @ \cup {a.list}]
  <2>1. After(tx) = Change(a.oracle, new)
    BY <1>4 DEF After
  <2>2. a.oracle \in 1 .. Len(mined) =>
          /\ new \in Contracts /\ new.kind = mined[a.oracle].kind
          /\ new.oracle = mined[a.oracle].oracle /\ new.code = mined[a.oracle].code
          /\ new.filink \in {mined[a.oracle].filink, a.filink}
    BY <1>0, <1>e, Updated
  <2> HIDE DEF new
  <2>3. tx.call \notin Kinds \cup {"implementation"}
    BY <1>4 DEF Kinds
  <2>4. /\ Change(a.oracle, new) \in Seq(Contracts)
        /\ Len(Change(a.oracle, new)) = Len(mined) + 1
        /\ \A p \in 1 .. Len(mined) :
              Change(a.oracle, new)[p] = IF p = a.oracle THEN new ELSE mined[p]
        /\ Change(a.oracle, new)[Len(mined) + 1] = Blank("call")
    <3>1. a.oracle \in Nat /\ (a.oracle \in 1 .. Len(mined) => new \in Contracts)
      BY <1>0, <2>2
    <3>2. QED
      BY <3>1, Replaced
  <2>5. /\ Blank("call").kind = "call" /\ Blank("call").code = 0 /\ Blank("call").filink = 0
        /\ tx.call # "SwanPayment"
    BY <1>k, <2>3, BlankType
  <2>6. \A p \in 1 .. Len(mined) :
          /\ After(tx)[p].kind = mined[p].kind
          /\ After(tx)[p].oracle = mined[p].oracle
          /\ After(tx)[p].filink \in {mined[p].filink, a.filink}
          /\ \/ After(tx)[p].code = mined[p].code
             \/ tx.call \in Upgrades /\ After(tx)[p].code = a.code
    BY <2>1, <2>2, <2>3, <2>4
  <2>7. QED
    BY <2>1, <2>3, <2>4, <2>5, <2>6 DEF AfterIsRight
<1>5. CASE tx.call = "upgradeOracle"
  <2> DEFINE new == [mined[a.oracle] EXCEPT !.code = a.code]
  <2>1. After(tx) = Change(a.oracle, new)
    BY <1>5 DEF After
  <2>2. a.oracle \in 1 .. Len(mined) =>
          /\ new \in Contracts /\ new.kind = mined[a.oracle].kind
          /\ new.oracle = mined[a.oracle].oracle /\ new.code = a.code
          /\ new.filink = mined[a.oracle].filink
    BY <1>0, <1>e, Updated
  <2> HIDE DEF new
  <2>3. tx.call \notin Kinds \cup {"implementation"} /\ tx.call \in Upgrades
    BY <1>5 DEF Kinds, Upgrades
  <2>4. /\ Change(a.oracle, new) \in Seq(Contracts)
        /\ Len(Change(a.oracle, new)) = Len(mined) + 1
        /\ \A p \in 1 .. Len(mined) :
              Change(a.oracle, new)[p] = IF p = a.oracle THEN new ELSE mined[p]
        /\ Change(a.oracle, new)[Len(mined) + 1] = Blank("call")
    <3>1. a.oracle \in Nat /\ (a.oracle \in 1 .. Len(mined) => new \in Contracts)
      BY <1>0, <2>2
    <3>2. QED
      BY <3>1, Replaced
  <2>5. /\ Blank("call").kind = "call" /\ Blank("call").code = 0 /\ Blank("call").filink = 0
        /\ tx.call # "SwanPayment"
    BY <1>k, <2>3, BlankType
  <2>6. \A p \in 1 .. Len(mined) :
          /\ After(tx)[p].kind = mined[p].kind
          /\ After(tx)[p].oracle = mined[p].oracle
          /\ After(tx)[p].filink \in {mined[p].filink, a.filink}
          /\ \/ After(tx)[p].code = mined[p].code
             \/ tx.call \in Upgrades /\ After(tx)[p].code = a.code
    BY <2>1, <2>2, <2>3, <2>4
  <2>7. QED
    BY <2>1, <2>3, <2>4, <2>5, <2>6 DEF AfterIsRight
<1>6. CASE tx.call = "upgradePayment"
  <2> DEFINE new == [mined[a.payment] EXCEPT !.code = a.code]
  <2>1. After(tx) = Change(a.payment, new)
    BY <1>6 DEF After
  <2>2. a.payment \in 1 .. Len(mined) =>
          /\ new \in Contracts /\ new.kind = mined[a.payment].kind
          /\ new.oracle = mined[a.payment].oracle /\ new.code = a.code
          /\ new.filink = mined[a.payment].filink
    BY <1>0, <1>e, Updated
  <2> HIDE DEF new
  <2>3. tx.call \notin Kinds \cup {"implementation"} /\ tx.call \in Upgrades
    BY <1>6 DEF Kinds, Upgrades
  <2>4. /\ Change(a.payment, new) \in Seq(Contracts)
        /\ Len(Change(a.payment, new)) = Len(mined) + 1
        /\ \A p \in 1 .. Len(mined) :
              Change(a.payment, new)[p] = IF p = a.payment THEN new ELSE mined[p]
        /\ Change(a.payment, new)[Len(mined) + 1] = Blank("call")
    <3>1. a.payment \in Nat /\ (a.payment \in 1 .. Len(mined) => new \in Contracts)
      BY <1>0, <2>2
    <3>2. QED
      BY <3>1, Replaced
  <2>5. /\ Blank("call").kind = "call" /\ Blank("call").code = 0 /\ Blank("call").filink = 0
        /\ tx.call # "SwanPayment"
    BY <1>k, <2>3, BlankType
  <2>6. \A p \in 1 .. Len(mined) :
          /\ After(tx)[p].kind = mined[p].kind
          /\ After(tx)[p].oracle = mined[p].oracle
          /\ After(tx)[p].filink \in {mined[p].filink, a.filink}
          /\ \/ After(tx)[p].code = mined[p].code
             \/ tx.call \in Upgrades /\ After(tx)[p].code = a.code
    BY <2>1, <2>2, <2>3, <2>4
  <2>7. QED
    BY <2>1, <2>3, <2>4, <2>5, <2>6 DEF AfterIsRight
<1>7. CASE tx.call \notin Kinds \cup Upgrades
                          \cup {"implementation", "setFilinkOracle", "setDAOUsers"}
  <2>1. After(tx) = Append(mined, Blank("call"))
    BY <1>7 DEF After, Kinds, Upgrades
  <2>2. tx.call # "SwanPayment" /\ tx.call \notin Kinds \cup {"implementation"}
    BY <1>7 DEF Kinds
  <2>3. QED
    BY <1>k, <2>1, <2>2, Appended, BlankType DEF AfterIsRight
<1>8. QED
  BY <1>1, <1>2, <1>3, <1>4, <1>5, <1>6, <1>7 DEF Kinds, Upgrades

\* What TypeOK says of the script that runs.
LEMMA RunTypes ==
    ASSUME TypeOK, ~Idle
    PROVE  /\ run \in Runs /\ run.script \in Scripts /\ run.script \in ScriptNames
           /\ run.pc \in Nat \ {0} /\ run.awaits \in Nat /\ run.args \in Args
           /\ run.request \in Nat /\ run.polls \in 0 .. MaxPolls
           /\ run.pc <= Len(Program(run.script)) + 1
           /\ run.awaits <= Len(mined) + Len(pool)
           /\ Sound(run.script)
BY ProgramsSound, ScriptsAssumption DEF TypeOK, Runs

LEMMA StepTypesAt ==
    ASSUME TypeOK, NEW does, AtStep(does)
    PROVE  /\ run.pc \in 1 .. Len(Program(run.script))
           /\ Step = Program(run.script)[run.pc] /\ Step.call \in Calls /\ Step.does = does
           /\ run.awaits = 0 /\ ~Idle
<1>1. ~Idle /\ run.awaits = 0 /\ Step.does = does
  BY DEF AtStep
<1>2. run.pc \in 1 .. Len(Program(run.script))
  BY <1>1, RunTypes DEF AtStep, Sound
<1>3. Program(run.script)[run.pc] \in Steps
  BY <1>1, <1>2, RunTypes DEF Sound
<1>4. QED
  BY <1>1, <1>2, <1>3 DEF Step, Steps

LEMMA LengthTypes ==
    ASSUME TypeOK
    PROVE  /\ mined \in Seq(Contracts) /\ pool \in Seq(Transactions)
           /\ Len(mined) \in Nat /\ Len(pool) \in Nat /\ NextAddress \in Nat \ {0}
BY DEF TypeOK, Transactions, NextAddress

\* A transaction is sent, and the script goes on.
LEMMA Sent ==
    ASSUME TypeOK, SendTransaction
    PROVE  /\ run' \in Runs /\ run'.script = run.script /\ run'.pc = run.pc + 1
           /\ run'.awaits = IF Step.does = "await" THEN NextAddress ELSE 0
           /\ run'.args = NamedHere(NextAddress)
           /\ run'.args.oracle = IF Step.call = "FilswanOracle" THEN NextAddress
                                 ELSE run.args.oracle
           /\ run'.args.code = IF Step.call = "implementation" THEN NextAddress
                               ELSE run.args.code
           /\ pool' \in Seq(Transactions) /\ Len(pool') = Len(pool) + 1
           /\ \A i \in 1 .. Len(pool) : pool'[i] = pool[i]
           /\ pool'[Len(pool) + 1] = [call |-> Step.call, args |-> run.args]
<1>1. AtStep("send") \/ AtStep("await")
  BY DEF SendTransaction
<1>2. /\ ~Idle /\ Step.call \in Calls /\ NextAddress \in Nat \ {0} /\ pool \in Seq(Transactions)
      /\ run \in Runs /\ run.args \in Args /\ run.pc \in Nat \ {0}
  BY <1>1, StepTypesAt, RunTypes, LengthTypes
<1>3. /\ NamedHere(NextAddress) \in Args
      /\ NamedHere(NextAddress).oracle = IF Step.call = "FilswanOracle" THEN NextAddress
                                         ELSE run.args.oracle
      /\ NamedHere(NextAddress).code = IF Step.call = "implementation" THEN NextAddress
                                       ELSE run.args.code
  BY <1>2 DEF NamedHere, Args
<1>4. run' = [run EXCEPT !.pc = run.pc + 1,
                        !.awaits = IF Step.does = "await" THEN NextAddress ELSE 0,
                        !.args = NamedHere(NextAddress)]
  BY DEF SendTransaction
<1>5. /\ run' \in Runs /\ run'.script = run.script /\ run'.pc = run.pc + 1
      /\ run'.awaits = IF Step.does = "await" THEN NextAddress ELSE 0
      /\ run'.args = NamedHere(NextAddress)
  <2> DEFINE awaits == IF Step.does = "await" THEN NextAddress ELSE 0
             named == NamedHere(NextAddress)
  <2>1. awaits \in Nat /\ named \in Args /\ run.pc + 1 \in Nat \ {0}
    BY <1>2, <1>3
  <2>2. run' = [run EXCEPT !.pc = run.pc + 1, !.awaits = awaits, !.args = named]
    BY <1>4
  <2> HIDE DEF awaits, named
  <2>3. /\ run' \in Runs /\ run'.script = run.script /\ run'.pc = run.pc + 1
        /\ run'.awaits = awaits /\ run'.args = named
    BY <1>2, <2>1, <2>2 DEF Runs
  <2>4. QED
    BY <2>3 DEF awaits, named
<1>6. /\ pool' = Append(pool, [call |-> Step.call, args |-> run.args])
      /\ [call |-> Step.call, args |-> run.args] \in Transactions
  BY <1>2 DEF SendTransaction, Transactions
<1>7. /\ pool' \in Seq(Transactions) /\ Len(pool') = Len(pool) + 1
      /\ \A i \in 1 .. Len(pool) : pool'[i] = pool[i]
      /\ pool'[Len(pool) + 1] = [call |-> Step.call, args |-> run.args]
  BY <1>2, <1>6
<1>8. QED
  BY <1>3, <1>5, <1>7

\* A script that starts names printed addresses.
LEMMA Started ==
    ASSUME TypeOK, NEW s \in Scripts, Start(s)
    PROVE  /\ run' \in Runs /\ run'.script = s /\ run'.pc = 1 /\ run'.awaits = 0
           /\ run'.args.oracle \in Named("FilswanOracle", s)
<1>1. \A kind \in Kinds : Named(kind, s) \subseteq Nat
  BY LengthTypes DEF Named, TypeOK
<1>2. {"FilswanOracle", "FilinkConsumer", "SwanPayment"} = Kinds
  BY DEF Kinds
<1>3. List(s) \in {MainDao, DevDao, None}
  BY DEF List
<1>4. PICK args \in [oracle : Named("FilswanOracle", s), filink : Named("FilinkConsumer", s),
                     payment : Named("SwanPayment", s), list : {List(s)}, code : {0}] :
          run' = [script |-> s, pc |-> 1, awaits |-> 0, args |-> args, request |-> 0, polls |-> 0]
  BY DEF Start
<1>5. args \in Args
  BY <1>1, <1>2, <1>3 DEF Args, Lists
<1>6. 0 \in 0 .. MaxPolls
  BY ScriptsAssumption
<1>7. QED
  BY <1>4, <1>5, <1>6 DEF Runs

\* The step is taken, or only counted: nothing else of the script changes.
LEMMA Looked ==
    ASSUME TypeOK, ReadOnly \/ CallStatic \/ Poll
    PROVE  /\ AtStep("read")
           /\ run' \in Runs /\ run'.script = run.script /\ run'.awaits = run.awaits
           /\ run'.args = run.args /\ run'.pc \in {run.pc, run.pc + 1}
<1>1. AtStep("read")
  BY DEF ReadOnly, CallStatic, Poll
<1>2. run \in Runs /\ run.pc \in Nat \ {0} /\ run.polls \in 0 .. MaxPolls
  BY <1>1, StepTypesAt, RunTypes
<1>3. vrf.requests + 1 \in Nat /\ MaxPolls \in Nat
  BY ScriptsAssumption DEF TypeOK
<1>4. \/ run' = [run EXCEPT !.pc = run.pc + 1]
      \/ run' = [run EXCEPT !.pc = run.pc + 1, !.request = vrf.requests + 1]
      \/ run.polls # MaxPolls /\ run' = [run EXCEPT !.polls = run.polls + 1]
  BY DEF ReadOnly, CallStatic, Poll, Advance
<1>5. run.polls # MaxPolls => run.polls + 1 \in 0 .. MaxPolls
  BY <1>2, <1>3
<1>6. CASE run' = [run EXCEPT !.pc = run.pc + 1]
  BY <1>1, <1>2, <1>6 DEF Runs
<1>7. CASE run' = [run EXCEPT !.pc = run.pc + 1, !.request = vrf.requests + 1]
  <2> DEFINE request == vrf.requests + 1
  <2>1. request \in Nat /\ run.pc + 1 \in Nat \ {0}
    BY <1>2, <1>3
  <2>2. run' = [run EXCEPT !.pc = run.pc + 1, !.request = request]
    BY <1>7
  <2> HIDE DEF request
  <2>3. QED
    BY <1>1, <1>2, <2>1, <2>2 DEF Runs
<1>8. CASE run.polls # MaxPolls /\ run' = [run EXCEPT !.polls = run.polls + 1]
  BY <1>1, <1>2, <1>5, <1>8 DEF Runs
<1>9. QED
  BY <1>4, <1>6, <1>7, <1>8

VrfOK ==
    /\ vrf \in [requests : Nat, numbers : SUBSET Nat, link : 0 .. MaxLink]
    /\ vrf.numbers \subseteq 1 .. vrf.requests

LEMMA VrfRequested ==
    ASSUME VrfOK, vrf.link >= 1, vrf' = Requested
    PROVE  VrfOK'
<1> DEFINE requests == vrf.requests + 1
           link == vrf.link - 1
<1>1. requests \in Nat /\ link \in 0 .. MaxLink /\ vrf.numbers \subseteq 1 .. requests
  BY ScriptsAssumption DEF VrfOK
<1>2. vrf' = [vrf EXCEPT !.requests = requests, !.link = link]
  BY DEF Requested
<1> HIDE DEF requests, link
<1>3. QED
  BY <1>1, <1>2 DEF VrfOK

LEMMA VrfStep ==
    ASSUME TypeOK, [Next]_vars
    PROVE  VrfOK'
<1>1. VrfOK
  BY DEF TypeOK, VrfOK
<1>2. CASE UNCHANGED vrf
  BY <1>1, <1>2 DEF VrfOK
<1>3. CASE Mine
  BY <1>1, <1>2, <1>3, VrfRequested DEF Mine, OfVrf
<1>4. CASE OthersRequest
  BY <1>1, <1>4, VrfRequested DEF OthersRequest
<1>5. ASSUME NEW id \in 1 .. MaxLink, FulfillRandomness(id) PROVE VrfOK'
  <2>1. vrf' = [vrf EXCEPT !.numbers = vrf.numbers \cup {id}]
    BY <1>5 DEF FulfillRandomness
  <2>2. id \in 1 .. vrf.requests /\ vrf.numbers \cup {id} \in SUBSET Nat
    BY <1>1, <1>5 DEF FulfillRandomness, VrfOK
  <2>3. QED
    BY <1>1, <2>1, <2>2 DEF VrfOK
<1>6. CASE UNCHANGED vars
  BY <1>2, <1>6 DEF vars, chain
<1>7. ASSUME Next, ~Mine, ~OthersRequest, \A id \in 1 .. MaxLink : ~FulfillRandomness(id)
      PROVE  UNCHANGED vrf
  BY <1>7 DEF Next, Start, Script, SendTransaction, Awaited, Thrown, Interrupted, Finished, Leave,
              ReadOnly, CallStatic, Poll, Revert, OthersAtFaucet, chain
<1>8. QED
  BY <1>2, <1>3, <1>4, <1>5, <1>6, <1>7

\* The steps of the chain: the first transaction leaves the pool.
LEMMA Mined ==
    ASSUME TypeOK, Mine \/ Revert
    PROVE  /\ pool # <<>> /\ Head(pool) = pool[1] /\ pool[1] \in Transactions
           /\ mined' \in Seq(Contracts) /\ Len(mined') = Len(mined) + 1
           /\ pool' \in Seq(Transactions) /\ Len(pool') + 1 = Len(pool)
           /\ \A i \in 1 .. Len(pool') : pool'[i] = pool[i + 1]
           /\ UNCHANGED <<printed, run, exit, runs>>
           /\ \A p \in 1 .. Len(mined) :
                 /\ mined'[p].kind = mined[p].kind /\ mined'[p].oracle = mined[p].oracle
                 /\ mined'[p].filink \in {mined[p].filink, pool[1].args.filink}
                 /\ \/ mined'[p].code = mined[p].code
                    \/ pool[1].call \in Upgrades /\ mined'[p].code = pool[1].args.code
           /\ \/ mined'[Len(mined) + 1].kind = "reverted"
              \/ mined'[Len(mined) + 1].kind
                    = IF pool[1].call \in Kinds \cup {"implementation"} THEN pool[1].call ELSE "call"
           /\ mined'[Len(mined) + 1].code = 0
           /\ mined'[Len(mined) + 1].filink \in {0, pool[1].args.filink}
           /\ mined'[Len(mined) + 1].kind = "SwanPayment" =>
                 pool[1].call = "SwanPayment"
                 /\ mined'[Len(mined) + 1].oracle = pool[1].args.oracle
<1>1. pool \in Seq(Transactions) /\ mined \in Seq(Contracts) /\ pool # <<>>
  BY LengthTypes DEF Mine, Revert
<1>2. /\ Head(pool) = pool[1] /\ pool[1] \in Transactions
      /\ Tail(pool) \in Seq(Transactions) /\ Len(Tail(pool)) + 1 = Len(pool)
      /\ \A i \in 1 .. Len(Tail(pool)) : Tail(pool)[i] = pool[i + 1]
  BY <1>1
<1>3. pool' = Tail(pool) /\ UNCHANGED <<printed, run, exit, runs>>
  BY DEF Mine, Revert
<1>4. CASE Mine
  <2>1. mined' = After(pool[1])
    BY <1>2, <1>4 DEF Mine
  <2>2. AfterIsRight(pool[1])
    BY <1>1, <1>2, AfterTypes
  <2>3. mined'[Len(mined) + 1].kind = "SwanPayment" => pool[1].call = "SwanPayment"
    BY <2>1, <2>2 DEF AfterIsRight
  <2>4. QED
    BY <1>1, <1>2, <1>3, <2>1, <2>2, <2>3 DEF AfterIsRight
<1>5. CASE Revert
  <2>1. mined' = Append(mined, Blank("reverted"))
    BY <1>5 DEF Revert
  <2>2. /\ Blank("reverted") \in Contracts /\ Blank("reverted").kind = "reverted"
        /\ Blank("reverted").code = 0 /\ Blank("reverted").filink = 0
    BY BlankType
  <2>3. QED
    BY <1>1, <1>2, <1>3, <2>1, <2>2, Appended
<1>6. QED
  BY <1>4, <1>5

LEMMA TypeInit == Init => TypeOK
<1> SUFFICES ASSUME Init PROVE TypeOK
  OBVIOUS
<1>1. {"FilswanOracle", "FilinkConsumer", "SwanPayment"} = Kinds
  BY DEF Kinds
<1>2. mined \in Seq(Contracts) /\ Len(mined) = 3
  <2> DEFINE payment == [Blank("SwanPayment") EXCEPT !.oracle = 1, !.filink = 2]
  <2>1. payment \in Contracts
    BY <1>1 DEF Blank, Contracts, Lists
  <2>2. Blank("FilswanOracle") \in Contracts /\ Blank("FilinkConsumer") \in Contracts
    BY <1>1, BlankType
  <2>3. mined = <<Blank("FilswanOracle"), Blank("FilinkConsumer"), payment>>
    BY DEF Init
  <2> HIDE DEF payment
  <2>4. QED
    BY <2>1, <2>2, <2>3
<1>3. pool \in Seq(Transactions) /\ Len(pool) = 0
  BY DEF Init
<1>4. printed \in [Kinds -> SUBSET (1 .. Len(mined) + Len(pool))]
  BY <1>1, <1>2, <1>3 DEF Init
<1>5. VrfOK
  BY ScriptsAssumption DEF Init, VrfOK
<1>6. Idle /\ exit \in {None, 0, 1} /\ runs \in 0 .. MaxRuns
  BY ScriptsAssumption DEF Init, Idle
<1>7. Faucet!FaucetTypeOK
  BY WaitingInit DEF Waiting
<1>8. QED
  BY <1>2, <1>3, <1>4, <1>5, <1>6, <1>7 DEF TypeOK, VrfOK, Transactions

\* What TypeOK says of the script and of what was sent.
ScriptOK ==
    /\ mined \in Seq(Contracts)
    /\ pool \in Seq(Transactions)
    /\ printed \in [Kinds -> SUBSET (1 .. Len(mined) + Len(pool))]
    /\ Idle \/ /\ run \in Runs
               /\ run.pc <= Len(Program(run.script)) + 1
               /\ run.awaits <= Len(mined) + Len(pool)
    /\ exit \in {None, 0, 1} /\ runs \in 0 .. MaxRuns

LEMMA ScriptStep ==
    ASSUME TypeOK, [Next]_vars
    PROVE  ScriptOK'
<1>0. ScriptOK /\ Len(mined) \in Nat /\ Len(pool) \in Nat
  BY LengthTypes DEF TypeOK, ScriptOK, Transactions
<1>1. CASE UNCHANGED <<mined, pool, printed, run, exit, runs>>
  BY <1>0, <1>1 DEF ScriptOK, Idle
<1>2. ASSUME NEW s \in Scripts, Start(s) PROVE ScriptOK'
  <2>1. /\ UNCHANGED <<mined, pool, printed>> /\ runs' = runs + 1 /\ runs < MaxRuns
        /\ exit' = None
    BY <1>2 DEF Start, chain
  <2>2. run' \in Runs /\ run'.script = s /\ run'.pc = 1 /\ run'.awaits = 0
    BY <1>2, Started
  <2>3. Len(Program(s)) \in Nat
    BY ProgramsSound, ScriptsAssumption DEF Sound
  <2>4. runs' \in 0 .. MaxRuns
    BY <1>0, <2>1, ScriptsAssumption DEF ScriptOK
  <2>5. QED
    BY <1>0, <2>1, <2>2, <2>3, <2>4 DEF ScriptOK
<1>3. CASE SendTransaction
  <2>1. UNCHANGED <<mined, exit, runs>>
    BY <1>3 DEF SendTransaction
  <2>2. /\ run' \in Runs /\ run'.script = run.script /\ run'.pc = run.pc + 1
        /\ run'.awaits = IF Step.does = "await" THEN NextAddress ELSE 0
        /\ pool' \in Seq(Transactions) /\ Len(pool') = Len(pool) + 1
    BY <1>3, Sent
  <2>3. run.pc \in 1 .. Len(Program(run.script)) /\ Len(Program(run.script)) \in Nat
    BY <1>3, StepTypesAt, RunTypes DEF SendTransaction, Sound
  <2>4. NextAddress = Len(mined') + Len(pool')
    BY <1>0, <2>1, <2>2 DEF NextAddress
  <2>5. printed' \in [Kinds -> SUBSET (1 .. Len(mined') + Len(pool'))]
    <3>1. /\ 1 .. Len(mined) + Len(pool) \subseteq 1 .. Len(mined') + Len(pool')
          /\ NextAddress \in 1 .. Len(mined') + Len(pool')
      BY <1>0, <2>1, <2>2, <2>4
    <3>2. \/ printed' = [printed EXCEPT !["FilinkConsumer"] = @ \cup {NextAddress}]
          \/ UNCHANGED printed
      BY <1>3 DEF SendTransaction, Printed
    <3>3. QED
      BY <1>0, <3>1, <3>2 DEF ScriptOK
  <2>6. QED
    BY <1>0, <2>1, <2>2, <2>3, <2>4, <2>5 DEF ScriptOK
<1>4. CASE Awaited
  <2>1. ~Idle /\ run \in Runs /\ run.awaits \in 1 .. Len(mined)
    BY <1>4, RunTypes DEF Awaited
  <2>2. run' = [run EXCEPT !.awaits = 0] /\ UNCHANGED <<mined, pool, exit, runs>>
    BY <1>4 DEF Awaited, chain
  <2>3. run' \in Runs /\ run'.script = run.script /\ run'.pc = run.pc /\ run'.awaits = 0
    BY <2>1, <2>2 DEF Runs
  <2>4. \/ mined[run.awaits].kind \in Kinds
           /\ printed' = [printed EXCEPT ![mined[run.awaits].kind] = @ \cup {run.awaits}]
        \/ UNCHANGED printed
    BY <1>4 DEF Awaited, Printed
  <2>5. printed' \in [Kinds -> SUBSET (1 .. Len(mined') + Len(pool'))]
    <3>1. run.awaits \in 1 .. Len(mined) + Len(pool)
      BY <1>0, <2>1
    <3>2. QED
      BY <1>0, <2>2, <2>4, <3>1 DEF ScriptOK
  <2>6. QED
    BY <1>0, <2>1, <2>2, <2>3, <2>5 DEF ScriptOK, Idle
<1>5. CASE Thrown \/ Interrupted \/ Finished
  <2>1. Idle' /\ exit' \in {0, 1} /\ UNCHANGED <<mined, pool, printed, runs>>
    BY <1>5 DEF Thrown, Interrupted, Finished, Leave, chain, Idle
  <2>2. QED
    BY <1>0, <2>1 DEF ScriptOK
<1>6. CASE ReadOnly \/ CallStatic \/ Poll
  <2>1. UNCHANGED <<mined, pool, printed, exit, runs>>
    BY <1>6 DEF ReadOnly, CallStatic, Poll, chain
  <2>2. /\ run' \in Runs /\ run'.script = run.script /\ run'.awaits = run.awaits
        /\ run'.pc \in {run.pc, run.pc + 1}
        /\ AtStep("read")
    BY <1>6, Looked
  <2>3. /\ run.pc \in 1 .. Len(Program(run.script)) /\ Len(Program(run.script)) \in Nat
        /\ run.awaits <= Len(mined) + Len(pool)
    BY <2>2, StepTypesAt, RunTypes DEF Sound
  <2>4. QED
    BY <1>0, <2>1, <2>2, <2>3 DEF ScriptOK
<1>7. CASE Mine \/ Revert
  <2>1. /\ mined' \in Seq(Contracts) /\ Len(mined') = Len(mined) + 1
        /\ pool' \in Seq(Transactions) /\ Len(pool') + 1 = Len(pool)
        /\ UNCHANGED <<printed, run, exit, runs>>
    BY <1>7, Mined
  <2>2. Len(mined') + Len(pool') = Len(mined) + Len(pool)
    BY <1>0, <2>1
  <2>3. QED
    BY <1>0, <2>1, <2>2 DEF ScriptOK, Idle
<1>8. CASE OthersRequest \/ OthersAtFaucet \/ \E id \in 1 .. MaxLink : FulfillRandomness(id)
  BY <1>1, <1>8 DEF OthersRequest, OthersAtFaucet, FulfillRandomness, chain
<1>9. CASE UNCHANGED vars
  BY <1>1, <1>9 DEF vars, chain
<1>10. QED
  BY <1>2, <1>3, <1>4, <1>5, <1>6, <1>7, <1>8, <1>9 DEF Next, Script

LEMMA TypeStep ==
    ASSUME TypeOK, Waiting, [Next]_vars
    PROVE  TypeOK'
<1>1. ScriptOK' /\ VrfOK' /\ Faucet!FaucetTypeOK'
  BY ScriptStep, VrfStep, FaucetStep DEF Waiting
<1>2. QED
  BY <1>1 DEF ScriptOK, VrfOK, TypeOK, Transactions

\* Whatever the scripts do, the addresses they wait for and print, their
\* transactions and the contracts keep their types; vrf-run.js looks at most
\* MaxPolls times.
THEOREM TypeCorrect == Spec => []TypeOK
<1>1. TypeOK /\ Waiting /\ [Next]_vars => TypeOK'
  BY TypeStep
<1>2. QED
  BY <1>1, TypeInit, AlwaysWaiting, PTL DEF Spec

-----------------------------------------------------------------------------
(* What is named was deployed.                                              *)

Is(kind, a) == a \in 1 .. Len(mined) /\ mined[a].kind = kind

\* It was sent: it is on the chain, or was reverted, or will be mined.
Comes(kind, a) ==
    /\ a \in 1 .. Len(mined) + Len(pool)
    /\ a <= Len(mined) => mined[a].kind \in {kind, "reverted"}
    /\ a > Len(mined) => pool[a - Len(mined)].call = kind

\* What the script deployed first.
First(kind) == IF kind = "FilswanOracle" THEN run.args.oracle ELSE run.args.code

\* A printed oracle is an oracle.
PrintedKnown == \A a \in printed["FilswanOracle"] : Is("FilswanOracle", a)

\* The running script waits for what it deployed first, then has it.
ScriptKnown ==
    ~Idle =>
      /\ run.script = "deploy" => Is("FilswanOracle", run.args.oracle)
      /\ \A kind \in {"FilswanOracle", "implementation"} :
            Begins(run.script, kind) /\ run.pc >= 2 =>
              \/ Is(kind, First(kind))
              \/ run.pc = 2 /\ run.awaits # 0 /\ run.awaits = First(kind) /\ Comes(kind, First(kind))

\* What was sent names what is there.
PoolKnown ==
    \A i \in 1 .. Len(pool) :
      /\ pool[i].call = "SwanPayment" => Is("FilswanOracle", pool[i].args.oracle)
      /\ pool[i].call \in Upgrades => Is("implementation", pool[i].args.code)

Known ==
    PrintedKnown /\ ScriptKnown /\ PoolKnown /\ PaymentsKnowTheirOracle /\ UpgradedToCode

\* The chain only grows: what is known stays known.
Grows ==
    /\ Len(mined') \in Nat /\ Len(mined') >= Len(mined)
    /\ \A p \in 1 .. Len(mined) : mined'[p].kind = mined[p].kind

LEMMA IsStays ==
    ASSUME TypeOK, Grows, NEW kind, NEW a, Is(kind, a)
    PROVE  Is(kind, a)'
<1>1. Len(mined) \in Nat
  BY LengthTypes
<1>2. QED
  BY <1>1 DEF Is, Grows

LEMMA KnownStart ==
    ASSUME TypeOK, Known, NEW s \in Scripts, Start(s)
    PROVE  Known'
<1>1. UNCHANGED <<mined, pool, printed>> /\ Grows
  BY LengthTypes DEF Start, chain, Grows
<1>2. run' \in Runs /\ run'.script = s /\ run'.pc = 1 /\ run'.args.oracle \in Named("FilswanOracle", s)
  BY Started
<1>3. s = "deploy" => run'.args.oracle \in printed["FilswanOracle"]
  BY <1>2 DEF Named, Names
<1>4. ScriptKnown'
  BY <1>1, <1>2, <1>3 DEF ScriptKnown, Known, PrintedKnown, Is
<1>5. QED
  BY <1>1, <1>4 DEF Known, PrintedKnown, PoolKnown, PaymentsKnowTheirOracle, UpgradedToCode, Is

\* A step that leaves the chain and what was printed alone.
LEMMA KnownQuiet ==
    ASSUME TypeOK, Known, UNCHANGED <<mined, pool, printed>>, ScriptKnown'
    PROVE  Known'
BY DEF Known, PrintedKnown, PoolKnown, PaymentsKnowTheirOracle, UpgradedToCode, Is

LEMMA KnownSend ==
    ASSUME TypeOK, Known, SendTransaction
    PROVE  Known'
<1>1. /\ run.pc \in 1 .. Len(Program(run.script)) /\ Step = Program(run.script)[run.pc]
      /\ run.awaits = 0 /\ ~Idle /\ Step.call \in Calls
  BY StepTypesAt DEF SendTransaction
<1>2. run.pc \in Nat \ {0} /\ Sound(run.script)
  BY <1>1, RunTypes
<1>3. /\ mined' = mined /\ Len(mined) \in Nat /\ Len(pool) \in Nat
      /\ NextAddress = Len(mined) + Len(pool) + 1
  BY LengthTypes DEF SendTransaction, NextAddress
<1>4. /\ run'.script = run.script /\ run'.pc = run.pc + 1
      /\ run'.awaits = IF Step.does = "await" THEN NextAddress ELSE 0
      /\ run'.args.oracle = IF Step.call = "FilswanOracle" THEN NextAddress ELSE run.args.oracle
      /\ run'.args.code = IF Step.call = "implementation" THEN NextAddress ELSE run.args.code
      /\ Len(pool') = Len(pool) + 1
      /\ \A i \in 1 .. Len(pool) : pool'[i] = pool[i]
      /\ pool'[Len(pool) + 1] = [call |-> Step.call, args |-> run.args]
  BY Sent
<1>5. PrintedKnown'
  <2>1. \/ printed' = [printed EXCEPT !["FilinkConsumer"] = @ \cup {NextAddress}]
        \/ UNCHANGED printed
    BY DEF SendTransaction, Printed
  <2>2. printed'["FilswanOracle"] = printed["FilswanOracle"]
    BY <2>1 DEF TypeOK, Kinds
  <2>3. QED
    BY <1>3, <2>2 DEF Known, PrintedKnown, Is
<1>6. PoolKnown'
  <2>1. Step.call = "SwanPayment" => Is("FilswanOracle", run.args.oracle)
    <3>1. SUFFICES ASSUME Step.call = "SwanPayment" PROVE Is("FilswanOracle", run.args.oracle)
      OBVIOUS
    <3>2. run.script = "deploy" \/ (run.pc = 3 /\ Begins(run.script, "FilswanOracle"))
      BY <1>1, <1>2, <3>1 DEF Sound
    <3>3. QED
      BY <1>1, <3>2 DEF Known, ScriptKnown, First
  <2>2. Step.call \in Upgrades => Is("implementation", run.args.code)
    <3>1. SUFFICES ASSUME Step.call \in Upgrades PROVE Is("implementation", run.args.code)
      OBVIOUS
    <3>2. run.pc = 2 /\ Begins(run.script, "implementation")
      BY <1>1, <1>2, <3>1 DEF Sound
    <3>3. QED
      BY <1>1, <3>2 DEF Known, ScriptKnown, First
  <2>3. ASSUME NEW i \in 1 .. Len(pool')
        PROVE  /\ pool'[i].call = "SwanPayment" => Is("FilswanOracle", pool'[i].args.oracle)
               /\ pool'[i].call \in Upgrades => Is("implementation", pool'[i].args.code)
    <3>1. CASE i \in 1 .. Len(pool)
      BY <1>4, <3>1 DEF Known, PoolKnown
    <3>2. CASE i = Len(pool) + 1
      BY <1>4, <2>1, <2>2, <3>2
    <3>3. QED
      BY <1>3, <1>4, <3>1, <3>2
  <2>4. QED
    BY <1>3, <2>3 DEF PoolKnown, Is
<1>7. ScriptKnown'
  <2>1. run.script = "deploy" => Step.call # "FilswanOracle"
    BY <1>1, <1>2 DEF Sound
  <2>2. run.script = "deploy" => Is("FilswanOracle", run'.args.oracle)
    BY <1>1, <1>4, <2>1 DEF Known, ScriptKnown
  <2>3. ASSUME NEW kind \in {"FilswanOracle", "implementation"}, Begins(run.script, kind)
        PROVE  \/ Is(kind, First(kind)')
               \/ /\ run'.pc = 2 /\ run'.awaits # 0 /\ run'.awaits = First(kind)'
                  /\ Comes(kind, First(kind))'
    <3>1. CASE run.pc = 1
      <4>1. kind \in Calls
        BY CallTypes
      <4>2. Step = Await(kind)
        BY <1>1, <2>3, <3>1 DEF Begins
      <4>3. Step.call = kind /\ Step.does = "await"
        BY <4>2 DEF Await
      <4>4. First(kind)' = NextAddress /\ run'.awaits = NextAddress
        BY <1>4, <4>3 DEF First
      <4>5. Comes(kind, First(kind))'
        BY <1>3, <1>4, <4>3, <4>4 DEF Comes
      <4>6. QED
        BY <1>2, <1>3, <1>4, <3>1, <4>4, <4>5
    <3>2. CASE run.pc # 1
      <4>1. Step.call \notin {"FilswanOracle", "implementation"}
        BY <1>1, <1>2, <3>2 DEF Sound
      <4>2. First(kind)' = First(kind)
        BY <1>4, <4>1 DEF First
      <4>3. Is(kind, First(kind))
        BY <1>1, <1>2, <2>3, <3>2 DEF Known, ScriptKnown
      <4>4. QED
        BY <4>2, <4>3
    <3>3. QED
      BY <3>1, <3>2
  <2>4. QED
    BY <1>3, <1>4, <2>2, <2>3 DEF ScriptKnown, Is, Begins
<1>8. PaymentsKnowTheirOracle' /\ UpgradedToCode'
  BY <1>3 DEF Known, PaymentsKnowTheirOracle, UpgradedToCode
<1>9. QED
  BY <1>5, <1>6, <1>7, <1>8 DEF Known

LEMMA KnownAwaited ==
    ASSUME TypeOK, Known, Awaited
    PROVE  Known'
<1>1. /\ ~Idle /\ run \in Runs /\ run.awaits \in 1 .. Len(mined)
      /\ mined[run.awaits].kind # "reverted"
      /\ run' = [run EXCEPT !.awaits = 0] /\ UNCHANGED <<mined, pool>>
  BY RunTypes DEF Awaited, chain
<1>2. run'.script = run.script /\ run'.pc = run.pc /\ run'.args = run.args
  BY <1>1 DEF Runs
<1>3. PrintedKnown'
  <2>1. \/ printed' = [printed EXCEPT ![mined[run.awaits].kind] = @ \cup {run.awaits}]
        \/ UNCHANGED printed
    BY DEF Awaited, Printed
  <2>2. ASSUME NEW a \in printed'["FilswanOracle"] PROVE Is("FilswanOracle", a)
    <3>1. a \in printed["FilswanOracle"]
             \/ (a = run.awaits /\ mined[run.awaits].kind = "FilswanOracle")
      BY <2>1, <2>2 DEF TypeOK, Kinds
    <3>2. QED
      BY <1>1, <3>1 DEF Known, PrintedKnown, Is
  <2>3. QED
    BY <1>1, <2>2 DEF PrintedKnown, Is
<1>4. ScriptKnown'
  <2>1. ASSUME NEW kind \in {"FilswanOracle", "implementation"}, Begins(run.script, kind),
               run.pc >= 2
        PROVE  Is(kind, First(kind))
    BY <1>1, <2>1 DEF Known, ScriptKnown, Comes, Is
  <2>2. QED
    BY <1>1, <1>2, <2>1 DEF Known, ScriptKnown, First, Is, Begins
<1>5. QED
  BY <1>1, <1>3, <1>4 DEF Known, PoolKnown, PaymentsKnowTheirOracle, UpgradedToCode, Is

LEMMA KnownLooked ==
    ASSUME TypeOK, Known, ReadOnly \/ CallStatic \/ Poll
    PROVE  Known'
<1>1. UNCHANGED <<mined, pool, printed>>
  BY DEF ReadOnly, CallStatic, Poll, chain
<1>2. /\ AtStep("read") /\ run'.script = run.script /\ run'.awaits = run.awaits
      /\ run'.args = run.args /\ run'.pc \in {run.pc, run.pc + 1}
  BY Looked
<1>3. /\ run.awaits = 0 /\ ~Idle /\ Step = Program(run.script)[run.pc] /\ Step.does = "read"
      /\ run.pc \in Nat \ {0}
  BY <1>2, StepTypesAt, RunTypes
<1>4. ASSUME NEW kind \in {"FilswanOracle", "implementation"}, Begins(run.script, kind),
             run'.pc >= 2
      PROVE  Is(kind, First(kind))
  <2>1. run.pc # 1
    BY <1>3, <1>4 DEF Begins, Await
  <2>2. run.pc >= 2
    BY <1>3, <2>1
  <2>3. QED
    BY <1>3, <1>4, <2>2 DEF Known, ScriptKnown
<1>5. ScriptKnown'
  BY <1>1, <1>2, <1>3, <1>4 DEF Known, ScriptKnown, First, Is, Begins
<1>6. QED
  BY <1>1, <1>5, KnownQuiet

LEMMA KnownMined ==
    ASSUME TypeOK, Known, Mine \/ Revert
    PROVE  Known'
<1>1. /\ Len(mined) \in Nat /\ Len(pool) \in Nat /\ Len(pool') \in Nat
      /\ Len(mined') = Len(mined) + 1 /\ Len(pool') + 1 = Len(pool)
      /\ UNCHANGED <<printed, run>>
  BY LengthTypes, Mined
<1>2. \A p \in 1 .. Len(mined) : mined'[p].kind = mined[p].kind
  BY Mined
<1>3. Grows
  BY <1>1, <1>2 DEF Grows
<1>4. \A kind, a : Is(kind, a) => Is(kind, a)'
  BY <1>3, IsStays
<1>5. PrintedKnown'
  BY <1>1, <1>4 DEF Known, PrintedKnown
<1>6. PoolKnown'
  <2>1. ASSUME NEW i \in 1 .. Len(pool')
        PROVE  /\ pool'[i] = pool[i + 1] /\ i + 1 \in 1 .. Len(pool)
    BY <1>1, Mined
  <2>2. QED
    BY <1>4, <2>1 DEF Known, PoolKnown
<1>7. ScriptKnown'
  <2>1. ASSUME NEW kind \in {"FilswanOracle", "implementation"}, NEW a, Comes(kind, a)
        PROVE  Comes(kind, a)'
    <3>1. a \in 1 .. Len(mined') + Len(pool')
      BY <1>1, <2>1 DEF Comes
    <3>2. CASE a <= Len(mined)
      BY <1>1, <1>2, <2>1, <3>1, <3>2 DEF Comes
    <3>3. CASE a = Len(mined) + 1
      <4>1. pool[1].call = kind
        BY <1>1, <2>1, <3>3 DEF Comes
      <4>2. mined'[a].kind \in {kind, "reverted"}
        BY <3>3, <4>1, Mined DEF Kinds
      <4>3. QED
        BY <1>1, <3>1, <3>3, <4>2 DEF Comes
    <3>4. CASE a > Len(mined) + 1
      <4>1. pool[a - Len(mined)].call = kind
        BY <1>1, <2>1, <3>4 DEF Comes
      <4>2. pool'[a - Len(mined) - 1] = pool[a - Len(mined)]
        <5>1. a - Len(mined) - 1 \in 1 .. Len(pool')
          BY <1>1, <3>1, <3>4
        <5>2. pool'[a - Len(mined) - 1] = pool[a - Len(mined) - 1 + 1]
          BY <5>1, Mined
        <5>3. a - Len(mined) - 1 + 1 = a - Len(mined)
          BY <1>1, <3>1
        <5>4. QED
          BY <5>2, <5>3
      <4>3. a - Len(mined') = a - Len(mined) - 1
        BY <1>1, <3>1
      <4>4. QED
        BY <1>1, <3>1, <3>4, <4>1, <4>2, <4>3 DEF Comes
    <3>5. QED
      BY <1>1, <3>1, <3>2, <3>3, <3>4
  <2>2. \A kind : First(kind)' = First(kind)
    BY <1>1 DEF First
  <2>3. QED
    BY <1>1, <1>4, <2>1, <2>2 DEF Known, ScriptKnown, Idle, Begins
<1>8. PaymentsKnowTheirOracle'
  <2>1. ASSUME NEW p \in 1 .. Len(mined'), mined'[p].kind = "SwanPayment"
        PROVE  /\ mined'[p].oracle \in 1 .. Len(mined')
               /\ mined'[mined'[p].oracle].kind = "FilswanOracle"
    <3>1. CASE p \in 1 .. Len(mined)
      <4>1. mined[p].kind = "SwanPayment" /\ mined'[p].oracle = mined[p].oracle
        BY <2>1, <3>1, Mined
      <4>2. Is("FilswanOracle", mined[p].oracle)
        BY <3>1, <4>1 DEF Known, PaymentsKnowTheirOracle, Is
      <4>3. QED
        BY <1>4, <4>1, <4>2 DEF Is
    <3>2. CASE p = Len(mined) + 1
      <4>1. pool[1].call = "SwanPayment" /\ mined'[p].oracle = pool[1].args.oracle
        BY <2>1, <3>2, Mined
      <4>2. Is("FilswanOracle", pool[1].args.oracle)
        BY <1>1, <4>1 DEF Known, PoolKnown
      <4>3. QED
        BY <1>4, <4>1, <4>2 DEF Is
    <3>3. QED
      BY <1>1, <3>1, <3>2
  <2>2. QED
    BY <2>1 DEF PaymentsKnowTheirOracle
<1>9. UpgradedToCode'
  <2>1. ASSUME NEW p \in 1 .. Len(mined'), mined'[p].code # 0
        PROVE  /\ mined'[p].code \in 1 .. Len(mined')
               /\ mined'[mined'[p].code].kind = "implementation"
    <3>1. p \in 1 .. Len(mined)
      BY <1>1, <2>1, Mined
    <3>2. CASE mined'[p].code = mined[p].code
      <4>1. Is("implementation", mined[p].code)
        BY <2>1, <3>1, <3>2 DEF Known, UpgradedToCode, Is
      <4>2. QED
        BY <1>4, <3>2, <4>1 DEF Is
    <3>3. CASE pool[1].call \in Upgrades /\ mined'[p].code = pool[1].args.code
      <4>1. Is("implementation", pool[1].args.code)
        BY <1>1, <3>3 DEF Known, PoolKnown
      <4>2. QED
        BY <1>4, <3>3, <4>1 DEF Is
    <3>4. QED
      BY <3>1, <3>2, <3>3, Mined
  <2>2. QED
    BY <2>1 DEF UpgradedToCode
<1>10. QED
  BY <1>5, <1>6, <1>7, <1>8, <1>9 DEF Known

LEMMA KnownStep ==
    ASSUME TypeOK, Known, [Next]_vars
    PROVE  Known'
<1>1. CASE UNCHANGED <<mined, pool, printed, run>>
  BY <1>1 DEF Known, PrintedKnown, ScriptKnown, PoolKnown, PaymentsKnowTheirOracle,
              UpgradedToCode, Is, Comes, First, Idle, Begins
<1>2. ASSUME NEW s \in Scripts, Start(s) PROVE Known'
  BY <1>2, KnownStart
<1>3. CASE SendTransaction
  BY <1>3, KnownSend
<1>4. CASE Awaited
  BY <1>4, KnownAwaited
<1>5. CASE Thrown \/ Interrupted \/ Finished
  <2>1. Idle' /\ UNCHANGED <<mined, pool, printed>>
    BY <1>5 DEF Thrown, Interrupted, Finished, Leave, chain, Idle
  <2>2. QED
    BY <2>1, KnownQuiet DEF ScriptKnown
<1>6. CASE ReadOnly \/ CallStatic \/ Poll
  BY <1>6, KnownLooked
<1>7. CASE Mine \/ Revert
  BY <1>7, KnownMined
<1>8. CASE OthersRequest \/ OthersAtFaucet \/ \E id \in 1 .. MaxLink : FulfillRandomness(id)
  BY <1>1, <1>8 DEF OthersRequest, OthersAtFaucet, FulfillRandomness, chain
<1>9. CASE UNCHANGED vars
  BY <1>1, <1>9 DEF vars, chain
<1>10. QED
  BY <1>2, <1>3, <1>4, <1>5, <1>6, <1>7, <1>8, <1>9 DEF Next, Script

LEMMA KnownInit == Init => Known
<1> SUFFICES ASSUME Init PROVE Known
  OBVIOUS
<1> DEFINE payment == [Blank("SwanPayment") EXCEPT !.oracle = 1, !.filink = 2]
<1>1. /\ mined = <<Blank("FilswanOracle"), Blank("FilinkConsumer"), payment>>
      /\ pool = <<>> /\ Idle /\ printed["FilswanOracle"] = {1}
  BY DEF Init, Idle
<1>2. /\ payment.kind = "SwanPayment" /\ payment.oracle = 1 /\ payment.code = 0
      /\ Blank("FilswanOracle").kind = "FilswanOracle" /\ Blank("FilswanOracle").code = 0
      /\ Blank("FilinkConsumer").kind = "FilinkConsumer" /\ Blank("FilinkConsumer").code = 0
  BY DEF Blank
<1> HIDE DEF payment
<1>3. Len(mined) = 3 /\ mined[1] = Blank("FilswanOracle") /\ mined[2] = Blank("FilinkConsumer")
      /\ mined[3] = payment
  BY <1>1
<1>4. Is("FilswanOracle", 1)
  BY <1>2, <1>3 DEF Is
<1>5. PaymentsKnowTheirOracle /\ UpgradedToCode
  BY <1>2, <1>3, <1>4 DEF PaymentsKnowTheirOracle, UpgradedToCode, Is
<1>6. PrintedKnown /\ ScriptKnown /\ PoolKnown
  BY <1>1, <1>4 DEF PrintedKnown, ScriptKnown, PoolKnown
<1>7. QED
  BY <1>5, <1>6 DEF Known

LEMMA AlwaysKnown == Spec => []Known
<1>1. TypeOK /\ Known /\ [Next]_vars => Known'
  BY KnownStep
<1>2. QED
  BY <1>1, KnownInit, TypeCorrect, PTL DEF Spec

\* A FilinkConsumer is named only after it was sent; what names it is mined later.
FilinksSent == {a \in 1 .. Len(mined) + Len(pool) : Comes("FilinkConsumer", a)}

FilinkKnown ==
    /\ printed["FilinkConsumer"] \subseteq FilinksSent
    /\ ~Idle /\ run.args.filink # 0 => run.args.filink \in FilinksSent
    /\ \A i \in 1 .. Len(pool) : pool[i].args.filink # 0 =>
          /\ pool[i].args.filink \in FilinksSent
          /\ pool[i].args.filink < Len(mined) + i
    /\ FilinksComeFirst

\* The chain and the pool together only grow.
LEMMA FilinkComesAfterSend ==
    ASSUME TypeOK, SendTransaction
    PROVE  FilinksSent \subseteq FilinksSent'
<1> SUFFICES ASSUME NEW a \in FilinksSent PROVE a \in FilinksSent'
  OBVIOUS
<1>1. mined' = mined /\ Len(mined) \in Nat /\ Len(pool) \in Nat
  BY LengthTypes DEF SendTransaction
<1>2. Len(pool') = Len(pool) + 1 /\ \A i \in 1 .. Len(pool) : pool'[i] = pool[i]
  BY Sent
<1>3. a \in Nat /\ (a > Len(mined) => a - Len(mined) \in 1 .. Len(pool))
  BY <1>1 DEF FilinksSent, Comes
<1>4. QED
  BY <1>1, <1>2, <1>3 DEF FilinksSent, Comes

LEMMA FilinkComesAfterMine ==
    ASSUME TypeOK, Mine \/ Revert
    PROVE  FilinksSent \subseteq FilinksSent'
<1> SUFFICES ASSUME NEW a \in FilinksSent PROVE a \in FilinksSent'
  OBVIOUS
<1>0. a \in 1 .. Len(mined) + Len(pool) /\ Comes("FilinkConsumer", a)
  BY DEF FilinksSent
<1>1. /\ Len(mined) \in Nat /\ Len(pool) \in Nat /\ Len(pool') \in Nat
      /\ Len(mined') = Len(mined) + 1 /\ Len(pool') + 1 = Len(pool)
  BY LengthTypes, Mined
<1>2. a \in 1 .. Len(mined') + Len(pool') /\ a \in Nat
  BY <1>1 DEF FilinksSent, Comes
<1>3. CASE a <= Len(mined)
  BY <1>1, <1>2, <1>3, Mined DEF FilinksSent, Comes
<1>4. CASE a = Len(mined) + 1
  <2>1. pool[1].call = "FilinkConsumer"
    BY <1>1, <1>4 DEF FilinksSent, Comes
  <2>2. mined'[a].kind \in {"FilinkConsumer", "reverted"}
    BY <1>4, <2>1, Mined DEF Kinds
  <2>3. QED
    BY <1>1, <1>2, <1>4, <2>2 DEF FilinksSent, Comes
<1>5. CASE a > Len(mined) + 1
  <2> DEFINE i == a - Len(mined) - 1
  <2>1. i \in 1 .. Len(pool') /\ i + 1 = a - Len(mined) /\ a - Len(mined') = i
    BY <1>1, <1>2, <1>5
  <2>2. pool'[i] = pool[i + 1]
    BY <2>1, Mined
  <2>3. pool[a - Len(mined)].call = "FilinkConsumer"
    BY <1>1, <1>5 DEF FilinksSent, Comes
  <2>4. QED
    BY <1>1, <1>2, <1>5, <2>1, <2>2, <2>3 DEF FilinksSent, Comes
<1>6. QED
  BY <1>1, <1>2, <1>3, <1>4, <1>5

LEMMA FilinkStart ==
    ASSUME TypeOK, FilinkKnown, NEW s \in Scripts, Start(s)
    PROVE  FilinkKnown'
<1>1. UNCHANGED <<mined, pool, printed>>
  BY DEF Start, chain
<1>2. run'.args.filink \in printed["FilinkConsumer"] \cup {0}
  BY DEF Start, Named
<1>3. QED
  BY <1>1, <1>2 DEF FilinkKnown, FilinksComeFirst, FilinksSent, Comes

LEMMA FilinkSend ==
    ASSUME TypeOK, FilinkKnown, SendTransaction
    PROVE  FilinkKnown'
<1>1. /\ run.pc \in 1 .. Len(Program(run.script)) /\ ~Idle /\ Step.call \in Calls
      /\ run \in Runs
  BY StepTypesAt, RunTypes DEF SendTransaction
<1>2. /\ mined' = mined /\ Len(mined) \in Nat /\ Len(pool) \in Nat
      /\ NextAddress = Len(mined) + Len(pool) + 1
      /\ Len(pool') = Len(pool) + 1
      /\ \A i \in 1 .. Len(pool) : pool'[i] = pool[i]
      /\ pool'[Len(pool) + 1] = [call |-> Step.call, args |-> run.args]
  BY LengthTypes, Sent DEF SendTransaction, NextAddress
<1>3. run'.args.filink = IF Step.call = "FilinkConsumer" THEN NextAddress ELSE run.args.filink
  BY <1>1 DEF SendTransaction, NamedHere, Runs, Args
<1>4. Step.call = "FilinkConsumer" => NextAddress \in FilinksSent'
  <2>1. SUFFICES ASSUME Step.call = "FilinkConsumer" PROVE NextAddress \in FilinksSent'
    OBVIOUS
  <2>2. NextAddress - Len(mined') = Len(pool) + 1
    BY <1>2
  <2>3. /\ NextAddress \in 1 .. Len(mined') + Len(pool')
        /\ NextAddress > Len(mined')
        /\ pool'[NextAddress - Len(mined')].call = "FilinkConsumer"
    BY <1>2, <2>1, <2>2
  <2>4. ASSUME NEW n, n = NextAddress PROVE n \in FilinksSent'
    BY <1>2, <2>3, <2>4 DEF FilinksSent, Comes
  <2>5. QED
    BY <2>4
<1>5. FilinksSent \subseteq FilinksSent'
  BY FilinkComesAfterSend
<1>6. printed'["FilinkConsumer"] \subseteq FilinksSent'
  <2>1. printed'["FilinkConsumer"] \subseteq
           printed["FilinkConsumer"] \cup
              (IF Step.call = "FilinkConsumer" THEN {NextAddress} ELSE {})
    BY DEF SendTransaction, Printed, TypeOK, Kinds
  <2>2. QED
    BY <1>4, <1>5, <2>1 DEF FilinkKnown
<1>7. run'.args.filink # 0 => run'.args.filink \in FilinksSent'
  BY <1>1, <1>3, <1>4, <1>5 DEF FilinkKnown
<1>8. ASSUME NEW i \in 1 .. Len(pool'), pool'[i].args.filink # 0
      PROVE  /\ pool'[i].args.filink \in FilinksSent'
             /\ pool'[i].args.filink < Len(mined') + i
  <2>1. CASE i \in 1 .. Len(pool)
    BY <1>2, <1>5, <1>8, <2>1 DEF FilinkKnown
  <2>2. CASE i = Len(pool) + 1
    <3>1. run.args.filink \in FilinksSent
      BY <1>1, <1>2, <1>8, <2>2 DEF FilinkKnown
    <3>2. run.args.filink < Len(mined) + i
      BY <1>2, <2>2, <3>1 DEF FilinksSent, Comes
    <3>3. QED
      BY <1>2, <1>5, <2>2, <3>1, <3>2
  <2>3. QED
    BY <1>2, <2>1, <2>2
<1>9. FilinksComeFirst'
  BY <1>2 DEF FilinkKnown, FilinksComeFirst
<1>10. QED
  BY <1>6, <1>7, <1>8, <1>9 DEF FilinkKnown, FilinksSent, Comes

LEMMA FilinkAwaited ==
    ASSUME TypeOK, FilinkKnown, Awaited
    PROVE  FilinkKnown'
<1>1. /\ ~Idle /\ run \in Runs /\ run.awaits \in 1 .. Len(mined)
      /\ run' = [run EXCEPT !.awaits = 0] /\ UNCHANGED <<mined, pool>>
  BY RunTypes DEF Awaited, chain
<1>2. run'.args = run.args /\ Len(mined) \in Nat /\ Len(pool) \in Nat
  BY <1>1, LengthTypes DEF Runs
<1>3. printed'["FilinkConsumer"] \subseteq FilinksSent
  <2>1. ASSUME NEW a \in printed'["FilinkConsumer"]
        PROVE  \/ a \in printed["FilinkConsumer"]
               \/ a = run.awaits /\ mined[run.awaits].kind = "FilinkConsumer"
    BY DEF Awaited, Printed, TypeOK, Kinds
  <2>2. QED
    BY <1>1, <1>2, <2>1 DEF FilinkKnown, FilinksSent, Comes
<1>4. QED
  BY <1>1, <1>2, <1>3 DEF FilinkKnown, FilinksComeFirst, FilinksSent, Comes

LEMMA FilinkMined ==
    ASSUME TypeOK, FilinkKnown, Mine \/ Revert
    PROVE  FilinkKnown'
<1>1. /\ Len(mined) \in Nat /\ Len(pool) \in Nat /\ Len(pool') \in Nat
      /\ Len(mined') = Len(mined) + 1 /\ Len(pool') + 1 = Len(pool)
      /\ UNCHANGED <<printed, run>>
      /\ \A i \in 1 .. Len(pool') : pool'[i] = pool[i + 1]
  BY LengthTypes, Mined
<1>2. FilinksSent \subseteq FilinksSent'
  BY FilinkComesAfterMine
<1>3. \A i \in 1 .. Len(pool') : pool'[i].args.filink # 0 =>
          /\ pool'[i].args.filink \in FilinksSent'
          /\ pool'[i].args.filink < Len(mined') + i
  <2>1. ASSUME NEW i \in 1 .. Len(pool'), pool'[i].args.filink # 0
        PROVE  /\ pool'[i].args.filink \in FilinksSent'
               /\ pool'[i].args.filink < Len(mined') + i
    <3>1. i + 1 \in 1 .. Len(pool) /\ pool'[i] = pool[i + 1]
      BY <1>1
    <3>2. pool[i + 1].args.filink \in FilinksSent
      BY <2>1, <3>1 DEF FilinkKnown
    <3>3. pool[i + 1].args.filink < Len(mined) + (i + 1)
      BY <2>1, <3>1 DEF FilinkKnown
    <3>4. Len(mined) + (i + 1) = Len(mined') + i
      BY <1>1
    <3>5. QED
      BY <1>2, <3>1, <3>2, <3>3, <3>4
  <2>2. QED
    BY <2>1
<1>4. FilinksComeFirst'
  <2>1. ASSUME NEW a \in 1 .. Len(mined), mined[a].kind \in {"FilinkConsumer", "reverted"}
        PROVE  /\ a \in 1 .. Len(mined')
               /\ mined'[a].kind \in {"FilinkConsumer", "reverted"}
    BY <1>1, <2>1, Mined
  <2>2. ASSUME pool[1].args.filink # 0
        PROVE  /\ pool[1].args.filink \in 1 .. Len(mined)
               /\ mined[pool[1].args.filink].kind \in {"FilinkConsumer", "reverted"}
    <3>1. 1 \in 1 .. Len(pool)
      BY <1>1
    <3>2. /\ pool[1].args.filink \in FilinksSent
          /\ pool[1].args.filink < Len(mined) + 1
      BY <2>2, <3>1 DEF FilinkKnown
    <3>3. QED
      BY <1>1, <3>2 DEF FilinksSent, Comes
  <2>3. ASSUME NEW p \in 1 .. Len(mined'), mined'[p].filink # 0
        PROVE  \E a \in 1 .. Len(mined) :
                  /\ mined'[p].filink = a
                  /\ mined[a].kind \in {"FilinkConsumer", "reverted"}
    <3>1. CASE p \in 1 .. Len(mined)
      <4>1. mined'[p].filink \in {mined[p].filink, pool[1].args.filink}
        BY <3>1, Mined
      <4>2. QED
        BY <2>2, <2>3, <3>1, <4>1 DEF FilinkKnown, FilinksComeFirst
    <3>2. CASE p = Len(mined) + 1
      <4>1. mined'[p].filink = pool[1].args.filink
        BY <2>3, <3>2, Mined
      <4>2. QED
        BY <2>2, <2>3, <4>1
    <3>3. QED
      BY <1>1, <3>1, <3>2
  <2>4. QED
    BY <2>1, <2>3 DEF FilinksComeFirst
<1>5. printed'["FilinkConsumer"] \subseteq FilinksSent'
  BY <1>1, <1>2 DEF FilinkKnown
<1>6. ~Idle' /\ run'.args.filink # 0 => run'.args.filink \in FilinksSent'
  BY <1>1, <1>2 DEF FilinkKnown, Idle
<1>7. QED
  BY <1>3, <1>4, <1>5, <1>6 DEF FilinkKnown, FilinksSent, Comes

LEMMA FilinkStep ==
    ASSUME TypeOK, FilinkKnown, [Next]_vars
    PROVE  FilinkKnown'
<1>1. CASE UNCHANGED <<mined, pool, printed, run>>
  BY <1>1 DEF FilinkKnown, FilinksComeFirst, FilinksSent, Comes, Idle
<1>2. ASSUME NEW s \in Scripts, Start(s) PROVE FilinkKnown'
  BY <1>2, FilinkStart
<1>3. CASE SendTransaction
  BY <1>3, FilinkSend
<1>4. CASE Awaited
  BY <1>4, FilinkAwaited
<1>5. CASE Thrown \/ Interrupted \/ Finished
  <2>1. Idle' /\ UNCHANGED <<mined, pool, printed>>
    BY <1>5 DEF Thrown, Interrupted, Finished, Leave, chain, Idle
  <2>2. QED
    BY <2>1 DEF FilinkKnown, FilinksComeFirst, FilinksSent, Comes
<1>6. CASE ReadOnly \/ CallStatic \/ Poll
  <2>1. UNCHANGED <<mined, pool, printed>> /\ ~Idle
    BY <1>6 DEF ReadOnly, CallStatic, Poll, chain, AtStep
  <2>2. run'.args = run.args
    BY <1>6, Looked
  <2>3. QED
    BY <2>1, <2>2 DEF FilinkKnown, FilinksComeFirst, FilinksSent, Comes
<1>7. CASE Mine \/ Revert
  BY <1>7, FilinkMined
<1>8. CASE OthersRequest \/ OthersAtFaucet \/ \E id \in 1 .. MaxLink : FulfillRandomness(id)
  BY <1>1, <1>8 DEF OthersRequest, OthersAtFaucet, FulfillRandomness, chain
<1>9. CASE UNCHANGED vars
  BY <1>1, <1>9 DEF vars, chain
<1>10. QED
  BY <1>2, <1>3, <1>4, <1>5, <1>6, <1>7, <1>8, <1>9 DEF Next, Script

LEMMA FilinkInit == Init => FilinkKnown
<1> SUFFICES ASSUME Init PROVE FilinkKnown
  OBVIOUS
<1> DEFINE payment == [Blank("SwanPayment") EXCEPT !.oracle = 1, !.filink = 2]
<1>1. /\ mined = <<Blank("FilswanOracle"), Blank("FilinkConsumer"), payment>>
      /\ pool = <<>> /\ Idle /\ printed["FilinkConsumer"] = {2}
  BY DEF Init, Idle
<1>2. /\ payment.filink = 2 /\ Blank("FilswanOracle").filink = 0
      /\ Blank("FilinkConsumer").filink = 0 /\ Blank("FilinkConsumer").kind = "FilinkConsumer"
  BY DEF Blank
<1> HIDE DEF payment
<1>3. /\ Len(mined) = 3 /\ Len(pool) = 0
      /\ mined[1] = Blank("FilswanOracle") /\ mined[2] = Blank("FilinkConsumer")
      /\ mined[3] = payment
  BY <1>1
<1>4. FilinksComeFirst
  BY <1>2, <1>3 DEF FilinksComeFirst
<1>5. 2 \in FilinksSent
  BY <1>2, <1>3 DEF FilinksSent, Comes
<1>6. QED
  BY <1>1, <1>3, <1>4, <1>5 DEF FilinkKnown

\* Whatever is interrupted or reverted, and however many scripts are run: every payment
\* contract was made with an oracle that is on the chain (mumbai-dev/deploy.js:18-23), no
\* proxy runs code that was never deployed (upgrade.js:14, upgrade-dao.js:16), and what an
\* oracle or a payment keeps as its FilinkConsumer is one, or the address of one whose
\* deployment reverted (mumbai-dev/deploy.js:35-39 does not await it).
THEOREM NamesKnown == Spec => []NamesDeployed
<1>1. TypeOK /\ FilinkKnown /\ [Next]_vars => FilinkKnown'
  BY FilinkStep
<1>2. Spec => []FilinkKnown
  BY <1>1, FilinkInit, TypeCorrect, PTL DEF Spec
<1>3. Known /\ FilinkKnown => NamesDeployed
  BY DEF Known, FilinkKnown, NamesDeployed
<1>4. QED
  BY <1>2, <1>3, AlwaysKnown, PTL
-----------------------------------------------------------------------------
(* Scripts that configure an oracle.                                        *)

Settings == {"mumbai-dev/set-chainlink", "set-dao", "mumbai-dev/set-dao"}

\* The script has set what it is for.
IsSet ==
    /\ run.script = "mumbai-dev/set-chainlink" =>
          mined[run.args.oracle].filink = run.args.filink
    /\ List(run.script) # None => /\ mined[run.args.oracle].dao = run.args.list
                                  /\ run.args.list \in mined[run.args.oracle].roles

\* The transaction such a script waits for is the last one on its way, so nothing that an
\* earlier script left behind is mined after it.
SettingKnown ==
    ~Idle /\ run.script \in Settings =>
      /\ Is("FilswanOracle", run.args.oracle)
      /\ run.awaits # 0 => run.pc >= 2 /\ run.awaits = Len(mined) + Len(pool)
      /\ run.pc >= 2 /\ run.awaits = 0 => pool = <<>> /\ IsSet
      /\ run.pc = 2 /\ run.awaits # 0 =>
            IF pool = <<>> THEN IsSet \/ mined[run.awaits].kind = "reverted"
            ELSE pool[Len(pool)] = [call |-> Program(run.script)[1].call, args |-> run.args]
      /\ run.pc >= 3 /\ run.awaits # 0 =>
            /\ IsSet
            /\ pool = <<>> \/ (Len(pool) = 1 /\ pool[1].call = "setChainlinkOracle")

\* A script has no exit code before it ends.
ExitKnown == ~Idle => exit = None

LEMMA SettingPrograms ==
    /\ \A s \in Settings : Len(Program(s)) = 2
    /\ Program("mumbai-dev/set-chainlink")[1] = Await("setFilinkOracle")
    /\ Program("mumbai-dev/set-chainlink")[2] = Await("setChainlinkOracle")
    /\ \A s \in {"set-dao", "mumbai-dev/set-dao"} :
          Program(s)[1] = Await("setDAOUsers") /\ Program(s)[2] = Read("hasRole")
<1>1. /\ Program("mumbai-dev/set-chainlink")
           = <<Await("setFilinkOracle"), Await("setChainlinkOracle")>>
      /\ Program("set-dao") = <<Await("setDAOUsers"), Read("hasRole")>>
      /\ Program("mumbai-dev/set-dao") = <<Await("setDAOUsers"), Read("hasRole")>>
  BY DEF Program, SetChainlink, SetDao, SetDaoDev
<1>2. QED
  BY <1>1 DEF Settings

\* The steps of these scripts.
LEMMA SettingSteps ==
    ASSUME TypeOK, ~Idle, run.script \in Settings, run.pc <= Len(Program(run.script))
    PROVE  /\ run.pc \in {1, 2}
           /\ run.pc = 1 => Step.does = "await" /\ Step.call \in {"setFilinkOracle", "setDAOUsers"}
           /\ run.pc = 2 => \/ Step.does = "await" /\ Step.call = "setChainlinkOracle"
                            \/ Step.does = "read"
<1>1. run.pc \in {1, 2}
  <2>1. Len(Program(run.script)) = 2
    BY SettingPrograms
  <2>2. run.pc \in Nat \ {0}
    BY RunTypes
  <2>3. QED
    BY <2>1, <2>2
<1>2. CASE run.script = "mumbai-dev/set-chainlink"
  BY <1>1, <1>2, SettingPrograms DEF Step, Await
<1>3. CASE run.script \in {"set-dao", "mumbai-dev/set-dao"}
  BY <1>1, <1>3, SettingPrograms DEF Step, Await, Read
<1>4. QED
  BY <1>2, <1>3, <1>1 DEF Settings

\* Its transaction is mined: the oracle is set.
LEMMA SettingMined ==
    ASSUME TypeOK, ~Idle, run.script \in Settings, Is("FilswanOracle", run.args.oracle), Mine,
           pool[1] = [call |-> Program(run.script)[1].call, args |-> run.args]
    PROVE  IsSet'
<1> DEFINE a == run.args
           to == run.args.oracle
<1>1. /\ mined \in Seq(Contracts) /\ to \in 1 .. Len(mined) /\ to \in Nat
      /\ mined[to] \in Contracts /\ a \in Args
  BY LengthTypes, RunTypes DEF Is
<1>2. run' = run /\ mined' = After(pool[1]) /\ pool[1].args = a
  <2>1. Head(pool) = pool[1]
    BY Mined
  <2>2. QED
    BY <2>1 DEF Mine
<1>3. CASE run.script = "mumbai-dev/set-chainlink"
  <2> DEFINE new == [mined[to] EXCEPT !.filink = a.filink]
  <2>1. pool[1].call = "setFilinkOracle"
    BY <1>3, SettingPrograms DEF Await
  <2>2. mined' = Change(to, new)
    BY <1>2, <2>1 DEF After
  <2>3. new \in Contracts /\ new.filink = a.filink
    BY <1>1 DEF Contracts, Args
  <2> HIDE DEF new
  <2>4. mined'[to] = new
    BY <1>1, <2>2, <2>3, Replaced
  <2>5. List(run.script) = None
    BY <1>3 DEF List
  <2>6. QED
    BY <1>2, <2>3, <2>4, <2>5 DEF IsSet
<1>4. CASE run.script \in {"set-dao", "mumbai-dev/set-dao"}
  <2> DEFINE new == [mined[to] EXCEPT !.dao = a.list, !.roles = @ \cup {a.list}]
  <2>1. pool[1].call = "setDAOUsers"
    BY <1>4, SettingPrograms DEF Await
  <2>2. mined' = Change(to, new)
    BY <1>2, <2>1 DEF After
  <2>3. new \in Contracts /\ new.dao = a.list /\ a.list \in new.roles
    BY <1>1 DEF Contracts, Args
  <2> HIDE DEF new
  <2>4. mined'[to] = new
    <3>1. \A t \in 1 .. Len(mined) : t = to => Change(t, new)[t] = new
      <4>1. \A t \in 1 .. Len(mined) : t \in Nat
        BY <1>1, LengthTypes
      <4>2. QED
        BY <1>1, <2>3, <4>1, Replaced
    <3>2. QED
      BY <1>1, <2>2, <3>1
  <2>5. QED
    BY <1>2, <1>4, <2>3, <2>4 DEF IsSet
<1>5. QED
  BY <1>3, <1>4 DEF Settings

LEMMA SettingChain ==
    ASSUME TypeOK, SettingKnown, Mine \/ Revert
    PROVE  SettingKnown'
<1>1. /\ Len(mined) \in Nat /\ Len(pool) \in Nat /\ Len(pool') \in Nat
      /\ Len(mined') = Len(mined) + 1 /\ Len(pool') + 1 = Len(pool) /\ run' = run
      /\ pool # <<>> /\ pool \in Seq(Transactions) /\ pool' \in Seq(Transactions)
      /\ \A i \in 1 .. Len(pool') : pool'[i] = pool[i + 1]
  BY LengthTypes, Mined
<1>2. Grows
  BY <1>1, Mined DEF Grows
<1> SUFFICES ASSUME ~Idle, run.script \in Settings
             PROVE  /\ Is("FilswanOracle", run.args.oracle)'
                    /\ run.awaits # 0 =>
                          run.pc >= 2 /\ run.awaits = Len(mined') + Len(pool')
                    /\ run.pc >= 2 /\ run.awaits = 0 => pool' = <<>> /\ IsSet'
                    /\ run.pc = 2 /\ run.awaits # 0 =>
                          IF pool' = <<>> THEN IsSet' \/ mined'[run.awaits].kind = "reverted"
                          ELSE pool'[Len(pool')]
                                 = [call |-> Program(run.script)[1].call, args |-> run.args]
                    /\ run.pc >= 3 /\ run.awaits # 0 =>
                          /\ IsSet'
                          /\ pool' = <<>> \/ (Len(pool') = 1 /\ pool'[1].call = "setChainlinkOracle")
  BY <1>1 DEF SettingKnown, Idle
<1>3. Is("FilswanOracle", run.args.oracle) /\ Is("FilswanOracle", run.args.oracle)'
  <2>1. Is("FilswanOracle", run.args.oracle)
    BY DEF SettingKnown
  <2>2. PICK a : a = run.args.oracle
    OBVIOUS
  <2>3. Is("FilswanOracle", a)'
    BY <1>2, <2>1, <2>2, IsStays
  <2>4. QED
    BY <1>1, <2>1, <2>2, <2>3
<1>4. run.awaits # 0 => run.pc >= 2 /\ run.awaits = Len(mined') + Len(pool')
  <2>1. run.awaits # 0 => run.pc >= 2 /\ run.awaits = Len(mined) + Len(pool)
    BY DEF SettingKnown
  <2>2. Len(mined') + Len(pool') = Len(mined) + Len(pool)
    BY <1>1
  <2>3. QED
    BY <2>1, <2>2
<1>5. ~(run.pc >= 2 /\ run.awaits = 0)
  BY <1>1 DEF SettingKnown
<1>6. ASSUME run.pc = 2, run.awaits # 0
      PROVE  IF pool' = <<>> THEN IsSet' \/ mined'[run.awaits].kind = "reverted"
             ELSE pool'[Len(pool')] = [call |-> Program(run.script)[1].call, args |-> run.args]
  <2>1. pool[Len(pool)] = [call |-> Program(run.script)[1].call, args |-> run.args]
    BY <1>1, <1>6 DEF SettingKnown
  <2>2. CASE pool' # <<>>
    <3>1. Len(pool') \in 1 .. Len(pool') /\ Len(pool') + 1 = Len(pool)
      BY <1>1, <2>2
    <3>2. QED
      BY <1>1, <2>1, <2>2, <3>1
  <2>3. CASE pool' = <<>>
    <3>1. Len(pool) = 1 /\ run.awaits = Len(mined) + 1
      BY <1>1, <1>4, <1>6, <2>3
    <3>2. CASE Mine
      BY <1>3, <2>1, <2>3, <3>1, <3>2, SettingMined
    <3>3. CASE Revert
      <4>1. mined' = Append(mined, Blank("reverted"))
        BY <3>3 DEF Revert
      <4>2. Blank("reverted") \in Contracts /\ Blank("reverted").kind = "reverted"
        BY BlankType
      <4>3. mined'[Len(mined) + 1] = Blank("reverted")
        BY <4>1, <4>2, LengthTypes, Appended
      <4>4. QED
        BY <2>3, <3>1, <4>2, <4>3
    <3>4. QED
      BY <3>2, <3>3
  <2>4. QED
    BY <2>2, <2>3
<1>7. ASSUME run.pc >= 3, run.awaits # 0 PROVE IsSet' /\ pool' = <<>>
  <2>1. IsSet /\ Len(pool) = 1 /\ pool[1].call = "setChainlinkOracle"
    BY <1>1, <1>7 DEF SettingKnown
  <2>2. pool' = <<>>
    BY <1>1, <2>1
  <2>3. \E new \in Contracts : mined' = Append(mined, new)
    <3>1. Blank("reverted") \in Contracts /\ Blank("call") \in Contracts
      BY BlankType
    <3>2. CASE Revert
      BY <3>1, <3>2 DEF Revert
    <3>3. CASE Mine
      <4>1. mined' = After(pool[1])
        BY <3>3, Mined DEF Mine
      <4>2. After(pool[1]) = Append(mined, Blank("call"))
        BY <2>1 DEF After
      <4>3. QED
        BY <3>1, <4>1, <4>2
    <3>4. QED
      BY <3>2, <3>3
  <2>4. run.args.oracle \in 1 .. Len(mined)
    BY <1>3 DEF Is
  <2>5. mined'[run.args.oracle] = mined[run.args.oracle]
    BY <2>3, <2>4, LengthTypes, Appended
  <2>6. QED
    BY <1>1, <2>1, <2>2, <2>5 DEF IsSet
<1>8. QED
  BY <1>3, <1>4, <1>5, <1>6, <1>7

LEMMA SettingSend ==
    ASSUME TypeOK, SettingKnown, SendTransaction
    PROVE  SettingKnown'
<1>1. /\ run.pc \in Nat /\ run.pc <= Len(Program(run.script)) /\ run.awaits = 0 /\ ~Idle
      /\ Step.does \in {"send", "await"} /\ run.args \in Args
  <2>1. AtStep("send") \/ AtStep("await")
    BY DEF SendTransaction
  <2>2. QED
    BY <2>1, StepTypesAt, RunTypes DEF AtStep
<1>2. /\ mined' = mined /\ Len(mined) \in Nat /\ Len(pool) \in Nat
      /\ NextAddress = Len(mined) + Len(pool) + 1 /\ pool \in Seq(Transactions)
  BY LengthTypes DEF SendTransaction, NextAddress
<1>3. /\ run'.script = run.script /\ run'.pc = run.pc + 1
      /\ run'.awaits = IF Step.does = "await" THEN NextAddress ELSE 0
      /\ run'.args = NamedHere(NextAddress)
      /\ Len(pool') = Len(pool) + 1
      /\ pool'[Len(pool) + 1] = [call |-> Step.call, args |-> run.args]
  BY Sent
<1> SUFFICES ASSUME run.script \in Settings PROVE SettingKnown'
  BY <1>3 DEF SettingKnown
<1>4. /\ run.pc \in {1, 2} /\ Step.does = "await"
      /\ run.pc = 1 => Step.call \in {"setFilinkOracle", "setDAOUsers"}
      /\ run.pc = 2 => Step.call = "setChainlinkOracle"
  BY <1>1, SettingSteps
<1>5. run'.args = run.args
  <2>1. Step.call \notin {"FilswanOracle", "FilinkConsumer", "implementation"}
    BY <1>4
  <2>2. PICK a \in Args : a = run.args
    BY <1>1
  <2>3. NamedHere(NextAddress)
          = [a EXCEPT !.oracle = a.oracle, !.filink = a.filink, !.code = a.code]
    BY <2>1, <2>2 DEF NamedHere
  <2>4. [a EXCEPT !.oracle = a.oracle, !.filink = a.filink, !.code = a.code] = a
    BY DEF Args
  <2>5. QED
    BY <1>3, <2>2, <2>3, <2>4
<1>6. pool' # <<>> /\ run'.awaits = Len(mined') + Len(pool') /\ run'.awaits # 0
  BY <1>2, <1>3, <1>4
<1>7. Is("FilswanOracle", run.args.oracle)'
  BY <1>1, <1>2, <1>5 DEF SettingKnown, Is
<1>8. CASE run.pc = 1
  <2>1. run'.pc = 2
    BY <1>3, <1>8
  <2>2. pool'[Len(pool')] = [call |-> Program(run.script)[1].call, args |-> run.args]
    BY <1>3, <1>8 DEF Step
  <2>3. QED
    BY <1>3, <1>5, <1>6, <1>7, <2>1, <2>2 DEF SettingKnown
<1>9. CASE run.pc = 2
  <2>1. run'.pc = 3
    BY <1>3, <1>9
  <2>2. pool = <<>> /\ IsSet
    BY <1>1, <1>9 DEF SettingKnown
  <2>3. Len(pool') = 1 /\ pool'[1].call = "setChainlinkOracle"
    BY <1>3, <1>4, <1>9, <2>2
  <2>4. IsSet'
    BY <1>2, <1>3, <1>5, <2>2 DEF IsSet
  <2>5. QED
    BY <1>6, <1>7, <2>1, <2>3, <2>4 DEF SettingKnown
<1>10. QED
  BY <1>4, <1>8, <1>9

LEMMA SettingAwaited ==
    ASSUME TypeOK, SettingKnown, Awaited
    PROVE  SettingKnown'
<1>1. /\ ~Idle /\ run \in Runs /\ run.awaits \in 1 .. Len(mined)
      /\ mined[run.awaits].kind # "reverted"
      /\ run' = [run EXCEPT !.awaits = 0] /\ UNCHANGED <<mined, pool>>
      /\ Len(mined) \in Nat /\ Len(pool) \in Nat /\ pool \in Seq(Transactions)
  BY RunTypes, LengthTypes DEF Awaited, chain
<1>2. run'.script = run.script /\ run'.pc = run.pc /\ run'.args = run.args /\ run'.awaits = 0
      /\ run.pc \in Nat
  BY <1>1 DEF Runs
<1> SUFFICES ASSUME run.script \in Settings PROVE SettingKnown'
  BY <1>2 DEF SettingKnown
<1>3. Is("FilswanOracle", run.args.oracle) /\ run.pc >= 2 /\ run.awaits # 0
      /\ run.awaits = Len(mined) + Len(pool)
  BY <1>1 DEF SettingKnown
<1>4. pool = <<>>
  BY <1>1, <1>3
<1>5. IsSet
  BY <1>1, <1>2, <1>3, <1>4 DEF SettingKnown
<1>6. IsSet' /\ Is("FilswanOracle", run.args.oracle)'
  BY <1>1, <1>2, <1>3, <1>5 DEF IsSet, Is
<1>7. QED
  BY <1>1, <1>2, <1>4, <1>6 DEF SettingKnown

LEMMA SettingLooked ==
    ASSUME TypeOK, SettingKnown, ReadOnly \/ CallStatic \/ Poll
    PROVE  SettingKnown'
<1>1. UNCHANGED <<mined, pool>>
  BY DEF ReadOnly, CallStatic, Poll, chain
<1>2. /\ AtStep("read") /\ run'.script = run.script /\ run'.awaits = run.awaits
      /\ run'.args = run.args /\ run'.pc \in {run.pc, run.pc + 1}
  BY Looked
<1>3. /\ run.awaits = 0 /\ ~Idle /\ Step.does = "read" /\ run.pc \in Nat \ {0}
      /\ run.pc <= Len(Program(run.script))
  BY <1>2, StepTypesAt, RunTypes DEF AtStep
<1> SUFFICES ASSUME run.script \in Settings PROVE SettingKnown'
  BY <1>2 DEF SettingKnown
<1>4. run.pc = 2
  BY <1>3, SettingSteps
<1>5. pool = <<>> /\ IsSet /\ Is("FilswanOracle", run.args.oracle)
  BY <1>3, <1>4 DEF SettingKnown
<1>6. IsSet' /\ Is("FilswanOracle", run.args.oracle)'
  BY <1>1, <1>2, <1>5 DEF IsSet, Is
<1>7. QED
  BY <1>1, <1>2, <1>3, <1>5, <1>6 DEF SettingKnown

LEMMA SettingStart ==
    ASSUME TypeOK, Known, NEW s \in Scripts, Start(s)
    PROVE  SettingKnown'
<1>1. mined' = mined
  BY DEF Start, chain
<1>2. /\ run'.script = s /\ run'.pc = 1 /\ run'.awaits = 0
      /\ run'.args.oracle \in Named("FilswanOracle", s)
  BY Started
<1>3. s \in Settings => Is("FilswanOracle", run'.args.oracle)
  BY <1>2 DEF Named, Names, Settings, Known, PrintedKnown
<1>4. QED
  BY <1>1, <1>2, <1>3 DEF SettingKnown, Is

LEMMA SettingStep ==
    ASSUME TypeOK, Known, SettingKnown, ExitKnown, [Next]_vars
    PROVE  SettingKnown' /\ ExitKnown'
<1>1. CASE UNCHANGED <<mined, pool, run, exit>>
  BY <1>1 DEF SettingKnown, IsSet, Is, Idle, ExitKnown
<1>2. ASSUME NEW s \in Scripts, Start(s) PROVE SettingKnown' /\ ExitKnown'
  BY <1>2, SettingStart DEF Start, ExitKnown
<1>3. CASE SendTransaction
  BY <1>3, SettingSend, StepTypesAt DEF SendTransaction, ExitKnown
<1>4. CASE Awaited
  BY <1>4, SettingAwaited DEF Awaited, ExitKnown
<1>5. CASE Thrown \/ Interrupted \/ Finished
  BY <1>5 DEF Thrown, Interrupted, Finished, Leave, Idle, SettingKnown, ExitKnown
<1>6. CASE ReadOnly \/ CallStatic \/ Poll
  <2>1. ~Idle /\ exit' = exit
    BY <1>6, StepTypesAt DEF ReadOnly, CallStatic, Poll
  <2>2. QED
    BY <1>6, <2>1, SettingLooked DEF ExitKnown
<1>7. CASE Mine \/ Revert
  <2>1. UNCHANGED <<run, exit>>
    BY <1>7 DEF Mine, Revert
  <2>2. QED
    BY <1>7, <2>1, SettingChain DEF ExitKnown, Idle
<1>8. CASE OthersRequest \/ OthersAtFaucet \/ \E id \in 1 .. MaxLink : FulfillRandomness(id)
  BY <1>1, <1>8 DEF OthersRequest, OthersAtFaucet, FulfillRandomness, chain
<1>9. CASE UNCHANGED vars
  BY <1>1, <1>9 DEF vars, chain
<1>10. QED
  BY <1>2, <1>3, <1>4, <1>5, <1>6, <1>7, <1>8, <1>9 DEF Next, Script

\* A script ends well only when it is through.
LEMMA EndsWell ==
    ASSUME TypeOK, ExitKnown, [Next]_vars, ~Idle, exit' = 0
    PROVE  Finished
<1>1. exit = None /\ None # 0
  BY ScriptsAssumption DEF ExitKnown
<1>2. ~\E s \in Scripts : Start(s)
  BY DEF Start
<1>3. ~Thrown /\ ~Interrupted
  BY DEF Thrown, Interrupted, Leave
<1>4. exit' # exit
  BY <1>1
<1>5. /\ ~SendTransaction /\ ~Awaited /\ ~ReadOnly /\ ~CallStatic /\ ~Poll /\ ~Mine /\ ~Revert
      /\ ~OthersRequest /\ ~OthersAtFaucet /\ ~UNCHANGED vars
      /\ ~\E id \in 1 .. MaxLink : FulfillRandomness(id)
  BY <1>4 DEF SendTransaction, Awaited, ReadOnly, CallStatic, Poll, Mine, Revert, OthersRequest,
              OthersAtFaucet, FulfillRandomness, vars
<1>6. QED
  BY <1>2, <1>3, <1>5 DEF Next, Script

\* Whatever earlier scripts left on its way, and whatever is reverted: a script that configures
\* an oracle and ends with exit code 0 has done it (mumbai-dev/set-chainlink.js:19-27,
\* set-dao.js:21-22).
THEOREM ConfiguredWell == Spec => ConfiguredOnExit
<1>1. SettingKnown /\ ExitKnown /\ TypeOK /\ [Next]_vars
        => [~Idle /\ run' = None /\ exit' = 0 =>
              /\ run.script = "mumbai-dev/set-chainlink" =>
                    mined[run.args.oracle].filink = run.args.filink
              /\ List(run.script) # None => /\ mined[run.args.oracle].dao = run.args.list
                                            /\ run.args.list \in mined[run.args.oracle].roles]_vars
  <2> SUFFICES ASSUME SettingKnown, ExitKnown, TypeOK, [Next]_vars, ~Idle, exit' = 0
               PROVE  IsSet
    BY DEF IsSet
  <2>1. run.awaits = 0 /\ run.pc > Len(Program(run.script))
    BY EndsWell DEF Finished
  <2>2. CASE run.script \in Settings
    <3>1. run.pc \in Nat /\ Len(Program(run.script)) = 2
      BY <2>2, SettingPrograms, RunTypes
    <3>2. QED
      BY <2>1, <2>2, <3>1 DEF SettingKnown
  <2>3. CASE run.script \notin Settings
    BY <2>3 DEF IsSet, Settings, List
  <2>4. QED
    BY <2>2, <2>3
<1>2. Init => SettingKnown /\ ExitKnown
  BY DEF Init, SettingKnown, ExitKnown, Idle
<1>3. Spec => [](SettingKnown /\ ExitKnown)
  <2>1. TypeOK /\ Known /\ (SettingKnown /\ ExitKnown) /\ [Next]_vars
          => (SettingKnown /\ ExitKnown)'
    BY SettingStep
  <2>2. QED
    BY <1>2, <2>1, TypeCorrect, AlwaysKnown, PTL DEF Spec
<1>4. QED
  BY <1>1, <1>3, TypeCorrect, PTL DEF Spec, ConfiguredOnExit
=============================================================================

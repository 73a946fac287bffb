--------------------------- MODULE OnChainScripts ---------------------------
(***************************************************************************)
(* The hardhat scripts of src/on-chain/scripts: an operator runs them by   *)
(* hand, one after the other, with one key.  A script sends transactions,  *)
(* some of which it awaits; the chain mines them in the order of their     *)
(* nonces, or reverts them.  A script that ends early, is interrupted or   *)
(* does not await leaves transactions behind that are mined while the next *)
(* script runs.  The addresses a script prints are written into the next   *)
(* scripts by hand ("todo: change address").                               *)
(***************************************************************************)
EXTENDS Naturals, Sequences, FiniteSets

CONSTANTS Accounts, Tokens, WaitTime, Funds, MaxTime,    \* of the faucet
          Deployer,     \* hardhat's first signer
          Admin2,       \* the second admin of faucet-set-admin.js
          Receiver,     \* the address faucet-run.js serves
          None,
          Scripts,      \* the scripts that are run
          MainDao, DevDao,  \* the DAO users of set-dao.js and mumbai-dev/set-dao.js
          MaxRuns,      \* bound on the scripts run
          MaxReverts,   \* bound on the transactions that run out of gas
          MaxPolls,     \* 12: how often vrf-run.js looks for its number
          MaxLink       \* LINK of the VRF consumer, in fees

\* The scripts of the directory.
ScriptNames ==
    {"deploy", "chainlink-deploy", "set-dao", "check-dao-status", "upgrade", "upgrade-dao",
     "mumbai-dev/deploy", "mumbai-dev/chainlink-deploy", "mumbai-dev/set-chainlink",
     "mumbai-dev/set-dao", "mumbai-dev/upgrade", "mumbai-dev/upgrade-dao", "faucet-deploy",
     "faucet-set-admin", "faucet-run", "mint-token", "lock-script", "unlock-script",
     "unlock-car-script", "sign-transaction", "oracle", "deploy-token", "vrf-deploy", "vrf-run"}

ASSUME ScriptsAssumption ==
    /\ Scripts \subseteq ScriptNames
    /\ {Deployer, Admin2, Receiver} \subseteq Accounts
    /\ WaitTime \in Nat \ {0} /\ None # 0
    /\ {Funds, MaxRuns, MaxPolls, MaxLink} \subseteq Nat

VARIABLES mined,    \* sequence: what each transaction left; its index is the
                    \* nonce, and the address when it created a contract
          pool,     \* sent and not mined, in nonce order
          printed,  \* the addresses printed so far, by kind of contract
          run,      \* the script that runs
          exit,     \* exit code of the last script
          runs,     \* scripts started
          vrf,      \* SwanVRFConsumer: requests made, numbers drawn, LINK left
          timestamp, nextAccessTime, isAdmin, balance, received

chain == <<mined, pool, vrf>>
faucet == <<timestamp, nextAccessTime, isAdmin, balance, received>>
vars == <<mined, pool, printed, run, exit, runs, vrf, faucet>>

Faucet == INSTANCE SwanFaucet WITH Owner <- Deployer

Kinds == {"FilswanOracle", "FilinkConsumer", "SwanPayment"}

-----------------------------------------------------------------------------
(* What each script does: transactions it awaits or only sends, and reads.  *)

Calls ==
    Kinds \cup {"implementation", "upgradePayment", "upgradeOracle", "upgradeFaucet",
                "setFilinkOracle", "setChainlinkOracle", "setDAOUsers", "setAdmin",
                "sendMultiTokens", "mintUSDC", "mintWFIL", "approve", "unlockTokenPayment",
                "unlockCarPayment", "signTransaction", "updatePaymentInfo", "SwanVRFConsumer",
                "getRandomNumber", "hasRole", "getCarPaymentVotes", "getPair", "callStatic", "poll"}

Await(call) == [call |-> call, does |-> "await"]
Send(call)  == [call |-> call, does |-> "send"]
Read(call)  == [call |-> call, does |-> "read"]
Misfit(call) == [call |-> call, does |-> "throw"]

\* Bug: the oracle is not awaited either.
DeployAllAtOnce == <<Send("FilswanOracle"), Send("FilinkConsumer"), Await("SwanPayment")>>

DeployAll == <<Await("FilswanOracle"), Send("FilinkConsumer"), Await("SwanPayment")>>

\* The oracle's deployment is commented out: the payment gets printed addresses.
DeployPayment == <<Await("SwanPayment")>>

ChainlinkDeploy == <<Send("FilinkConsumer")>>

\* mumbai-dev/chainlink-deploy.js does the same.
ChainlinkDeployDev == ChainlinkDeploy

\* Bug: like faucet-set-admin.js, it does not wait.
SetChainlinkSend == <<Send("setFilinkOracle"), Send("setChainlinkOracle")>>

SetChainlink == <<Await("setFilinkOracle"), Await("setChainlinkOracle")>>

SetDao == <<Await("setDAOUsers"), Read("hasRole")>>

\* The same for the list of the development network.
SetDaoDev == SetDao

\* It asks with two arguments for what FilswanOracle.sol takes three: ethers throws.
CheckDaoStatus == <<Misfit("getCarPaymentVotes")>>

\* upgradeProxy awaits the new implementation and sends the upgrade.
UpgradePayment == <<Await("implementation"), Send("upgradePayment")>>

UpgradeDao == <<Await("implementation"), Send("upgradeOracle")>>

\* The scripts of mumbai-dev differ in the address.
UpgradePaymentDev == UpgradePayment

UpgradeDaoDev == UpgradeDao

FaucetDeploy == <<Await("implementation"), Send("upgradeFaucet")>>

FaucetSetAdmin == <<Send("setAdmin")>>

FaucetRun == <<Await("sendMultiTokens")>>

MintToken == <<Send("mintUSDC"), Send("mintWFIL")>>

\* The lock itself is commented out: only the allowance is left.
LockScript == <<Send("approve")>>

UnlockScript == <<Await("unlockTokenPayment")>>

\* These two still have the arguments and the name of an earlier contract:
\* ethers cannot encode the call.
UnlockCarScript == <<Misfit("unlockCarPayment")>>

SignTransaction == <<Misfit("signTransaction")>>

\* Reports to a FilecoinOracle, the oracle before FilswanOracle.
Oracle == <<Await("updatePaymentInfo")>>

DeployToken == <<Read("getPair")>>

VrfDeploy == <<Send("SwanVRFConsumer")>>

VrfRun == <<Read("callStatic"), Await("getRandomNumber"), Read("poll")>>

Program(s) ==
    CASE s = "deploy" -> DeployPayment
      [] s = "chainlink-deploy" -> ChainlinkDeploy
      [] s = "set-dao" -> SetDao
      [] s = "check-dao-status" -> CheckDaoStatus
      [] s = "upgrade" -> UpgradePayment
      [] s = "upgrade-dao" -> UpgradeDao
      [] s = "mumbai-dev/deploy" -> DeployAll
      [] s = "mumbai-dev/chainlink-deploy" -> ChainlinkDeployDev
      [] s = "mumbai-dev/set-chainlink" -> SetChainlink
      [] s = "mumbai-dev/set-dao" -> SetDaoDev
      [] s = "mumbai-dev/upgrade" -> UpgradePaymentDev
      [] s = "mumbai-dev/upgrade-dao" -> UpgradeDaoDev
      [] s = "faucet-deploy" -> FaucetDeploy
      [] s = "faucet-set-admin" -> FaucetSetAdmin
      [] s = "faucet-run" -> FaucetRun
      [] s = "mint-token" -> MintToken
      [] s = "lock-script" -> LockScript
      [] s = "unlock-script" -> UnlockScript
      [] s = "unlock-car-script" -> UnlockCarScript
      [] s = "sign-transaction" -> SignTransaction
      [] s = "oracle" -> Oracle
      [] s = "deploy-token" -> DeployToken
      [] s = "vrf-deploy" -> VrfDeploy
      [] s = "vrf-run" -> VrfRun

-----------------------------------------------------------------------------

Idle == run = None
Step == Program(run.script)[run.pc]
AtStep(does) ==
    ~Idle /\ run.awaits = 0 /\ run.pc <= Len(Program(run.script)) /\ Step.does = does

\* The address ethers knows a contract by before it is mined.
NextAddress == Len(mined) + Len(pool) + 1

\* A contract when it is deployed, or the trace of any other transaction.
Blank(kind) ==
    [kind |-> kind, oracle |-> 0, filink |-> 0, dao |-> None, roles |-> {}, code |-> 0]

\* The lists of DAO users; an oracle grants a role to every user of a list it is
\* given and takes none away.
Lists == {MainDao, DevDao, None}

Contracts == [kind : Kinds \cup {"implementation", "call", "reverted"},
              oracle : Nat, filink : Nat, dao : Lists, roles : SUBSET Lists, code : Nat]

Args == [oracle : Nat, filink : Nat, payment : Nat, list : Lists, code : Nat]

Runs == [script : Scripts, pc : Nat \ {0}, awaits : Nat, args : Args, request : Nat,
         polls : 0 .. MaxPolls]

TypeOK ==
    /\ mined \in Seq(Contracts)
    /\ pool \in Seq([call : Calls, args : Args])
    /\ printed \in [Kinds -> SUBSET (1 .. Len(mined) + Len(pool))]
    /\ Idle \/ /\ run \in Runs
               /\ run.pc <= Len(Program(run.script)) + 1
               /\ run.awaits <= Len(mined) + Len(pool)
    /\ exit \in {None, 0, 1} /\ runs \in 0 .. MaxRuns
    /\ vrf \in [requests : Nat, numbers : SUBSET Nat, link : 0 .. MaxLink]
    /\ vrf.numbers \subseteq 1 .. vrf.requests
    /\ Faucet!FaucetTypeOK

\* The addresses in the scripts are those of a first deployment; its faucet and
\* VRF consumer are there as well.
Init ==
    /\ mined = <<Blank("FilswanOracle"), Blank("FilinkConsumer"),
                 [Blank("SwanPayment") EXCEPT !.oracle = 1, !.filink = 2]>>
    /\ printed = [FilswanOracle |-> {1}, FilinkConsumer |-> {2}, SwanPayment |-> {3}]
    /\ pool = <<>>
    /\ run = None /\ exit = None /\ runs = 0
    /\ vrf = [requests |-> 0, numbers |-> {}, link |-> MaxLink]
    /\ Faucet!FaucetInit

-----------------------------------------------------------------------------
(* The operator and the script.                                             *)

\* The scripts that name an oracle, a FilinkConsumer, a payment: the operator
\* writes one of the printed addresses into them.
Names(kind) ==
    CASE kind = "FilswanOracle" ->
            {"deploy", "set-dao", "check-dao-status", "upgrade-dao", "mumbai-dev/set-chainlink",
             "mumbai-dev/set-dao", "mumbai-dev/upgrade-dao"}
      [] kind = "FilinkConsumer" -> {"deploy", "mumbai-dev/set-chainlink"}
      [] kind = "SwanPayment" -> {"mumbai-dev/set-chainlink", "upgrade", "mumbai-dev/upgrade",
                                  "lock-script", "unlock-script"}

List(s) == CASE s = "set-dao" -> MainDao [] s = "mumbai-dev/set-dao" -> DevDao [] OTHER -> None
Named(kind, s) == IF s \in Names(kind) THEN printed[kind] ELSE {0}

Start(s) ==
    /\ Idle /\ runs < MaxRuns
    /\ \E args \in [oracle : Named("FilswanOracle", s), filink : Named("FilinkConsumer", s),
                    payment : Named("SwanPayment", s), list : {List(s)}, code : {0}] :
           run' = [script |-> s, pc |-> 1, awaits |-> 0, args |-> args,
                   request |-> 0, polls |-> 0]
    /\ runs' = runs + 1 /\ exit' = None
    /\ UNCHANGED <<chain, printed, faucet>>

Printed(kind, address) == printed' = [printed EXCEPT ![kind] = @ \cup {address}]

\* What is deployed here, at address a, is named by the steps that follow.
NamedHere(a) ==
    [run.args EXCEPT !.oracle = IF Step.call = "FilswanOracle" THEN a ELSE @,
                     !.filink = IF Step.call = "FilinkConsumer" THEN a ELSE @,
                     !.code = IF Step.call = "implementation" THEN a ELSE @]

\* The address of a FilinkConsumer is printed at once.
SendTransaction ==
    /\ AtStep("send") \/ AtStep("await")
    /\ pool' = Append(pool, [call |-> Step.call, args |-> run.args])
    /\ run' = [run EXCEPT !.pc = @ + 1,
                          !.awaits = IF Step.does = "await" THEN NextAddress ELSE 0,
                          !.args = NamedHere(NextAddress)]
    /\ IF Step.call = "FilinkConsumer" THEN Printed("FilinkConsumer", NextAddress)
       ELSE UNCHANGED printed
    /\ UNCHANGED <<mined, exit, runs, vrf, faucet>>

\* deployed() or wait() comes back with the receipt: the address is printed.
Awaited ==
    /\ ~Idle /\ run.awaits \in 1 .. Len(mined)
    /\ LET kind == mined[run.awaits].kind
       IN /\ kind # "reverted"
          /\ IF kind \in Kinds THEN Printed(kind, run.awaits) ELSE UNCHANGED printed
    /\ run' = [run EXCEPT !.awaits = 0]
    /\ UNCHANGED <<chain, exit, runs, faucet>>

Leave(code) ==
    /\ run' = None /\ exit' = code
    /\ UNCHANGED <<chain, printed, runs, faucet>>

\* wait() throws, or callStatic when the consumer has no LINK, or a call does not
\* fit its contract: main's catch exits with 1.
Thrown ==
    /\ \/ ~Idle /\ run.awaits \in 1 .. Len(mined) /\ mined[run.awaits].kind = "reverted"
       \/ AtStep("read") /\ Step.call = "callStatic" /\ vrf.link = 0
       \/ AtStep("throw")
    /\ Leave(1)

\* A call refused while its gas is estimated, a lost connection, a Ctrl-C.
Interrupted == ~Idle /\ Leave(1)

Finished == ~Idle /\ run.awaits = 0 /\ run.pc > Len(Program(run.script)) /\ Leave(0)

Advance == run' = [run EXCEPT !.pc = @ + 1]

\* Reads that decide nothing: hasRole, a pair's address.
ReadOnly ==
    /\ AtStep("read") /\ Step.call \notin {"callStatic", "poll"}
    /\ Advance
    /\ UNCHANGED <<chain, printed, exit, runs, faucet>>

\* vrf-run.js asks which request its call would make; the contract refuses when
\* it has no LINK.
CallStatic ==
    /\ AtStep("read") /\ Step.call = "callStatic"
    /\ vrf.link >= 1
    /\ run' = [run EXCEPT !.pc = @ + 1, !.request = vrf.requests + 1]
    /\ UNCHANGED <<chain, printed, exit, runs, faucet>>

\* Bug: it looks once more.
PollOnceMore ==
    /\ AtStep("read") /\ Step.call = "poll"
    /\ IF run.request \in vrf.numbers \/ run.polls > MaxPolls THEN Advance
       ELSE run' = [run EXCEPT !.polls = @ + 1]
    /\ UNCHANGED <<chain, printed, exit, runs, faucet>>

\* It looks for the number every ten seconds, twelve times at most.
Poll ==
    /\ AtStep("read") /\ Step.call = "poll"
    /\ IF run.request \in vrf.numbers \/ run.polls = MaxPolls THEN Advance
       ELSE run' = [run EXCEPT !.polls = @ + 1]
    /\ UNCHANGED <<chain, printed, exit, runs, faucet>>

-----------------------------------------------------------------------------
(* The chain.                                                               *)

\* A proxy, or nothing when the address is none.
Change(to, new) == Append([mined EXCEPT ![to] = new], Blank("call"))

\* What a mined call leaves of the contracts.  setChainlinkOracle assigns its
\* parameter to itself: it changes nothing.
After(tx) ==
    LET a == tx.args
    IN CASE tx.call = "FilswanOracle" -> Append(mined, Blank("FilswanOracle"))
         [] tx.call = "FilinkConsumer" -> Append(mined, Blank("FilinkConsumer"))
         [] tx.call = "implementation" -> Append(mined, Blank("implementation"))
         [] tx.call = "SwanPayment" -> Append(mined, [Blank("SwanPayment") EXCEPT
                                         !.oracle = a.oracle, !.filink = a.filink])
         [] tx.call = "setFilinkOracle" ->
                Change(a.oracle, [mined[a.oracle] EXCEPT !.filink = a.filink])
         [] tx.call = "setDAOUsers" ->
                Change(a.oracle, [mined[a.oracle] EXCEPT !.dao = a.list, !.roles = @ \cup {a.list}])
         [] tx.call = "upgradeOracle" ->
                Change(a.oracle, [mined[a.oracle] EXCEPT !.code = a.code])
         [] tx.call = "upgradePayment" ->
                Change(a.payment, [mined[a.payment] EXCEPT !.code = a.code])
         [] OTHER -> Append(mined, Blank("call"))

\* What it leaves of the faucet; FALSE when the faucet refuses it.
OfFaucet(call) ==
    CASE call = "setAdmin" -> Faucet!SetAdmin(Deployer, Admin2)
      [] call = "sendMultiTokens" -> Faucet!SendMultiTokens(Deployer, Receiver)
      [] OTHER -> UNCHANGED faucet

\* What it leaves of the VRF consumer, which pays a fee for each request.
Requested == [vrf EXCEPT !.requests = @ + 1, !.link = @ - 1]

OfVrf(call) ==
    IF call = "getRandomNumber" THEN vrf.link >= 1 /\ vrf' = Requested
    ELSE UNCHANGED vrf

Mine ==
    /\ pool # <<>>
    /\ mined' = After(Head(pool)) /\ pool' = Tail(pool)
    /\ OfFaucet(Head(pool).call) /\ OfVrf(Head(pool).call)
    /\ UNCHANGED <<printed, run, exit, runs>>

Refused(call) ==
    \/ /\ call = "sendMultiTokens"
       /\ Deployer \in isAdmin => ~Faucet!allowedToWithdraw(Receiver)
    \/ call = "getRandomNumber" /\ vrf.link = 0
    \/ call \in {"unlockTokenPayment", "updatePaymentInfo"}

\* It runs out of gas, or the contract requires what is not so: unlock-script.js
\* names a payment that may be locked or not, oracle.js a signer that may be a DAO
\* user or not.
Revert ==
    /\ pool # <<>>
    /\ \/ Refused(Head(pool).call)
       \/ Cardinality({a \in 1 .. Len(mined) : mined[a].kind = "reverted"}) < MaxReverts
    /\ mined' = Append(mined, Blank("reverted")) /\ pool' = Tail(pool)
    /\ UNCHANGED <<printed, run, exit, runs, vrf, faucet>>

\* Somebody else asks the consumer for a number.
OthersRequest ==
    /\ vrf.link >= 1 /\ vrf' = Requested
    /\ UNCHANGED <<mined, pool, printed, run, exit, runs, faucet>>

\* The coordinator answers a request, or never does.
FulfillRandomness(id) ==
    /\ id \in (1 .. vrf.requests) \ vrf.numbers
    /\ vrf' = [vrf EXCEPT !.numbers = @ \cup {id}]
    /\ UNCHANGED <<mined, pool, printed, run, exit, runs, faucet>>

\* What happens to the faucet without the scripts.
OthersAtFaucet ==
    /\ (\E a \in Accounts : Faucet!SendMultiTokens(Admin2, a)) \/ Faucet!Tick
    /\ UNCHANGED <<chain, printed, run, exit, runs>>

Script == SendTransaction \/ Awaited \/ Thrown \/ Finished \/ ReadOnly \/ CallStatic \/ Poll

Next ==
    \/ \E s \in Scripts : Start(s)
    \/ Script \/ Interrupted
    \/ Mine \/ Revert
    \/ OthersRequest \/ \E id \in 1 .. MaxLink : FulfillRandomness(id)
    \/ OthersAtFaucet

Spec == Init /\ [][Next]_vars

-----------------------------------------------------------------------------
(* Properties.                                                              *)

\* Every payment contract was initialized with an oracle that is on the chain,
\* whatever was reverted or interrupted when it was deployed: mumbai-dev/deploy.js:18-23
\* awaits the oracle before it names it, and an address is printed only then.
PaymentsKnowTheirOracle ==
    \A p \in 1 .. Len(mined) : mined[p].kind = "SwanPayment" =>
        mined[p].oracle \in 1 .. Len(mined) /\ mined[mined[p].oracle].kind = "FilswanOracle"

\* No proxy runs code that was never deployed: an implementation is awaited
\* before the proxy is moved to it (upgrade.js:14, upgrade-dao.js:16).
UpgradedToCode ==
    \A p \in 1 .. Len(mined) : mined[p].code # 0 =>
        mined[p].code \in 1 .. Len(mined) /\ mined[mined[p].code].kind = "implementation"

\* A script that configures an oracle and ends well has done it, though scripts
\* interrupted before may have left transactions that set something else
\* (mumbai-dev/set-chainlink.js:19-27, set-dao.js:21-22).
ConfiguredOnExit ==
    [][~Idle /\ run' = None /\ exit' = 0 =>
          /\ run.script = "mumbai-dev/set-chainlink" =>
                mined[run.args.oracle].filink = run.args.filink
          /\ List(run.script) # None => /\ mined[run.args.oracle].dao = run.args.list
                                        /\ run.args.list \in mined[run.args.oracle].roles]_vars

\* An address gets at most a portion of each token a day (SwanFaucet.sol:50-65).
OnePortionPerDay == Faucet!OnePortionPerDay

\* What a contract keeps as its FilinkConsumer is never another contract and
\* never an address of the future: it was printed before, and transactions are
\* mined in the order of their nonces.
FilinksComeFirst ==
    \A p \in 1 .. Len(mined) : mined[p].filink # 0 =>
        /\ mined[p].filink \in 1 .. Len(mined)
        /\ mined[mined[p].filink].kind \in {"FilinkConsumer", "reverted"}

\* The oracle a payment names and the code a proxy runs were deployed; the
\* FilinkConsumer an oracle or a payment names was, or its deployment reverted
\* (mumbai-dev/deploy.js:35 and chainlink-deploy.js do not await it).
NamesDeployed == PaymentsKnowTheirOracle /\ UpgradedToCode /\ FilinksComeFirst

\* Every FilinkConsumer that is named was deployed.  The code does not keep this:
\* mumbai-dev/deploy.js:37-39 prints and names an address whose deployment it
\* does not await, and which may revert.
FilinksDeployed ==
    \A p \in 1 .. Len(mined) : mined[p].filink # 0 =>
        mined[mined[p].filink].kind = "FilinkConsumer"
=============================================================================

SPECIFICATION Spec
CONSTANTS
    deployer = deployer
    receiver = receiver
    Accounts = {deployer, receiver}
    Deployer = deployer
    Admin2 = receiver
    Receiver = receiver
    Tokens = {"NATIVE", "USDC"}
    WaitTime = 1
    Funds = 2
    MaxTime = 1
    None = None
    Scripts = {"deploy", "chainlink-deploy", "set-dao", "check-dao-status", "upgrade",
               "upgrade-dao", "mumbai-dev/deploy", "mumbai-dev/chainlink-deploy",
               "mumbai-dev/set-chainlink", "mumbai-dev/set-dao", "mumbai-dev/upgrade",
               "mumbai-dev/upgrade-dao", "faucet-deploy", "faucet-set-admin", "faucet-run",
               "mint-token", "lock-script", "unlock-script", "deploy-token", "vrf-deploy",
               "vrf-run", "unlock-car-script", "sign-transaction", "oracle"}
    MainDao = "main"
    DevDao = "dev"
    MaxRuns = 2
    MaxReverts = 1
    MaxPolls = 1
    MaxLink = 1
CHECK_DEADLOCK FALSE
INVARIANTS
    TypeOK
    NamesDeployed
    OnePortionPerDay
PROPERTIES
    ConfiguredOnExit

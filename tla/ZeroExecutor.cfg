SPECIFICATION ExecSpec
CONSTANTS
  weth = weth
  usdc = usdc
  uni = uni
  sushi = sushi
  deployer = deployer
  Token = {weth, usdc}
  NoToken = NoToken
  Router = {uni, sushi}
  SushiRouter = sushi
  Pool = Pool
  Vault = {vault}
  NoVault = NoVault
  Account = {deployer, keeper}
  Owner = deployer
  Plans <- MCPlans
  Amounts = {0, 1}
  Premiums = {0, 1}
  StepLimits = {1, 9}
  Supply = 3
INVARIANTS
  ExecTypeOK
  NoStandingAllowance
  RunStateClear
  MinimumProfitKept
PROPERTIES
  OnlyAllowedTokensMove
  ImplementsTreasury

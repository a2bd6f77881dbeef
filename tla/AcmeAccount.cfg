SPECIFICATION FairSpec
CONSTANTS
    Puppet = Puppet
    admin = admin
    Runs = {Puppet, admin}
    None = None
    File = File
    Blank = Blank
    MaxKeys = 5
    MaxKills = 1
    MaxMoves = 1
INVARIANTS TypeOK AccountBehindGuard OneAccount
PROPERTIES ImplementsAccounts GuardSettles

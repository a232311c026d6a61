SPECIFICATION FairSpec
CONSTANTS
    Runners = {r1, r2}
    Probers = {h1}
    Threshold = 2
    Cooldown = 2
    MaxLag = 1
INVARIANTS
    CooldownServed
PROPERTIES
    Reopens
    Recovers

SPECIFICATION FairSpec
CONSTANTS
    Hash = {h1, h2}
    NoHash = NoHash
    Writer = {w1}
    Callback = {c1}
    Delay = 3
    MaxLag = 1
    MaxStall = 2
INVARIANTS ChangeIsAwaited
   

CONSTANTS
    b1 = b1
    b2 = b2
    dir = dir
    base = base
    im1 = im1
    im2 = im2
    mine = mine
    Temporary = Temporary
    Default = Default
    Nowhere = Nowhere
    Builds = {b1, b2}
    Scenarios <- ReusedDirectory
    Repo <- Checkout
    Reserved <- ReservedTargets
    Credentials = {"key"}
    Directories = {dir}
    Images = {im1, im2}
    Held <- HeldAtFirst
    MaxDepth = 2
    MaxEdits = 1
    MaxFaults = 1
SPECIFICATION Spec
INVARIANT NothingElseGoesIn
CHECK_DEADLOCK FALSE

SPECIFICATION FairSpec
CONSTANTS
    k1 = k1
    k2 = k2
    x = x
    y = y
    z = z
    NoContent = NoContent
    NoBytes = NoBytes
    Zeroed = Zeroed
    Clients = {c1, c2, c3}
    Uploaders = {c1}
    Downloaders = {c2, c3}
    Groups = {g1, g2}
    Contents <- TwoContents
    Data <- TwoPieces
    NumPieces = 2
    MaxRetries = 2
    MaxUploads = 2
    MaxQueries = 2
    MaxUpsets = 1
CHECK_DEADLOCK FALSE
INVARIANTS TypeOK ListedServes 
PROPERTIES HonestSuffices

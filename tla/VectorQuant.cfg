SPECIFICATION FairSpec
CONSTANTS
    None = None
    clip = clip
    text = text
    req1 = req1
    Vectors <- ThreeVectors
    Setters <- Siblings
    SetterOf <- ClipAndText
    DimOf <- LastDiffers
    MinVectors = 1
    MaxPasses = 2
    Requests <- OneRequest
    MaxUpsets = 2
INVARIANTS
    QuantsAreSound
PROPERTIES
    BatchesConverge

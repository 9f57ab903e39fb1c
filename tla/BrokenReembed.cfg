SPECIFICATION Spec
CONSTANTS
    Units = {u1, u2}
    Embedders <- MCEmbedders
    ModelId <- MCModelId
    Dim <- MCDim
    Unloaded <- MCUnloaded
    LocalId = "minilm"
    LegacyDim = 1
    BatchSize = 2
    NoModel = "no model"
    NoVec = "no vector"
INVARIANT PureAfterBrokenReembed

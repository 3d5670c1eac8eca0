CONSTANTS
    ByteValues = 8
    Width = 3
    Field = 37
    Order = 5
    MontgomeryA = 8
    Hash <- ToyHash
    Salts = 128
    KeyStrings <- ToyKeys
    Randoms = {1, 2, 4}
    Indices = {1, 5}
SPECIFICATION CoinSpec
CHECK_DEADLOCK FALSE
INVARIANTS
    CoinTypeOK
    SecretOpensCoin
    ImageOfCoin
    DigestHasPoint
    DerivedKeysMatch

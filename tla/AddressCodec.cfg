\* Every address class, network and body; texts of up to 26 characters.
SPECIFICATION Spec
CONSTANTS
    KeyHashSize = 1
    Word = 1024
    Groups = 2
    MaxTextLength = 26
    MCHeaderTypes = {1, 2, 4, 7, 8, 14}
    MCHeaderNets = {0, 5}
    MCBytes = {0, 5, 128, 255}
    MCMaxBody = 5
    Hashes <- MCHashes
    Texts <- MCTexts
PROPERTIES
    SameAddressAgain
    SameTextAgain
    
\* A rejected text is not looked at again.
CHECK_DEADLOCK FALSE

SPECIFICATION Spec
CONSTANTS
    Top = 3
    Owners = {0, 1, 2}
    Words = {"w1", "w2", "w3"}
    HashOf <- SmallHashOf
    Texts <- SmallTexts
PROPERTIES ImplementsProfiles ActionsEnd

SPECIFICATION Spec
CONSTANTS
    Abs <- MCAbs
    Rel <- MCRel
    Walk <- MCWalk
    Under <- MCUnder
    Suffix <- MCSuffix
    Codes <- MCCodes
    NameOf <- MCNameOf
    Contents <- MCContents
    Outside = "outside"
    Unread = Unread
    Gone = Gone
    MaxEdits = 0
    MaxFaults = 0
INVARIANT CleanRunFinishes

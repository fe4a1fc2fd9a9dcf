CONSTANTS
    Checks <- MCChecks
    Optional <- MCOptional
    Threshold <- CheckThreshold
    Worlds <- MCWorlds
    Reading <- CheckReading
    MaxFaults = 1
SPECIFICATION FairSpec
INVARIANTS TypeOK ErrorMeansMailOwed
PROPERTIES MailsAreTrue FounderKnows

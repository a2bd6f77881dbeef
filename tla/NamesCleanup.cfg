SPECIFICATION Spec
CONSTANTS
    Letters <- Alphabet
    Titles <- SomeTitles
    Stamps <- OneStamp
INVARIANT CleanupFindsAll
PROPERTY CleanupSparesOthers

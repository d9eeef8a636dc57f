SPECIFICATION MCSpec
CONSTANTS
    MaxTries = 2
    Answers = {TRUE, FALSE}
INVARIANT NodeHasItsFiles
PROPERTIES LaunchEnds LacksOnlyWhatFailed

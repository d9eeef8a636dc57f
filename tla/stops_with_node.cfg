SPECIFICATION MCSpec
CONSTANTS
    MaxTries = 2
    Answers = {FALSE}
PROPERTIES StopsWithNode

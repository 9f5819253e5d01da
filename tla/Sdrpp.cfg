SPECIFICATION FairSpec
CONSTANT
    MaxCommands = 3

    
PROPERTIES
    
    CommandReturns

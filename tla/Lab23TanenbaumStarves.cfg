SPECIFICATION FairSpec
CONSTANT N = 5
PROPERTY NoStarvation

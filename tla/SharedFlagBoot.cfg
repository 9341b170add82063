SPECIFICATION FairSpec
PROPERTIES
  BootValueForever

\* A reader who does nothing but press Step.
SPECIFICATION Reader
CONSTANT Null = Null
PROPERTY SteppingShowsTuples

SPECIFICATION FairSpec
CONSTANT Calls = {first, second}
INVARIANT GivesUpForAReason
PROPERTIES
  ImplementsPromise
  CallReturns

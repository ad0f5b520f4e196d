CONSTANTS
  LineLength = 4
  TextLength = 5
  Unit = 4
  Calls <- MCCalls
SPECIFICATION Spec
INVARIANTS SameAsDefinition ConvertedBack RepliesAreAccepted OptionsAsGiven

SPECIFICATION MCSpec
CONSTANTS
  MaxClicks = 3
  HastyClicks = 2
  MaxVersion = 2
  Retries = 1
  MaxFailures = 1
INVARIANT TypeOK
INVARIANT OneChain
INVARIANT CredentialsTried
PROPERTY NoQuestionTwice
PROPERTY FormComesBack
CHECK_DEADLOCK FALSE

CONSTANTS
  Intervals = {1, 2}
  Frequencies = {0, 440}
  Sticks <- MCSticks
  Horizon = 3
  NoReply = NoReply
SPECIFICATION EcuLiveSpec
INVARIANT EcuTypeOK
INVARIANT AlertInv
INVARIANT AnswerHolds
INVARIANT MotorAnswerTruthful
INVARIANT MotorMixing
PROPERTY AlertBlinks

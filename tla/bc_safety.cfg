SPECIFICATION AllSpec
CONSTANTS
  Word = 16
  DoubleWord = 128
  MaxSafeInteger = 40
  Large = 9
  FractionBase = 4
  Nonces = {0, 1, 9}
  FeeKinds = {"bcp/send"}
INVARIANTS
  ParseRecovers
  SignBytesBind
  OnlyDefaultsAreRejected
  ListsTheState
  MessagesArrive
CHECK_DEADLOCK FALSE

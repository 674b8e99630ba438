SPECIFICATION Spec
CONSTANTS
  AesKeys <- SomeAesKeys
  AesTexts <- SomeAesTexts
  AesIvs <- SomeAesIvs
  AesRounds <- SomeAesRounds
  AesAnswers <- SomeAesAnswers
  DesTexts <- SomeDesTexts
  DesKeys <- SomeDesKeys
  DesRoundNumbers <- SomeDesRounds
  DesAnswers <- SomeDesAnswers
  FileNames <- SomeFileNames
  Ext <- ExtOf
  HeaderOf <- SmallHeaders
  Originals <- SomeOriginals
  PlainTexts <- SomePlainTexts
  Letters8 <- SomeLetters
  OwnKeys <- SomeOwnKeys
  RoundNumbers <- SomeRoundNumbers
  Garbage <- SomeGarbage
INVARIANTS
  CiphersTypeOK
  CiphersAreRight
  DecryptedIsOriginal
CHECK_DEADLOCK FALSE

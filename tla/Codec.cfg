SPECIFICATION Spec
CONSTANTS
  FieldPos = {0,1,2,3,4,5,6,7,8,9,10,11,12,13,14,15}
  FieldWidths = {1,2,3,4,5,7,8,9,14,15,16,17,23,24,25,30}
  BodyLengths = {0,1,8,9,64,256,257}
  MaxChecked = 64
  DoubleFlips = {0, 9}
  GroupLists = {0,1,2,4,5}
  MaxCut = 250
  Spare = 2
INVARIANTS BitExact CmceRoundTrip ShortIsRefused FcsGuards DemandExact AcceptExact AnswerEchoes

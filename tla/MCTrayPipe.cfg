\* Two daemons and two trays, one after another.
SPECIFICATION Spec
CONSTANTS
  MaxEpochs = 2
  MaxTrays = 2
  MaxUp = 1
  MaxLag = 1
INVARIANTS TypeOK AnswersInOrder
PROPERTIES StatusRecovers RestartHappens

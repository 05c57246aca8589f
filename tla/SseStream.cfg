SPECIFICATION Spec
CONSTANT MaxLines = 3
INVARIANTS TypeOK ErrorHasCause
PROPERTIES Relayed AnswerEnds
CHECK_DEADLOCK FALSE

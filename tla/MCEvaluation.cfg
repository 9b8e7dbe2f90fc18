SPECIFICATION EvaluationSpec
CHECK_DEADLOCK FALSE
INVARIANTS
  SourcesAreExact
  ReviewerSeesAll
  FormsAreSettled
  InputIsReadWell
  GatesAreEarned
  CommandsAreSafe

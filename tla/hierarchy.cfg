\* Two Agents, one change by a user, any number of crashes.
SPECIFICATION Spec
CONSTANTS
  Planes = {c1}
  Agents = {a1, a2}
  DefaultAgent = a1
  MaxEdits = 1
INVARIANTS
  TypeOK
  SuccessIsEarned
  AttemptsAnswerEdits

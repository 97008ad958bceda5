CONSTANTS
  Prompts = {p1}
  Legacy = {}
  Resumes = {r1}
  Requests = {r1, t1}
  Processes = {a}
  None = None
SPECIFICATION Spec
INVARIANTS
  PromptedAgainMeansAnswerable
CHECK_DEADLOCK FALSE

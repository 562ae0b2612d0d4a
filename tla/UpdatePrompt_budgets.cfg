\* Short batches of every kind with three memories and four policies; long
\* ones with exchanges to drop.
CONSTANTS
  s = s
  t = t
  v = v
  w = w
  HeaderChars = 8
  Words <- MCWords
  Subjects <- MCSubjects
  NoBudget = NoBudget
  NoSubject = NoSubject
  Scenarios <- MCScenarios
  Answers <- MCAnswers
  Questions <- MCQuestions
SPECIFICATION PromptSpec
INVARIANTS
  
  ExactSubjectsShown
  ReversalsStayWhole
  AnswerFillsBudgetPinnedFirst
CHECK_DEADLOCK FALSE

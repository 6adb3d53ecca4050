SPECIFICATION Spec
CONSTANTS
  v1 = v1
  v2 = v2
  s1 = s1
  s2 = s2
  yes = yes
  no = no
  Worker = {v1,v2}
  AnswerSet = {s1, s2}
  NQuestions = 2
  Choice <- MCChoice
  Unanswered = Unanswered
  NoSet = NoSet
  Branching <- MCBranching
  Forks <- MCForks
  Given <- MCGiven
  MaxPosts = 2
  Visible <- MCVisible
INVARIANTS MarkIsEarned PlanMarkIsEarned
PROPERTIES StoreImplemented MarksSettle
CHECK_DEADLOCK FALSE

SPECIFICATION Spec
CONSTANTS
  edit = edit
  twin = twin
  retry = retry
  prompt1 = prompt1
  prompt2 = prompt2
  ending = ending
  demo = demo
  look1 = look1
  look2 = look2
  look3 = look3
  None = None
  Deliveries = {edit, twin, demo}
  Ev <- MCEv
  Verdicts <- MCVerdicts
  Before <- MCBefore
  Bucket = 2
  EveryN = 2
  JudgeEnabled = TRUE
  CanFail = TRUE
  Lowered <- MCLowered
  McpTools <- MCMcpTools
  OwnCalls <- MCOwnCalls
  RuleWords <- MCRuleWords
  TargetWords <- MCTargetWords
  IdleMinutes = None
  SafeLabel <- MCSafeLabel
  PAYLOAD_ROWS = 1
  MAX_RULE_KEYS = 40
  WEEK_ROWS = 1
  WEEK_SESSIONS = 2
  Epoch = 4
  Spend <- MCSpend
  LabelFiles <- MCLabelFiles
  Rulings <- MCRulings
  Moments = {6, 40}
INVARIANTS
  CountersNeverInflate
  NoCleanReceiptAfterADenial
  SurfacesAgree
  FiguresAreOfThisRecord
  JudgedOncePerCall
PROPERTIES
  EventsAreALedger

SPECIFICATION BotSpec
CONSTANTS
  None = None
  Transcripts = {"verification/live/12-dotenv-bypass-fixed.txt"}
  Idf <- MCIdf
  Synonyms <- MCSynonyms
  STOPWORDS = {"the", "it", "is", "do", "how"}
  BotProviders <- MCBotProviders
  BotKeys = {"gemini", "anthropic"}
  Threads = {"i1", "i2", "d1"}
  KindOf <- MCKindOf
  ana = ana
  ben = ben
  mel = mel
  bot = bot
  Openers <- MCOpeners
  Writers <- MCWriters
  Bots = {bot}
  Maintainers = {mel}
  Unnamed = Unnamed
  Texts <- MCTexts
  Checkouts = {"docs", "none"}
  Corpus <- MCCorpus
  ModelAnswers <- MCModelAnswers
  SurfaceNames = {"issue", "wiki", "issue_comment", "discussion", "discussion_comment"}
  DAILY_COMMENT_CAP = 1
  ThreadPage = 4
  DayPage = 4
  MaxActs = 2
INVARIANTS
  NeverTwiceToOnePerson
  DailyCapWithinOverlap
  NoQuestionCrowdedOut
CHECK_DEADLOCK FALSE

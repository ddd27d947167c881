SPECIFICATION FairSpec
CONSTANTS
  t1 = t1  t2 = t2  r1 = r1  r2 = r2  r3 = r3  r4 = r4
  page = page  image = image  font = font  script = script  moz = moz  alt = alt
  Nobody = Nobody
  Tab = {t1}  Req = {r1, r2}  Url = {page, image}  UA = {moz}
  TabOf <- OneTab  UrlOf <- OwnUrl  UAOf <- SameUA
  HasHeaders <- No  IsMain <- No  Denied = {}  Http = {page, image}
  MinRuleId = 1  MaxRuleId = 3
  Window = 1  Slice = 2  MaxChunk = 3  MaxResponse = 3
  Answers = {"ok"}  Cancels = {r1}  Closable = {}
  RulesFail = FALSE  Prompt = TRUE
INVARIANTS WindowRespected DeliveredInFull OneTerminalEvent CreditIsComing
PROPERTIES StreamsFlow ClientProtocol RequestsEnd
CHECK_DEADLOCK FALSE

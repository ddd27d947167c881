SPECIFICATION Spec
CONSTANTS
  t1 = t1  t2 = t2  r1 = r1  r2 = r2  r3 = r3  r4 = r4
  page = page  image = image  font = font  script = script  moz = moz  alt = alt
  Nobody = Nobody
  Tab = {t1}  Req = {r1, r2, r3, r4}  Url = {page, image, font, script}  UA = {moz, alt}
  TabOf <- OneTab  UrlOf <- OwnUrl  UAOf <- OddUA
  HasHeaders <- Yes  IsMain <- Documents  Denied = {script}  Http = {page, image, font}
  MinRuleId = 1  MaxRuleId = 3
  Window = 1  Slice = 1  MaxChunk = 1  MaxResponse = 0
  Answers = {"error"}  Cancels = {r1}  Closable = {t1}
  RulesFail = FALSE  Prompt = TRUE
INVARIANTS TypeOK RuleIdsMatch OwnHeadersRide UserAgentAgrees
CHECK_DEADLOCK FALSE

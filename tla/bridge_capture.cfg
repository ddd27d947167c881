SPECIFICATION Spec
CONSTANTS
  t1 = t1  t2 = t2  r1 = r1  r2 = r2  r3 = r3  r4 = r4
  page = page  image = image  font = font  script = script  moz = moz  alt = alt
  Nobody = Nobody
  Tab = {t1}  Req = {r1, r2, r3}  Url = {page}  UA = {moz}
  TabOf <- OneTab  UrlOf <- SameUrl  UAOf <- SameUA
  HasHeaders <- No  IsMain <- No  Denied = {}  Http = {page}
  MinRuleId = 1  MaxRuleId = 3
  Window = 1  Slice = 1  MaxChunk = 1  MaxResponse = 0
  Answers = {"ok", "redirect", "synth", "error"}  Cancels = {r1}  Closable = {}
  RulesFail = TRUE  Prompt = TRUE
INVARIANTS QueueOrWaiters NoOrphans
CHECK_DEADLOCK FALSE

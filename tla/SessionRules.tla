---------------------------- MODULE SessionRules ----------------------------
(***************************************************************************)
(* The declarativeNetRequest session rules the bridge keeps (bridge.mjs    *)
(* #installBase, #adoptUA, #allocRuleId, the updateSessionRules calls of   *)
(* #begin and #finish, and src/ext/bridge-rules.mjs).                      *)
(*                                                                         *)
(* dnr and baseUA are the browser's: ONE set of session rules for the      *)
(* extension, whatever tab asked for them.  The rest is a tab's own.       *)
(* updateSessionRules is a message to the browser: dnrOps[t] are the calls *)
(* of tab t it has not executed yet, oldest first.                         *)
(***************************************************************************)
EXTENDS Requests

CONSTANTS
  MinRuleId, MaxRuleId  \* BRIDGE_RULE.PER_REQUEST_MIN_ID and _MAX_ID

ASSUME RuleIdAssumption ==
  /\ MinRuleId \in Nat \ {0}
  /\ MaxRuleId \in Nat
  /\ MinRuleId + 1 < MaxRuleId

VARIABLES
  userAgent,    \* [Tab -> UA or Nobody]  Bridge.userAgent
  adopted,      \* [Tab -> BOOLEAN]       Bridge#adoptedUA
  baseInstall,  \* [Tab -> state of the promise Bridge#baseInstall]
  nextRuleId,   \* [Tab -> rule id]       Bridge#nextRuleId
  used,         \* [Tab -> set of ids]    Bridge#usedRuleIds
  dnrOps,       \* [Tab -> calls the browser has yet to execute]
  dnr,          \* the per-request rules in force
  baseUA        \* the UA the base rule sets; Nobody: it sets none, the host's rides

tabRuleVars == <<userAgent, adopted, baseInstall, nextRuleId, used>>
ruleVars == <<tabRuleVars, dnrOps, dnr, baseUA>>

RuleId == MinRuleId .. (MaxRuleId - 1)
\* A per-request rule: the request whose headers it carries, and the UA it sets,
\* Nobody if it sets none.
Rule == [id : RuleId, req : Req, ua : UA \cup {Nobody}]
\* One updateSessionRules call: (re)install the base rule with a UA, add the
\* rule of a request, or remove one.
DnrOp ==
  [op : {"base"}, ua : UA \cup {Nobody}]
    \cup [op : {"add"}, rule : Rule] \cup [op : {"remove"}, id : RuleId \cup {0}]

RulesTypeOK ==
  /\ userAgent \in [Tab -> UA \cup {Nobody}]
  /\ adopted \in [Tab -> BOOLEAN]
  /\ baseInstall \in [Tab -> {"none", "pending", "ok", "failed"}]
  /\ nextRuleId \in [Tab -> RuleId]
  /\ used \in [Tab -> SUBSET RuleId]
  /\ dnrOps \in [Tab -> Seq(DnrOp)]
  /\ dnr \subseteq Rule
  /\ baseUA \in UA \cup {Nobody}

RulesInit ==
  /\ userAgent = [t \in Tab |-> Nobody]
  /\ adopted = [t \in Tab |-> FALSE]
  /\ baseInstall = [t \in Tab |-> "none"]
  /\ nextRuleId = [t \in Tab |-> MinRuleId]
  /\ used = [t \in Tab |-> {}]
  /\ dnrOps = [t \in Tab |-> <<>>]
  /\ dnr = {}
  /\ baseUA = Nobody

\* A faulty variant: the id after the last one is given out too.
SuccInclusive(id, k) == MinRuleId + ((id - MinRuleId + k) % (MaxRuleId + 1 - MinRuleId))

\* #allocRuleId walks the ids in a circle, from the one after the last it gave
\* out, to the first that none of this tab's requests holds.
Succ(id, k) == MinRuleId + ((id - MinRuleId + k) % (MaxRuleId - MinRuleId))

\* A faulty variant: no loop, ids cycle whoever holds them.
NextRuleIdUnchecked(t, id) == id = Succ(nextRuleId[t], 1)

\* The first id after the last one given out that no request of the tab holds.
FreshRuleId(t, id) ==
  \E k \in 1 .. (MaxRuleId - MinRuleId) :
    /\ id = Succ(nextRuleId[t], k)
    /\ id \notin used[t]
    /\ \A j \in 1 .. (k - 1) : Succ(nextRuleId[t], j) \in used[t]

AllocRuleId(t, id) ==
  /\ FreshRuleId(t, id)
  /\ nextRuleId' = [nextRuleId EXCEPT ![t] = id]
  /\ used' = [used EXCEPT ![t] = @ \cup {id}]

BaseOp(ua) == [op |-> "base", ua |-> ua]
AddOp(id, r, ua) == [op |-> "add", rule |-> [id |-> id, req |-> r, ua |-> ua]]
RemoveOp(id) == [op |-> "remove", id |-> id]

\* A faulty variant: every new UA becomes the base rule's.
AdoptsAlways(t, ua) == ua # userAgent[t]

\* #adoptUA: the UA already is the base rule's; the first one the engine sent
\* becomes the base rule's; a later, different one must ride its own rule.
RidesBase(t, ua) == ua = userAgent[t] \/ ~adopted[t]
Adopts(t, ua) == ua # userAgent[t] /\ ~adopted[t]

\* The rules that match a request: their urlFilter is the URL alone, so those of
\* every request for it.  The headers that ride are theirs; for the UA, one of
\* them that sets it wins, else the base rule.
Matching(r) == {x \in dnr : UrlOf[x.req] = UrlOf[r]}

MayCarryUA(r, ua) ==
  \/ \E x \in Matching(r) : x.ua # Nobody /\ x.ua = ua
  \/ ua = baseUA /\ \A x \in Matching(r) : x.ua = Nobody
=============================================================================

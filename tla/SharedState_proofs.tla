-------------------------- MODULE SharedState_proofs --------------------------
(***************************************************************************)
(* What holds of the state that processes share outside of the database,   *)
(* for every value of the constants: components that do not touch each     *)
(* other, each with the inductive invariant its theorem needs.             *)
(***************************************************************************)
EXTENDS ToolCache, SignIn, PlaceIndex, VisibilityTimeout, SpendLedger,
        Sums, TLAPS, FiniteSetTheorems, WellFoundedInduction

-----------------------------------------------------------------------------
(* The tool cache.  What is served is fresh because what is stored fits the  *)
(* life of its kind of answer, and is stored at the age of zero.             *)

\* An entry and what is left of it fit in the life of its kind.
EntriesAge ==
    /\ store \in [CacheKeys -> [value: Answers \cup {"nothing"}, age: Nat, left: Nat]]
    /\ \A k \in CacheKeys :
          \/ store[k] = NotStored
          \/ store[k].left > 0 /\ store[k].age + store[k].left <= LifeOf(k[2], store[k].value)

CallerPlaces == {"idle", "reading", "computing", "storing", "answered"}
CallerType == [pc: CallerPlaces, key: CacheKeys \cup {<<>>}, cached: BOOLEAN,
               value: Answers, age: Nat]

\* Only a fresh answer is stored, and an empty one where the tool keeps those.
CallersHold ==
    /\ caller \in [Callers -> CallerType]
    /\ \A c \in Callers :
          /\ ~Stands(c, "idle") => caller[c].key \in CacheKeys
          /\ Stands(c, "storing") =>
                caller[c].age = 0 /\ LifeOf(ToolOf(c), caller[c].value) > 0

CacheInv == truth \in [Tools -> Answers] /\ version \in Versions /\ EntriesAge /\ CallersHold /\ AnswersFresh

\* A step of one caller: it becomes `new`.
LEMMA CallerBecomes ==
    ASSUME CallersHold, AnswersFresh, NEW c \in Callers,
           NEW new \in CallerType,
           caller' = [caller EXCEPT ![c] = new],
           new.pc # "idle" => new.key \in CacheKeys,
           new.pc = "storing" => new.age = 0 /\ LifeOf(new.key[2], new.value) > 0,
           new.pc = "answered" /\ new.age > 0 => new.age < LifeOf(new.key[2], new.value)
    PROVE  CallersHold' /\ AnswersFresh'
<1>1. caller' \in [Callers -> CallerType]
  BY DEF CallersHold
<1>2. \A d \in Callers : caller'[d] = IF d = c THEN new ELSE caller[d]
  BY DEF CallersHold
<1>3. QED
  BY <1>1, <1>2 DEF CallersHold, AnswersFresh, Stands, ToolOf, LifeOf

\* The fields an action sets.
LEMMA PcBecomes ==
    ASSUME NEW r \in CallerType, NEW pc \in CallerPlaces
    PROVE  LET new == [r EXCEPT !.pc = pc]
           IN new \in CallerType /\ new.pc = pc /\ new.key = r.key /\ new.value = r.value /\ new.age = r.age
  BY Zenon DEF CallerType

\* A caller that goes on is a caller with another place.
LEMMA CallerGoesOn ==
    ASSUME caller \in [Callers -> CallerType], NEW c \in Callers, NEW pc \in CallerPlaces,
           caller' = [caller EXCEPT ![c].pc = pc]
    PROVE  \E new \in CallerType :
              /\ caller' = [caller EXCEPT ![c] = new]
              /\ new.pc = pc /\ new.key = caller[c].key /\ new.value = caller[c].value
              /\ new.age = caller[c].age
<1> DEFINE new == [caller[c] EXCEPT !.pc = pc]
<1>1. caller' = [caller EXCEPT ![c] = new]
  BY Zenon
<1>2. caller[c] \in CallerType
  OBVIOUS
<1>3. /\ new \in CallerType /\ new.pc = pc /\ new.key = caller[c].key
      /\ new.value = caller[c].value /\ new.age = caller[c].age
  BY <1>2, PcBecomes
<1> HIDE DEF new
<1>4. QED
  BY <1>1, <1>3

\* A caller that has an answer is a caller with that answer.
LEMMA CallerHasAnswer ==
    ASSUME caller \in [Callers -> CallerType], NEW c \in Callers, NEW pc \in CallerPlaces,
           NEW value \in Answers, NEW age \in Nat, HasAnswer(c, pc, value, age)
    PROVE  \E new \in CallerType :
              /\ caller' = [caller EXCEPT ![c] = new]
              /\ new.pc = pc /\ new.key = caller[c].key /\ new.value = value /\ new.age = age
<1> DEFINE new == [pc |-> pc, key |-> caller[c].key, cached |-> caller[c].cached,
                   value |-> value, age |-> age]
<1>1. new \in CallerType
  BY DEF CallerType
<1>2. QED
  BY <1>1 DEF HasAnswer

\* Every key is a tool's.
LEMMA CacheKeyTool == \A k \in CacheKeys : k[2] \in Tools
  BY DEF CacheKeys

\* Every step keeps the invariant.
LEMMA CacheStep ==
    ASSUME CacheInv, [CacheNext]_cacheVars
    PROVE  CacheInv'
<1> USE CacheAssumption
<1>0. NoCaller \in CallerType /\ NoCaller.pc = "idle"
  BY DEF NoCaller, CallerType, CallerPlaces
<1>1. ASSUME NEW c \in Callers, CallerStep(c), ~Store(c)
      PROVE  CallersHold' /\ AnswersFresh'
  <2>0. caller \in [Callers -> CallerType] /\ caller[c] \in CallerType
    BY DEF CacheInv, CallersHold
  <2>1. ASSUME NEW t \in Tools, Call(c, t) PROVE CallersHold' /\ AnswersFresh'
    <3>1. PICK tries \in BOOLEAN :
            caller' = [caller EXCEPT ![c] = [pc |-> IF tries THEN "reading" ELSE "computing",
                                             key |-> <<version, t>>, cached |-> tries,
                                             value |-> Empty, age |-> 0]]
      BY <2>1 DEF Call
    <3> DEFINE new == [pc |-> IF tries THEN "reading" ELSE "computing", key |-> <<version, t>>,
                       cached |-> tries, value |-> Empty, age |-> 0]
    <3>2. <<version, t>> \in CacheKeys
      BY DEF CacheInv, CacheKeys
    <3>3. new \in CallerType /\ new.pc \in {"reading", "computing"} /\ new.key \in CacheKeys
      BY <3>2 DEF CallerType, CallerPlaces
    <3>4. caller' = [caller EXCEPT ![c] = new]
      BY <3>1
    <3> HIDE DEF new
    <3>5. QED
      BY <3>3, <3>4, CallerBecomes DEF CacheInv
  <2>2. CASE CacheHit(c)
    <3> DEFINE entry == store[caller[c].key]
    <3>1. caller[c].key \in CacheKeys
      BY <2>2 DEF CacheHit, CacheInv, CallersHold, Stands
    <3>2. /\ entry \in [value: Answers \cup {"nothing"}, age: Nat, left: Nat]
          /\ \/ entry = NotStored
             \/ entry.left > 0 /\ entry.age + entry.left <= LifeOf(caller[c].key[2], entry.value)
      BY <3>1 DEF CacheInv, EntriesAge
    <3>3. entry.value \in Answers /\ HasAnswer(c, "answered", entry.value, entry.age)
      BY <2>2 DEF CacheHit
    <3>6. entry.age > 0 => entry.age < LifeOf(caller[c].key[2], entry.value)
      <4>1. caller[c].key[2] \in Tools
        BY <3>1, CacheKeyTool
      <4>2. LifeOf(caller[c].key[2], entry.value) \in Nat
        BY <4>1 DEF LifeOf
      <4>3. QED
        BY <3>2, <4>2 DEF NotStored
    <3>0. "answered" \in CallerPlaces /\ entry.age \in Nat
      BY <3>2 DEF CallerPlaces
    <3> HIDE DEF entry
    <3>7. PICK new \in CallerType :
            /\ caller' = [caller EXCEPT ![c] = new]
            /\ new.pc = "answered" /\ new.key = caller[c].key
            /\ new.value = entry.value /\ new.age = entry.age
      BY <2>0, <3>0, <3>3, CallerHasAnswer
    <3>8. QED
      BY <3>1, <3>6, <3>7, CallerBecomes DEF CacheInv
  <2>3. CASE MissOrError(c)
    <3>1. caller[c].key \in CacheKeys
      BY <2>3 DEF MissOrError, CacheInv, CallersHold, Stands
    <3>2. PICK new \in CallerType :
            caller' = [caller EXCEPT ![c] = new] /\ new.pc = "computing" /\ new.key = caller[c].key
      BY <2>0, <2>3, CallerGoesOn, ZenonT(60) DEF MissOrError, CallerGoes, CallerPlaces
    <3>3. QED
      BY <3>1, <3>2, CallerBecomes DEF CacheInv
  <2>4. CASE Compute(c)
    <3> DEFINE value == truth[ToolOf(c)]
               stores == caller[c].cached /\ (value # Empty \/ EmptyTtl[ToolOf(c)] > 0)
               pc == IF stores THEN "storing" ELSE "answered"
    <3>1. caller[c].key \in CacheKeys /\ ToolOf(c) \in Tools
      BY <2>4, CacheKeyTool DEF Compute, CacheInv, CallersHold, Stands, ToolOf
    <3>2. HasAnswer(c, pc, value, 0)
      BY <2>4 DEF Compute
    <3>4. value \in Answers
      BY <3>1 DEF CacheInv
    <3>6. stores => LifeOf(ToolOf(c), value) > 0
      BY <3>1 DEF LifeOf
    <3>7. pc \in CallerPlaces /\ 0 \in Nat /\ (pc = "storing" => stores) /\ pc # "idle"
      BY DEF CallerPlaces
    <3> HIDE DEF stores, value, pc
    <3>8. PICK new \in CallerType :
            /\ caller' = [caller EXCEPT ![c] = new]
            /\ new.pc = pc /\ new.key = caller[c].key /\ new.value = value /\ new.age = 0
      BY <2>0, <3>2, <3>4, <3>7, CallerHasAnswer
    <3>9. /\ new.key \in CacheKeys /\ ~(new.age > 0)
          /\ new.pc = "storing" => new.age = 0 /\ LifeOf(new.key[2], new.value) > 0
      BY <3>1, <3>6, <3>7, <3>8 DEF ToolOf
    <3>10. QED
      BY <3>8, <3>9, CallerBecomes DEF CacheInv
  <2>5. CASE ComputeRaises(c) \/ Leave(c)
    BY <2>5, <1>0, CallerBecomes DEF ComputeRaises, Leave, CacheInv
  <2>6. QED
    BY <1>1, <2>1, <2>2, <2>3, <2>4, <2>5 DEF CallerStep
<1>2. ASSUME NEW c \in Callers, Store(c) PROVE CacheInv'
  <2> DEFINE kept == [value |-> caller[c].value, age |-> caller[c].age,
                      left |-> LifeOf(ToolOf(c), caller[c].value)]
             k0 == caller[c].key
  <2>0. caller \in [Callers -> CallerType] /\ caller[c] \in CallerType
    BY DEF CacheInv, CallersHold
  <2>1. /\ caller[c].key \in CacheKeys /\ ToolOf(c) \in Tools /\ caller[c].age = 0
        /\ LifeOf(ToolOf(c), caller[c].value) > 0
    BY <1>2, CacheKeyTool DEF Store, CacheInv, CallersHold, Stands, ToolOf
  <2>2. LifeOf(ToolOf(c), caller[c].value) \in Nat
    BY <2>1 DEF LifeOf
  <2>3. caller' = [caller EXCEPT ![c].pc = "answered"]
    BY <1>2 DEF Store, CallerGoes
  <2>7. CallersHold' /\ AnswersFresh'
    <3>1. PICK new \in CallerType :
            /\ caller' = [caller EXCEPT ![c] = new]
            /\ new.pc = "answered" /\ new.key = caller[c].key /\ new.age = caller[c].age
      BY <2>0, <2>3, CallerGoesOn, ZenonT(60) DEF CallerPlaces
    <3>2. new.key \in CacheKeys /\ ~(new.age > 0) /\ new.pc # "storing"
      BY <2>1, <3>1
    <3>3. QED
      BY <3>1, <3>2, CallerBecomes DEF CacheInv
  <2>8. /\ kept \in [value: Answers \cup {"nothing"}, age: Nat, left: Nat]
        /\ kept.left > 0 /\ kept.age + kept.left <= LifeOf(k0[2], kept.value)
    BY <2>0, <2>1, <2>2 DEF ToolOf, CallerType
  <2>9. store' = [store EXCEPT ![k0] = kept] \/ store' = store
    BY <1>2 DEF Store
  <2>10. EntriesAge'
    <3> HIDE DEF kept, k0
    <3>1. CASE store' = store
      BY <3>1 DEF CacheInv, EntriesAge
    <3>2. CASE store' = [store EXCEPT ![k0] = kept]
      BY <2>8, <3>2 DEF CacheInv, EntriesAge
    <3>3. QED
      BY <2>9, <3>1, <3>2
  <2>11. QED
    BY <1>2, <2>7, <2>10 DEF Store, CacheInv
<1>3. ASSUME NEW t \in Tools, TruthChanges(t) PROVE CacheInv'
  BY <1>3 DEF TruthChanges, CacheInv, EntriesAge, CallersHold, AnswersFresh, Stands, ToolOf
<1>4. ASSUME NEW k \in CacheKeys, FormChanges(k) PROVE CacheInv'
  <2>1. NotStored \in [value: Answers \cup {"nothing"}, age: Nat, left: Nat]
    BY DEF NotStored
  <2>2. EntriesAge'
    BY <1>4, <2>1 DEF FormChanges, CacheInv, EntriesAge
  <2>3. QED
    BY <1>4, <2>2 DEF FormChanges, CacheInv, CallersHold, AnswersFresh, Stands, ToolOf
<1>5. CASE Bump
  BY <1>5 DEF Bump, CacheInv, Versions, EntriesAge, CallersHold, AnswersFresh, Stands, ToolOf
<1>6. CASE CacheTick
  <2>1. ASSUME NEW k \in CacheKeys
        PROVE  /\ store'[k] \in [value: Answers \cup {"nothing"}, age: Nat, left: Nat]
               /\ \/ store'[k] = NotStored
                  \/ /\ store'[k].left > 0
                     /\ store'[k].age + store'[k].left <= LifeOf(k[2], store'[k].value)
    <3> DEFINE entry == store[k]
    <3>1. store'[k] = Aged(entry)
      BY <1>6 DEF CacheTick
    <3>2. /\ entry \in [value: Answers \cup {"nothing"}, age: Nat, left: Nat]
          /\ \/ entry = NotStored
             \/ entry.left > 0 /\ entry.age + entry.left <= LifeOf(k[2], entry.value)
      BY DEF CacheInv, EntriesAge
    <3> HIDE DEF entry
    <3>3. CASE entry.left <= 1
      BY <3>1, <3>3 DEF Aged, NotStored
    <3>4. CASE ~(entry.left <= 1)
      <4>1. store'[k] = [value |-> entry.value, age |-> entry.age + 1, left |-> entry.left - 1]
        BY <3>1, <3>2, <3>4 DEF Aged
      <4>2. entry # NotStored /\ entry.left - 1 \in Nat /\ entry.left - 1 > 0
        BY <3>2, <3>4 DEF NotStored
      <4>3. LifeOf(k[2], entry.value) \in Nat
        BY CacheKeyTool DEF LifeOf
      <4>4. QED
        BY <3>2, <4>1, <4>2, <4>3
    <3>5. QED
      BY <3>3, <3>4
  <2>2. EntriesAge'
    BY <1>6, <2>1 DEF CacheTick, EntriesAge
  <2>3. QED
    BY <1>6, <2>2 DEF CacheTick, CacheInv, CallersHold, AnswersFresh, Stands, ToolOf
<1>7. CASE UNCHANGED cacheVars
  BY <1>7 DEF cacheVars, CacheInv, EntriesAge, CallersHold, AnswersFresh, Stands, ToolOf
<1>8. ASSUME NEW c \in Callers, CallerStep(c), ~Store(c) PROVE CacheInv'
  <2>1. UNCHANGED <<truth, version, store>>
    BY <1>8 DEF CallerStep, Call, CacheHit, MissOrError, Compute, ComputeRaises, Leave
  <2>2. QED
    BY <1>1, <1>8, <2>1 DEF CacheInv, EntriesAge
<1>9. QED
  BY <1>2, <1>3, <1>4, <1>5, <1>6, <1>7, <1>8 DEF CacheNext

\* No caller is served an answer older than its kind may be, for any tools, callers,
\* lives and versions (cache_aside, cache.py).
THEOREM CacheAnswersFresh == CacheSpec => []AnswersFresh
<1>1. CacheInit => CacheInv
  BY CacheAssumption DEF CacheInit, CacheInv, Versions, EntriesAge, CallersHold, AnswersFresh, Stands,
     NotStored, NoCaller, CallerType, CallerPlaces, ToolOf
<1>2. CacheInv /\ [CacheNext]_cacheVars => CacheInv'
  BY CacheStep
<1>3. CacheInv => AnswersFresh
  BY DEF CacheInv
<1>4. QED
  BY <1>1, <1>2, <1>3, PTL DEF CacheSpec

-----------------------------------------------------------------------------
(* The file of development accounts.  What has been acknowledged, and is not *)
(* exposed by an overlap or a crash, is in the file and in what every        *)
(* sign-up under way will write.                                             *)

SignUpPlaces == {"to come", "refused", "hashing", "opened", "acknowledged", "gone"}
SignUp == [at: SignUpPlaces, email: Emails \cup {"none"}, saw: SUBSET SignUps]

SignInType ==
    /\ file \in [holds: {"nothing", "list", "garbled"}, accounts: SUBSET SignUps]
    /\ signup \in [SignUps -> SignUp]

Flying(n) == signup[n].at \in {"hashing", "opened"}

\* Who overlaps with another is at risk, and with it whoever was told of an account.
OverlapsExposed ==
    \A m, n \in SignUps : m # n /\ Flying(m) /\ Flying(n) =>
        m \in atRisk /\ Acknowledged \subseteq atRisk

\* A sign-up under way has read the accounts that are not at risk.
SawThemAll ==
    \A m \in SignUps : Flying(m) => Acknowledged \ atRisk \subseteq signup[m].saw

\* What has been emptied stays empty, unless another has written it meanwhile.
EmptiedOrExposed ==
    \A m \in SignUps : signup[m].at = "opened" =>
        file.holds = "nothing" \/ (m \in atRisk /\ Acknowledged \subseteq atRisk)

\* The accounts of a list have different addresses.
Different(accounts) ==
    /\ \A n \in accounts : signup[n].at # "to come"
    /\ \A m, n \in accounts : signup[m].email = signup[n].email => m = n

ListsDiffer ==
    /\ Different(ReadAll)
    /\ \A m \in SignUps : Flying(m) => Different(signup[m].saw \cup {m})

SignInInv == /\ SignInType /\ OverlapsExposed /\ SawThemAll /\ EmptiedOrExposed
             /\ ListsDiffer /\ AccountsKept

-----------------------------------------------------------------------------
\* A list stays one of different addresses while its accounts keep theirs.
LEMMA StillDifferent ==
    ASSUME NEW accounts \in SUBSET SignUps, Different(accounts),
           \A m \in accounts : /\ signup'[m].email = signup[m].email
                               /\ signup'[m].at = "to come" => signup[m].at = "to come"
    PROVE  Different(accounts)'
  BY DEF Different

\* Enough for the lists: those of the file, and those that sign-ups under way will write.
LEMMA ListsDifferNext ==
    ASSUME Different(ReadAll)',
           \A m \in SignUps : Flying(m)' => \E list : list = signup'[m].saw \cup {m} /\ Different(list)'
    PROVE  ListsDiffer'
  BY DEF ListsDiffer

\* The lists that matter are lists of different addresses.
LEMMA ListsTyped ==
    ASSUME SignInInv
    PROVE  /\ ReadAll \in SUBSET SignUps /\ Different(ReadAll)
           /\ \A m \in SignUps : /\ signup[m].saw \cup {m} \in SUBSET SignUps
                                 /\ Flying(m) => Different(signup[m].saw \cup {m})
  BY DEF SignInInv, SignInType, SignUp, ReadAll, ListsDiffer

\* Two different sign-ups are more than one.
LEMMA TwoExceedOne ==
    ASSUME NEW S \in SUBSET SignUps, NEW m \in S, NEW n \in S, m # n
    PROVE  Cardinality(S) > 1
<1>1. IsFiniteSet(SignUps)
  BY SignInAssumption, FS_Interval DEF SignUps
<1>2. IsFiniteSet(S)
  BY <1>1, FS_Subset
<1>3. IsFiniteSet({m, n}) /\ Cardinality({m, n}) = 2
  <2>1. IsFiniteSet({m}) /\ Cardinality({m}) = 1
    BY FS_Singleton
  <2>2. {m} \cup {n} = {m, n} /\ n \notin {m}
    OBVIOUS
  <2>3. QED
    BY <2>1, <2>2, FS_AddElement
<1>4. Cardinality({m, n}) <= Cardinality(S)
  BY <1>2, FS_Subset
<1>5. QED
  BY <1>2, <1>3, <1>4, FS_CardinalityType

\* Only n's place has changed.
Placed(n, at) ==
    /\ signup' \in [SignUps -> SignUp]
    /\ signup'[n].at = at /\ signup'[n].email = signup[n].email /\ signup'[n].saw = signup[n].saw
    /\ \A m \in SignUps : m # n => signup'[m] = signup[m]

\* A sign-up that moves on and nothing else.
LEMMA SignUpPlaced ==
    ASSUME SignInType, NEW n \in SignUps, NEW at \in SignUpPlaces,
           signup' = [signup EXCEPT ![n].at = at]
    PROVE  Placed(n, at)
<1> DEFINE new == [signup[n] EXCEPT !.at = at]
<1>1. signup' = [signup EXCEPT ![n] = new]
  BY Zenon
<1>2. signup \in [SignUps -> SignUp] /\ signup[n] \in SignUp
  BY DEF SignInType
<1>3. new \in SignUp /\ new.at = at /\ new.email = signup[n].email /\ new.saw = signup[n].saw
  BY <1>2, Zenon DEF SignUp
<1> HIDE DEF new
<1>4. QED
  BY <1>1, <1>2, <1>3 DEF Placed

\* createDevUser: it read a list that does not have the address.
LEMMA CreateStep ==
    ASSUME SignInInv, NEW n \in SignUps, NEW email \in Emails, CreateDevUser(n, email)
    PROVE  SignInInv'
<1>0. /\ signup[n].at = "to come" /\ ~Flying(n) /\ n \notin Acknowledged
      /\ file' = file /\ turnedAway' = turnedAway /\ ReadAll' = ReadAll
      /\ ReadAll \in SUBSET SignUps /\ signup \in [SignUps -> SignUp]
  BY DEF CreateDevUser, Flying, Acknowledged, ReadAll, SignInInv, SignInType
<1>2. n \notin ReadAll /\ \A m \in SignUps : Flying(m) => n \notin signup[m].saw \cup {m}
  BY <1>0 DEF SignInInv, ListsDiffer, Different
<1>3. CASE \E m \in ReadAll : signup[m].email = email
  <2> DEFINE new == [at |-> "refused", email |-> email, saw |-> {}]
  <2>1. signup' = [signup EXCEPT ![n] = new] /\ atRisk' = atRisk
    BY <1>3 DEF CreateDevUser
  <2>2. new \in SignUp /\ new.at = "refused"
    BY DEF SignUp, SignUpPlaces
  <2> HIDE DEF new
  <2>3. /\ signup' \in [SignUps -> SignUp] /\ signup'[n].at = "refused"
        /\ \A m \in SignUps : m # n => signup'[m] = signup[m]
    BY <1>0, <2>1, <2>2
  <2>4. /\ Acknowledged' = Acknowledged
        /\ \A m \in SignUps : /\ Flying(m)' <=> Flying(m)
                              /\ (signup[m].at = "opened")' <=> signup[m].at = "opened"
                              /\ Flying(m) => signup'[m] = signup[m]
    BY <1>0, <2>3 DEF Acknowledged, Flying
  <2>5. SignInType' /\ OverlapsExposed' /\ SawThemAll' /\ EmptiedOrExposed'
    BY <1>0, <2>1, <2>3, <2>4
    DEF SignInInv, SignInType, OverlapsExposed, SawThemAll, EmptiedOrExposed, Flying
  <2>6. ListsDiffer'
    <3>1. Different(ReadAll)'
      <4>1. PICK list \in SUBSET SignUps :
              list = ReadAll /\ Different(list) /\ \A k \in list : signup'[k] = signup[k]
        BY <1>2, <2>3, ListsTyped
      <4>2. Different(list)'
        BY <4>1, StillDifferent
      <4>3. QED
        BY <1>0, <4>1, <4>2
    <3>2. ASSUME NEW m \in SignUps, Flying(m)'
          PROVE  \E list : list = signup'[m].saw \cup {m} /\ Different(list)'
      <4>1. PICK list \in SUBSET SignUps :
              /\ list = signup[m].saw \cup {m} /\ Different(list)
              /\ \A k \in list : signup'[k] = signup[k]
              /\ signup'[m].saw = signup[m].saw
        BY <1>2, <2>3, <2>4, <3>2, ListsTyped
      <4>2. Different(list)'
        BY <4>1, StillDifferent
      <4>3. QED
        BY <4>1, <4>2
    <3>3. QED
      BY <3>1, <3>2, ListsDifferNext
  <2>7. AccountsKept'
    <3>1. ASSUME NEW k \in Acknowledged \ atRisk
          PROVE  k \in ReadAll \/ \E m \in SignUps : (signup[m].at = "opened")' /\ k \in signup'[m].saw
      BY <1>0, <2>3, <2>4, <3>1 DEF SignInInv, AccountsKept
    <3>2. \A j, m \in ReadAll' : signup'[j].email = signup'[m].email => j = m
      BY <2>6 DEF ListsDiffer, Different
    <3>3. QED
      BY <1>0, <2>1, <2>4, <3>1, <3>2 DEF SignInInv, AccountsKept
  <2>8. QED
    BY <2>5, <2>6, <2>7 DEF SignInInv
<1>4. CASE ~\E m \in ReadAll : signup[m].email = email
  <2> DEFINE new == [at |-> "hashing", email |-> email, saw |-> ReadAll]
  <2>1. signup' = [signup EXCEPT ![n] = new] /\ Expose(InFlight \cup {n})
    BY <1>4 DEF CreateDevUser
  <2>2. new \in SignUp /\ new.at = "hashing" /\ new.email = email /\ new.saw = ReadAll
    BY <1>0 DEF SignUp, SignUpPlaces
  <2> HIDE DEF new
  <2>3. /\ signup' \in [SignUps -> SignUp]
        /\ signup'[n].at = "hashing" /\ signup'[n].email = email /\ signup'[n].saw = ReadAll
        /\ \A m \in SignUps : m # n => signup'[m] = signup[m]
    BY <1>0, <2>1, <2>2
  <2>4. /\ Acknowledged' = Acknowledged /\ Flying(n)'
        /\ \A m \in SignUps : (signup[m].at = "opened")' <=> signup[m].at = "opened"
        /\ \A m \in SignUps : m # n => (Flying(m)' <=> Flying(m))
    BY <1>0, <2>3 DEF Acknowledged, Flying
  <2>5. atRisk \subseteq atRisk'
    BY <2>1 DEF Expose
  <2>6. ASSUME NEW m \in SignUps, Flying(m)
        PROVE  Acknowledged \subseteq atRisk' /\ n \in atRisk' /\ \A k \in SignUps : Flying(k) => k \in atRisk'
    <3>1. InFlight \cup {n} \in SUBSET SignUps /\ m \in InFlight /\ m # n
      BY <1>0, <2>6 DEF InFlight, Flying
    <3>2. Cardinality(InFlight \cup {n}) > 1
      BY <3>1, TwoExceedOne
    <3>3. atRisk' = atRisk \cup Acknowledged \cup (InFlight \cup {n})
      BY <2>1, <3>2 DEF Expose
    <3>4. QED
      BY <3>3 DEF InFlight, Flying
  <2>7. OverlapsExposed'
    BY <2>4, <2>6 DEF OverlapsExposed
  <2>8. SawThemAll'
    <3>1. ASSUME NEW m \in SignUps, m # n, Flying(m) PROVE Acknowledged \ atRisk' = {}
      BY <2>6, <3>1
    <3>2. CASE \A m \in SignUps : ~Flying(m)
      <4>1. Acknowledged \ atRisk \subseteq ReadAll
        BY <3>2 DEF SignInInv, AccountsKept, Flying
      <4>2. QED
        BY <2>3, <2>4, <2>5, <3>2, <4>1 DEF SawThemAll
    <3>3. CASE \E m \in SignUps : Flying(m)
      BY <2>4, <2>6, <3>3 DEF SawThemAll
    <3>4. QED
      BY <3>2, <3>3
  <2>9. EmptiedOrExposed'
    BY <1>0, <2>4, <2>5, <2>6 DEF SignInInv, EmptiedOrExposed, Flying
  <2>10. ListsDiffer'
    <3>1. Different(ReadAll)'
      <4>1. PICK list \in SUBSET SignUps :
              list = ReadAll /\ Different(list) /\ \A k \in list : signup'[k] = signup[k]
        BY <1>2, <2>3, ListsTyped
      <4>2. Different(list)'
        BY <4>1, StillDifferent
      <4>3. QED
        BY <1>0, <4>1, <4>2
    <3>2. ASSUME NEW m \in SignUps, Flying(m)'
          PROVE  \E list : list = signup'[m].saw \cup {m} /\ Different(list)'
      <4>1. CASE m # n
        <5>1. PICK list \in SUBSET SignUps :
                /\ list = signup[m].saw \cup {m} /\ Different(list)
                /\ \A k \in list : signup'[k] = signup[k]
                /\ signup'[m].saw = signup[m].saw
          BY <1>2, <2>3, <2>4, <3>2, <4>1, ListsTyped
        <5>2. Different(list)'
          BY <5>1, StillDifferent
        <5>3. QED
          BY <5>1, <5>2
      <4>2. CASE m = n
        <5>1. PICK list : list = ReadAll \cup {n}
          OBVIOUS
        <5>2. \A k \in ReadAll : signup'[k] = signup[k] /\ signup[k].at # "to come" /\ signup[k].email # email
          BY <1>0, <1>2, <1>4, <2>3, ListsTyped DEF Different
        <5>3. \A j, k \in ReadAll : signup[j].email = signup[k].email => j = k
          BY ListsTyped DEF Different
        <5>4. Different(list)'
          <6>1. \A k \in list : signup'[k].at # "to come"
            BY <2>3, <5>1, <5>2
          <6>2. ASSUME NEW j \in list, NEW k \in list, signup'[j].email = signup'[k].email
                PROVE  j = k
            BY <2>3, <5>1, <5>2, <5>3, <6>2
          <6>3. QED
            BY <6>1, <6>2 DEF Different
        <5>5. QED
          BY <2>3, <4>2, <5>1, <5>4
      <4>3. QED
        BY <4>1, <4>2
    <3>3. QED
      BY <3>1, <3>2, ListsDifferNext
  <2>11. AccountsKept'
    <3>1. ASSUME NEW k \in Acknowledged \ atRisk'
          PROVE  k \in ReadAll \/ \E m \in SignUps : (signup[m].at = "opened")' /\ k \in signup'[m].saw
      BY <1>0, <2>3, <2>4, <2>5, <3>1 DEF SignInInv, AccountsKept
    <3>2. \A j, m \in ReadAll' : signup'[j].email = signup'[m].email => j = m
      BY <2>10 DEF ListsDiffer, Different
    <3>3. QED
      BY <1>0, <2>4, <2>5, <3>1, <3>2 DEF SignInInv, AccountsKept
  <2>12. QED
    BY <1>0, <2>3, <2>7, <2>8, <2>9, <2>10, <2>11 DEF SignInInv, SignInType
<1>5. QED
  BY <1>3, <1>4

\* The file is emptied.
LEMMA OpenStep ==
    ASSUME SignInInv, NEW n \in SignUps, OpenFile(n)
    PROVE  SignInInv'
<1>1. Placed(n, "opened") /\ Flying(n) /\ UNCHANGED <<turnedAway, atRisk>> /\ signup[n].at = "hashing"
  BY SignUpPlaced DEF OpenFile, SignInInv, SignUpPlaces, Flying
<1>2. file' = [holds |-> "nothing", accounts |-> {}] /\ ReadAll' = {}
  BY DEF OpenFile, Stored, ReadAll
<1>3. /\ Acknowledged' = Acknowledged
      /\ \A m \in SignUps : /\ Flying(m)' <=> Flying(m)
                            /\ signup'[m].email = signup[m].email /\ signup'[m].saw = signup[m].saw
                            /\ signup'[m].at = "to come" <=> signup[m].at = "to come"
  BY <1>1 DEF Placed, Acknowledged, Flying
<1>4. SignInType'
  BY <1>1, <1>2 DEF Placed, SignInType
<1>5. OverlapsExposed' /\ SawThemAll' /\ EmptiedOrExposed'
  BY <1>1, <1>2, <1>3 DEF SignInInv, OverlapsExposed, SawThemAll, EmptiedOrExposed
<1>6. ListsDiffer'
  <2>1. Different(ReadAll)'
    BY <1>2 DEF Different
  <2>2. ASSUME NEW m \in SignUps, Flying(m) PROVE Different(signup[m].saw \cup {m})'
    <3>1. signup[m].saw \cup {m} \in SUBSET SignUps /\ Different(signup[m].saw \cup {m})
      BY <2>2 DEF SignInInv, SignInType, SignUp, ListsDiffer
    <3>2. QED
      BY <1>3, <3>1 DEF Different
  <2>3. QED
    BY <1>3, <2>1, <2>2 DEF ListsDiffer
<1>7. AccountsKept'
  <2>1. \A k \in Acknowledged \ atRisk : k \in signup'[n].saw /\ signup'[n].at = "opened"
    BY <1>1, <1>3 DEF Placed, SignInInv, SawThemAll
  <2>2. QED
    BY <1>1, <1>2, <1>3, <2>1 DEF SignInInv, AccountsKept
<1>8. QED
  BY <1>4, <1>5, <1>6, <1>7 DEF SignInInv

\* The file is filled with what its sign-up saw, and itself.
LEMMA WriteStep ==
    ASSUME SignInInv, NEW n \in SignUps, WriteAll(n)
    PROVE  SignInInv'
<1>1. /\ Placed(n, "acknowledged") /\ Flying(n) /\ signup[n].at = "opened"
      /\ UNCHANGED <<turnedAway, atRisk>>
  BY SignUpPlaced DEF WriteAll, SignInInv, SignUpPlaces, Flying
<1>2. \/ file' = [holds |-> "list", accounts |-> signup[n].saw \cup {n}] /\ ReadAll' = signup[n].saw \cup {n}
      \/ file.holds # "nothing" /\ file' = [holds |-> "garbled", accounts |-> {}] /\ ReadAll' = {}
  BY DEF WriteAll, Stored, Pushed, ReadAll
<1>3. /\ Acknowledged' = Acknowledged \cup {n} /\ ~Flying(n)'
      /\ \A m \in SignUps : /\ m # n => (Flying(m)' <=> Flying(m))
                            /\ m # n => ((signup[m].at = "opened")' <=> signup[m].at = "opened")
                            /\ signup'[m].email = signup[m].email /\ signup'[m].saw = signup[m].saw
                            /\ signup'[m].at = "to come" <=> signup[m].at = "to come"
  BY <1>1 DEF Placed, Acknowledged, Flying
<1>4. signup[n].saw \cup {n} \in SUBSET SignUps
  BY DEF SignInInv, SignInType, SignUp
<1>5. SignInType'
  BY <1>1, <1>2, <1>4 DEF Placed, SignInType
<1>6. ASSUME NEW m \in SignUps, m # n, Flying(m)
      PROVE  Acknowledged' \subseteq atRisk /\ m \in atRisk
  BY <1>1, <1>3, <1>6 DEF SignInInv, OverlapsExposed
<1>7. OverlapsExposed' /\ SawThemAll' /\ EmptiedOrExposed'
  <2>1. \A m \in SignUps : Flying(m)' => Acknowledged' \subseteq atRisk' /\ m \in atRisk'
    BY <1>1, <1>3, <1>6
  <2>2. \A m \in SignUps : (signup[m].at = "opened")' => Flying(m)'
    BY DEF Flying
  <2>3. QED
    BY <2>1, <2>2 DEF OverlapsExposed, SawThemAll, EmptiedOrExposed
<1>8. ListsDiffer'
  <2>1. \A accounts \in SUBSET SignUps : Different(accounts) => Different(accounts)'
    BY <1>3 DEF Different
  <2>2. Different(signup[n].saw \cup {n}) /\ Different({})
    BY <1>1 DEF SignInInv, ListsDiffer, Different
  <2>3. Different(ReadAll)'
    BY <1>2, <1>3, <1>4, <2>2 DEF Different
  <2>4. ASSUME NEW m \in SignUps, m # n, Flying(m) PROVE Different(signup[m].saw \cup {m})'
    <3>1. signup[m].saw \cup {m} \in SUBSET SignUps /\ Different(signup[m].saw \cup {m})
      BY <2>4 DEF SignInInv, SignInType, SignUp, ListsDiffer
    <3>2. QED
      BY <1>3, <3>1 DEF Different
  <2>5. QED
    BY <1>3, <2>3, <2>4 DEF ListsDiffer
<1>9. AccountsKept'
  <2>1. ASSUME NEW k \in Acknowledged', k \notin atRisk PROVE k \in ReadAll'
    <3>1. k \in signup[n].saw \cup {n}
      BY <1>1, <1>3, <2>1 DEF SignInInv, SawThemAll
    <3>2. file.holds = "nothing"
      <4>1. n \notin atRisk \/ ~(Acknowledged \subseteq atRisk)
        BY <1>3, <2>1
      <4>2. QED
        BY <1>1, <4>1 DEF SignInInv, EmptiedOrExposed
    <3>3. QED
      BY <1>2, <3>1, <3>2
  <2>2. \A j, m \in ReadAll' : signup'[j].email = signup'[m].email => j = m
    BY <1>8 DEF ListsDiffer, Different
  <2>3. QED
    BY <1>1, <2>1, <2>2 DEF SignInInv, AccountsKept
<1>10. QED
  BY <1>5, <1>7, <1>8, <1>9 DEF SignInInv

\* A log-in reads the file only.
LEMMA LogInStep ==
    ASSUME SignInInv, NEW n \in SignUps, LogIn(n)
    PROVE  SignInInv'
<1>1. UNCHANGED <<file, signup, atRisk>> /\ ReadAll' = ReadAll /\ Acknowledged' = Acknowledged
  BY DEF LogIn, ReadAll, Acknowledged
<1>2. SignInType' /\ OverlapsExposed' /\ SawThemAll' /\ EmptiedOrExposed' /\ ListsDiffer'
  BY <1>1 DEF SignInInv, SignInType, OverlapsExposed, SawThemAll, EmptiedOrExposed, ListsDiffer,
     Flying, Different
<1>3. ASSUME n \notin ReadAll, file.holds = "list" PROVE n \in atRisk
  <2>1. n \in Acknowledged
    BY DEF LogIn
  <2>2. SUFFICES ASSUME n \notin atRisk PROVE FALSE
    OBVIOUS
  <2>3. PICK m \in SignUps : signup[m].at = "opened" /\ n \in signup[m].saw
    BY <1>3, <2>1, <2>2 DEF SignInInv, AccountsKept
  <2>4. QED
    BY <1>3, <2>1, <2>2, <2>3 DEF SignInInv, EmptiedOrExposed
<1>4. \A refusal \in turnedAway' : refusal[2] = "list" => refusal[1] \in atRisk
  <2>1. \A refusal \in turnedAway : refusal[2] = "list" => refusal[1] \in atRisk
    BY DEF SignInInv, AccountsKept
  <2>2. CASE turnedAway' = turnedAway
    BY <2>1, <2>2
  <2>3. CASE ~VerifyDevUser(n) /\ turnedAway' = turnedAway \cup {<<n, file.holds>>}
    BY <1>3, <2>1, <2>3 DEF VerifyDevUser
  <2>4. QED
    BY <2>2, <2>3 DEF LogIn
<1>5. QED
  BY <1>1, <1>2, <1>4 DEF SignInInv, AccountsKept

\* What was being written is lost with the file's contents.
LEMMA CrashStep ==
    ASSUME SignInInv, ServerCrash
    PROVE  SignInInv'
<1>1. UNCHANGED <<file, turnedAway>> /\ ReadAll' = ReadAll
  BY DEF ServerCrash, ReadAll
<1>2. ASSUME NEW m \in SignUps
      PROVE  /\ signup'[m] \in SignUp
             /\ ~Flying(m) => signup'[m] = signup[m]
             /\ Flying(m) => signup'[m].at = "gone"
             /\ signup'[m].email = signup[m].email /\ signup'[m].saw = signup[m].saw
  <2>1. signup[m] \in SignUp
    BY DEF SignInInv, SignInType
  <2>2. signup'[m] = IF Flying(m) THEN [signup[m] EXCEPT !.at = "gone"] ELSE signup[m]
    BY DEF ServerCrash, InFlight, Flying
  <2> DEFINE new == [signup[m] EXCEPT !.at = "gone"]
  <2>3. "gone" \in SignUpPlaces
    BY DEF SignUpPlaces
  <2>4. new \in SignUp /\ new.at = "gone" /\ new.email = signup[m].email /\ new.saw = signup[m].saw
    BY <2>1, <2>3, Zenon DEF SignUp
  <2> HIDE DEF new
  <2>5. QED
    BY <2>1, <2>2, <2>4 DEF new
<1>3. SignInType'
  <2>1. signup' = [m \in SignUps |-> signup'[m]]
    BY DEF ServerCrash
  <2>2. signup' \in [SignUps -> SignUp]
    BY <1>2, <2>1
  <2>3. QED
    BY <1>1, <2>2 DEF SignInInv, SignInType
<1>4. \A m \in SignUps : ~Flying(m)' /\ (signup[m].at = "acknowledged")' = (signup[m].at = "acknowledged")
                         /\ (signup'[m].at = "to come" => signup[m].at = "to come")
  BY <1>2 DEF Flying
<1>5. Acknowledged' = Acknowledged
  BY <1>4 DEF Acknowledged
<1>6. atRisk \subseteq atRisk' /\ ((\E m \in SignUps : signup[m].at = "opened") => Acknowledged \subseteq atRisk')
  BY DEF ServerCrash, InFlight
<1>7. OverlapsExposed' /\ SawThemAll' /\ EmptiedOrExposed'
  BY <1>4 DEF OverlapsExposed, SawThemAll, EmptiedOrExposed, Flying
<1>8. ListsDiffer'
  <2>1. Different(ReadAll)'
    BY <1>1, <1>2, <1>4, ListsTyped, StillDifferent, ZenonT(60) DEF Different
  <2>2. QED
    BY <1>4, <2>1, ListsDifferNext
<1>9. AccountsKept'
  <2>1. \A k \in Acknowledged \ atRisk' : k \in ReadAll
    BY <1>6 DEF SignInInv, AccountsKept
  <2>2. \A j, m \in ReadAll : signup'[j].email = signup'[m].email => j = m
    BY <1>1, <1>8 DEF ListsDiffer, Different
  <2>3. \A refusal \in turnedAway' : refusal[2] = "list" => refusal[1] \in atRisk'
    BY <1>1, <1>6 DEF SignInInv, AccountsKept
  <2>4. QED
    BY <1>1, <1>5, <2>1, <2>2, <2>3 DEF AccountsKept
<1>10. QED
  BY <1>3, <1>7, <1>8, <1>9 DEF SignInInv

\* Every step keeps the invariant.
LEMMA SignInStep ==
    ASSUME SignInInv, [SignInNext]_signInVars
    PROVE  SignInInv'
<1>1. CASE LogOut \/ UNCHANGED signInVars
  <2>1. UNCHANGED <<file, signup, atRisk, turnedAway>>
    BY <1>1 DEF LogOut, signInVars
  <2>2. QED
    BY <2>1 DEF SignInInv, SignInType, OverlapsExposed, SawThemAll, EmptiedOrExposed, ListsDiffer,
       AccountsKept, Flying, Different, Acknowledged, ReadAll
<1>2. QED
  BY <1>1, CreateStep, OpenStep, WriteStep, LogInStep, CrashStep DEF SignInNext

\* An acknowledged account that no overlap and no crash has exposed is in the file or
\* about to be written back, for any number of sign-ups and crashes (dev-
\* users.ts:49-68).
THEOREM SignInKeepsAccounts == SignInSpec => []AccountsKept
<1>1. SignInInit => SignInInv
  <2> SUFFICES ASSUME SignInInit PROVE SignInInv
    OBVIOUS
  <2>1. SignInType
    BY DEF SignInInit, SignInType, SignUp, SignUpPlaces, Stored, Awaited
  <2>2. \A n \in SignUps : signup[n].at = "to come"
    BY DEF SignInInit, Awaited
  <2>3. ReadAll = {} /\ Acknowledged = {} /\ turnedAway = {}
    BY <2>2 DEF SignInInit, ReadAll, Stored, Acknowledged
  <2>4. QED
    BY <2>1, <2>2, <2>3 DEF SignInInv, OverlapsExposed, SawThemAll, EmptiedOrExposed, ListsDiffer,
       Different, AccountsKept, Flying
<1>2. SignInInv /\ [SignInNext]_signInVars => SignInInv'
  BY SignInStep
<1>3. SignInInv => AccountsKept
  BY DEF SignInInv
<1>4. QED
  BY <1>1, <1>2, <1>3, PTL DEF SignInSpec

-----------------------------------------------------------------------------
(* The index of places.  Before it is stamped, and while its stamp stands,   *)
(* the places last loaded have vectors of one model.                         *)

\* The places last loaded have vectors of this model.
EmbeddedBy(m) == \A p \in current : index[p] = m

Verdicts == {"none", "scheduled", "skipped", "ok", "mismatch"}

Stages == {"idle", "collection", "embed", "upsert", "stamp"}

IndexType ==
    /\ corpus \in SUBSET Places /\ current \in SUBSET Places
    /\ index \in [Places -> Models \cup {"none"}]
    /\ script \in [stage: Stages, model: Models \cup {"none"}, docs: SUBSET Places]
    /\ script.stage # "idle" => script.model \in Models
    /\ stamp \in Models \cup {"none"}
    /\ searcher \in [Searchers -> [model: Models \cup {"none"}, verdict: Verdicts, sure: BOOLEAN]]

\* Before it is stamped, and while its stamp stands, an index is of one model.
StampTells ==
    /\ script.stage = "stamp" => EmbeddedBy(script.model)
    /\ stamp # "none" /\ ~torn => EmbeddedBy(stamp)

\* Nothing was written since the check of one who is sure.
SureOfIt == \A w \in Searchers : searcher[w].verdict = "ok" /\ searcher[w].sure => EmbeddedBy(searcher[w].model)

IndexInv == IndexType /\ StampTells /\ SureOfIt

\* What a search may answer with.
RankedRight ==
    \A w \in Searchers :
        answer' # answer /\ answer'.by = w /\ searcher[w].verdict = "ok" /\ searcher[w].sure
            => \A p \in answer'.places \cap current : index[p] = searcher[w].model

\* The script goes on, and writes nothing.
LEMMA ScriptSteps ==
    ASSUME IndexInv,
           EditCorpus \/ EnsureCollection \/ EmbedCorpus \/ Abort \/ \E m \in Models : StartIngest(m)
    PROVE  IndexInv' /\ answer' = answer
<1>1. UNCHANGED <<index, stamp, searcher, answer, torn, current>>
  BY DEF EditCorpus, EnsureCollection, EmbedCorpus, Abort, StartIngest
<1>2. /\ corpus' \in SUBSET Places
      /\ script' \in [stage: Stages, model: Models \cup {"none"}, docs: SUBSET Places]
      /\ script'.stage # "idle" => script'.model \in Models
      /\ script'.stage = "stamp" => script.stage = "stamp" /\ script'.model = script.model
  <2>1. CASE EditCorpus
    BY <2>1 DEF EditCorpus, IndexInv, IndexType
  <2>2. CASE EnsureCollection \/ EmbedCorpus
    <3>1. PICK stage \in {"embed", "upsert"} : script' = [script EXCEPT !.stage = stage]
      BY <2>2 DEF EnsureCollection, EmbedCorpus, Advance, After
    <3>2. script.stage # "idle" /\ corpus' = corpus
      BY <2>2 DEF EnsureCollection, EmbedCorpus
    <3>3. QED
      BY <3>1, <3>2 DEF IndexInv, IndexType, Stages
  <2>3. CASE Abort
    BY <2>3 DEF Abort, NoScript, IndexInv, IndexType, Stages
  <2>4. CASE \E m \in Models : StartIngest(m)
    BY <2>4 DEF StartIngest, IndexInv, IndexType, Stages
  <2>5. QED
    BY <2>1, <2>2, <2>3, <2>4
<1>3. QED
  BY <1>1, <1>2 DEF IndexInv, IndexType, StampTells, SureOfIt, EmbeddedBy

\* Vectors are written, all or some.
LEMMA UpsertStep ==
    ASSUME IndexInv, Upsert
    PROVE  IndexInv' /\ answer' = answer
<1>1. PICK written \in SUBSET script.docs :
        /\ index' = [p \in Places |-> IF p \in written THEN script.model ELSE index[p]]
        /\ IF written = script.docs THEN Advance ELSE script' = NoScript
  BY DEF Upsert
<1>2. /\ torn' = TRUE /\ current' = script.docs /\ script.stage = "upsert"
      /\ searcher' = [w \in Searchers |-> [searcher[w] EXCEPT !.sure = FALSE]]
      /\ UNCHANGED <<corpus, stamp, answer>>
  BY DEF Upsert
<1>3. script.model \in Models /\ script.docs \in SUBSET Places
  BY <1>2 DEF IndexInv, IndexType
<1>4. index' \in [Places -> Models \cup {"none"}]
  BY <1>1, <1>3 DEF IndexInv, IndexType
<1>5. \/ script' = NoScript
      \/ /\ script'.stage = "stamp" /\ script'.model = script.model /\ script'.docs = script.docs
         /\ written = script.docs
  <2>1. CASE written = script.docs
    <3>1. script' = [script EXCEPT !.stage = "stamp"]
      BY <1>1, <1>2, <2>1 DEF Advance, After
    <3>2. QED
      BY <3>1, <2>1 DEF IndexInv, IndexType
  <2>2. QED
    BY <1>1, <2>1
<1>6. ASSUME NEW w \in Searchers
      PROVE  /\ searcher'[w] \in [model: Models \cup {"none"}, verdict: Verdicts, sure: BOOLEAN]
             /\ searcher'[w].sure = FALSE
  <2>1. searcher[w] \in [model: Models \cup {"none"}, verdict: Verdicts, sure: BOOLEAN]
    BY DEF IndexInv, IndexType
  <2>2. QED
    BY <1>2, <2>1
<1>7. searcher' \in [Searchers -> [model: Models \cup {"none"}, verdict: Verdicts, sure: BOOLEAN]]
  BY <1>2, <1>6
<1>8. IndexType'
  <2>1. script' \in [stage: Stages, model: Models \cup {"none"}, docs: SUBSET Places]
    BY <1>1, <1>2, <1>3 DEF Advance, After, NoScript, Stages, IndexInv, IndexType
  <2>2. QED
    BY <1>2, <1>3, <1>4, <1>5, <1>7, <2>1 DEF IndexInv, IndexType, NoScript
<1>9. StampTells'
  BY <1>1, <1>2, <1>3, <1>5 DEF StampTells, EmbeddedBy, NoScript
<1>10. SureOfIt'
  BY <1>6 DEF SureOfIt
<1>11. QED
  BY <1>2, <1>8, <1>9, <1>10 DEF IndexInv

\* The stamp is written.
LEMMA WriteMetaStep ==
    ASSUME IndexInv, WriteMeta
    PROVE  IndexInv' /\ answer' = answer
<1>1. /\ script.stage = "stamp" /\ stamp' = script.model /\ torn' = FALSE
      /\ script' = [script EXCEPT !.stage = "idle"]
      /\ UNCHANGED <<corpus, index, searcher, answer, current>>
  BY DEF WriteMeta, Advance, After
<1>2. script \in [stage: Stages, model: Models \cup {"none"}, docs: SUBSET Places]
  BY DEF IndexInv, IndexType
<1>3. script' \in [stage: Stages, model: Models \cup {"none"}, docs: SUBSET Places] /\ script'.stage = "idle"
  BY <1>1, <1>2 DEF Stages
<1>4. stamp' \in Models
  BY <1>1 DEF IndexInv, IndexType
<1>5. QED
  BY <1>1, <1>3, <1>4 DEF IndexInv, IndexType, StampTells, SureOfIt, EmbeddedBy

\* One worker's retriever is replaced by one that is sure of what it says.
LEMMA SearcherBecomes ==
    ASSUME IndexInv, NEW w \in Searchers,
           NEW new \in [model: Models \cup {"none"}, verdict: Verdicts, sure: BOOLEAN],
           searcher' = [searcher EXCEPT ![w] = new],
           new.verdict = "ok" /\ new.sure => EmbeddedBy(new.model),
           UNCHANGED <<corpus, index, stamp, script, torn, current>>
    PROVE  IndexInv'
<1>1. searcher' \in [Searchers -> [model: Models \cup {"none"}, verdict: Verdicts, sure: BOOLEAN]]
  BY DEF IndexInv, IndexType
<1>2. \A v \in Searchers : searcher'[v] = IF v = w THEN new ELSE searcher[v]
  BY DEF IndexInv, IndexType
<1>3. QED
  BY <1>1, <1>2 DEF IndexInv, IndexType, StampTells, SureOfIt, EmbeddedBy

\* A worker compares its model with the stamp.
LEMMA CheckStep ==
    ASSUME IndexInv, NEW w \in Searchers, CheckEmbedder(w)
    PROVE  IndexInv' /\ answer' = answer
<1> DEFINE Type == [model: Models \cup {"none"}, verdict: Verdicts, sure: BOOLEAN]
<1>1. UNCHANGED <<corpus, index, stamp, script, torn, current>> /\ answer' = answer
  BY DEF CheckEmbedder
<1>2. PICK meta \in {stamp, "none"} :
        searcher' = [searcher EXCEPT
            ![w].verdict = IF meta = "none" THEN "skipped"
                           ELSE IF meta = searcher[w].model THEN "ok" ELSE "mismatch",
            ![w].sure = ~torn]
  BY DEF CheckEmbedder
<1> DEFINE says == IF meta = "none" THEN "skipped"
                   ELSE IF meta = searcher[w].model THEN "ok" ELSE "mismatch"
           mid == [searcher[w] EXCEPT !.verdict = says]
           new == [mid EXCEPT !.sure = ~torn]
<1>3. searcher' = [searcher EXCEPT ![w] = new]
  BY <1>2, Zenon
<1>4. searcher[w] \in Type /\ says \in Verdicts /\ (~torn) \in BOOLEAN
  BY DEF IndexInv, IndexType, Verdicts
<1>5. says = "ok" => meta = searcher[w].model /\ stamp # "none" /\ meta = stamp
  BY <1>2
<1> HIDE DEF says
<1>6. mid \in Type /\ mid.verdict = says /\ mid.model = searcher[w].model
  BY <1>4, Zenon
<1> HIDE DEF mid
<1>7. new \in Type /\ new.verdict = says /\ new.model = searcher[w].model /\ new.sure = ~torn
  BY <1>4, <1>6, Zenon
<1> HIDE DEF new
<1>8. new.verdict = "ok" /\ new.sure => EmbeddedBy(new.model)
  BY <1>5, <1>7 DEF IndexInv, StampTells
<1>9. QED
  BY <1>1, <1>3, <1>7, <1>8, SearcherBecomes

\* A worker builds its retriever, or is replaced.
LEMMA WorkerSteps ==
    ASSUME IndexInv, NEW w \in Searchers, Replace(w) \/ \E m \in Models : BuildRetriever(w, m)
    PROVE  IndexInv' /\ answer' = answer
<1>1. UNCHANGED <<corpus, index, stamp, script, torn, current>> /\ answer' = answer
  BY DEF Replace, BuildRetriever
<1>2. CASE Replace(w)
  BY <1>1, <1>2, SearcherBecomes DEF Replace, Unbuilt, Verdicts
<1>3. ASSUME NEW m \in Models, BuildRetriever(w, m) PROVE IndexInv'
  <2> DEFINE new == [Unbuilt EXCEPT !.model = m, !.verdict = "scheduled"]
  <2>1. searcher' = [searcher EXCEPT ![w] = new]
    BY <1>3 DEF BuildRetriever
  <2>2. /\ new \in [model: Models \cup {"none"}, verdict: Verdicts, sure: BOOLEAN]
        /\ new.verdict # "ok"
    BY DEF Unbuilt, Verdicts
  <2> HIDE DEF new
  <2>3. QED
    BY <1>1, <2>1, <2>2, SearcherBecomes
<1>4. QED
  BY <1>1, <1>2, <1>3

\* A worker searches: its places are ranked right.
LEMMA RetrieveStep ==
    ASSUME IndexInv, NEW w \in Searchers, NEW city, Retrieve(w, city)
    PROVE  IndexInv' /\ RankedRight
<1>1. UNCHANGED <<corpus, index, stamp, script, searcher, torn, current>>
  BY DEF Retrieve
<1>2. IndexInv'
  BY <1>1 DEF IndexInv, IndexType, StampTells, SureOfIt, EmbeddedBy
<1>3. QED
  BY <1>2 DEF IndexInv, SureOfIt, EmbeddedBy, RankedRight

\* Every step keeps the invariant and ranks right.
LEMMA IndexStep ==
    ASSUME IndexInv, [IndexNext]_indexVars
    PROVE  IndexInv' /\ RankedRight
<1>1. answer' = answer => RankedRight
  BY DEF RankedRight
<1>2. CASE UNCHANGED indexVars
  BY <1>1, <1>2 DEF indexVars, IndexInv, IndexType, StampTells, SureOfIt, EmbeddedBy
<1>3. CASE Upsert \/ WriteMeta
  BY <1>1, <1>3, UpsertStep, WriteMetaStep
<1>4. CASE EditCorpus \/ EnsureCollection \/ EmbedCorpus \/ Abort \/ \E m \in Models : StartIngest(m)
  BY <1>1, <1>4, ScriptSteps
<1>5. ASSUME NEW w \in Searchers,
             CheckEmbedder(w) \/ Replace(w) \/ \E m \in Models : BuildRetriever(w, m)
      PROVE  IndexInv' /\ RankedRight
  BY <1>1, <1>5, CheckStep, WorkerSteps
<1>6. ASSUME NEW w \in Searchers, NEW city, Retrieve(w, city) PROVE IndexInv' /\ RankedRight
  BY <1>6, RetrieveStep
<1>7. QED
  BY <1>2, <1>3, <1>4, <1>5, <1>6 DEF IndexNext

\* A worker whose check passed ranks vectors of its own model, for any places, models,
\* ingestions and edits, but for the exceptions the property names (ingest.py,
\* retrieve.py).
THEOREM IndexRankedInOneSpace == IndexSpec => RankedInOneSpace
<1>1. IndexInit => IndexInv
  BY DEF IndexInit, IndexInv, IndexType, StampTells, SureOfIt, EmbeddedBy, NoScript, Unbuilt, Verdicts, Stages
<1>2. IndexInv /\ [IndexNext]_indexVars => IndexInv'
  BY IndexStep
<1>3. IndexInv /\ [IndexNext]_indexVars
        => [\A w \in Searchers :
                answer' # answer /\ answer'.by = w /\ searcher[w].verdict = "ok" /\ searcher[w].sure
                    => \A p \in answer'.places \cap current : index[p] = searcher[w].model]_indexVars
  BY IndexStep DEF RankedRight
<1>4. QED
  BY <1>1, <1>2, <1>3, PTL DEF IndexSpec, RankedInOneSpace

-----------------------------------------------------------------------------
(* How long a worker holds a message.  A ready task is owed the units of     *)
(* time that the tasks before it may still take, and time passes only while  *)
(* one of them takes a unit.                                                 *)

Wheres == {"nowhere", "queue", "delayed", "ready", "running", "over"}
TaskType == [at: Wheres, attempt: 0..MaxRetries, left: Nat, held: Nat, ran: Nat]

HeldType ==
    /\ task \in [Tasks -> TaskType]
    /\ backlog \in Seq(Tasks)

Executing == In({"running"})

\* The backlog lists the tasks that are ready, each once.
BacklogLists ==
    /\ \A i \in DOMAIN backlog : task[backlog[i]].at = "ready"
    /\ \A i, j \in DOMAIN backlog : backlog[i] = backlog[j] => i = j
    /\ \A t \in In({"ready"}) : \E i \in DOMAIN backlog : backlog[i] = t
    /\ Cardinality(In({"ready"})) = Len(backlog)

\* A first attempt has a process to start in, and is not held before it does.
FirstHasRoom ==
    /\ \A i \in DOMAIN backlog :
          task[backlog[i]].attempt = 0 =>
              i + Cardinality(Executing) <= Processes /\ task[backlog[i]].held = 0
    /\ \A t \in Executing : task[t].attempt = 0 => task[t].held = task[t].ran

\* The time that may pass before t starts: the units left to those before it.
Before(t, u) == \E i, j \in DOMAIN backlog : backlog[i] = u /\ backlog[j] = t /\ i < j
Ahead(t) ==
    {w \in Tasks \X (1..TimeLimit) :
        (task[w[1]].at = "running" /\ w[2] > task[w[1]].ran) \/ Before(t, w[1])}

\* All that others could ever put before t.
Others(t) == Cardinality((Tasks \ {t}) \X (1..TimeLimit))

\* What holds of the record of task t, wherever it is.
Counts(t, r) ==
    /\ r.attempt = 0 => r.left = 0
    /\ r.left <= CountdownOf(r.attempt)
    /\ r.at = "delayed" => r.attempt # 0 /\ r.held + r.left <= CountdownOf(r.attempt)
    /\ r.at = "running" =>
          r.held <= CountdownOf(r.attempt) + Others(t) + r.ran /\ r.ran <= TimeLimit

CountsDown == \A t \in Tasks : Counts(t, task[t])

\* A task that is ready is held no longer than its countdown and the others' time.
WaitsOut ==
    \A t \in In({"ready"}) :
        task[t].held + Cardinality(Ahead(t)) <= CountdownOf(task[t].attempt) + Others(t)

VisibilityInv == HeldType /\ BacklogLists /\ FirstHasRoom /\ CountsDown /\ WaitsOut

-----------------------------------------------------------------------------
\* What is counted is finite.
LEMMA TasksFinite ==
    /\ \A where : IsFiniteSet(In(where)) /\ Cardinality(In(where)) \in Nat
    /\ \A t : IsFiniteSet(Ahead(t)) /\ Cardinality(Ahead(t)) \in Nat
    /\ \A t : IsFiniteSet((Tasks \ {t}) \X (1..TimeLimit)) /\ Others(t) \in Nat
<1>1. IsFiniteSet(Tasks)
  BY VisibilityAssumption
<1>2. ASSUME NEW where PROVE IsFiniteSet(In(where)) /\ Cardinality(In(where)) \in Nat
  <2>1. In(where) \in SUBSET Tasks
    BY DEF In
  <2>2. QED
    BY <1>1, <2>1, FS_Subset, FS_CardinalityType
<1>3. IsFiniteSet(1..TimeLimit)
  BY VisibilityAssumption, FS_Interval
<1>4. ASSUME NEW t PROVE IsFiniteSet(Ahead(t)) /\ Cardinality(Ahead(t)) \in Nat
  <2>1. IsFiniteSet(Tasks \X (1..TimeLimit))
    BY <1>1, <1>3, FS_Product
  <2>2. Ahead(t) \in SUBSET (Tasks \X (1..TimeLimit))
    BY DEF Ahead
  <2>3. QED
    BY <2>1, <2>2, FS_Subset, FS_CardinalityType
<1>5. ASSUME NEW t PROVE IsFiniteSet((Tasks \ {t}) \X (1..TimeLimit)) /\ Others(t) \in Nat
  <2>1. IsFiniteSet(Tasks \ {t})
    BY <1>1, FS_RemoveElement
  <2>2. QED
    BY <1>3, <2>1, FS_Product, FS_CardinalityType DEF Others
<1>6. QED
  BY <1>2, <1>4, <1>5

\* The other tasks take a time limit less than all of them.
LEMMA OthersBound ==
    ASSUME NEW t \in Tasks
    PROVE  Others(t) + TimeLimit = Cardinality(Tasks) * TimeLimit
<1>1. IsFiniteSet(Tasks) /\ TimeLimit \in Nat
  BY VisibilityAssumption
<1>2. /\ IsFiniteSet(Tasks \ {t}) /\ Cardinality(Tasks) \in Nat
      /\ Cardinality(Tasks \ {t}) = Cardinality(Tasks) - 1
  BY <1>1, FS_RemoveElement, FS_CardinalityType
<1>3. IsFiniteSet(1..TimeLimit) /\ Cardinality(1..TimeLimit) = TimeLimit
  BY <1>1, FS_Interval
<1>4. Others(t) = Cardinality(Tasks \ {t}) * Cardinality(1..TimeLimit)
  BY <1>2, <1>3, FS_Product DEF Others
<1>5. \A m, n \in Int : (m - 1) * n + n = m * n
  OBVIOUS
<1>6. QED
  <2>1. Others(t) = (Cardinality(Tasks) - 1) * TimeLimit
    BY <1>2, <1>3, <1>4
  <2>2. Cardinality(Tasks) \in Int /\ TimeLimit \in Int
    BY <1>1, <1>2
  <2>3. (Cardinality(Tasks) - 1) * TimeLimit + TimeLimit = Cardinality(Tasks) * TimeLimit
    BY <1>5, <2>2
  <2>4. QED
    BY <2>1, <2>3

\* A countdown is a number of units.
LEMMA CountdownsCount ==
    ASSUME NEW n \in 0..MaxRetries
    PROVE  CountdownOf(n) \in Nat
  BY VisibilityAssumption DEF CountdownOf, MaxRetries

\* Less ahead is still within.
LEMMA LessAhead ==
    ASSUME NEW h \in Nat, NEW a \in Nat, NEW b \in Nat, NEW c \in Nat, NEW o \in Nat,
           h + a <= c + o, b <= a
    PROVE  h + b <= c + o
  OBVIOUS

\* Two bounds together.
LEMMA BothWithin ==
    ASSUME NEW h \in Nat, NEW a \in Nat, NEW c \in Nat, NEW o \in Nat, h <= c, a <= o
    PROVE  h + a <= c + o
  OBVIOUS

\* A ready task is not before itself, so what is ahead of it is the others'.
LEMMA AheadIsOthers ==
    ASSUME NEW t \in Tasks, task[t].at # "running", ~Before(t, t)
    PROVE  Cardinality(Ahead(t)) <= Others(t)
<1>1. Ahead(t) \in SUBSET ((Tasks \ {t}) \X (1..TimeLimit))
  <2>1. ASSUME NEW w \in Ahead(t) PROVE w \in (Tasks \ {t}) \X (1..TimeLimit)
    <3>1. w \in Tasks \X (1..TimeLimit) /\ w[1] # t
      BY DEF Ahead
    <3>2. QED
      BY <3>1
  <2>2. QED
    BY <2>1
<1>2. QED
  BY <1>1, TasksFinite, FS_Subset DEF Others

-----------------------------------------------------------------------------
\* One task's record is replaced.
TaskBecomes(t, new) ==
    /\ new \in TaskType
    /\ task' = [task EXCEPT ![t] = new]

\* What one task's change makes of the places tasks are at.
LEMMA Replaced ==
    ASSUME HeldType, NEW t \in Tasks, NEW new, TaskBecomes(t, new)
    PROVE  /\ task' \in [Tasks -> TaskType]
           /\ task'[t] = new
           /\ \A u \in Tasks : u # t => task'[u] = task[u]
           /\ \A w : /\ new.at = w => In({w})' = In({w}) \cup {t}
                     /\ new.at # w => In({w})' = In({w}) \ {t}
<1>1. /\ task' \in [Tasks -> TaskType] /\ task'[t] = new
      /\ \A u \in Tasks : u # t => task'[u] = task[u]
  BY DEF HeldType, TaskBecomes
<1>2. QED
  BY <1>1 DEF In

\* A step of a task that is not ready, and does not become ready nor start.
LEMMA ElsewhereStep ==
    ASSUME VisibilityInv, NEW t \in Tasks, NEW new, TaskBecomes(t, new), backlog' = backlog,
           task[t].at # "ready", new.at \notin {"ready", "running"}, Counts(t, new)
    PROVE  VisibilityInv'
<1>1. /\ task' \in [Tasks -> TaskType] /\ task'[t] = new
      /\ \A u \in Tasks : u # t => task'[u] = task[u]
      /\ In({"ready"})' = In({"ready"}) \ {t} /\ Executing' = Executing \ {t}
  BY Replaced, ZenonT(60) DEF VisibilityInv, Executing
<1>2. In({"ready"})' = In({"ready"})
  BY <1>1 DEF In
<1>3. \A i \in DOMAIN backlog : backlog[i] \in Tasks /\ backlog[i] # t
  BY DEF VisibilityInv, HeldType, BacklogLists
<1>4. HeldType'
  BY <1>1 DEF VisibilityInv, HeldType
<1>5. BacklogLists'
  BY <1>1, <1>2, <1>3 DEF VisibilityInv, BacklogLists
<1>6. FirstHasRoom'
  <2>1. Cardinality(Executing') <= Cardinality(Executing) /\ Cardinality(Executing') \in Nat /\ Cardinality(Executing) \in Nat
    <3>1. IsFiniteSet(Executing) /\ Cardinality(Executing) \in Nat
      BY TasksFinite DEF Executing
    <3>2. Executing' \in SUBSET Executing
      BY <1>1
    <3>3. QED
      BY <3>1, <3>2, FS_Subset, FS_CardinalityType
  <2>2. ASSUME NEW i \in DOMAIN backlog, task[backlog[i]].attempt = 0
        PROVE  i + Cardinality(Executing') <= Processes /\ task[backlog[i]].held = 0
    BY <2>1, <2>2, VisibilityAssumption DEF VisibilityInv, FirstHasRoom, HeldType
  <2>3. \A u \in Executing' : u # t /\ u \in Executing /\ u \in Tasks
    BY <1>1 DEF Executing, In
  <2>4. QED
    BY <1>1, <1>3, <2>2, <2>3 DEF VisibilityInv, FirstHasRoom
<1>7. CountsDown'
  BY <1>1 DEF VisibilityInv, CountsDown, Counts, Others
<1>8. WaitsOut'
  <2>1. ASSUME NEW u \in In({"ready"})
        PROVE  task'[u].held + Cardinality(Ahead(u)') <= CountdownOf(task'[u].attempt) + Others(u)
    <3>1. u \in Tasks /\ u # t /\ task'[u] = task[u]
      BY <1>1, <2>1 DEF In
    <3>2. Ahead(u)' \in SUBSET Ahead(u)
      BY <1>1 DEF Ahead, Before
    <3>3. Cardinality(Ahead(u)') <= Cardinality(Ahead(u)) /\ Cardinality(Ahead(u)') \in Nat
      BY <3>2, TasksFinite, FS_Subset, FS_CardinalityType
    <3>4. task[u].held + Cardinality(Ahead(u)) <= CountdownOf(task[u].attempt) + Others(u)
      BY <2>1 DEF VisibilityInv, WaitsOut
    <3>5. task[u] \in TaskType /\ CountdownOf(task[u].attempt) \in Nat
      BY <3>1, CountdownsCount DEF VisibilityInv, HeldType, TaskType
    <3>6. task[u].held \in Nat
      BY <3>5 DEF TaskType
    <3>7. Cardinality(Ahead(u)) \in Nat /\ Others(u) \in Nat
      BY TasksFinite
    <3>8. QED
      BY <3>1, <3>3, <3>4, <3>5, <3>6, <3>7, LessAhead
  <2>2. QED
    BY <1>2, <2>1 DEF WaitsOut, Others
<1>9. QED
  BY <1>4, <1>5, <1>6, <1>7, <1>8 DEF VisibilityInv

\* A task joins the end of the backlog.
LEMMA JoinsStep ==
    ASSUME VisibilityInv, NEW t \in Tasks, NEW new, TaskBecomes(t, new),
           backlog' = Append(backlog, t),
           task[t].at \notin {"ready", "running"}, new.at = "ready", Counts(t, new),
           new.held <= CountdownOf(new.attempt),
           new.attempt = 0 => /\ Len(backlog) + 1 + Cardinality(Executing) <= Processes
                              /\ new.held = 0
    PROVE  VisibilityInv'
<1> DEFINE end == Len(backlog) + 1
<1>1. /\ task' \in [Tasks -> TaskType] /\ task'[t] = new
      /\ \A u \in Tasks : u # t => task'[u] = task[u]
      /\ In({"ready"})' = In({"ready"}) \cup {t} /\ Executing' = Executing \ {t}
  BY Replaced DEF VisibilityInv, Executing
<1>2. Executing' = Executing /\ t \notin In({"ready"}) /\ t \notin Executing
  BY <1>1 DEF Executing, In
<1>3. \A i \in DOMAIN backlog : backlog[i] \in Tasks /\ backlog[i] # t
  BY DEF VisibilityInv, HeldType, BacklogLists
<1>4. /\ backlog' \in Seq(Tasks) /\ Len(backlog) \in Nat /\ DOMAIN backlog = 1..Len(backlog)
      /\ DOMAIN backlog' = DOMAIN backlog \cup {end} /\ end \notin DOMAIN backlog
      /\ backlog'[end] = t /\ \A i \in DOMAIN backlog : backlog'[i] = backlog[i]
      /\ Len(backlog') = end
  BY DEF VisibilityInv, HeldType
<1>5. HeldType'
  BY <1>1, <1>4 DEF HeldType
<1>6. BacklogLists'
  <2>1. Cardinality(In({"ready"})') = Len(backlog')
    BY <1>1, <1>2, <1>4, TasksFinite, FS_AddElement DEF VisibilityInv, BacklogLists
  <2>2. \A i \in DOMAIN backlog' : task'[backlog'[i]].at = "ready"
    BY <1>1, <1>3, <1>4 DEF VisibilityInv, BacklogLists
  <2>3. \A i, j \in DOMAIN backlog' : backlog'[i] = backlog'[j] => i = j
    BY <1>3, <1>4 DEF VisibilityInv, BacklogLists
  <2>4. \A u \in In({"ready"})' : \E i \in DOMAIN backlog' : backlog'[i] = u
    BY <1>1, <1>4 DEF VisibilityInv, BacklogLists
  <2>5. QED
    BY <2>1, <2>2, <2>3, <2>4 DEF BacklogLists
<1>7. FirstHasRoom'
  <2>1. ASSUME NEW i \in DOMAIN backlog', task'[backlog'[i]].attempt = 0
        PROVE  i + Cardinality(Executing') <= Processes /\ task'[backlog'[i]].held = 0
    <3>1. CASE i = end
      BY <1>1, <1>2, <1>4, <2>1, <3>1
    <3>2. CASE i # end
      <4>1. i \in DOMAIN backlog /\ backlog'[i] = backlog[i]
        BY <1>4, <3>2
      <4>2. task'[backlog[i]] = task[backlog[i]]
        BY <1>1, <1>3, <4>1
      <4>3. task[backlog[i]].attempt = 0
        BY <2>1, <4>1, <4>2
      <4>4. i + Cardinality(Executing) <= Processes /\ task[backlog[i]].held = 0
        BY <4>1, <4>3 DEF VisibilityInv, FirstHasRoom
      <4>5. QED
        BY <1>2, <4>1, <4>2, <4>4
    <3>3. QED
      BY <3>1, <3>2
  <2>2. \A u \in Executing : u # t /\ u \in Tasks
    BY <1>2 DEF Executing, In
  <2>3. QED
    BY <1>1, <1>2, <2>1, <2>2 DEF VisibilityInv, FirstHasRoom
<1>8. CountsDown'
  BY <1>1 DEF VisibilityInv, CountsDown, Counts, Others
<1>9. WaitsOut'
  <2>1. ASSUME NEW u \in In({"ready"})
        PROVE  task'[u].held + Cardinality(Ahead(u)') <= CountdownOf(task'[u].attempt) + Others(u)
    <3>1. u \in Tasks /\ u # t /\ task'[u] = task[u]
      BY <1>1, <1>2, <2>1 DEF In
    <3>2. ASSUME NEW v, Before(u, v)' PROVE Before(u, v)
      <4>1. PICK i \in DOMAIN backlog', j \in DOMAIN backlog' :
                backlog'[i] = v /\ backlog'[j] = u /\ i < j
        BY <3>2 DEF Before
      <4>2. j # end
        BY <1>4, <3>1, <4>1
      <4>3. i # end
        BY <1>4, <4>1, <4>2
      <4>4. QED
        BY <1>4, <4>1, <4>2, <4>3 DEF Before
    <3>3. Ahead(u)' \in SUBSET Ahead(u)
      BY <1>1, <1>2, <3>2 DEF Ahead
    <3>4. Cardinality(Ahead(u)') <= Cardinality(Ahead(u)) /\ Cardinality(Ahead(u)') \in Nat
      BY <3>3, TasksFinite, FS_Subset, FS_CardinalityType
    <3>5. task[u].held + Cardinality(Ahead(u)) <= CountdownOf(task[u].attempt) + Others(u)
      BY <2>1 DEF VisibilityInv, WaitsOut
    <3>6. task[u] \in TaskType /\ CountdownOf(task[u].attempt) \in Nat
      BY <3>1, CountdownsCount DEF VisibilityInv, HeldType, TaskType
    <3>7. task[u].held \in Nat
      BY <3>6 DEF TaskType
    <3>8. Cardinality(Ahead(u)) \in Nat /\ Others(u) \in Nat
      BY TasksFinite
    <3>9. QED
      BY <3>1, <3>4, <3>5, <3>6, <3>7, <3>8, LessAhead
  <2>2. task'[t].held + Cardinality(Ahead(t)') <= CountdownOf(task'[t].attempt) + Others(t)
    <3>1. ~Before(t, t)'
      BY <1>6 DEF BacklogLists, Before
    <3>2. Cardinality(Ahead(t)') <= Others(t)
      <4>1. Ahead(t)' \in SUBSET ((Tasks \ {t}) \X (1..TimeLimit))
        <5>1. ASSUME NEW w \in Ahead(t)' PROVE w \in (Tasks \ {t}) \X (1..TimeLimit)
          <6>1. w \in Tasks \X (1..TimeLimit) /\ w[1] # t
            BY <1>1, <3>1 DEF Ahead
          <6>2. QED
            BY <6>1
        <5>2. QED
          BY <5>1
      <4>2. QED
        BY <4>1, TasksFinite, FS_Subset DEF Others
    <3>3. Cardinality(Ahead(t)') \in Nat /\ Others(t) \in Nat
      <4>1. IsFiniteSet(Tasks \X (1..TimeLimit))
        <5>1. IsFiniteSet(Tasks) /\ IsFiniteSet(1..TimeLimit)
          BY VisibilityAssumption, FS_Interval
        <5>2. QED
          BY <5>1, FS_Product
      <4>2. Ahead(t)' \in SUBSET (Tasks \X (1..TimeLimit))
        BY DEF Ahead
      <4>3. QED
        BY <4>1, <4>2, TasksFinite, FS_Subset, FS_CardinalityType
    <3>4. new \in TaskType /\ CountdownOf(new.attempt) \in Nat /\ new.held \in Nat
      BY CountdownsCount DEF TaskBecomes, TaskType
    <3>5. new.held <= CountdownOf(new.attempt) /\ task'[t] = new
      BY <1>1
    <3>6. QED
      BY <3>2, <3>3, <3>4, <3>5, BothWithin
  <2>3. QED
    BY <1>1, <2>1, <2>2 DEF WaitsOut, Others
<1>10. QED
  BY <1>5, <1>6, <1>7, <1>8, <1>9 DEF VisibilityInv

\* The first of the backlog starts: what it may still take was ahead of the rest already.
LEMMA StartStep ==
    ASSUME VisibilityInv, StartTask
    PROVE  VisibilityInv'
<1>1. PICK t : t = Head(backlog)
  OBVIOUS
<1>2. PICK new : new = [[task[t] EXCEPT !.at = "running"] EXCEPT !.ran = 0]
  OBVIOUS
<1>3. /\ backlog \in Seq(Tasks) /\ backlog # <<>> /\ t \in Tasks /\ task[t] \in TaskType
      /\ 1 \in DOMAIN backlog /\ t = backlog[1]
  BY <1>1 DEF StartTask, CanStart, VisibilityInv, HeldType
<1>4. /\ new \in TaskType /\ new.at = "running" /\ new.ran = 0 /\ new.held = task[t].held
      /\ new.attempt = task[t].attempt /\ new.left = task[t].left
  BY <1>2, <1>3, Zenon DEF TaskType, Wheres
<1>5. TaskBecomes(t, new)
  BY <1>1, <1>2, <1>4, Zenon DEF TaskBecomes, StartTask
<1>6. /\ task' \in [Tasks -> TaskType] /\ task'[t] = new
      /\ \A u \in Tasks : u # t => task'[u] = task[u]
      /\ In({"ready"})' = In({"ready"}) \ {t} /\ Executing' = Executing \cup {t}
  <2>1. HeldType
    BY DEF VisibilityInv
  <2>2. /\ task' \in [Tasks -> TaskType] /\ task'[t] = new
        /\ \A u \in Tasks : u # t => task'[u] = task[u]
        /\ \A w : /\ new.at = w => In({w})' = In({w}) \cup {t}
                  /\ new.at # w => In({w})' = In({w}) \ {t}
    BY <1>3, <1>5, <2>1, Replaced
  <2>3. QED
    BY <1>4, <2>2 DEF Executing
<1>7. task[t].at = "ready" /\ t \in In({"ready"}) /\ t \notin Executing
  BY <1>3 DEF VisibilityInv, BacklogLists, In, Executing
<1>8. /\ backlog' \in Seq(Tasks) /\ Len(backlog') = Len(backlog) - 1 /\ Len(backlog) \in Nat
      /\ \A i \in DOMAIN backlog' :
            /\ i \in Nat \ {0} /\ i + 1 \in DOMAIN backlog /\ backlog'[i] = backlog[i + 1]
            /\ backlog'[i] \in Tasks
      /\ \A i \in DOMAIN backlog : i # 1 => i - 1 \in DOMAIN backlog' /\ backlog[i] = backlog'[i - 1]
  <2>1. backlog' = Tail(backlog)
    BY DEF StartTask
  <2>2. /\ backlog' \in Seq(Tasks) /\ Len(backlog') = Len(backlog) - 1 /\ Len(backlog) \in Nat \ {0}
        /\ DOMAIN backlog' = 1..Len(backlog') /\ DOMAIN backlog = 1..Len(backlog)
    BY <1>3, <2>1
  <2>3. \A i \in 1..Len(backlog') : backlog'[i] = backlog[i + 1]
    BY <1>3, <2>1, <2>2
  <2>4. ASSUME NEW i \in DOMAIN backlog'
        PROVE  /\ i \in Nat \ {0} /\ i + 1 \in DOMAIN backlog /\ backlog'[i] = backlog[i + 1]
               /\ backlog'[i] \in Tasks
    BY <1>3, <2>2, <2>3
  <2>5. ASSUME NEW i \in DOMAIN backlog, i # 1
        PROVE  i - 1 \in DOMAIN backlog' /\ backlog[i] = backlog'[i - 1]
    <3>1. i - 1 \in 1..Len(backlog') /\ (i - 1) + 1 = i
      BY <2>2, <2>5
    <3>2. QED
      BY <2>2, <2>3, <3>1
  <2>6. QED
    BY <2>2, <2>4, <2>5
<1>9. \A i \in DOMAIN backlog' : backlog'[i] # t /\ task'[backlog'[i]] = task[backlog[i + 1]]
  <2>1. ASSUME NEW i \in DOMAIN backlog' PROVE backlog'[i] # t
    <3>1. i + 1 \in DOMAIN backlog /\ i + 1 # 1 /\ backlog'[i] = backlog[i + 1]
      BY <1>8
    <3>2. QED
      BY <1>3, <3>1 DEF VisibilityInv, BacklogLists
  <2>2. QED
    BY <1>6, <1>8, <2>1
<1>10. HeldType'
  BY <1>6, <1>8 DEF HeldType
<1>11. BacklogLists'
  <2>1. Cardinality(In({"ready"})') = Len(backlog')
    <3>1. IsFiniteSet(In({"ready"})) /\ Cardinality(In({"ready"})) = Len(backlog)
      BY TasksFinite DEF VisibilityInv, BacklogLists
    <3>2. Cardinality(In({"ready"}) \ {t}) = Cardinality(In({"ready"})) - 1
      BY <1>7, <3>1, FS_RemoveElement
    <3>3. QED
      BY <1>6, <1>8, <3>1, <3>2
  <2>2. \A i \in DOMAIN backlog' : task'[backlog'[i]].at = "ready"
    <3>1. \A i \in DOMAIN backlog : task[backlog[i]].at = "ready"
      BY DEF VisibilityInv, BacklogLists
    <3>2. QED
      BY <1>8, <1>9, <3>1
  <2>3. ASSUME NEW i \in DOMAIN backlog', NEW j \in DOMAIN backlog', backlog'[i] = backlog'[j]
        PROVE  i = j
    <3>1. i + 1 = j + 1
      BY <1>8, <2>3 DEF VisibilityInv, BacklogLists
    <3>2. QED
      BY <1>8, <3>1
  <2>4. ASSUME NEW u \in In({"ready"})' PROVE \E i \in DOMAIN backlog' : backlog'[i] = u
    <3>1. u \in In({"ready"}) /\ u # t
      BY <1>6, <2>4
    <3>2. PICK i \in DOMAIN backlog : backlog[i] = u
      BY <3>1 DEF VisibilityInv, BacklogLists
    <3>3. QED
      BY <1>3, <1>8, <3>1, <3>2
  <2>5. QED
    BY <2>1, <2>2, <2>3, <2>4 DEF BacklogLists
<1>12. FirstHasRoom'
  <2>1. Cardinality(Executing') = Cardinality(Executing) + 1 /\ Cardinality(Executing) \in Nat
    <3>1. IsFiniteSet(Executing) /\ Cardinality(Executing) \in Nat
      BY TasksFinite DEF Executing
    <3>2. QED
      BY <1>6, <1>7, <3>1, FS_AddElement
  <2>2. ASSUME NEW i \in DOMAIN backlog', task'[backlog'[i]].attempt = 0
        PROVE  i + Cardinality(Executing') <= Processes /\ task'[backlog'[i]].held = 0
    <3>1. i \in Nat /\ i + 1 \in DOMAIN backlog /\ task'[backlog'[i]] = task[backlog[i + 1]]
      BY <1>8, <1>9
    <3>2. (i + 1) + Cardinality(Executing) <= Processes /\ task[backlog[i + 1]].held = 0
      BY <2>2, <3>1 DEF VisibilityInv, FirstHasRoom
    <3>3. QED
      BY <2>1, <3>1, <3>2, VisibilityAssumption
  <2>3. ASSUME NEW u \in Executing', task'[u].attempt = 0 PROVE task'[u].held = task'[u].ran
    <3>1. CASE u = t
      BY <1>3, <1>4, <1>6, <2>3, <3>1 DEF VisibilityInv, FirstHasRoom
    <3>2. CASE u # t
      <4>1. u \in Executing /\ u \in Tasks /\ task'[u] = task[u]
        BY <1>6, <2>3, <3>2 DEF Executing, In
      <4>2. QED
        BY <2>3, <4>1 DEF VisibilityInv, FirstHasRoom
    <3>3. QED
      BY <3>1, <3>2
  <2>4. QED
    BY <2>2, <2>3 DEF FirstHasRoom
<1>13. CountsDown'
  <2>1. Counts(t, new)
    <3>1. task[t].held + Cardinality(Ahead(t)) <= CountdownOf(task[t].attempt) + Others(t)
      BY <1>7 DEF VisibilityInv, WaitsOut
    <3>2. /\ task[t].held \in Nat /\ Cardinality(Ahead(t)) \in Nat /\ Others(t) \in Nat
          /\ CountdownOf(task[t].attempt) \in Nat /\ TimeLimit \in Nat
      BY <1>3, TasksFinite, CountdownsCount, VisibilityAssumption DEF TaskType
    <3>3. task[t].held <= CountdownOf(task[t].attempt) + Others(t) + 0
      BY <3>1, <3>2
    <3>4. Counts(t, task[t])
      BY <1>3 DEF VisibilityInv, CountsDown
    <3>5. QED
      BY <1>4, <3>2, <3>3, <3>4 DEF Counts
  <2>2. QED
    BY <1>6, <2>1 DEF VisibilityInv, CountsDown, Counts, Others
<1>14. WaitsOut'
  <2>1. ASSUME NEW u \in In({"ready"})'
        PROVE  task'[u].held + Cardinality(Ahead(u)') <= CountdownOf(task'[u].attempt) + Others(u)
    <3>1. u \in Tasks /\ u # t /\ task'[u] = task[u] /\ u \in In({"ready"})
      BY <1>6, <2>1 DEF In
    <3>2. ASSUME NEW v, Before(u, v)' PROVE Before(u, v)
      <4>1. PICK i \in DOMAIN backlog', j \in DOMAIN backlog' :
                backlog'[i] = v /\ backlog'[j] = u /\ i < j
        BY <3>2 DEF Before
      <4>2. /\ i + 1 \in DOMAIN backlog /\ j + 1 \in DOMAIN backlog /\ i + 1 < j + 1
            /\ backlog[i + 1] = v /\ backlog[j + 1] = u
        BY <1>8, <4>1
      <4>3. QED
        BY <4>2 DEF Before
    <3>3. Before(u, t)
      <4>1. PICK j \in DOMAIN backlog : backlog[j] = u
        BY <3>1 DEF VisibilityInv, BacklogLists
      <4>2. j # 1 /\ 1 < j
        BY <1>3, <3>1, <4>1
      <4>3. QED
        BY <1>3, <4>1, <4>2 DEF Before
    <3>4. Ahead(u)' \in SUBSET Ahead(u)
      <4>1. ASSUME NEW w \in Ahead(u)' PROVE w \in Ahead(u)
        <5>1. w \in Tasks \X (1..TimeLimit)
          BY <4>1 DEF Ahead
        <5>2. CASE w[1] = t
          BY <3>3, <5>1, <5>2 DEF Ahead
        <5>3. CASE w[1] # t
          BY <1>6, <3>2, <4>1, <5>1, <5>3 DEF Ahead
        <5>4. QED
          BY <5>2, <5>3
      <4>2. QED
        BY <4>1
    <3>5. Cardinality(Ahead(u)') <= Cardinality(Ahead(u)) /\ Cardinality(Ahead(u)') \in Nat
      BY <3>4, TasksFinite, FS_Subset, FS_CardinalityType
    <3>6. task[u].held + Cardinality(Ahead(u)) <= CountdownOf(task[u].attempt) + Others(u)
      BY <3>1 DEF VisibilityInv, WaitsOut
    <3>7. task[u] \in TaskType /\ CountdownOf(task[u].attempt) \in Nat
      BY <3>1, CountdownsCount DEF VisibilityInv, HeldType, TaskType
    <3>8. task[u].held \in Nat
      BY <3>7 DEF TaskType
    <3>9. Cardinality(Ahead(u)) \in Nat /\ Others(u) \in Nat
      BY TasksFinite
    <3>10. QED
      BY <3>1, <3>5, <3>6, <3>7, <3>8, <3>9, LessAhead
  <2>2. QED
    BY <2>1 DEF WaitsOut, Others
<1>15. QED
  BY <1>10, <1>11, <1>12, <1>13, <1>14 DEF VisibilityInv

\* A unit of time passes only while every process is busy or nothing is ready, so what
\* is ahead of a ready task shrinks by the unit it waits.
LEMMA TimeStep ==
    ASSUME VisibilityInv, TimePasses
    PROVE  VisibilityInv'
<1>1. ASSUME NEW u \in Tasks
      PROVE  /\ task'[u] \in TaskType /\ task[u] \in TaskType
             /\ task'[u].at = task[u].at /\ task'[u].attempt = task[u].attempt
             /\ task'[u].left = IF task[u].left > 0 THEN task[u].left - 1 ELSE 0
             /\ task'[u].held = IF u \in Unacked THEN task[u].held + 1 ELSE task[u].held
             /\ task'[u].ran = IF task[u].at = "running" THEN task[u].ran + 1 ELSE task[u].ran
  <2>1. PICK l : l = IF task[u].left > 0 THEN task[u].left - 1 ELSE 0
    OBVIOUS
  <2>2. PICK h : h = IF u \in Unacked THEN task[u].held + 1 ELSE task[u].held
    OBVIOUS
  <2>3. PICK n : n = IF task[u].at = "running" THEN task[u].ran + 1 ELSE task[u].ran
    OBVIOUS
  <2>4. task[u] \in TaskType
    BY DEF VisibilityInv, HeldType
  <2>5. task'[u] = [task[u] EXCEPT !.left = l, !.held = h, !.ran = n]
    BY <2>1, <2>2, <2>3, Zenon DEF TimePasses
  <2>6. l \in Nat /\ h \in Nat /\ n \in Nat
    BY <2>1, <2>2, <2>3, <2>4 DEF TaskType
  <2>7. PICK x : x = [[[task[u] EXCEPT !.left = l] EXCEPT !.held = h] EXCEPT !.ran = n]
    OBVIOUS
  <2>8. /\ x \in TaskType /\ x.at = task[u].at /\ x.attempt = task[u].attempt
        /\ x.left = l /\ x.held = h /\ x.ran = n
    BY <2>4, <2>6, <2>7, Zenon DEF TaskType
  <2>9. task'[u] = x
    BY <2>5, <2>7, Zenon
  <2>10. QED
    BY <2>1, <2>2, <2>3, <2>4, <2>8, <2>9
<1>2. backlog' = backlog /\ backlog \in Seq(Tasks) /\ task' \in [Tasks -> TaskType]
  <2>1. task' = [u \in Tasks |-> task'[u]]
    BY DEF TimePasses
  <2>2. QED
    BY <1>1, <2>1 DEF TimePasses, VisibilityInv, HeldType
<1>3. \A where : In(where)' = In(where)
  BY <1>1 DEF In
<1>4. /\ \A r \in Executing : r \in Tasks /\ task[r].at = "running" /\ task[r].ran < TimeLimit
      /\ \A u \in Tasks : task[u].at = "delayed" => task[u].left > 0
      /\ backlog # <<>> => Cardinality(Executing) >= Processes
  <2>1. Cardinality(Executing) \in Nat /\ Processes \in Nat
    BY TasksFinite, VisibilityAssumption DEF Executing
  <2>2. QED
    <3>1. /\ \A r \in In({"running"}) : MayGoOn(r)
          /\ \A u \in In({"delayed"}) : task[u].left > 0
          /\ ~CanStart
      BY DEF TimePasses
    <3>2. backlog # <<>> => Cardinality(Executing) >= Processes
      BY <2>1, <3>1 DEF CanStart, Executing
    <3>3. QED
      BY <3>1, <3>2 DEF MayGoOn, Executing, In
<1>5. HeldType'
  BY <1>2 DEF HeldType
<1>6. BacklogLists'
  BY <1>1, <1>2, <1>3 DEF VisibilityInv, HeldType, BacklogLists
<1>7. FirstHasRoom'
  <2>1. Executing' = Executing
    BY <1>3 DEF Executing
  <2>2. ASSUME NEW i \in DOMAIN backlog, task'[backlog[i]].attempt = 0 PROVE FALSE
    <3>1. i \in Nat \ {0} /\ backlog # <<>> /\ backlog[i] \in Tasks
      BY <1>2
    <3>2. task[backlog[i]].attempt = 0
      BY <1>1, <2>2, <3>1
    <3>3. i + Cardinality(Executing) <= Processes
      BY <3>2 DEF VisibilityInv, FirstHasRoom
    <3>4. Cardinality(Executing) \in Nat /\ Processes \in Nat
      BY TasksFinite, VisibilityAssumption DEF Executing
    <3>5. QED
      BY <1>4, <3>1, <3>3, <3>4
  <2>3. ASSUME NEW u \in Executing, task'[u].attempt = 0 PROVE task'[u].held = task'[u].ran
    <3>1. u \in Tasks /\ u \in Unacked /\ task[u].at = "running"
      BY DEF Executing, Unacked, In
    <3>2. task[u].attempt = 0
      BY <1>1, <2>3, <3>1
    <3>3. task[u].held = task[u].ran
      BY <3>2 DEF VisibilityInv, FirstHasRoom
    <3>4. task'[u].held = task[u].held + 1 /\ task'[u].ran = task[u].ran + 1
      BY <1>1, <3>1
    <3>5. QED
      BY <3>3, <3>4
  <2>4. QED
    BY <1>2, <2>1, <2>2, <2>3 DEF FirstHasRoom
<1>8. CountsDown'
  <2>1. ASSUME NEW u \in Tasks PROVE Counts(u, task'[u])
    <3>1. Counts(u, task[u])
      BY DEF VisibilityInv, CountsDown
    <3>2. CountdownOf(task[u].attempt) \in Nat /\ Others(u) \in Nat /\ TimeLimit \in Nat
      BY <1>1, CountdownsCount, TasksFinite, VisibilityAssumption DEF TaskType
    <3>3. /\ task[u].left \in Nat /\ task[u].held \in Nat /\ task[u].ran \in Nat
          /\ task[u].at = "delayed" => u \in Unacked /\ task[u].left > 0
          /\ task[u].at = "running" => u \in Unacked /\ task[u].ran < TimeLimit
      BY <1>1, <1>4 DEF TaskType, Unacked, Executing, In
    <3>4. QED
      BY <1>1, <3>1, <3>2, <3>3 DEF Counts
  <2>2. QED
    BY <2>1 DEF CountsDown, Counts, Others
<1>9. WaitsOut'
  <2>1. ASSUME NEW u \in In({"ready"})
        PROVE  task'[u].held + Cardinality(Ahead(u)') <= CountdownOf(task'[u].attempt) + Others(u)
    <3>1. u \in Tasks /\ u \in Unacked
      BY DEF In, Unacked
    <3>2. backlog # <<>> /\ Cardinality(Executing) >= Processes
      BY <1>2, <1>4 DEF VisibilityInv, BacklogLists
    <3>3. PICK r \in Executing : TRUE
      <4>1. Executing # {}
        <5>1. Processes \in Nat \ {0} /\ Cardinality({}) = 0
          BY FS_EmptySet, VisibilityAssumption
        <5>2. Cardinality(Executing) \in Nat
          BY TasksFinite DEF Executing
        <5>3. Cardinality(Executing) # 0
          BY <3>2, <5>1, <5>2
        <5>4. QED
          BY <5>1, <5>3
      <4>2. QED
        BY <4>1
    <3>4. PICK w : w = <<r, task[r].ran + 1>>
      OBVIOUS
    <3>5. /\ r \in Tasks /\ task[r].at = "running" /\ task[r].ran < TimeLimit
          /\ task[r].ran \in Nat /\ task'[r].ran = task[r].ran + 1
      BY <1>1, <1>4, <3>3 DEF TaskType
    <3>6. w \in Ahead(u)
      BY <3>4, <3>5, VisibilityAssumption DEF Ahead
    <3>7. \A v : Before(u, v)' = Before(u, v)
      BY <1>2 DEF Before
    <3>8. w \notin Ahead(u)'
      <4>1. ~Before(u, r)
        BY <3>5 DEF Before, VisibilityInv, BacklogLists
      <4>2. QED
        BY <3>4, <3>5, <3>7, <4>1 DEF Ahead
    <3>9. Ahead(u)' \in SUBSET Ahead(u)
      <4>1. ASSUME NEW x \in Ahead(u)' PROVE x \in Ahead(u)
        <5>1. x \in Tasks \X (1..TimeLimit) /\ x[1] \in Tasks /\ x[2] \in Nat
          BY <4>1, VisibilityAssumption DEF Ahead
        <5>2. /\ task'[x[1]].at = task[x[1]].at /\ task[x[1]].ran \in Nat
              /\ task'[x[1]].at = "running" => task'[x[1]].ran = task[x[1]].ran + 1
          BY <1>1, <5>1 DEF TaskType
        <5>3. QED
          BY <3>7, <4>1, <5>1, <5>2 DEF Ahead
      <4>2. QED
        BY <4>1
    <3>10. /\ Cardinality(Ahead(u)') <= Cardinality(Ahead(u)) - 1
           /\ Cardinality(Ahead(u)') \in Nat /\ Cardinality(Ahead(u)) \in Nat
      <4>1. /\ IsFiniteSet(Ahead(u)) /\ Cardinality(Ahead(u)) \in Nat
        BY TasksFinite
      <4>2. /\ IsFiniteSet(Ahead(u) \ {w})
            /\ Cardinality(Ahead(u) \ {w}) = Cardinality(Ahead(u)) - 1
        BY <3>6, <4>1, FS_RemoveElement
      <4>3. Ahead(u)' \in SUBSET (Ahead(u) \ {w})
        BY <3>8, <3>9
      <4>4. QED
        BY <4>1, <4>2, <4>3, FS_Subset, FS_CardinalityType
    <3>11. task[u].held + Cardinality(Ahead(u)) <= CountdownOf(task[u].attempt) + Others(u)
      BY <2>1 DEF VisibilityInv, WaitsOut
    <3>12. /\ CountdownOf(task[u].attempt) \in Nat /\ Others(u) \in Nat /\ task[u].held \in Nat
           /\ task'[u].held = task[u].held + 1 /\ task'[u].attempt = task[u].attempt
      BY <1>1, <3>1, CountdownsCount, TasksFinite DEF TaskType
    <3>13. QED
      BY <3>10, <3>11, <3>12
  <2>2. QED
    BY <1>3, <2>1 DEF WaitsOut, Others
<1>10. QED
  BY <1>5, <1>6, <1>7, <1>8, <1>9 DEF VisibilityInv

\* Nothing is held at first.
LEMMA VisibilityInitially == VisibilityInit => VisibilityInv
<1> SUFFICES ASSUME VisibilityInit PROVE VisibilityInv
  OBVIOUS
<1>1. \A t \in Tasks : /\ task[t] \in TaskType /\ task[t].at = "nowhere"
                       /\ task[t].attempt = 0 /\ task[t].left = 0
  BY VisibilityAssumption DEF VisibilityInit, TaskType, Wheres, MaxRetries
<1>2. HeldType
  BY <1>1 DEF VisibilityInit, HeldType
<1>3. DOMAIN backlog = {} /\ Len(backlog) = 0
  BY DEF VisibilityInit
<1>4. In({"ready"}) = {} /\ Executing = {}
  BY <1>1 DEF In, Executing
<1>5. BacklogLists
  <2>1. Cardinality(In({"ready"})) = 0
    BY <1>4, FS_EmptySet
  <2>2. QED
    BY <1>3, <1>4, <2>1 DEF BacklogLists
<1>6. FirstHasRoom
  BY <1>3, <1>4 DEF FirstHasRoom
<1>7. CountsDown
  BY <1>1 DEF CountsDown, Counts, CountdownOf
<1>8. WaitsOut
  BY <1>4 DEF WaitsOut
<1>9. QED
  BY <1>2, <1>5, <1>6, <1>7, <1>8 DEF VisibilityInv

\* Two sets without a common element are counted together.
LEMMA CountsTogether ==
    ASSUME NEW A, NEW B, IsFiniteSet(A), IsFiniteSet(B), A \cap B = {}
    PROVE  IsFiniteSet(A \cup B) /\ Cardinality(A \cup B) = Cardinality(A) + Cardinality(B)
<1>1. /\ IsFiniteSet(A \cup B)
      /\ Cardinality(A \cup B) = Cardinality(A) + Cardinality(B) - Cardinality(A \cap B)
  BY FS_Union
<1>2. Cardinality(A \cap B) = 0
  BY FS_EmptySet
<1>3. Cardinality(A) \in Nat /\ Cardinality(B) \in Nat
  BY FS_CardinalityType
<1>4. QED
  BY <1>1, <1>2, <1>3

\* What CanConsume counts: the ready and the running leave room for one more.
LEMMA ConsumeLeavesRoom ==
    ASSUME VisibilityInv, CanConsume
    PROVE  Len(backlog) + 1 + Cardinality(Executing) <= Processes
<1>1. /\ IsFiniteSet(In({"delayed"})) /\ IsFiniteSet(In({"ready"})) /\ IsFiniteSet(Executing)
      /\ Cardinality(In({"delayed"})) \in Nat /\ Cardinality(In({"ready"})) \in Nat
      /\ Cardinality(Executing) \in Nat
  BY TasksFinite DEF Executing
<1>2. /\ Unacked = (In({"delayed"}) \cup In({"ready"})) \cup Executing
      /\ In({"delayed"}) \cap In({"ready"}) = {}
      /\ (In({"delayed"}) \cup In({"ready"})) \cap Executing = {}
  BY DEF Unacked, Executing, In
<1>3. /\ IsFiniteSet(In({"delayed"}) \cup In({"ready"}))
      /\ Cardinality(In({"delayed"}) \cup In({"ready"}))
           = Cardinality(In({"delayed"})) + Cardinality(In({"ready"}))
  BY <1>1, <1>2, CountsTogether
<1>4. Cardinality(Unacked)
        = Cardinality(In({"delayed"})) + Cardinality(In({"ready"})) + Cardinality(Executing)
  <2>1. Cardinality(Unacked)
          = Cardinality(In({"delayed"}) \cup In({"ready"})) + Cardinality(Executing)
    BY <1>1, <1>2, <1>3, CountsTogether
  <2>2. QED
    BY <1>3, <2>1
<1>5. Cardinality(In({"ready"})) = Len(backlog)
  BY DEF VisibilityInv, BacklogLists
<1>6. QED
  BY <1>1, <1>4, <1>5, VisibilityAssumption DEF CanConsume

\* The steps of one task but its start.
LEMMA VisibilityTaskSteps ==
    ASSUME VisibilityInv, NEW t \in Tasks,
           Send(t) \/ Receive(t) \/ CountdownEnds(t) \/ Finish(t) \/ Retry(t)
    PROVE  VisibilityInv'
<1>1. task[t] \in TaskType /\ Counts(t, task[t]) /\ task \in [Tasks -> TaskType]
  BY DEF VisibilityInv, HeldType, CountsDown
<1>2. CountdownOf(task[t].attempt) \in Nat /\ task[t].left \in Nat /\ task[t].held \in Nat
  BY <1>1, CountdownsCount DEF TaskType

\* The steps that only change where the message is.
<1>3. ASSUME NEW a \in Wheres, task' = [task EXCEPT ![t].at = a]
      PROVE  \E new : /\ TaskBecomes(t, new) /\ new.at = a /\ new.attempt = task[t].attempt
                      /\ new.left = task[t].left /\ new.held = task[t].held
  <2>1. PICK new : new = [task[t] EXCEPT !.at = a]
    OBVIOUS
  <2>2. /\ new \in TaskType /\ new.at = a /\ new.attempt = task[t].attempt
        /\ new.left = task[t].left /\ new.held = task[t].held
    BY <1>1, <2>1, Zenon DEF TaskType
  <2>3. task' = [task EXCEPT ![t] = new]
    BY <1>3, <2>1, Zenon
  <2>4. QED
    BY <2>2, <2>3 DEF TaskBecomes
<1>4. CASE Send(t)
  <2>1. PICK new : /\ TaskBecomes(t, new) /\ new.at = "queue" /\ new.attempt = task[t].attempt
                   /\ new.left = task[t].left /\ new.held = task[t].held
    BY <1>3, <1>4 DEF Send, Wheres
  <2>2. Counts(t, new)
    BY <1>1, <2>1 DEF Counts
  <2>3. QED
    BY <1>4, <2>1, <2>2, ElsewhereStep DEF Send
<1>5. CASE Finish(t)
  <2>1. PICK new : /\ TaskBecomes(t, new) /\ new.at = "over" /\ new.attempt = task[t].attempt
                   /\ new.left = task[t].left /\ new.held = task[t].held
    BY <1>3, <1>5 DEF Finish, Wheres
  <2>2. Counts(t, new)
    BY <1>1, <2>1 DEF Counts
  <2>3. QED
    BY <1>5, <2>1, <2>2, ElsewhereStep DEF Finish
<1>6. CASE CountdownEnds(t)
  <2>1. PICK new : /\ TaskBecomes(t, new) /\ new.at = "ready" /\ new.attempt = task[t].attempt
                   /\ new.left = task[t].left /\ new.held = task[t].held
    BY <1>3, <1>6 DEF CountdownEnds, Wheres
  <2>2. Counts(t, new)
    BY <1>1, <2>1 DEF Counts
  <2>3. task[t].at = "delayed" /\ task[t].left = 0 /\ backlog' = Append(backlog, t)
    BY <1>6 DEF CountdownEnds
  <2>4. new.held <= CountdownOf(new.attempt) /\ new.attempt # 0
    BY <1>1, <1>2, <2>1, <2>3 DEF Counts
  <2>5. QED
    BY <2>1, <2>2, <2>3, <2>4, JoinsStep
<1>7. CASE Receive(t)
  <2>1. PICK a : a = IF task[t].left > 0 THEN "delayed" ELSE "ready"
    OBVIOUS
  <2>2. PICK new : new = [[task[t] EXCEPT !.at = a] EXCEPT !.held = 0]
    OBVIOUS
  <2>3. a \in Wheres /\ a \in {"delayed", "ready"}
    BY <2>1 DEF Wheres
  <2>4. /\ new \in TaskType /\ new.at = a /\ new.held = 0
        /\ new.attempt = task[t].attempt /\ new.left = task[t].left
    BY <1>1, <2>2, <2>3, Zenon DEF TaskType
  <2>5. /\ task' = [task EXCEPT ![t].at = a, ![t].held = 0]
        /\ backlog' = IF a = "ready" THEN Append(backlog, t) ELSE backlog
        /\ task[t].at = "queue" /\ CanConsume
    BY <1>7, <2>1, Zenon DEF Receive
  <2>6. TaskBecomes(t, new)
    BY <2>2, <2>4, <2>5, Zenon DEF TaskBecomes
  <2>7. Counts(t, new)
    BY <1>1, <1>2, <2>1, <2>3, <2>4 DEF Counts
  <2>8. CASE a = "delayed"
    BY <2>4, <2>5, <2>6, <2>7, <2>8, ElsewhereStep
  <2>9. CASE a = "ready"
    <3>1. Len(backlog) + 1 + Cardinality(Executing) <= Processes
      BY <2>5, ConsumeLeavesRoom
    <3>2. new.held <= CountdownOf(new.attempt)
      BY <1>2, <2>4
    <3>3. QED
      BY <2>4, <2>5, <2>6, <2>7, <2>9, <3>1, <3>2, JoinsStep
  <2>10. QED
    BY <2>3, <2>8, <2>9
<1>8. CASE Retry(t)
  <2>1. PICK n : n = task[t].attempt + 1
    OBVIOUS
  <2>2. PICK new : new = [at |-> "queue", attempt |-> n, left |-> Countdowns[n],
                          held |-> 0, ran |-> 0]
    OBVIOUS
  <2>3. task[t].attempt \in Nat /\ task[t].attempt < MaxRetries /\ MaxRetries \in Nat
    BY <1>1, <1>8, VisibilityAssumption DEF Retry, TaskType, MaxRetries
  <2>4. n \in 1..MaxRetries /\ Countdowns[n] \in Nat
    BY <2>1, <2>3, VisibilityAssumption DEF MaxRetries
  <2>5. new \in TaskType
    BY <2>2, <2>4 DEF TaskType, Wheres
  <2>6. task' = [task EXCEPT ![t] = new]
    BY <1>8, <2>1, <2>2, Zenon DEF Retry
  <2>7. Counts(t, new)
    BY <2>2, <2>4 DEF Counts, CountdownOf
  <2>8. QED
    BY <1>8, <2>2, <2>5, <2>6, <2>7, ElsewhereStep DEF Retry, TaskBecomes
<1>9. QED
  BY <1>4, <1>5, <1>6, <1>7, <1>8

\* Every step keeps the invariant.
LEMMA VisibilityStep ==
    VisibilityInv /\ [VisibilityNext]_visibilityVars => VisibilityInv'
<1> SUFFICES ASSUME VisibilityInv, [VisibilityNext]_visibilityVars PROVE VisibilityInv'
  OBVIOUS
<1>1. CASE \E t \in Tasks : Send(t) \/ Receive(t) \/ CountdownEnds(t) \/ Finish(t) \/ Retry(t)
  BY <1>1, VisibilityTaskSteps
<1>2. CASE StartTask
  BY <1>2, StartStep
<1>3. CASE TimePasses
  BY <1>3, TimeStep
<1>4. CASE UNCHANGED visibilityVars
  <2>1. task' = task /\ backlog' = backlog
    BY <1>4 DEF visibilityVars
  <2>2. HeldType' /\ BacklogLists' /\ FirstHasRoom'
    BY <2>1 DEF VisibilityInv, HeldType, BacklogLists, FirstHasRoom, Executing, In
  <2>3. CountsDown'
    BY <2>1 DEF VisibilityInv, CountsDown, Counts, Others
  <2>4. WaitsOut'
    <3>1. In({"ready"})' = In({"ready"}) /\ \A t : Ahead(t)' = Ahead(t)
      BY <2>1 DEF In, Ahead, Before
    <3>2. QED
      BY <2>1, <3>1 DEF VisibilityInv, WaitsOut, Others
  <2>5. QED
    BY <2>2, <2>3, <2>4 DEF VisibilityInv
<1>5. QED
  BY <1>1, <1>2, <1>3, <1>4 DEF VisibilityNext, Over

\* So it is an invariant.
LEMMA VisibilityAlways == VisibilitySpec => []VisibilityInv
  BY VisibilityInitially, VisibilityStep, PTL DEF VisibilitySpec

\* However many tasks there are, a first attempt is never held beyond the time limit.
THEOREM FirstAttemptsFit == VisibilitySpec => []FirstAttemptFits
<1>1. VisibilityInv => FirstAttemptFits
  <2>1. ASSUME VisibilityInv, NEW t \in Unacked, task[t].attempt = 0
        PROVE  task[t].held <= TimeLimit
    <3>1. t \in Tasks /\ task[t] \in TaskType /\ Counts(t, task[t])
      BY <2>1 DEF Unacked, In, VisibilityInv, HeldType, CountsDown
    <3>2. CASE t \in Executing
      BY <2>1, <3>1, <3>2 DEF VisibilityInv, FirstHasRoom, Counts, Executing, In
    <3>3. CASE t \in In({"ready"})
      <4>1. PICK i \in DOMAIN backlog : backlog[i] = t
        BY <2>1, <3>3 DEF VisibilityInv, BacklogLists
      <4>2. task[t].held = 0
        BY <2>1, <4>1 DEF VisibilityInv, FirstHasRoom
      <4>3. QED
        BY <4>2, VisibilityAssumption
    <3>4. CASE t \in In({"delayed"})
      BY <2>1, <3>1, <3>4 DEF Counts, In
    <3>5. QED
      BY <2>1, <3>2, <3>3, <3>4 DEF Unacked, Executing, In
  <2>2. QED
    BY <2>1 DEF FirstAttemptFits
<1>2. QED
  BY <1>1, VisibilityAlways, PTL

\* A retry is held at most its own countdown and the time of every task.
THEOREM RetriesHeldAtMost == VisibilitySpec => []RetryHeldAtMost
<1>1. VisibilityInv => RetryHeldAtMost
  <2>1. ASSUME VisibilityInv, NEW t \in Unacked
        PROVE  task[t].held <= CountdownOf(task[t].attempt) + Cardinality(Tasks) * TimeLimit
    <3>1. t \in Tasks /\ task[t] \in TaskType /\ Counts(t, task[t])
      BY <2>1 DEF Unacked, In, VisibilityInv, HeldType, CountsDown
    <3>2. /\ task[t].held \in Nat /\ task[t].ran \in Nat /\ task[t].left \in Nat
          /\ CountdownOf(task[t].attempt) \in Nat
          /\ Others(t) \in Nat /\ TimeLimit \in Nat /\ Cardinality(Ahead(t)) \in Nat
      BY <3>1, CountdownsCount, TasksFinite, VisibilityAssumption DEF TaskType
    <3>3. task[t].held <= CountdownOf(task[t].attempt) + (Others(t) + TimeLimit)
      <4>1. CASE t \in In({"running"})
        BY <3>1, <3>2, <4>1 DEF Counts, In
      <4>2. CASE t \in In({"delayed"})
        BY <3>1, <3>2, <4>2 DEF Counts, In
      <4>3. CASE t \in In({"ready"})
        <5>1. task[t].held + Cardinality(Ahead(t)) <= CountdownOf(task[t].attempt) + Others(t)
          BY <2>1, <4>3 DEF VisibilityInv, WaitsOut
        <5>2. QED
          BY <3>2, <5>1
      <4>4. QED
        BY <2>1, <4>1, <4>2, <4>3 DEF Unacked, In
    <3>4. QED
      BY <3>1, <3>3, OthersBound
  <2>2. QED
    BY <2>1 DEF RetryHeldAtMost
<1>2. QED
  BY <1>1, VisibilityAlways, PTL

-----------------------------------------------------------------------------
(* The daily ledger.  A run that may still spend on today's ledger is         *)
(* exposed, and the ledger stays within what the exposed runs have been paid. *)

Dearest == Max(Costs)

\* The dearest call bounds every call, and what a run may cost.
LEMMA DearestCost ==
    /\ Dearest \in Nat /\ \A usd \in Costs : usd \in Nat /\ usd <= Dearest
    /\ RunCost \in Nat
    /\ \A n \in 0..MaxCalls : n * Dearest \in Nat /\ n * Dearest <= RunCost
    /\ \A n \in Nat : (n + 1) * Dearest = n * Dearest + Dearest
<1>1. Dearest \in Nat /\ \A usd \in Costs : usd \in Nat /\ usd <= Dearest
  BY SpendAssumption, FiniteMax DEF Dearest
<1>2. MaxCalls \in Nat /\ RunCost = MaxCalls * Dearest
  BY SpendAssumption DEF RunCost, Dearest
<1>3. \A m, n \in Nat : m * n \in Nat /\ (m + 1) * n = m * n + n
  OBVIOUS
<1>4. ASSUME NEW n \in 0..MaxCalls PROVE n * Dearest <= MaxCalls * Dearest
  <2>1. PICK k \in Nat : MaxCalls = n + k
    <3>1. MaxCalls - n \in Nat /\ MaxCalls = n + (MaxCalls - n)
      BY <1>2
    <3>2. QED
      BY <3>1
  <2>2. \A i, j, l \in Nat : (i + j) * l = i * l + j * l
    OBVIOUS
  <2>3. MaxCalls * Dearest = n * Dearest + k * Dearest
    BY <1>1, <2>1, <2>2
  <2>4. n * Dearest \in Nat /\ k * Dearest \in Nat
    BY <1>1, <1>3
  <2>5. QED
    BY <2>3, <2>4
<1>5. QED
  BY <1>1, <1>2, <1>3, <1>4

-----------------------------------------------------------------------------
RunPlaces == {"idle", "refused", "switch", "spend", "passed", "recording", "expiring", "over"}
RunType == [pc: RunPlaces, on: Days, calls: 0..MaxCalls, owes: Nat, tally: Nat]

SpendType ==
    /\ today \in Days
    /\ ledger \in [Days -> [usd: Nat, ttl: Nat]]
    /\ run \in [Runs -> RunType]
    /\ exposed \in SUBSET Runs

\* What a run owes is one call's, of a day that has come.
OwesOneCall(r) ==
    /\ r.on <= today
    /\ r.owes <= Dearest
    /\ r.pc = "recording" => r.calls > 0

RunsOwe == \A r \in Runs : OwesOneCall(run[r])

DaysToCome == \A d \in Days : d > today => ledger[d].usd = 0

RunningExposed == Running \subseteq exposed

\* What run r may have put in today's ledger.
OwedToday(r) == IF run[r].pc = "recording" /\ run[r].on = today THEN run[r].owes ELSE 0
Paid(r) == run[r].calls * Dearest - OwedToday(r)

\* The same of all that are exposed, unit by unit of what they may cost.
Units == {w \in exposed \X (1..RunCost) : w[2] <= Paid(w[1])}

WithinUnits == DailyLimit > 0 => ledger[today].usd < DailyLimit + Cardinality(Units)

SpendInv == SpendType /\ RunsOwe /\ DaysToCome /\ RunningExposed /\ WithinUnits

\* What the exposed may spend is finite.
LEMMA UnitsFinite ==
    ASSUME exposed \in SUBSET Runs
    PROVE  /\ IsFiniteSet(exposed) /\ IsFiniteSet(Units) /\ Cardinality(Units) \in Nat
           /\ Cardinality(Units) <= RunCost * Cardinality(exposed)
<1>1. IsFiniteSet(exposed) /\ Cardinality(exposed) \in Nat
  BY SpendAssumption, FS_Subset, FS_CardinalityType
<1>2. IsFiniteSet(1..RunCost) /\ Cardinality(1..RunCost) = RunCost /\ RunCost \in Nat
  BY DearestCost, FS_Interval
<1>3. /\ IsFiniteSet(exposed \X (1..RunCost))
      /\ Cardinality(exposed \X (1..RunCost)) = Cardinality(exposed) * Cardinality(1..RunCost)
  BY <1>1, <1>2, FS_Product
<1>4. Units \in SUBSET (exposed \X (1..RunCost))
  BY DEF Units
<1>5. IsFiniteSet(Units) /\ Cardinality(Units) <= Cardinality(exposed \X (1..RunCost))
  BY <1>3, <1>4, FS_Subset
<1>6. \A m, n \in Nat : m * n = n * m
  OBVIOUS
<1>7. Cardinality(exposed \X (1..RunCost)) = RunCost * Cardinality(exposed)
  BY <1>1, <1>2, <1>3, <1>6
<1>8. QED
  BY <1>1, <1>5, <1>7, FS_CardinalityType

\* The same of the next state.
LEMMA UnitsFiniteNext ==
    ASSUME SpendType'
    PROVE  IsFiniteSet(Units') /\ Cardinality(Units') \in Nat
<1>1. exposed' \in SUBSET Runs
  BY DEF SpendType
<1>2. IsFiniteSet(exposed') /\ IsFiniteSet(1..RunCost)
  BY <1>1, SpendAssumption, DearestCost, FS_Subset, FS_Interval
<1>3. IsFiniteSet(exposed' \X (1..RunCost)) /\ Units' \in SUBSET (exposed' \X (1..RunCost))
  BY <1>2, FS_Product DEF Units
<1>4. QED
  BY <1>3, FS_Subset, FS_CardinalityType

\* A day within its limit is within any units.
LEMMA UnitsWithin ==
    ASSUME SpendType', DailyLimit > 0 => ledger'[today'].usd < DailyLimit
    PROVE  WithinUnits'
<1>1. ledger'[today'].usd \in Nat /\ DailyLimit \in Nat
  BY SpendAssumption DEF SpendType
<1>2. QED
  BY <1>1, UnitsFiniteNext DEF WithinUnits

\* Nothing goes into today's ledger, and no unit is given back.
LEMMA UnitsGrow ==
    ASSUME SpendInv, SpendType', exposed \subseteq exposed',
           ledger'[today'].usd <= ledger[today].usd,
           \A r \in exposed : Paid(r) \in Int /\ Paid(r)' \in Int /\ Paid(r) <= Paid(r)'
    PROVE  WithinUnits'
<1>1. Units \subseteq Units'
  <2>1. ASSUME NEW w \in Units PROVE w \in Units'
    <3>1. w \in exposed \X (1..RunCost) /\ w[1] \in exposed /\ w[2] \in Int /\ w[2] <= Paid(w[1])
      BY DearestCost DEF Units
    <3>2. w[2] <= Paid(w[1])'
      BY <3>1
    <3>3. QED
      BY <3>1, <3>2 DEF Units
  <2>2. QED
    BY <2>1
<1>2. IsFiniteSet(Units') /\ Cardinality(Units') \in Nat
  BY UnitsFiniteNext
<1>3. Cardinality(Units) <= Cardinality(Units') /\ Cardinality(Units) \in Nat
  BY <1>1, <1>2, FS_Subset, FS_CardinalityType
<1>4. ledger[today].usd \in Nat /\ ledger'[today'].usd \in Nat /\ DailyLimit \in Nat
  BY SpendAssumption DEF SpendInv, SpendType
<1>5. DailyLimit > 0 => ledger[today].usd < DailyLimit + Cardinality(Units)
  BY DEF SpendInv, WithinUnits
<1>6. QED
  BY <1>2, <1>3, <1>4, <1>5 DEF WithinUnits

-----------------------------------------------------------------------------
\* Run r becomes `new`.
RunBecomes(r, new) ==
    /\ new \in RunType
    /\ run' = [run EXCEPT ![r] = new]

\* One run's change is its own.
LEMMA RunReplaced ==
    ASSUME SpendType, NEW r \in Runs, NEW new, RunBecomes(r, new)
    PROVE  /\ run' \in [Runs -> RunType]
           /\ run'[r] = new
           /\ \A q \in Runs : q # r => run'[q] = run[q]
  BY DEF SpendType, RunBecomes

\* What a run has paid is at most its calls at the dearest price.
LEMMA PaidUnits ==
    ASSUME SpendInv, NEW r \in Runs
    PROVE  /\ run[r] \in RunType /\ OwesOneCall(run[r])
           /\ run[r].calls \in 0..MaxCalls /\ run[r].owes \in Nat
           /\ run[r].calls * Dearest \in Nat /\ run[r].calls * Dearest <= RunCost
           /\ Paid(r) \in Int /\ Paid(r) <= run[r].calls * Dearest
<1>1. run[r] \in RunType /\ OwesOneCall(run[r])
  BY DEF SpendInv, SpendType, RunsOwe
<1>2. run[r].calls \in 0..MaxCalls /\ run[r].owes \in Nat
  BY <1>1 DEF RunType
<1>3. PICK n : n = run[r].calls * Dearest
  OBVIOUS
<1>4. n \in Nat /\ n <= RunCost
  BY <1>2, <1>3, DearestCost
<1>5. Paid(r) = n - OwedToday(r) /\ OwedToday(r) \in Nat
  BY <1>2, <1>3 DEF Paid, OwedToday
<1>6. Paid(r) \in Int /\ Paid(r) <= n
  BY <1>4, <1>5
<1>7. QED
  BY <1>1, <1>2, <1>3, <1>4, <1>6

\* A run goes on, and nothing goes into a ledger: what it has been paid does not shrink.
LEMMA RunGoesOn ==
    ASSUME SpendInv, NEW r \in Runs, NEW new, RunBecomes(r, new),
           UNCHANGED today,
           ledger' \in [Days -> [usd: Nat, ttl: Nat]],
           \A d \in Days : ledger'[d].usd = ledger[d].usd,
           exposed' \in SUBSET Runs,
           OwesOneCall(new), Running' \subseteq exposed',
           \/ exposed \subseteq exposed' /\ new.calls = run[r].calls
                 /\ (new.pc = "recording" => new = run[r])
           \/ exposed' = exposed /\ new.calls = run[r].calls + 1 /\ run[r].pc = "passed"
           \/ DailyLimit > 0 => ledger[today].usd < DailyLimit
    PROVE  SpendInv'
<1>1. /\ run' \in [Runs -> RunType] /\ run'[r] = new
      /\ \A q \in Runs : q # r => run'[q] = run[q]
  BY RunReplaced DEF SpendInv
<1>2. SpendType'
  BY <1>1 DEF SpendInv, SpendType
<1>3. RunsOwe'
  BY <1>1 DEF SpendInv, RunsOwe, OwesOneCall
<1>4. DaysToCome'
  BY DEF SpendInv, DaysToCome
<1>5. ledger'[today'].usd = ledger[today].usd /\ ledger[today].usd \in Nat /\ DailyLimit \in Nat
  BY SpendAssumption DEF SpendInv, SpendType
<1>6. WithinUnits'
  <2>1. CASE DailyLimit > 0 => ledger[today].usd < DailyLimit
    BY <1>2, <1>5, <2>1, UnitsWithin DEF WithinUnits
  <2>2. CASE \/ exposed \subseteq exposed' /\ new.calls = run[r].calls
                /\ (new.pc = "recording" => new = run[r])
             \/ exposed' = exposed /\ new.calls = run[r].calls + 1 /\ run[r].pc = "passed"
    <3>1. ASSUME NEW q \in exposed PROVE Paid(q) \in Int /\ Paid(q)' \in Int /\ Paid(q) <= Paid(q)'
      <4>1. q \in Runs /\ Paid(q) \in Int /\ Paid(q) <= run[q].calls * Dearest
        BY PaidUnits DEF SpendInv, SpendType
      <4>2. CASE run'[q] = run[q]
        <5>1. Paid(q)' = Paid(q)
          BY <4>2 DEF Paid, OwedToday
        <5>2. QED
          BY <4>1, <5>1
      <4>3. CASE q = r /\ run'[q] # run[q]
        <5>1. new.calls \in Nat /\ new.owes \in Nat /\ new.owes <= Dearest
          BY DearestCost, SpendAssumption DEF RunBecomes, RunType, OwesOneCall
        <5>2. PICK n : n = run[r].calls * Dearest
          OBVIOUS
        <5>3. n \in Nat /\ run[r].calls \in Nat /\ Paid(r) <= n
          BY <5>2, PaidUnits
        <5>4. CASE new.calls = run[r].calls /\ new.pc # "recording"
          <6>1. Paid(r)' = n
            BY <1>1, <5>2, <5>3, <5>4 DEF Paid, OwedToday
          <6>2. QED
            BY <4>1, <4>3, <5>3, <6>1
        <5>5. CASE new.calls = run[r].calls + 1 /\ run[r].pc = "passed"
          <6>1. new.calls * Dearest = n + Dearest /\ Dearest \in Nat
            BY <5>2, <5>3, <5>5, DearestCost
          <6>2. Paid(r)' = new.calls * Dearest - OwedToday(r)'
            BY <1>1 DEF Paid
          <6>3. OwedToday(r)' \in Nat /\ OwedToday(r)' <= Dearest
            BY <1>1, <5>1, DearestCost DEF OwedToday
          <6>4. Paid(r)' \in Int /\ n <= Paid(r)'
            BY <5>3, <6>1, <6>2, <6>3
          <6>5. QED
            BY <4>1, <4>3, <5>3, <6>4
        <5>6. QED
          <6>1. new # run[r]
            BY <1>1, <4>3
          <6>2. \/ new.calls = run[r].calls /\ new.pc # "recording"
                \/ new.calls = run[r].calls + 1 /\ run[r].pc = "passed"
            BY <2>2, <6>1, Zenon
          <6>3. QED
            BY <5>4, <5>5, <6>2
      <4>4. QED
        BY <1>1, <4>1, <4>2, <4>3
    <3>2. exposed \subseteq exposed'
      BY <2>2, Zenon
    <3>3. ledger'[today'].usd <= ledger[today].usd
      BY <1>5
    <3>4. QED
      BY <1>2, <3>1, <3>2, <3>3, UnitsGrow
  <2>3. QED
    BY <2>1, <2>2
<1>7. QED
  BY <1>2, <1>3, <1>4, <1>6 DEF SpendInv, RunningExposed

\* What was owed goes into the ledger of its day: units for it are paid.
LEMMA DebtPaid ==
    ASSUME SpendInv, NEW r \in Runs, NEW new, RunBecomes(r, new),
           UNCHANGED <<today, exposed>>,
           run[r].pc = "recording", ledger' = Added(r),
           new.pc \in {"expiring", "passed"}, new.calls = run[r].calls,
           new.on = run[r].on, new.owes = 0
    PROVE  SpendInv'
<1>1. /\ run' \in [Runs -> RunType] /\ run'[r] = new
      /\ \A q \in Runs : q # r => run'[q] = run[q]
  BY RunReplaced DEF SpendInv
<1>2. PICK day \in Days, owed \in Nat :
          /\ day = run[r].on /\ owed = run[r].owes /\ day <= today /\ owed <= Dearest
          /\ run[r].calls > 0
  <2>1. run[r].on \in Days /\ run[r].owes \in Nat
    BY PaidUnits DEF RunType
  <2>2. QED
    BY <2>1, PaidUnits DEF OwesOneCall
<1>3. /\ ledger' \in [Days -> [usd: Nat, ttl: Nat]]
      /\ ledger'[day].usd = ledger[day].usd + owed
      /\ \A d \in Days : d # day => ledger'[d] = ledger[d]
  <2>1. ledger \in [Days -> [usd: Nat, ttl: Nat]]
    BY DEF SpendInv, SpendType
  <2>2. PICK sum : sum = ledger[day].usd + owed
    OBVIOUS
  <2>3. PICK key : key = [ledger[day] EXCEPT !.usd = sum]
    OBVIOUS
  <2>4. ledger[day] \in [usd: Nat, ttl: Nat] /\ sum \in Nat
    BY <2>1, <2>2
  <2>5. key \in [usd: Nat, ttl: Nat] /\ key.usd = sum
    BY <2>3, <2>4, Zenon
  <2>6. ledger' = [ledger EXCEPT ![day].usd = sum]
    BY <1>2, <2>2, Zenon DEF Added
  <2>7. ledger' = [ledger EXCEPT ![day] = key]
    BY <2>3, <2>6, Zenon
  <2>8. QED
    BY <2>1, <2>2, <2>5, <2>7
<1>4. SpendType'
  BY <1>1, <1>3 DEF SpendInv, SpendType
<1>5. RunsOwe'
  <2>1. OwesOneCall(new)'
    BY <1>2, DearestCost DEF OwesOneCall
  <2>2. ASSUME NEW q \in Runs, q # r PROVE OwesOneCall(run[q])'
    BY <1>1, <2>2 DEF SpendInv, RunsOwe, OwesOneCall
  <2>3. QED
    BY <1>1, <2>1, <2>2 DEF RunsOwe
<1>6. DaysToCome'
  <2>1. ASSUME NEW d \in Days, d > today PROVE ledger'[d].usd = 0
    <3>1. d # day
      BY <1>2, <2>1, SpendAssumption DEF SpendInv, SpendType, Days
    <3>2. QED
      BY <1>3, <2>1, <3>1 DEF SpendInv, DaysToCome
  <2>2. QED
    BY <2>1 DEF DaysToCome
<1>7. Running' = Running /\ r \in Running
  BY <1>1 DEF Running
<1>8. r \in exposed
  BY <1>7 DEF SpendInv, RunningExposed
<1>9. \A q \in exposed : q # r => Paid(q)' = Paid(q)
  BY <1>1 DEF SpendInv, SpendType, Paid, OwedToday
<1>10. PICK n \in Nat : n = run[r].calls * Dearest /\ n <= RunCost /\ Paid(r)' = n
  <2>1. run[r].calls * Dearest \in Nat /\ run[r].calls * Dearest <= RunCost
    BY PaidUnits
  <2>2. Paid(r)' = run[r].calls * Dearest
    BY <1>1, <2>1 DEF Paid, OwedToday
  <2>3. QED
    BY <2>1, <2>2
<1>11. ledger[today].usd \in Nat /\ DailyLimit \in Nat /\ Dearest \in Nat /\ RunCost \in Nat
  BY SpendAssumption, DearestCost DEF SpendInv, SpendType
<1>12. WithinUnits'
  <2>1. CASE day # today
    <3>1. ledger'[today'].usd <= ledger[today].usd
      BY <1>3, <1>11, <2>1 DEF SpendInv, SpendType
    <3>2. \A q \in exposed : Paid(q) \in Int /\ Paid(q) <= Paid(q)' /\ Paid(q)' \in Int
      <4>1. Paid(r) \in Int /\ Paid(r) <= n
        BY <1>10, PaidUnits
      <4>2. \A q \in exposed : Paid(q) \in Int
        BY PaidUnits DEF SpendInv, SpendType
      <4>3. QED
        BY <1>9, <1>10, <4>1, <4>2
    <3>3. QED
      BY <1>4, <3>1, <3>2, UnitsGrow
  <2>2. CASE day = today
    <3>1. Paid(r) = n - owed
      BY <1>2, <1>10, <2>2 DEF Paid, OwedToday
    <3>2. n >= Dearest
      <4>1. run[r].calls - 1 \in Nat /\ (run[r].calls - 1) + 1 = run[r].calls
        BY <1>2, PaidUnits
      <4>2. run[r].calls - 1 \in 0..MaxCalls
        BY <4>1, PaidUnits, SpendAssumption
      <4>3. (run[r].calls - 1) * Dearest \in Nat
        BY <4>2, DearestCost
      <4>4. n = (run[r].calls - 1) * Dearest + Dearest
        BY <1>10, <4>1, DearestCost
      <4>5. QED
        BY <1>11, <4>3, <4>4
    <3>3. PICK more : more = {r} \X ((n - owed + 1)..n)
      OBVIOUS
    <3>4. IsFiniteSet(more) /\ Cardinality(more) = owed
      <4>1. /\ IsFiniteSet((n - owed + 1)..n)
            /\ Cardinality((n - owed + 1)..n) = owed
        <5>1. n - owed + 1 \in Int /\ n \in Int
          BY <1>2, <1>10
        <5>2. Cardinality((n - owed + 1)..n) = IF n - owed + 1 > n THEN 0 ELSE n - (n - owed + 1) + 1
          BY <5>1, FS_Interval
        <5>3. QED
          <6>1. owed \in Nat
            BY <1>2
          <6>2. Cardinality((n - owed + 1)..n) = owed
            BY <1>10, <5>2, <6>1
          <6>3. QED
            BY <5>1, <6>2, FS_Interval
      <4>2. IsFiniteSet({r}) /\ Cardinality({r}) = 1
        BY FS_Singleton
      <4>3. IsFiniteSet(more) /\ Cardinality(more) = Cardinality({r}) * Cardinality((n - owed + 1)..n)
        BY <3>3, <4>1, <4>2, FS_Product
      <4>4. QED
        BY <1>2, <4>1, <4>2, <4>3
    <3>5. Units \cap more = {}
      BY <3>1, <3>3, <1>2, <1>10 DEF Units
    <3>6. (Units \cup more) \subseteq Units'
      <4>1. ASSUME NEW w \in Units PROVE w \in Units'
        <5>1. w \in exposed \X (1..RunCost) /\ w[1] \in exposed /\ w[2] \in Int /\ w[2] <= Paid(w[1])
          BY DearestCost DEF Units
        <5>2. w[2] <= Paid(w[1])'
          BY <1>2, <1>9, <1>10, <3>1, <5>1
        <5>3. QED
          BY <5>1, <5>2 DEF Units
      <4>2. ASSUME NEW w \in more PROVE w \in Units'
        <5>1. w \in {r} \X ((n - owed + 1)..n) /\ w[1] = r /\ w[2] \in (n - owed + 1)..n
          BY <3>3, <4>2
        <5>2. w[2] \in 1..RunCost /\ w[2] <= n
          BY <1>2, <1>10, <1>11, <3>2, <5>1
        <5>3. w \in exposed' \X (1..RunCost)
          BY <1>8, <5>1, <5>2
        <5>4. w[2] <= Paid(w[1])'
          BY <1>10, <5>1, <5>2
        <5>5. QED
          BY <5>3, <5>4 DEF Units
      <4>3. QED
        BY <4>1, <4>2
    <3>7. IsFiniteSet(Units) /\ Cardinality(Units) \in Nat
      BY UnitsFinite DEF SpendInv, SpendType
    <3>8. Cardinality(Units \cup more) = Cardinality(Units) + owed /\ IsFiniteSet(Units \cup more)
      BY <1>2, <3>4, <3>5, <3>7, CountsTogether
    <3>9. IsFiniteSet(Units') /\ Cardinality(Units') \in Nat
      BY <1>4, UnitsFiniteNext
    <3>10. Cardinality(Units \cup more) <= Cardinality(Units')
      BY <3>6, <3>9, FS_Subset
    <3>11. ledger'[today'].usd = ledger[today].usd + owed
      BY <1>3, <2>2
    <3>12. DailyLimit > 0 => ledger[today].usd < DailyLimit + Cardinality(Units)
      BY DEF SpendInv, WithinUnits
    <3>13. QED
      BY <1>2, <1>11, <3>7, <3>8, <3>9, <3>10, <3>11, <3>12 DEF WithinUnits
  <2>3. QED
    BY <2>1, <2>2
<1>13. QED
  BY <1>4, <1>5, <1>6, <1>7, <1>12 DEF SpendInv, RunningExposed

-----------------------------------------------------------------------------
\* A run that only moves on.
LEMMA PcSet ==
    ASSUME SpendInv, NEW r \in Runs, NEW pc \in RunPlaces,
           run' = [run EXCEPT ![r].pc = pc]
    PROVE  \E new : /\ RunBecomes(r, new) /\ new.pc = pc /\ new.on = run[r].on
                    /\ new.calls = run[r].calls /\ new.owes = run[r].owes
                    /\ OwesOneCall(new) \/ pc = "recording"
<1>1. run[r] \in RunType /\ OwesOneCall(run[r])
  BY PaidUnits
<1>2. PICK new : new = [run[r] EXCEPT !.pc = pc]
  OBVIOUS
<1>3. /\ new \in RunType /\ new.pc = pc /\ new.on = run[r].on
      /\ new.calls = run[r].calls /\ new.owes = run[r].owes
  BY <1>1, <1>2, Zenon DEF RunType
<1>4. run' = [run EXCEPT ![r] = new]
  BY <1>2, Zenon
<1>5. OwesOneCall(new) \/ pc = "recording"
  BY <1>1, <1>3 DEF OwesOneCall
<1>6. QED
  BY <1>3, <1>4, <1>5 DEF RunBecomes

\* Only the run that moves may come to be under way.
LEMMA RunningNext ==
    ASSUME SpendInv, NEW r \in Runs, NEW new, RunBecomes(r, new)
    PROVE  /\ Running' \subseteq Running \cup {r}
           /\ new.pc \notin {"passed", "recording", "expiring"} => Running' \subseteq Running
           /\ exposed \in SUBSET Runs /\ Running \subseteq exposed /\ Running \in SUBSET Runs
<1>1. /\ run'[r] = new /\ \A q \in Runs : q # r => run'[q] = run[q]
  BY RunReplaced DEF SpendInv
<1>2. QED
  BY <1>1 DEF Running, SpendInv, SpendType, RunningExposed

\* A run moves on without spending, and is exposed already if it is to spend.
LEMMA MovesStep ==
    ASSUME SpendInv, NEW r \in Runs, NEW pc \in RunPlaces \ {"recording"}, MovesOn(r, pc),
           UNCHANGED <<today, exposed>>,
           ledger' \in [Days -> [usd: Nat, ttl: Nat]],
           \A d \in Days : ledger'[d].usd = ledger[d].usd,
           r \in Running \/ pc \notin {"passed", "recording", "expiring"}
    PROVE  SpendInv'
<1>1. PICK new : /\ RunBecomes(r, new) /\ new.pc = pc /\ new.on = run[r].on
                 /\ new.calls = run[r].calls /\ new.owes = run[r].owes /\ OwesOneCall(new)
  BY PcSet DEF MovesOn
<1>2. Running' \subseteq exposed' /\ exposed' \in SUBSET Runs /\ exposed \subseteq exposed'
  BY <1>1, RunningNext
<1>3. QED
  BY <1>1, <1>2, RunGoesOn

\* A ledger that nobody writes.
LEMMA LedgerKept ==
    ASSUME SpendInv, UNCHANGED ledger
    PROVE  /\ ledger' \in [Days -> [usd: Nat, ttl: Nat]]
           /\ \A d \in Days : ledger'[d].usd = ledger[d].usd
  BY DEF SpendInv, SpendType

\* A run passes: measured by today's ledger, or added to those that are exposed.
LEMMA PassStep ==
    ASSUME SpendInv, NEW r \in Runs, NEW measured \in BOOLEAN, Pass(r, measured),
           UNCHANGED <<today, ledger>>,
           measured /\ DailyLimit > 0 => ledger[today].usd < DailyLimit
    PROVE  SpendInv'
<1>1. PICK new : /\ RunBecomes(r, new) /\ new.pc = "passed" /\ new.on = run[r].on
                 /\ new.calls = run[r].calls /\ new.owes = run[r].owes /\ OwesOneCall(new)
  BY PcSet DEF Pass, MovesOn, RunPlaces
<1>2. /\ Running' \subseteq Running \cup {r} /\ Running \in SUBSET Runs
      /\ exposed \in SUBSET Runs /\ Running \subseteq exposed
  BY <1>1, RunningNext
<1>3. /\ ledger' \in [Days -> [usd: Nat, ttl: Nat]]
      /\ \A d \in Days : ledger'[d].usd = ledger[d].usd
  BY LedgerKept
<1>4. CASE measured
  <2>1. exposed' = {r} \cup Running
    BY <1>4 DEF Pass
  <2>2. Running' \subseteq exposed' /\ exposed' \in SUBSET Runs
    BY <1>2, <2>1
  <2>3. DailyLimit > 0 => ledger[today].usd < DailyLimit
    BY <1>4
  <2>4. QED
    BY <1>1, <1>3, <2>2, <2>3, RunGoesOn
<1>5. CASE ~measured
  <2>1. exposed' = {r} \cup exposed
    BY <1>5 DEF Pass
  <2>2. Running' \subseteq exposed' /\ exposed' \in SUBSET Runs /\ exposed \subseteq exposed'
    BY <1>2, <2>1
  <2>3. QED
    BY <1>1, <1>3, <2>2, RunGoesOn
<1>6. QED
  BY <1>4, <1>5

\* A run that looks at the day's spend.
LEMMA LookStep ==
    ASSUME SpendInv, NEW r \in Runs, LookAtSpend(r), UNCHANGED <<today, ledger>>
    PROVE  SpendInv'
<1>1. CASE DailyLimit = 0
  BY <1>1, PassStep DEF LookAtSpend
<1>2. CASE DailyLimit # 0
  <2>1. run' = [run EXCEPT ![r].pc = "spend", ![r].on = today] /\ exposed' = exposed
    BY <1>2 DEF LookAtSpend
  <2>2. PICK new : new = [[run[r] EXCEPT !.pc = "spend"] EXCEPT !.on = today]
    OBVIOUS
  <2>3. run[r] \in RunType /\ OwesOneCall(run[r]) /\ today \in Days
    BY PaidUnits DEF SpendInv, SpendType
  <2>4. /\ new \in RunType /\ new.pc = "spend" /\ new.on = today
        /\ new.calls = run[r].calls /\ new.owes = run[r].owes
    BY <2>2, <2>3, Zenon DEF RunType, RunPlaces
  <2>5. RunBecomes(r, new)
    BY <2>1, <2>2, <2>4, Zenon DEF RunBecomes
  <2>6. OwesOneCall(new)
    BY <2>3, <2>4, SpendAssumption DEF OwesOneCall, Days
  <2>7. Running' \subseteq exposed' /\ exposed' \in SUBSET Runs /\ exposed \subseteq exposed'
    BY <2>1, <2>4, <2>5, RunningNext
  <2>8. QED
    BY <2>4, <2>5, <2>6, <2>7, LedgerKept, RunGoesOn
<1>3. QED
  BY <1>1, <1>2

\* The steps of planning_enabled.
LEMMA AdmissionStep ==
    ASSUME SpendInv, NEW r \in Runs, Admission(r)
    PROVE  SpendInv'
<1>1. CASE Ask(r)
  <2>1. PICK pc \in {"switch", "refused"} : MovesOn(r, pc)
    BY <1>1 DEF Ask
  <2>2. UNCHANGED <<today, exposed, ledger>> /\ pc \in RunPlaces \ {"recording"}
    BY <1>1, <2>1 DEF Ask, RunPlaces
  <2>3. QED
    BY <2>1, <2>2, LedgerKept, MovesStep
<1>2. CASE ReadSwitch(r) \/ SwitchUnreadable(r)
  <2>1. UNCHANGED <<today, ledger>>
    BY <1>2 DEF ReadSwitch, SwitchUnreadable
  <2>2. CASE LookAtSpend(r)
    BY <2>1, <2>2, LookStep
  <2>3. CASE MovesOn(r, "refused") /\ UNCHANGED exposed
    BY <2>1, <2>3, LedgerKept, MovesStep DEF RunPlaces
  <2>4. QED
    BY <1>2, <2>2, <2>3 DEF ReadSwitch, SwitchUnreadable
<1>3. CASE ReadSpend(r)
  <2>1. UNCHANGED <<today, ledger>>
    BY <1>3 DEF ReadSpend
  <2>2. CASE MovesOn(r, "refused") /\ UNCHANGED exposed
    BY <2>1, <2>2, LedgerKept, MovesStep DEF RunPlaces
  <2>3. CASE /\ SpendState(ledger[run[r].on].usd) # "breached"
             /\ Pass(r, run[r].on = today)
    <3>1. PICK measured \in BOOLEAN : measured = (run[r].on = today)
      OBVIOUS
    <3>2. ASSUME run[r].on = today, DailyLimit > 0 PROVE ledger[today].usd < DailyLimit
      <4>1. ledger[today].usd \in Nat /\ DailyLimit \in Nat
        BY SpendAssumption DEF SpendInv, SpendType
      <4>2. SpendState(ledger[today].usd) # "breached"
        BY <2>3, <3>2
      <4>3. QED
        BY <3>2, <4>1, <4>2 DEF SpendState
    <3>3. Pass(r, measured)
      BY <2>3, <3>1
    <3>4. measured /\ DailyLimit > 0 => ledger[today].usd < DailyLimit
      BY <3>1, <3>2
    <3>5. QED
      BY <2>1, <3>3, <3>4, PassStep
  <2>4. QED
    BY <1>3, <2>2, <2>3 DEF ReadSpend
<1>4. CASE SpendUnreadable(r)
  BY <1>4, PassStep DEF SpendUnreadable
<1>5. QED
  BY <1>1, <1>2, <1>3, <1>4 DEF Admission

\* The steps of record_spend.
LEMMA RecordingStep ==
    ASSUME SpendInv, NEW r \in Runs, Recording(r)
    PROVE  SpendInv'
<1> USE DEF IsAt
<1>1. run[r] \in RunType /\ OwesOneCall(run[r]) /\ today \in Days
  BY PaidUnits DEF SpendInv, SpendType
<1>2. ASSUME NEW usd \in Costs, Pay(r, usd) PROVE SpendInv'
  <2>1. PICK new : new = [pc |-> "recording", on |-> today, calls |-> run[r].calls + 1,
                          owes |-> usd, tally |-> run[r].tally + usd]
    OBVIOUS
  <2>2. run' = [run EXCEPT ![r] = new]
    BY <1>2, <2>1, Zenon DEF Pay
  <2>3. usd \in Nat /\ usd <= Dearest
    BY DearestCost
  <2>4. run[r].calls \in Nat /\ run[r].calls + 1 \in 0..MaxCalls /\ run[r].tally \in Nat
    BY <1>1, <1>2, SpendAssumption DEF Pay, RunType
  <2>5. new \in RunType
    BY <1>1, <2>1, <2>3, <2>4 DEF RunType, RunPlaces
  <2>6. OwesOneCall(new)
    BY <1>1, <2>1, <2>3, <2>4, SpendAssumption DEF OwesOneCall, Days
  <2>7. RunBecomes(r, new) /\ UNCHANGED <<today, ledger, exposed>> /\ run[r].pc = "passed"
    BY <1>2, <2>2, <2>5 DEF RunBecomes, Pay
  <2>8. r \in Running
    BY <2>7 DEF Running
  <2>9. Running' \subseteq exposed' /\ exposed' \in SUBSET Runs
    BY <2>7, <2>8, RunningNext
  <2>10. new.calls = run[r].calls + 1
    BY <2>1
  <2>11. QED
    BY <2>6, <2>7, <2>9, <2>10, LedgerKept, RunGoesOn

\* What follows an INCRBYFLOAT, done or not.
<1>3. ASSUME NEW pc \in {"expiring", "passed"}, Settles(r, pc), run[r].pc = "recording"
      PROVE  \E new : /\ RunBecomes(r, new) /\ new.pc = pc /\ new.calls = run[r].calls
                      /\ new.on = run[r].on /\ new.owes = 0 /\ OwesOneCall(new)
  <2>1. PICK new : new = [[run[r] EXCEPT !.pc = pc] EXCEPT !.owes = 0]
    OBVIOUS
  <2>2. pc \in RunPlaces
    BY DEF RunPlaces
  <2>3. /\ new \in RunType /\ new.pc = pc /\ new.calls = run[r].calls
        /\ new.on = run[r].on /\ new.owes = 0
    BY <1>1, <2>1, <2>2, Zenon DEF RunType
  <2>4. RunBecomes(r, new)
    BY <1>3, <2>1, <2>3, Zenon DEF RunBecomes, Settles
  <2>5. OwesOneCall(new)
    BY <1>1, <2>3, DearestCost DEF OwesOneCall
  <2>6. QED
    BY <2>3, <2>4, <2>5
<1>4. CASE AddToTotal(r) \/ IncrUnanswered(r)
  <2>1. PICK pc \in {"expiring", "passed"} : Settles(r, pc)
    BY <1>4 DEF AddToTotal, IncrUnanswered
  <2>2. run[r].pc = "recording" /\ ledger' = Added(r) /\ UNCHANGED <<today, exposed>>
    BY <1>4 DEF AddToTotal, IncrUnanswered
  <2>3. PICK new : /\ RunBecomes(r, new) /\ new.pc = pc /\ new.calls = run[r].calls
                   /\ new.on = run[r].on /\ new.owes = 0
    BY <1>3, <2>1, <2>2
  <2>4. QED
    BY <2>1, <2>2, <2>3, DebtPaid
<1>5. CASE SpendUnrecorded(r)
  <2>1. /\ Settles(r, "passed") /\ run[r].pc = "recording"
        /\ UNCHANGED <<today, ledger, exposed>>
    BY <1>5 DEF SpendUnrecorded
  <2>2. PICK new : /\ RunBecomes(r, new) /\ new.pc = "passed" /\ new.calls = run[r].calls
                   /\ OwesOneCall(new)
    BY <1>3, <2>1
  <2>3. r \in Running
    BY <2>1 DEF Running
  <2>4. Running' \subseteq exposed' /\ exposed' \in SUBSET Runs /\ exposed \subseteq exposed'
    BY <2>1, <2>2, <2>3, RunningNext
  <2>5. QED
    BY <2>1, <2>2, <2>4, LedgerKept, RunGoesOn
<1>6. CASE ExpireLedger(r) \/ ExpireLedgerFails(r)
  <2>1. MovesOn(r, "passed") /\ UNCHANGED <<today, exposed>> /\ r \in Running
    BY <1>6 DEF ExpireLedger, ExpireLedgerFails, Running
  <2>2. /\ ledger' \in [Days -> [usd: Nat, ttl: Nat]]
        /\ \A d \in Days : ledger'[d].usd = ledger[d].usd
    <3>1. CASE UNCHANGED ledger
      BY <3>1, LedgerKept
    <3>2. CASE ledger' = [ledger EXCEPT ![run[r].on].ttl = LedgerDays]
      <4>1. PICK day \in Days : day = run[r].on
        BY <1>1 DEF RunType
      <4>2. ledger \in [Days -> [usd: Nat, ttl: Nat]] /\ ledger[day] \in [usd: Nat, ttl: Nat]
        BY DEF SpendInv, SpendType
      <4>3. PICK key : key = [ledger[day] EXCEPT !.ttl = LedgerDays]
        OBVIOUS
      <4>4. LedgerDays \in Nat
        BY DEF LedgerDays
      <4>5. key \in [usd: Nat, ttl: Nat] /\ key.usd = ledger[day].usd
        BY <4>2, <4>3, <4>4, Zenon
      <4>6. ledger' = [ledger EXCEPT ![day] = key]
        BY <3>2, <4>1, <4>3, Zenon
      <4>7. QED
        BY <4>2, <4>5, <4>6
    <3>3. QED
      BY <1>6, <3>1, <3>2 DEF ExpireLedger, ExpireLedgerFails
  <2>3. QED
    BY <2>1, <2>2, MovesStep DEF RunPlaces
<1>7. CASE EndRun(r)
  <2>1. MovesOn(r, "over") /\ UNCHANGED <<today, exposed, ledger>>
    BY <1>7 DEF EndRun
  <2>2. QED
    BY <2>1, LedgerKept, MovesStep DEF RunPlaces
<1>8. QED
  BY <1>2, <1>4, <1>5, <1>6, <1>7 DEF Recording

\* The day that begins has spent nothing.
LEMMA MidnightStep ==
    ASSUME SpendInv, Midnight
    PROVE  SpendInv'
<1>1. ASSUME NEW d \in Days
      PROVE  /\ ledger'[d] \in [usd: Nat, ttl: Nat]
             /\ ledger[d].usd = 0 => ledger'[d].usd = 0
  <2>1. ledger[d] \in [usd: Nat, ttl: Nat] /\ ledger[d].ttl \in Nat
    BY DEF SpendInv, SpendType
  <2>2. ledger'[d] = IF d \in Reaped THEN NoLedger ELSE DayOlder(ledger[d])
    BY DEF Midnight
  <2>3. CASE d \in Reaped \/ ledger[d].ttl = NoExpiry
    BY <2>1, <2>2, <2>3 DEF NoLedger, NoExpiry, DayOlder
  <2>4. CASE d \notin Reaped /\ ledger[d].ttl # NoExpiry
    <3>1. PICK left : left = ledger[d].ttl - 1
      OBVIOUS
    <3>2. left \in Nat
      BY <2>1, <2>4, <3>1 DEF NoExpiry
    <3>3. ledger'[d] = [ledger[d] EXCEPT !.ttl = left]
      BY <2>2, <2>4, <3>1, Zenon DEF DayOlder
    <3>4. ledger'[d] \in [usd: Nat, ttl: Nat] /\ ledger'[d].usd = ledger[d].usd
      BY <2>1, <3>2, <3>3, Zenon
    <3>5. QED
      BY <3>4
  <2>5. QED
    BY <2>3, <2>4
<1>2. today \in Nat /\ today' = today + 1 /\ today' \in Days
  BY SpendAssumption DEF Midnight, SpendInv, SpendType, Days
<1>3. Running' = Running /\ exposed' = Running /\ run' = run
  BY DEF Midnight, Running
<1>4. SpendType'
  <2>1. ledger' = [d \in Days |-> ledger'[d]]
    BY DEF Midnight
  <2>2. ledger' \in [Days -> [usd: Nat, ttl: Nat]]
    BY <1>1, <2>1
  <2>3. QED
    BY <1>2, <1>3, <2>2 DEF SpendInv, SpendType, Running
<1>5. RunsOwe'
  <2>1. ASSUME NEW r \in Runs PROVE OwesOneCall(run[r])'
    <3>1. run[r] \in RunType /\ OwesOneCall(run[r]) /\ run[r].on \in Nat
      BY PaidUnits, SpendAssumption DEF RunType, Days
    <3>2. QED
      BY <1>2, <1>3, <3>1 DEF OwesOneCall
  <2>2. QED
    BY <2>1 DEF RunsOwe
<1>6. DaysToCome'
  <2>1. ASSUME NEW d \in Days, d > today' PROVE ledger'[d].usd = 0
    <3>1. d > today
      BY <1>2, <2>1, SpendAssumption DEF Days
    <3>2. QED
      BY <1>1, <3>1 DEF SpendInv, DaysToCome
  <2>2. QED
    BY <2>1 DEF DaysToCome
<1>7. WithinUnits'
  <2>1. ledger'[today'].usd = 0
    BY <1>1, <1>2 DEF SpendInv, DaysToCome
  <2>2. QED
    BY <1>4, <2>1, UnitsWithin
<1>8. QED
  BY <1>3, <1>4, <1>5, <1>6, <1>7 DEF SpendInv, RunningExposed

\* Every step keeps the invariant.
LEMMA SpendStep == SpendInv /\ [SpendNext]_spendVars => SpendInv'
<1> SUFFICES ASSUME SpendInv, [SpendNext]_spendVars PROVE SpendInv'
  OBVIOUS
<1>1. CASE \E r \in Runs : Admission(r) \/ Recording(r)
  BY <1>1, AdmissionStep, RecordingStep
<1>2. CASE Midnight
  BY <1>2, MidnightStep
<1>3. CASE UNCHANGED <<today, ledger, run, exposed>>
  BY <1>3 DEF SpendInv, SpendType, RunsOwe, OwesOneCall, DaysToCome, RunningExposed, Running,
              WithinUnits, Units, Paid, OwedToday
<1>4. QED
  BY <1>1, <1>2, <1>3 DEF SpendNext, FlipSwitch, spendVars

\* Nothing is spent at first.
LEMMA SpendInitially == SpendInit => SpendInv
<1> SUFFICES ASSUME SpendInit PROVE SpendInv
  OBVIOUS
<1>1. 0 \in Days /\ 0 \in 0..MaxCalls
  BY SpendAssumption DEF Days
<1>2. \A r \in Runs : run[r] = Asked
  BY DEF SpendInit
<1>3. SpendType
  BY <1>1 DEF SpendInit, SpendType, Asked, NoLedger, NoExpiry, RunType, RunPlaces
<1>4. RunsOwe
  BY <1>2, DearestCost DEF RunsOwe, OwesOneCall, Asked, SpendInit
<1>5. DaysToCome
  BY DEF SpendInit, DaysToCome, NoLedger
<1>6. RunningExposed
  BY <1>2 DEF RunningExposed, Running, Asked
<1>7. WithinUnits
  <2>1. ledger[today].usd = 0 /\ DailyLimit \in Nat
    BY <1>1, SpendAssumption DEF SpendInit, NoLedger
  <2>2. Cardinality(Units) \in Nat
    BY <1>3, UnitsFinite DEF SpendType
  <2>3. QED
    BY <2>1, <2>2 DEF WithinUnits
<1>8. QED
  BY <1>3, <1>4, <1>5, <1>6, <1>7 DEF SpendInv

\* For any runs, costs, limit and faults, a day exceeds its limit by less than what those
\* exposed may cost (control.py:76-104, 144-170).
THEOREM SpendOvershoot == SpendSpec => []OvershootBounded
<1>1. SpendInv => OvershootBounded
  <2>1. SUFFICES ASSUME SpendInv, DailyLimit > 0
                 PROVE  ledger[today].usd < DailyLimit + RunCost * Cardinality(exposed)
    BY DEF OvershootBounded
  <2>2. ledger[today].usd < DailyLimit + Cardinality(Units)
    BY <2>1 DEF SpendInv, WithinUnits
  <2>3. Cardinality(Units) \in Nat /\ Cardinality(Units) <= RunCost * Cardinality(exposed)
    BY <2>1, UnitsFinite DEF SpendInv, SpendType
  <2>4. RunCost * Cardinality(exposed) \in Nat
    <3>1. Cardinality(exposed) \in Nat
      BY <2>1, UnitsFinite, FS_CardinalityType DEF SpendInv, SpendType
    <3>2. \A m, n \in Nat : m * n \in Nat
      OBVIOUS
    <3>3. QED
      BY <3>1, <3>2, DearestCost
  <2>5. ledger[today].usd \in Nat /\ DailyLimit \in Nat
    BY <2>1, SpendAssumption DEF SpendInv, SpendType
  <2>6. PICK bound \in Nat : bound = RunCost * Cardinality(exposed)
    BY <2>4
  <2>7. QED
    BY <2>2, <2>3, <2>5, <2>6
<1>2. SpendSpec => []SpendInv
  BY SpendInitially, SpendStep, PTL DEF SpendSpec
<1>3. QED
  BY <1>1, <1>2, PTL

-----------------------------------------------------------------------------
(* The accounts of the spend breaker.                                      *)

\* A run owes nothing but while it records.
DebtsRecorded == \A r \in Runs : run[r].pc # "recording" => run[r].owes = 0

AccountInv == SpendInv /\ lost \in Nat /\ DebtsRecorded /\ SpendAccounted

\* The sums of the account are of numbers.
LEMMA SumsOfSpend ==
    ASSUME SpendType
    PROVE  /\ IsFiniteSet(Runs) /\ IsFiniteSet(Days)
           /\ \A r \in Runs : Tallies[r] = run[r].tally /\ Tallies[r] \in Nat
           /\ \A r \in Runs : Debts[r] = run[r].owes /\ Debts[r] \in Nat
           /\ \A d \in Days : Recorded[d] = ledger[d].usd /\ Recorded[d] \in Nat
           /\ SumFunctionOnSet(Tallies, Runs) \in Nat
           /\ SumFunctionOnSet(Debts, Runs) \in Nat
           /\ SumFunctionOnSet(Recorded, Days) \in Nat
<1>1. IsFiniteSet(Runs) /\ IsFiniteSet(Days)
  BY SpendAssumption, FS_Interval DEF Days
<1>2. \A r \in Runs : Tallies[r] = run[r].tally /\ Tallies[r] \in Nat
  BY DEF SpendType, RunType, Tallies
<1>3. \A r \in Runs : Debts[r] = run[r].owes /\ Debts[r] \in Nat
  BY DEF SpendType, RunType, Debts
<1>4. \A d \in Days : Recorded[d] = ledger[d].usd /\ Recorded[d] \in Nat
  BY DEF SpendType, Recorded
<1>5. QED
  BY <1>1, <1>2, <1>3, <1>4, SumIsNat

\* The same of the next state.
LEMMA SumsOfSpendNext ==
    ASSUME SpendType'
    PROVE  /\ \A r \in Runs : Tallies'[r] = run'[r].tally /\ Tallies'[r] \in Nat
           /\ \A r \in Runs : Debts'[r] = run'[r].owes /\ Debts'[r] \in Nat
           /\ \A d \in Days : Recorded'[d] = ledger'[d].usd /\ Recorded'[d] \in Nat
           /\ SumFunctionOnSet(Tallies', Runs) \in Nat
           /\ SumFunctionOnSet(Debts', Runs) \in Nat
           /\ SumFunctionOnSet(Recorded', Days) \in Nat
<1>1. IsFiniteSet(Runs) /\ IsFiniteSet(Days)
  BY SpendAssumption, FS_Interval DEF Days
<1>2. \A r \in Runs : Tallies'[r] = run'[r].tally /\ Tallies'[r] \in Nat
  BY DEF SpendType, RunType, Tallies
<1>3. \A r \in Runs : Debts'[r] = run'[r].owes /\ Debts'[r] \in Nat
  BY DEF SpendType, RunType, Debts
<1>4. \A d \in Days : Recorded'[d] = ledger'[d].usd /\ Recorded'[d] \in Nat
  BY DEF SpendType, Recorded
<1>5. QED
  BY <1>1, <1>2, <1>3, <1>4, SumIsNat

\* No run spends, owes or settles.
LEMMA RunsKeepAccounts ==
    ASSUME SpendType, SpendType',
           \A r \in Runs : run'[r].tally = run[r].tally /\ run'[r].owes = run[r].owes
    PROVE  /\ SumFunctionOnSet(Tallies', Runs) = SumFunctionOnSet(Tallies, Runs)
           /\ SumFunctionOnSet(Debts', Runs) = SumFunctionOnSet(Debts, Runs)
<1>1. IsFiniteSet(Runs) /\ \A r \in Runs : Tallies'[r] = Tallies[r] /\ Tallies[r] \in Nat
  BY SumsOfSpend, SumsOfSpendNext
<1>2. \A r \in Runs : Debts'[r] = Debts[r] /\ Debts[r] \in Nat
  BY SumsOfSpend, SumsOfSpendNext
<1>3. SumFunctionOnSet(Tallies', Runs) = SumFunctionOnSet(Tallies, Runs)
  BY <1>1, SumSame
<1>4. SumFunctionOnSet(Debts', Runs) = SumFunctionOnSet(Debts, Runs)
  BY <1>1, <1>2, SumSame
<1>5. QED
  BY <1>3, <1>4

\* Only run r does.
LEMMA RunsAccounts ==
    ASSUME SpendType, SpendType', NEW r \in Runs, \A q \in Runs : q # r => run'[q] = run[q]
    PROVE  /\ SumFunctionOnSet(Tallies', Runs) + run[r].tally
                = SumFunctionOnSet(Tallies, Runs) + run'[r].tally
           /\ SumFunctionOnSet(Debts', Runs) + run[r].owes
                = SumFunctionOnSet(Debts, Runs) + run'[r].owes
<1>1. /\ IsFiniteSet(Runs)
      /\ \A q \in Runs : Tallies[q] \in Nat /\ Tallies'[q] \in Nat
      /\ \A q \in Runs : q # r => Tallies'[q] = Tallies[q]
  BY SumsOfSpend, SumsOfSpendNext
<1>2. /\ \A q \in Runs : Debts[q] \in Nat /\ Debts'[q] \in Nat
      /\ \A q \in Runs : q # r => Debts'[q] = Debts[q]
  BY SumsOfSpend, SumsOfSpendNext
<1>3. SumFunctionOnSet(Tallies', Runs) + Tallies[r] = SumFunctionOnSet(Tallies, Runs) + Tallies'[r]
  BY <1>1, SumChanges
<1>4. SumFunctionOnSet(Debts', Runs) + Debts[r] = SumFunctionOnSet(Debts, Runs) + Debts'[r]
  BY <1>1, <1>2, SumChanges
<1>5. QED
  BY <1>3, <1>4, SumsOfSpend, SumsOfSpendNext

\* Ledgers that keep their amounts keep their sum.
LEMMA LedgersKept ==
    ASSUME SpendType, SpendType', \A d \in Days : ledger'[d].usd = ledger[d].usd
    PROVE  SumFunctionOnSet(Recorded', Days) = SumFunctionOnSet(Recorded, Days)
<1>1. IsFiniteSet(Days) /\ \A d \in Days : Recorded'[d] = Recorded[d] /\ Recorded[d] \in Nat
  BY SumsOfSpend, SumsOfSpendNext
<1>2. QED
  BY <1>1, SumSame

\* The sum grows by what one ledger does.
LEMMA LedgerGrows ==
    ASSUME SpendType, SpendType', NEW day \in Days,
           \A d \in Days : d # day => ledger'[d].usd = ledger[d].usd
    PROVE  SumFunctionOnSet(Recorded', Days) + ledger[day].usd
             = SumFunctionOnSet(Recorded, Days) + ledger'[day].usd
<1>1. /\ IsFiniteSet(Days)
      /\ \A d \in Days : Recorded[d] \in Nat /\ Recorded'[d] \in Nat
      /\ \A d \in Days : d # day => Recorded'[d] = Recorded[d]
  BY SumsOfSpend, SumsOfSpendNext
<1>2. SumFunctionOnSet(Recorded', Days) + Recorded[day] = SumFunctionOnSet(Recorded, Days) + Recorded'[day]
  BY <1>1, SumChanges
<1>3. QED
  BY <1>2, SumsOfSpend, SumsOfSpendNext

\* The terms of the account, and what is to be shown of the next ones.
LEMMA AccountsNext ==
    ASSUME AccountInv, SpendInv', lost' \in Nat, DebtsRecorded',
           SumFunctionOnSet(Tallies', Runs)
             = SumFunctionOnSet(Recorded', Days) + SumFunctionOnSet(Debts', Runs) + lost'
    PROVE  AccountInv'
  BY DEF AccountInv, SpendAccounted

\* A step that spends, pays and loses nothing.
LEMMA QuietStep ==
    ASSUME AccountInv, SpendInv', lost' = lost, DebtsRecorded',
           \A r \in Runs : run'[r].tally = run[r].tally /\ run'[r].owes = run[r].owes,
           \A d \in Days : ledger'[d].usd = ledger[d].usd
    PROVE  AccountInv'
<1>1. SpendType /\ SpendType'
  BY DEF AccountInv, SpendInv
<1>2. /\ SumFunctionOnSet(Tallies', Runs) = SumFunctionOnSet(Tallies, Runs)
      /\ SumFunctionOnSet(Debts', Runs) = SumFunctionOnSet(Debts, Runs)
      /\ SumFunctionOnSet(Recorded', Days) = SumFunctionOnSet(Recorded, Days)
  BY <1>1, RunsKeepAccounts, LedgersKept
<1>3. QED
  BY <1>2, AccountsNext DEF AccountInv, SpendAccounted

\* A run that does not record moves on, and nothing is paid.
LEMMA RunKeepsAccounts ==
    ASSUME AccountInv, NEW r \in Runs, run[r].pc # "recording", lost' = lost, SpendInv',
           \A q \in Runs : q # r => run'[q] = run[q],
           run'[r].tally = run[r].tally, run'[r].owes = run[r].owes,
           \A d \in Days : ledger'[d].usd = ledger[d].usd
    PROVE  AccountInv'
<1>1. \A q \in Runs : run'[q].tally = run[q].tally /\ run'[q].owes = run[q].owes
  OBVIOUS
<1>2. run'[r].owes = 0
  BY DEF AccountInv, DebtsRecorded
<1>3. DebtsRecorded'
  BY <1>2 DEF AccountInv, DebtsRecorded
<1>4. QED
  BY <1>1, <1>3, QuietStep

\* A run that changes its place keeps its tally and what it owes.
LEMMA PlaceAccounts ==
    ASSUME AccountInv, NEW r \in Runs, NEW pc,
           \/ run' = [run EXCEPT ![r].pc = pc]
           \/ run' = [run EXCEPT ![r].pc = pc, ![r].on = today]
    PROVE  /\ \A q \in Runs : q # r => run'[q] = run[q]
           /\ run'[r].tally = run[r].tally /\ run'[r].owes = run[r].owes
<1>1. run \in [Runs -> RunType] /\ run[r] \in RunType
  BY DEF AccountInv, SpendInv, SpendType
<1>2. CASE run' = [run EXCEPT ![r].pc = pc]
  <2>1. PICK new : new = [run[r] EXCEPT !.pc = pc]
    OBVIOUS
  <2>2. new.tally = run[r].tally /\ new.owes = run[r].owes
    BY <1>1, <2>1, Zenon DEF RunType
  <2>3. run' = [run EXCEPT ![r] = new]
    BY <1>2, <2>1, Zenon
  <2>4. QED
    BY <1>1, <2>2, <2>3
<1>3. CASE run' = [run EXCEPT ![r].pc = pc, ![r].on = today]
  <2>1. PICK new : new = [[run[r] EXCEPT !.pc = pc] EXCEPT !.on = today]
    OBVIOUS
  <2>2. new.tally = run[r].tally /\ new.owes = run[r].owes
    BY <1>1, <2>1, Zenon DEF RunType
  <2>3. run' = [run EXCEPT ![r] = new]
    BY <1>3, <2>1, Zenon
  <2>4. QED
    BY <1>1, <2>2, <2>3
<1>4. QED
  BY <1>2, <1>3

\* Asking for admission spends nothing.
LEMMA AdmissionAccounts ==
    ASSUME AccountInv, SpendInv', NEW r \in Runs, Admission(r)
    PROVE  AccountInv'
<1>1. UNCHANGED <<ledger, lost>> /\ run[r].pc # "recording"
  BY DEF Admission, Ask, ReadSwitch, SwitchUnreadable, ReadSpend, SpendUnreadable, IsAt
<1>2. PICK pc : \/ run' = [run EXCEPT ![r].pc = pc]
                \/ run' = [run EXCEPT ![r].pc = pc, ![r].on = today]
  <2>1. CASE Ask(r) \/ ReadSpend(r) \/ SpendUnreadable(r)
    BY <2>1 DEF Ask, ReadSpend, SpendUnreadable, Pass, MovesOn
  <2>2. CASE ReadSwitch(r) \/ SwitchUnreadable(r)
    BY <2>2 DEF ReadSwitch, SwitchUnreadable, LookAtSpend, Pass, MovesOn
  <2>3. QED
    BY <2>1, <2>2 DEF Admission
<1>3. /\ \A q \in Runs : q # r => run'[q] = run[q]
      /\ run'[r].tally = run[r].tally /\ run'[r].owes = run[r].owes
  BY <1>2, PlaceAccounts
<1>4. QED
  BY <1>1, <1>3, RunKeepsAccounts

\* A call is paid, and owed to the ledger.
LEMMA PayAccounts ==
    ASSUME AccountInv, SpendInv', NEW r \in Runs, NEW usd \in Costs, Pay(r, usd)
    PROVE  AccountInv'
<1>1. run \in [Runs -> RunType] /\ run[r] \in RunType /\ run[r].tally \in Nat /\ usd \in Nat
  BY SpendAssumption DEF AccountInv, SpendInv, SpendType, RunType
<1>2. run[r].owes = 0 /\ UNCHANGED <<ledger, lost>>
  BY DEF Pay, IsAt, AccountInv, DebtsRecorded
<1>3. PICK new : new = [pc |-> "recording", on |-> today, calls |-> run[r].calls + 1,
                        owes |-> usd, tally |-> run[r].tally + usd]
  OBVIOUS
<1>4. run' = [run EXCEPT ![r] = new]
  BY <1>3, Zenon DEF Pay
<1>5. /\ \A q \in Runs : q # r => run'[q] = run[q]
      /\ run'[r] = new
  BY <1>1, <1>4
<1>6. new.pc = "recording" /\ new.owes = usd /\ new.tally = run[r].tally + usd
  BY <1>3
<1>7. DebtsRecorded'
  BY <1>5, <1>6 DEF AccountInv, DebtsRecorded
<1>8. SpendType /\ SpendType'
  BY DEF AccountInv, SpendInv
<1>9. SumFunctionOnSet(Tallies', Runs) + run[r].tally
        = SumFunctionOnSet(Tallies, Runs) + (run[r].tally + usd)
  BY <1>5, <1>6, <1>8, RunsAccounts
<1>10. SumFunctionOnSet(Debts', Runs) + 0 = SumFunctionOnSet(Debts, Runs) + usd
  BY <1>2, <1>5, <1>6, <1>8, RunsAccounts
<1>11. SumFunctionOnSet(Recorded', Days) = SumFunctionOnSet(Recorded, Days)
  BY <1>2, <1>8, LedgersKept
<1>12. /\ SumFunctionOnSet(Tallies, Runs)
            = SumFunctionOnSet(Recorded, Days) + SumFunctionOnSet(Debts, Runs) + lost
       /\ lost \in Nat /\ lost' = lost
  BY <1>2 DEF AccountInv, SpendAccounted
<1>13. SumFunctionOnSet(Tallies', Runs)
         = SumFunctionOnSet(Recorded', Days) + SumFunctionOnSet(Debts', Runs) + lost'
  BY <1>1, <1>8, <1>9, <1>10, <1>11, <1>12, SumsOfSpend, SumsOfSpendNext
<1>14. QED
  BY <1>7, <1>12, <1>13, AccountsNext

\* What a run owed is settled: it is in the ledger of its day, or counted as lost.
LEMMA SettleAccounts ==
    ASSUME AccountInv, SpendInv', NEW r \in Runs, NEW pc, Settles(r, pc),
           run[r].pc = "recording",
           \/ ledger' = Added(r) /\ lost' = lost
           \/ ledger' = ledger /\ lost' = lost + run[r].owes
    PROVE  AccountInv'
<1>1. /\ run \in [Runs -> RunType] /\ run[r] \in RunType
      /\ run[r].tally \in Nat /\ run[r].owes \in Nat /\ run[r].on \in Days
  BY DEF AccountInv, SpendInv, SpendType, RunType
<1>2. PICK new : new = [[run[r] EXCEPT !.pc = pc] EXCEPT !.owes = 0]
  OBVIOUS
<1>3. new.owes = 0 /\ new.tally = run[r].tally
  BY <1>1, <1>2, Zenon DEF RunType
<1>4. run' = [run EXCEPT ![r] = new]
  BY <1>2, Zenon DEF Settles
<1>5. run'[r] = new /\ \A q \in Runs : q # r => run'[q] = run[q]
  BY <1>1, <1>4
<1>6. DebtsRecorded'
  BY <1>3, <1>5 DEF AccountInv, DebtsRecorded
<1>7. SpendType /\ SpendType'
  BY DEF AccountInv, SpendInv
<1>8. SumFunctionOnSet(Tallies', Runs) + run[r].tally = SumFunctionOnSet(Tallies, Runs) + run[r].tally
  BY <1>3, <1>5, <1>7, RunsAccounts
<1>9. SumFunctionOnSet(Debts', Runs) + run[r].owes = SumFunctionOnSet(Debts, Runs) + 0
  BY <1>3, <1>5, <1>7, RunsAccounts
<1>10. /\ lost \in Nat
       /\ SumFunctionOnSet(Tallies, Runs)
            = SumFunctionOnSet(Recorded, Days) + SumFunctionOnSet(Debts, Runs) + lost
  BY DEF AccountInv, SpendAccounted
<1>11. CASE ledger' = Added(r) /\ lost' = lost
  <2>1. PICK day \in Days : day = run[r].on
    BY <1>1
  <2>2. ledger \in [Days -> [usd: Nat, ttl: Nat]] /\ ledger[day] \in [usd: Nat, ttl: Nat]
    BY <1>7 DEF SpendType
  <2>3. PICK sum : sum = ledger[day].usd + run[r].owes
    OBVIOUS
  <2>4. PICK key : key = [ledger[day] EXCEPT !.usd = sum]
    OBVIOUS
  <2>5. key.usd = sum
    BY <2>2, <2>4, Zenon
  <2>6. ledger' = [ledger EXCEPT ![day].usd = sum]
    BY <1>11, <2>1, <2>3, Zenon DEF Added
  <2>7. ledger' = [ledger EXCEPT ![day] = key]
    BY <2>4, <2>6, Zenon
  <2>8. ledger'[day].usd = sum /\ \A d \in Days : d # day => ledger'[d].usd = ledger[d].usd
    BY <2>2, <2>5, <2>7
  <2>9. SumFunctionOnSet(Recorded', Days) + ledger[day].usd
          = SumFunctionOnSet(Recorded, Days) + (ledger[day].usd + run[r].owes)
    BY <1>7, <2>3, <2>8, LedgerGrows
  <2>10. ledger[day].usd \in Nat /\ lost' \in Nat
    BY <1>10, <1>11, <2>2
  <2>11. SumFunctionOnSet(Tallies', Runs)
           = SumFunctionOnSet(Recorded', Days) + SumFunctionOnSet(Debts', Runs) + lost'
    BY <1>1, <1>7, <1>8, <1>9, <1>10, <1>11, <2>9, <2>10, SumsOfSpend, SumsOfSpendNext
  <2>12. QED
    BY <1>6, <2>10, <2>11, AccountsNext
<1>12. CASE ledger' = ledger /\ lost' = lost + run[r].owes
  <2>1. SumFunctionOnSet(Recorded', Days) = SumFunctionOnSet(Recorded, Days)
    BY <1>7, <1>12, LedgersKept
  <2>2. lost' \in Nat
    BY <1>1, <1>10, <1>12
  <2>3. SumFunctionOnSet(Tallies', Runs)
          = SumFunctionOnSet(Recorded', Days) + SumFunctionOnSet(Debts', Runs) + lost'
    BY <1>1, <1>7, <1>8, <1>9, <1>10, <1>12, <2>1, <2>2, SumsOfSpend, SumsOfSpendNext
  <2>4. QED
    BY <1>6, <2>2, <2>3, AccountsNext
<1>13. QED
  BY <1>11, <1>12

\* What was owed is recorded or lost.
LEMMA RecordingAccounts ==
    ASSUME AccountInv, SpendInv', NEW r \in Runs, Recording(r)
    PROVE  AccountInv'
<1> USE DEF IsAt
<1>1. ASSUME NEW usd \in Costs, Pay(r, usd) PROVE AccountInv'
  BY <1>1, PayAccounts
<1>2. CASE AddToTotal(r) \/ IncrUnanswered(r)
  <2>1. PICK pc : Settles(r, pc)
    BY <1>2 DEF AddToTotal, IncrUnanswered
  <2>2. run[r].pc = "recording" /\ ledger' = Added(r) /\ lost' = lost
    BY <1>2 DEF AddToTotal, IncrUnanswered
  <2>3. QED
    BY <2>1, <2>2, SettleAccounts
<1>3. CASE SpendUnrecorded(r)
  BY <1>3, SettleAccounts DEF SpendUnrecorded
<1>4. CASE ExpireLedger(r) \/ ExpireLedgerFails(r) \/ EndRun(r)
  <2>1. PICK pc : run' = [run EXCEPT ![r].pc = pc]
    BY <1>4 DEF ExpireLedger, ExpireLedgerFails, EndRun, MovesOn
  <2>2. lost' = lost /\ run[r].pc # "recording"
    BY <1>4 DEF ExpireLedger, ExpireLedgerFails, EndRun
  <2>3. ledger \in [Days -> [usd: Nat, ttl: Nat]] /\ run[r].on \in Days
    BY DEF AccountInv, SpendInv, SpendType, RunType
  <2>4. \A d \in Days : ledger'[d].usd = ledger[d].usd
    <3>1. CASE ledger' = ledger
      BY <3>1
    <3>2. CASE ledger' = [ledger EXCEPT ![run[r].on].ttl = LedgerDays]
      <4>1. PICK day \in Days : day = run[r].on
        BY <2>3
      <4>2. PICK key : key = [ledger[day] EXCEPT !.ttl = LedgerDays]
        OBVIOUS
      <4>3. ledger[day] \in [usd: Nat, ttl: Nat]
        BY <2>3
      <4>4. key.usd = ledger[day].usd
        BY <4>2, <4>3, Zenon
      <4>5. ledger' = [ledger EXCEPT ![day] = key]
        BY <3>2, <4>1, <4>2, Zenon
      <4>6. QED
        BY <2>3, <4>4, <4>5
    <3>3. QED
      BY <1>4, <3>1, <3>2 DEF ExpireLedger, ExpireLedgerFails, EndRun
  <2>5. /\ \A q \in Runs : q # r => run'[q] = run[q]
        /\ run'[r].tally = run[r].tally /\ run'[r].owes = run[r].owes
    BY <2>1, PlaceAccounts
  <2>6. QED
    BY <2>2, <2>4, <2>5, RunKeepsAccounts
<1>5. QED
  BY <1>1, <1>2, <1>3, <1>4 DEF Recording

\* What was in the ledgers whose keys expire is counted as lost.
LEMMA MidnightAccounts ==
    ASSUME AccountInv, SpendInv', Midnight
    PROVE  AccountInv'
<1>1. SpendType /\ SpendType' /\ run' = run
  BY DEF AccountInv, SpendInv, Midnight
<1>2. ASSUME NEW d \in Days
      PROVE  Recorded'[d] = IF d \in Reaped THEN 0 ELSE Recorded[d]
  <2>1. ledger[d] \in [usd: Nat, ttl: Nat]
    BY <1>1 DEF SpendType
  <2>2. ledger'[d] = IF d \in Reaped THEN NoLedger ELSE DayOlder(ledger[d])
    BY DEF Midnight
  <2>3. Recorded'[d] = ledger'[d].usd /\ Recorded[d] = ledger[d].usd
    BY <1>1, SumsOfSpend, SumsOfSpendNext
  <2>4. CASE d \in Reaped \/ ledger[d].ttl = NoExpiry
    BY <2>2, <2>3, <2>4 DEF NoLedger, DayOlder, Reaped, NoExpiry
  <2>5. CASE d \notin Reaped /\ ledger[d].ttl # NoExpiry
    <3>1. PICK left : left = ledger[d].ttl - 1
      OBVIOUS
    <3>2. ledger'[d] = [ledger[d] EXCEPT !.ttl = left]
      BY <2>2, <2>5, <3>1, Zenon DEF DayOlder
    <3>3. ledger'[d].usd = ledger[d].usd
      BY <2>1, <3>2, Zenon
    <3>4. QED
      BY <2>3, <2>5, <3>3
  <2>6. QED
    BY <2>4, <2>5
<1>3. /\ IsFiniteSet(Days) /\ Reaped \in SUBSET Days
      /\ \A d \in Days : Recorded[d] \in Nat
  BY <1>1, SumsOfSpend DEF Reaped
<1>4. SumFunctionOnSet(Recorded', Days) + SumFunctionOnSet(Recorded, Reaped)
        = SumFunctionOnSet(Recorded, Days)
  BY <1>2, <1>3, SumWithout
<1>5. SumFunctionOnSet(Recorded, Reaped) \in Nat
  <2>1. IsFiniteSet(Reaped) /\ \A d \in Reaped : Recorded[d] \in Nat
    BY <1>3, FS_Subset
  <2>2. QED
    BY <2>1, SumIsNat
<1>6. /\ SumFunctionOnSet(Tallies', Runs) = SumFunctionOnSet(Tallies, Runs)
      /\ SumFunctionOnSet(Debts', Runs) = SumFunctionOnSet(Debts, Runs)
  BY <1>1, RunsKeepAccounts
<1>7. lost' = lost + SumFunctionOnSet(Recorded, Reaped) /\ lost \in Nat
  BY DEF AccountInv, Midnight
<1>8. SumFunctionOnSet(Tallies, Runs)
        = SumFunctionOnSet(Recorded, Days) + SumFunctionOnSet(Debts, Runs) + lost
  BY DEF AccountInv, SpendAccounted
<1>9. lost' \in Nat
  BY <1>5, <1>7
<1>10. SumFunctionOnSet(Tallies', Runs)
         = SumFunctionOnSet(Recorded', Days) + SumFunctionOnSet(Debts', Runs) + lost'
  BY <1>1, <1>4, <1>5, <1>6, <1>7, <1>8, SumsOfSpend, SumsOfSpendNext
<1>11. DebtsRecorded'
  BY <1>1 DEF AccountInv, DebtsRecorded
<1>12. QED
  BY <1>9, <1>10, <1>11, AccountsNext

\* Every step keeps the account.
LEMMA AccountStep == AccountInv /\ [SpendNext]_spendVars => AccountInv'
<1> SUFFICES ASSUME AccountInv, [SpendNext]_spendVars PROVE AccountInv'
  OBVIOUS
<1>1. SpendInv'
  BY SpendStep DEF AccountInv
<1>2. ASSUME NEW r \in Runs, Admission(r) \/ Recording(r) PROVE AccountInv'
  BY <1>1, <1>2, AdmissionAccounts, RecordingAccounts
<1>3. CASE Midnight
  BY <1>1, <1>3, MidnightAccounts
<1>4. CASE UNCHANGED <<ledger, run, lost>>
  <2>1. DebtsRecorded'
    BY <1>4 DEF AccountInv, DebtsRecorded
  <2>2. QED
    BY <1>1, <1>4, <2>1, QuietStep
<1>5. QED
  BY <1>2, <1>3, <1>4 DEF SpendNext, FlipSwitch, spendVars

\* The account is of nothing at first.
LEMMA AccountInitially == SpendInit => AccountInv
<1> SUFFICES ASSUME SpendInit PROVE AccountInv
  OBVIOUS
<1>1. SpendInv /\ SpendType
  BY SpendInitially DEF SpendInv
<1>2. \A r \in Runs : run[r].tally = 0 /\ run[r].owes = 0
  BY DEF SpendInit, Asked
<1>3. \A d \in Days : ledger[d].usd = 0
  BY DEF SpendInit, NoLedger
<1>4. SumFunctionOnSet(Tallies, Runs) = 0
  BY <1>1, <1>2, SumsOfSpend, SumOfZeros
<1>5. SumFunctionOnSet(Debts, Runs) = 0
  BY <1>1, <1>2, SumsOfSpend, SumOfZeros
<1>6. SumFunctionOnSet(Recorded, Days) = 0
  BY <1>1, <1>3, SumsOfSpend, SumOfZeros
<1>7. lost = 0
  BY DEF SpendInit
<1>8. QED
  BY <1>1, <1>2, <1>4, <1>5, <1>6, <1>7 DEF AccountInv, DebtsRecorded, SpendAccounted

\* What the runs have spent is in a ledger, on its way there or counted as lost, whatever
\* fails of the commands and whichever keys expire (control.py:130-170).
THEOREM SpendIsAccounted == SpendSpec => []SpendAccounted
<1>1. AccountInv => SpendAccounted
  BY DEF AccountInv
<1>2. SpendSpec => []AccountInv
  BY AccountInitially, AccountStep, PTL DEF SpendSpec
<1>3. QED
  BY <1>1, <1>2, PTL
=============================================================================

-------------------------- MODULE ApiProcessProofs --------------------------
(***************************************************************************)
(* The theorems about one process of the API, for any set of keys, number  *)
(* of requests, time and throttle: sessions go on while the key cache is   *)
(* refreshed, and failures are reported, neither too often nor not at all. *)
(***************************************************************************)
EXTENDS ApiProcess, TLAPS

-----------------------------------------------------------------------------
(* Type correctness.                                                       *)

LEMMA LookCases ==
    ASSUME JwksTypeOK, NEW w \in Workers
    PROVE  \/ look[w] = NoLook /\ look[w].pc = "none"
           \/ look[w] \in Look /\ look[w].pc # "none"
BY DEF JwksTypeOK, NoLook, Look

LEMMA LookUpType ==
    ASSUME JwksTypeOK, NEW w \in Workers, LookUp(w)
    PROVE  JwksTypeOK'
<1> USE DEF JwksTypeOK
<1>1. look[w] \in Look
  BY LookCases DEF LookUp, Fetch, FetchFails, Install, Pick
<1>2. CASE Fetch(w)
  <2>1. [look[w] EXCEPT !.pc = "install", !.fetched = published] \in Look
    BY <1>1 DEF Look
  <2>2. QED
    BY <1>2, <2>1 DEF Fetch
<1>3. CASE FetchFails(w)
  <2>1. \A p \in {"accepted", "refused"} : [look[w] EXCEPT !.pc = p] \in Look
    BY <1>1 DEF Look
  <2>2. QED
    BY <1>3, <2>1 DEF FetchFails, LookAt
<1>4. CASE Install(w)
  <2>1. [look[w] EXCEPT !.pc = "pick"] \in Look /\ look[w].fetched \subseteq Kids
    BY <1>1 DEF Look
  <2>2. QED
    BY <1>4, <2>1 DEF Install, LookAt
<1>5. CASE Pick(w)
  <2>1. \A p \in {"accepted", "refused"} : [look[w] EXCEPT !.pc = p, !.fetched = {}] \in Look
    BY <1>1 DEF Look
  <2>2. QED
    BY <1>5, <2>1 DEF Pick
<1>6. QED
  BY <1>2, <1>3, <1>4, <1>5 DEF LookUp

LEMMA GetKeyType ==
    ASSUME JwksTypeOK, NEW w \in Workers, NEW kid \in Kids, GetKey(w, kid)
    PROVE  JwksTypeOK'
<1>1. \A p \in {"accepted", "fetch"} :
        [pc |-> p, kid |-> kid, cached |-> kid \in keys, steady |-> kid \in published,
         fetched |-> {}] \in Look
  BY DEF Look
<1>2. QED
  BY <1>1 DEF JwksTypeOK, GetKey

LEMMA RotateType == JwksTypeOK /\ Rotate => JwksTypeOK'
<1> SUFFICES ASSUME JwksTypeOK, Rotate PROVE JwksTypeOK'
  OBVIOUS
<1>1. published' \subseteq Kids /\ retired' \subseteq Kids /\ UNCHANGED <<keys, recent>>
  BY DEF JwksTypeOK, Rotate
<1>2. look' \in [Workers -> {NoLook} \cup Look]
  <2>1. \A w \in Workers, b \in BOOLEAN :
            look[w] # NoLook => [look[w] EXCEPT !.steady = b] \in Look
    BY DEF JwksTypeOK, Look
  <2>2. \A w \in Workers : look[w] # NoLook => look[w].steady \in BOOLEAN
    BY DEF JwksTypeOK, Look
  <2>3. QED
    BY <2>1, <2>2 DEF Rotate
<1>3. QED
  BY <1>1, <1>2 DEF JwksTypeOK

LEMMA SendAlertType ==
    ASSUME TypeOK, NEW key \in Key, SendAlert(key)
    PROVE  /\ lastAlert' \in [Key -> {Never} \cup 0..MaxTime]
           /\ sent' \subseteq [key : Key, at : 0..MaxTime]
BY DEF TypeOK, SendAlert

LEMMA TypeInit == Init => TypeOK
<1> SUFFICES ASSUME Init PROVE TypeOK
  OBVIOUS
<1>1. JwksTypeOK
  BY DEF Init, JwksInit, JwksTypeOK
<1>2. QED
  BY <1>1, ApiAssumption DEF Init, TypeOK

LEMMA TypeStep == TypeOK /\ [Next]_vars => TypeOK'
<1> SUFFICES ASSUME TypeOK, [Next]_vars PROVE TypeOK'
  OBVIOUS
<1>1. JwksTypeOK
  BY DEF TypeOK
<1>2. CASE Verify
  <2>1. ASSUME Expire PROVE JwksTypeOK'
    BY <1>1, <2>1 DEF Expire, JwksTypeOK
  <2>2. JwksTypeOK'
    BY <1>1, <1>2, <2>1, LookUpType, GetKeyType, RotateType DEF Verify, Provider
  <2>3. QED
    BY <1>2, <2>2 DEF Verify, alertVars, TypeOK, Key, NoError
<1>3. CASE Tick
  BY <1>3, ApiAssumption DEF Tick, TypeOK, JwksTypeOK, jwksVars
<1>4. CASE Restart
  BY <1>4, ApiAssumption DEF Restart, TypeOK, JwksTypeOK
<1>5. ASSUME NEW w \in Workers, Refuse(w) PROVE TypeOK'
  BY <1>5 DEF Refuse, Answered, alertVars, TypeOK, JwksTypeOK
<1>6. ASSUME NEW w \in Workers, Handle(w) PROVE TypeOK'
  BY <1>6 DEF Handle, Answered, TypeOK, JwksTypeOK
<1>7. ASSUME NEW w \in Workers, Recover(w) PROVE TypeOK'
  <2>1. failing[w] \in [kind : {"panic", "error"}, error : Errors]
    BY <1>7 DEF Recover, TypeOK, NoError
  <2>2. /\ <<"panic", failing[w].error>> \in Key
        /\ [failing[w] EXCEPT !.kind = "error"] \in [kind : {"panic", "error"}, error : Errors]
    BY <2>1 DEF Key
  <2>3. failing' \in [Workers -> {NoError} \cup [kind : {"panic", "error"}, error : Errors]]
    BY <1>7, <2>2 DEF Recover, TypeOK
  <2>4. QED
    BY <1>7, <2>2, <2>3, SendAlertType DEF Recover, TypeOK, JwksTypeOK, jwksVars
<1>8. ASSUME NEW w \in Workers, HandleError(w) PROVE TypeOK'
  <2>1. failing[w] \in [kind : {"panic", "error"}, error : Errors]
    BY <1>8 DEF HandleError, TypeOK, NoError
  <2>2. <<"error", failing[w].error>> \in Key
    BY <2>1 DEF Key
  <2>3. QED
    BY <1>8, <2>2, SendAlertType DEF HandleError, Answered, TypeOK, JwksTypeOK
<1>9. CASE UNCHANGED vars
  BY <1>9 DEF vars, jwksVars, alertVars, TypeOK, JwksTypeOK
<1>10. QED
  BY <1>2, <1>3, <1>4, <1>5, <1>6, <1>7, <1>8, <1>9 DEF Next

\* The key cache, the progress of every request and the throttle stay within
\* their types, restarts included.
THEOREM TypeCorrect == Spec => []TypeOK
BY TypeInit, TypeStep, PTL DEF Spec

-----------------------------------------------------------------------------
(* The key cache.                                                          *)

\* Nothing is in the map, or on its way there, that the provider never served.
OnlyServed ==
    /\ keys \subseteq published \cup retired
    /\ \A v \in Workers : look[v].pc = "install" => look[v].fetched \subseteq published \cup retired

\* Once the hour is over, only key sets fetched since then are on their way.
LateSetsNewer ==
    ~recent => \A v \in Workers :
        look[v].pc = "install" => keys \cap published \subseteq look[v].fetched

Waiting(w) == look[w].pc \in {"fetch", "install", "pick"} /\ look[w].cached /\ look[w].steady

\* The key of a request that found it in the map is in every set that may be
\* installed before the request looks again.
KeyStays ==
    \A w \in Workers : Waiting(w) =>
        /\ look[w].kid \in keys \cap published
        /\ \A v \in Workers : look[v].pc = "install" => look[w].kid \in look[v].fetched

CacheInv == JwksTypeOK /\ OnlyServed /\ LateSetsNewer /\ KeyStays /\ SessionsGoOn

\* A step of one request leaves the looks of the others alone.
Others(w) == \A v \in Workers \ {w} : look'[v] = look[v]

LEMMA CacheInit == JwksInit => CacheInv
<1> SUFFICES ASSUME JwksInit PROVE CacheInv
  OBVIOUS
<1>1. \A w \in Workers : look[w].pc = "none"
  BY DEF JwksInit, NoLook
<1>2. JwksTypeOK /\ keys = {}
  BY DEF JwksInit, JwksTypeOK
<1>3. QED
  BY <1>1, <1>2 DEF CacheInv, OnlyServed, LateSetsNewer, KeyStays, Waiting, SessionsGoOn

LEMMA CacheGetKey ==
    ASSUME CacheInv, NEW w \in Workers, NEW kid \in Kids, GetKey(w, kid)
    PROVE  CacheInv'
<1>1. /\ look'[w].pc = IF kid \in keys /\ recent THEN "accepted" ELSE "fetch"
      /\ look'[w].kid = kid /\ (look'[w].cached <=> kid \in keys)
      /\ look'[w].steady <=> kid \in published
      /\ Others(w)
  BY DEF CacheInv, JwksTypeOK, GetKey, Others
<1>2. UNCHANGED <<published, retired, keys, recent>>
  BY DEF GetKey
<1>3. JwksTypeOK'
  BY GetKeyType DEF CacheInv
<1>4. OnlyServed' /\ LateSetsNewer'
  BY <1>1, <1>2 DEF CacheInv, OnlyServed, LateSetsNewer, Others
<1>5. KeyStays'
  <2>1. ASSUME Waiting(w)'
        PROVE  /\ kid \in keys \cap published
               /\ \A v \in Workers : look'[v].pc = "install" => kid \in look'[v].fetched
    BY <1>1, <1>2, <2>1 DEF CacheInv, LateSetsNewer, Waiting, Others
  <2>2. ASSUME NEW u \in Workers \ {w}, Waiting(u)'
        PROVE  /\ look'[u].kid \in keys' \cap published'
               /\ \A v \in Workers : look'[v].pc = "install" => look'[u].kid \in look'[v].fetched
    BY <1>1, <1>2, <2>2 DEF CacheInv, KeyStays, Waiting, Others
  <2>3. QED
    BY <1>1, <1>2, <2>1, <2>2 DEF KeyStays
<1>6. SessionsGoOn'
  BY <1>1, <1>2 DEF CacheInv, SessionsGoOn, Others
<1>7. QED
  BY <1>3, <1>4, <1>5, <1>6 DEF CacheInv

LEMMA CacheLookUp ==
    ASSUME CacheInv, NEW w \in Workers, LookUp(w)
    PROVE  CacheInv'
<1>1. look[w] \in Look /\ JwksTypeOK
  BY LookCases DEF CacheInv, LookUp, Fetch, FetchFails, Install, Pick
<1>2. JwksTypeOK'
  BY <1>1, LookUpType
<1>3. /\ UNCHANGED <<published, retired>> /\ Others(w)
      /\ look'[w].kid = look[w].kid /\ look'[w].cached = look[w].cached
      /\ look'[w].steady = look[w].steady
  <2> USE DEF Others, JwksTypeOK, Look
  <2>1. CASE Fetch(w)
    BY <1>1, <2>1 DEF Fetch
  <2>2. CASE FetchFails(w)
    BY <1>1, <2>2 DEF FetchFails, LookAt
  <2>3. CASE Install(w)
    BY <1>1, <2>3 DEF Install, LookAt
  <2>4. CASE Pick(w)
    BY <1>1, <2>4 DEF Pick
  <2>5. QED
    BY <2>1, <2>2, <2>3, <2>4 DEF LookUp
<1>4. CASE Fetch(w)
  <2>1. /\ look'[w].pc = "install" /\ look'[w].fetched = published
        /\ UNCHANGED <<keys, recent>> /\ look[w].pc = "fetch"
    BY <1>1, <1>4 DEF Fetch, JwksTypeOK, Look
  <2>2. OnlyServed' /\ LateSetsNewer'
    BY <1>3, <2>1 DEF CacheInv, OnlyServed, LateSetsNewer, Others
  <2>3. KeyStays'
    <3>1. \A u \in Workers : Waiting(u)' => Waiting(u) /\ look'[u].kid = look[u].kid
      BY <1>3, <2>1 DEF Waiting, Others
    <3>2. QED
      BY <1>3, <2>1, <3>1 DEF CacheInv, KeyStays, Others
  <2>4. SessionsGoOn'
    BY <1>3, <2>1 DEF CacheInv, SessionsGoOn, Others
  <2>5. QED
    BY <1>2, <2>2, <2>3, <2>4 DEF CacheInv
<1>5. CASE FetchFails(w)
  <2>1. /\ look'[w].pc = IF look[w].cached THEN "accepted" ELSE "refused"
        /\ UNCHANGED <<keys, recent>>
    BY <1>1, <1>5 DEF FetchFails, LookAt, JwksTypeOK, Look
  <2>2. OnlyServed' /\ LateSetsNewer'
    BY <1>3, <2>1 DEF CacheInv, OnlyServed, LateSetsNewer, Others
  <2>3. KeyStays'
    BY <1>3, <2>1 DEF CacheInv, KeyStays, Waiting, Others
  <2>4. SessionsGoOn'
    BY <1>3, <2>1 DEF CacheInv, SessionsGoOn, Others
  <2>5. QED
    BY <1>2, <2>2, <2>3, <2>4 DEF CacheInv
<1>6. CASE Install(w)
  <2>1. /\ look'[w].pc = "pick" /\ look[w].pc = "install"
        /\ keys' = look[w].fetched /\ recent' = TRUE
    BY <1>1, <1>6 DEF Install, LookAt, JwksTypeOK, Look
  <2>2. OnlyServed' /\ LateSetsNewer'
    BY <1>3, <2>1 DEF CacheInv, OnlyServed, LateSetsNewer, Others
  <2>3. KeyStays'
    <3>1. \A u \in Workers : Waiting(u)' => Waiting(u) /\ look'[u].kid = look[u].kid
      BY <1>3, <2>1 DEF Waiting, Others
    <3>2. \A v \in Workers : look'[v].pc = "install" => look'[v] = look[v]
      BY <1>3, <2>1 DEF Others
    <3>3. QED
      BY <1>3, <2>1, <3>1, <3>2 DEF CacheInv, KeyStays
  <2>4. SessionsGoOn'
    BY <1>3, <2>1 DEF CacheInv, SessionsGoOn, Others
  <2>5. QED
    BY <1>2, <2>2, <2>3, <2>4 DEF CacheInv
<1>7. CASE Pick(w)
  <2>1. /\ look'[w].pc = IF look[w].kid \in keys THEN "accepted" ELSE "refused"
        /\ UNCHANGED <<keys, recent>> /\ look[w].pc = "pick"
    BY <1>1, <1>7 DEF Pick, JwksTypeOK, Look
  <2>2. OnlyServed' /\ LateSetsNewer'
    BY <1>3, <2>1 DEF CacheInv, OnlyServed, LateSetsNewer, Others
  <2>3. KeyStays'
    BY <1>3, <2>1 DEF CacheInv, KeyStays, Waiting, Others
  <2>4. SessionsGoOn'
    <3>1. look'[w].pc = "refused" /\ look'[w].cached => ~look'[w].steady
      BY <1>3, <2>1 DEF CacheInv, KeyStays, Waiting
    <3>2. QED
      BY <1>3, <3>1 DEF CacheInv, SessionsGoOn, Others
  <2>5. QED
    BY <1>2, <2>2, <2>3, <2>4 DEF CacheInv
<1>8. QED
  BY <1>4, <1>5, <1>6, <1>7 DEF LookUp

LEMMA CacheRotate == CacheInv /\ Rotate => CacheInv'
<1> SUFFICES ASSUME CacheInv, Rotate PROVE CacheInv'
  OBVIOUS
<1>1. PICK kid \in Kids \ retired :
        \/ kid \in published /\ published' = published \ {kid} /\ retired' = retired \cup {kid}
        \/ kid \notin published /\ published' = published \cup {kid} /\ retired' = retired
  BY DEF Rotate
<1>2. UNCHANGED <<keys, recent>>
  BY DEF Rotate
<1>3. ASSUME NEW w \in Workers
      PROVE  \/ look[w] = NoLook /\ look'[w] = NoLook
             \/ /\ look[w] # NoLook /\ look'[w].pc = look[w].pc /\ look'[w].kid = look[w].kid
                /\ look'[w].cached = look[w].cached /\ look'[w].fetched = look[w].fetched
                /\ look'[w].steady <=> look[w].steady /\ look[w].kid \in published'
  <2>1. look'[w] = IF look[w] = NoLook THEN NoLook
                   ELSE [look[w] EXCEPT !.steady = @ /\ look[w].kid \in published']
    BY DEF Rotate
  <2>2. look[w] # NoLook => look[w] \in Look
    BY DEF CacheInv, JwksTypeOK
  <2>3. QED
    BY <2>1, <2>2 DEF Look
<1>4. \A w \in Workers : look'[w].pc = look[w].pc
  BY <1>3
<1>5. \A w \in Workers : look[w].pc # "none" =>
        /\ look'[w].kid = look[w].kid /\ look'[w].fetched = look[w].fetched
        /\ look'[w].cached = look[w].cached
        /\ look'[w].steady <=> look[w].steady /\ look[w].kid \in published'
  BY <1>3 DEF NoLook
<1>6. JwksTypeOK'
  BY RotateType DEF CacheInv
<1>7. OnlyServed'
  BY <1>1, <1>2, <1>4, <1>5 DEF CacheInv, OnlyServed
<1>8. LateSetsNewer'
  BY <1>1, <1>2, <1>4, <1>5 DEF CacheInv, OnlyServed, LateSetsNewer
<1>9. KeyStays'
  <2>1. \A u \in Workers : Waiting(u)' =>
            Waiting(u) /\ look'[u].kid = look[u].kid /\ look[u].kid \in published'
    BY <1>4, <1>5 DEF Waiting
  <2>2. QED
    BY <1>2, <1>4, <1>5, <2>1 DEF CacheInv, KeyStays
<1>10. SessionsGoOn'
  BY <1>4, <1>5 DEF CacheInv, SessionsGoOn
<1>11. QED
  BY <1>6, <1>7, <1>8, <1>9, <1>10 DEF CacheInv

\* A request that ends, for whatever reason, takes nothing from the others.
LEMMA CacheAnswered ==
    ASSUME CacheInv, NEW w \in Workers, Answered(w), UNCHANGED <<published, retired, keys, recent>>
    PROVE  CacheInv'
<1>1. look'[w].pc = "none" /\ Others(w)
  BY DEF CacheInv, JwksTypeOK, Answered, NoLook, Others
<1>2. JwksTypeOK'
  BY DEF CacheInv, JwksTypeOK, Answered
<1>3. OnlyServed' /\ LateSetsNewer'
  BY <1>1 DEF CacheInv, OnlyServed, LateSetsNewer, Others
<1>4. KeyStays'
  BY <1>1 DEF CacheInv, KeyStays, Waiting, Others
<1>5. SessionsGoOn'
  BY <1>1 DEF CacheInv, SessionsGoOn, Others
<1>6. QED
  BY <1>2, <1>3, <1>4, <1>5 DEF CacheInv

LEMMA CacheUnchanged == CacheInv /\ UNCHANGED jwksVars => CacheInv'
BY DEF CacheInv, jwksVars, JwksTypeOK, OnlyServed, LateSetsNewer, KeyStays, Waiting, SessionsGoOn

LEMMA CacheNext == CacheInv /\ [Next]_vars => CacheInv'
<1> SUFFICES ASSUME CacheInv, [Next]_vars PROVE CacheInv'
  OBVIOUS
<1>1. CASE Verify
  <2>1. ASSUME Expire PROVE CacheInv'
    BY <2>1 DEF Expire, CacheInv, JwksTypeOK, OnlyServed, LateSetsNewer, KeyStays, Waiting,
                SessionsGoOn
  <2>2. QED
    BY <1>1, <2>1, CacheLookUp, CacheGetKey, CacheRotate DEF Verify, Provider
<1>2. CASE Restart
  <2>1. \A w \in Workers : look'[w].pc = "none"
    BY <1>2 DEF Restart, NoLook
  <2>2. JwksTypeOK' /\ keys' = {}
    BY <1>2 DEF CacheInv, Restart, JwksTypeOK
  <2>3. QED
    BY <2>1, <2>2 DEF CacheInv, OnlyServed, LateSetsNewer, KeyStays, Waiting, SessionsGoOn
<1>3. ASSUME NEW w \in Workers, Refuse(w) \/ Handle(w) \/ HandleError(w) PROVE CacheInv'
  <2>1. UNCHANGED <<published, retired, keys, recent>>
    BY <1>3 DEF Refuse, Handle, HandleError
  <2>2. Answered(w) \/ UNCHANGED look
    BY <1>3 DEF Refuse, Handle, HandleError
  <2>3. QED
    BY <2>1, <2>2, CacheAnswered, CacheUnchanged DEF jwksVars
<1>4. CASE Tick \/ UNCHANGED vars \/ \E w \in Workers : Recover(w)
  BY <1>4, CacheUnchanged DEF Tick, vars, Recover
<1>5. QED
  BY <1>1, <1>2, <1>3, <1>4 DEF Next

\* No token that GetKey could verify is refused because other requests refresh
\* the map or the provider fails to answer, for any number of requests.
THEOREM SessionsAlwaysGoOn == Spec => []SessionsGoOn
<1>1. Init => CacheInv
  BY CacheInit DEF Init
<1>2. CacheInv => SessionsGoOn
  BY DEF CacheInv
<1>3. QED
  BY <1>1, <1>2, CacheNext, PTL DEF Spec

-----------------------------------------------------------------------------
(* The alerts.                                                             *)

\* lastAlert is the time of the latest alert of its key.
LastIsLatest ==
    /\ \A s \in sent : s.at <= lastAlert[s.key]
    /\ \A k \in Key : lastAlert[k] # Never => [key |-> k, at |-> lastAlert[k]] \in sent
    /\ \A k \in Key : lastAlert[k] <= clock

AlertInv == TypeOK /\ LastIsLatest /\ AlertsSpaced

LEMMA AlertSent ==
    ASSUME AlertInv, NEW key \in Key, SendAlert(key), clock' = clock
    PROVE  LastIsLatest' /\ AlertsSpaced'
<1>1. /\ clock \in Nat /\ Throttle \in Nat \ {0}
      /\ \A k \in Key : lastAlert[k] \in Int
      /\ \A s \in sent : s.at \in Nat /\ s.key \in Key
      /\ lastAlert \in [Key -> {Never} \cup 0..MaxTime]
  BY ApiAssumption DEF AlertInv, TypeOK, Never
<1>2. CASE UNCHANGED <<lastAlert, sent>>
  BY <1>2 DEF AlertInv, LastIsLatest, AlertsSpaced
<1>3. CASE ~UNCHANGED <<lastAlert, sent>>
  <2> DEFINE new == [key |-> key, at |-> clock]
  <2>1. /\ clock - lastAlert[key] >= Throttle
        /\ lastAlert' = [lastAlert EXCEPT ![key] = clock]
        /\ sent' = sent \cup {new}
    BY <1>1, <1>3 DEF SendAlert
  <2>2. \A k \in Key : lastAlert'[k] = IF k = key THEN clock ELSE lastAlert[k]
    BY <1>1, <2>1
  <2>3. new.key = key /\ new.at = clock
    OBVIOUS
  <2>4. \A s \in sent' : s \in sent \/ s = new
    BY <2>1
  <2>5. \A s \in sent' : s.at <= lastAlert'[s.key]
    BY <1>1, <2>2, <2>3, <2>4 DEF AlertInv, LastIsLatest
  <2>6. \A k \in Key : lastAlert'[k] # Never => [key |-> k, at |-> lastAlert'[k]] \in sent'
    BY <2>1, <2>2 DEF AlertInv, LastIsLatest
  <2>7. \A k \in Key : lastAlert'[k] <= clock'
    BY <1>1, <2>2 DEF AlertInv, LastIsLatest
  <2>8. \A s \in sent : s.key = key => clock - s.at >= Throttle
    BY <1>1, <2>1 DEF AlertInv, LastIsLatest
  <2>9. AlertsSpaced'
    BY <1>1, <2>3, <2>4, <2>8 DEF AlertInv, AlertsSpaced
  <2>10. Never' = Never
    BY DEF Never
  <2>11. QED
    BY <2>5, <2>6, <2>7, <2>9, <2>10 DEF LastIsLatest
<1>4. QED
  BY <1>2, <1>3

LEMMA AlertInit == Init => AlertInv
<1> SUFFICES ASSUME Init PROVE AlertInv
  OBVIOUS
<1>1. LastIsLatest /\ AlertsSpaced
  BY ApiAssumption DEF Init, LastIsLatest, AlertsSpaced, Never
<1>2. QED
  BY <1>1, TypeInit DEF AlertInv

LEMMA AlertNext == AlertInv /\ [Next]_vars => AlertInv'
<1> SUFFICES ASSUME AlertInv, [Next]_vars PROVE AlertInv'
  OBVIOUS
<1>1. TypeOK'
  BY TypeStep DEF AlertInv
<1>2. ASSUME NEW w \in Workers, Recover(w) \/ HandleError(w) PROVE LastIsLatest' /\ AlertsSpaced'
  <2>1. PICK kind \in {"panic", "error"} : failing[w].kind = kind /\ SendAlert(<<kind, failing[w].error>>)
    BY <1>2 DEF Recover, HandleError
  <2>2. <<kind, failing[w].error>> \in Key
    BY <2>1 DEF AlertInv, TypeOK, NoError, Key
  <2>3. QED
    BY <1>2, <2>1, <2>2, AlertSent DEF Recover, HandleError
<1>3. ASSUME Tick PROVE LastIsLatest' /\ AlertsSpaced'
  <2>1. clock \in Int /\ \A k \in Key : lastAlert[k] \in Int
    BY ApiAssumption DEF AlertInv, TypeOK, Never
  <2>2. QED
    BY <1>3, <2>1 DEF Tick, AlertInv, LastIsLatest, AlertsSpaced, Never
<1>4. ASSUME Restart PROVE LastIsLatest' /\ AlertsSpaced'
  <2>1. clock \in Nat
    BY ApiAssumption DEF AlertInv, TypeOK
  <2>2. QED
    BY <1>4, <2>1, ApiAssumption DEF Restart, LastIsLatest, AlertsSpaced, Never
<1>5. ASSUME Verify \/ UNCHANGED vars \/ \E w \in Workers : Refuse(w) \/ Handle(w)
      PROVE  LastIsLatest' /\ AlertsSpaced'
  <2>1. UNCHANGED <<clock, lastAlert, sent>>
    BY <1>5 DEF Verify, alertVars, vars, Refuse, Handle
  <2>2. QED
    BY <2>1 DEF AlertInv, LastIsLatest, AlertsSpaced, Never
<1>6. QED
  BY <1>1, <1>2, <1>3, <1>4, <1>5 DEF Next, AlertInv

\* SendAlert sends no two alerts of a key within the throttle, for any number
\* of requests that fail at once.
THEOREM AlertsAlwaysSpaced == Spec => []AlertsSpaced
<1>1. AlertInv => AlertsSpaced
  BY DEF AlertInv
<1>2. QED
  BY <1>1, AlertInit, AlertNext, PTL DEF Spec

\* What SendAlert suppresses was announced by an alert that is not yet older
\* than the throttle.
THEOREM FailuresAlwaysReported == Spec => EveryFailureReported
<1>1. ASSUME AlertInv, [Next]_vars, NEW w \in Workers, HandsOver(w)
      PROVE  Announced(w)
  <2> DEFINE key == <<failing[w].kind, failing[w].error>>
  <2>1. SendAlert(key) /\ failing[w].kind \in {"panic", "error"}
    BY <1>1 DEF HandsOver, Recover, HandleError
  <2>2. key \in Key
    BY <1>1, <2>1 DEF AlertInv, TypeOK, NoError, Key
  <2> HIDE DEF key
  <2>3. /\ clock \in Nat /\ Throttle \in Nat \ {0} /\ lastAlert[key] \in Int
    BY <1>1, <2>2, ApiAssumption DEF AlertInv, TypeOK, Never
  <2>4. CASE clock - lastAlert[key] < Throttle
    <3>1. lastAlert[key] # Never
      BY <2>3, <2>4 DEF Never
    <3>2. [key |-> key, at |-> lastAlert[key]] \in sent
      BY <1>1, <2>2, <3>1 DEF AlertInv, LastIsLatest
    <3>3. sent' = sent
      BY <2>1, <2>4 DEF SendAlert
    <3>4. QED
      BY <2>4, <3>2, <3>3 DEF key, Announced
  <2>5. CASE ~(clock - lastAlert[key] < Throttle)
    <3>1. [key |-> key, at |-> clock] \in sent'
      BY <2>1, <2>5 DEF SendAlert
    <3>2. QED
      BY <2>3, <3>1 DEF key, Announced
  <2>6. QED
    BY <2>4, <2>5
<1>2. ASSUME AlertInv, [Next]_vars PROVE HandedOverAnnounced
  BY <1>1, <1>2 DEF HandedOverAnnounced
<1>3. QED
  BY <1>2, AlertInit, AlertNext, PTL DEF Spec, EveryFailureReported

=============================================================================

----------------------------- MODULE ApiProcess -----------------------------
(***************************************************************************)
(* What one process of the API keeps in memory: the key cache that a       *)
(* request's token is verified with (JwksCache) and the Telegram client's  *)
(* times of the last alerts.  A request with an accepted token runs its    *)
(* handler, which may end in an internal error or a panic; both are        *)
(* reported to the operators, at most once in Throttle ticks for the same  *)
(* key.  A panic is reported by the recover middleware and, as the error   *)
(* that is made of it, by the error handler.                               *)
(*                                                                         *)
(* The claims of a verified token are the subject of module Access.        *)
(***************************************************************************)
EXTENDS JwksCache

CONSTANTS
    Errors,     \* an error: its message and the path it occurs at
    Throttle,   \* 60 seconds, in ticks
    MaxTime     \* bound on the clock

ASSUME ApiAssumption == Throttle \in Nat \ {0} /\ MaxTime \in Nat

VARIABLES
    clock,
    lastAlert,  \* Client.lastAlert: for each key the time, or none
    failing,    \* per request: the error still to be reported
    sent        \* the alerts of this process, as a set of keys and times

alertVars == <<clock, lastAlert, failing, sent>>

vars == <<jwksVars, alertVars>>

-----------------------------------------------------------------------------
\* The throttling key: path and message; a panic's message has a prefix.
Key == {"panic", "error"} \X Errors

NoError == [kind |-> "none"]

Never == 0 - Throttle

TypeOK ==
    /\ JwksTypeOK
    /\ clock \in 0..MaxTime
    /\ lastAlert \in [Key -> {Never} \cup 0..MaxTime]
    /\ failing \in [Workers -> {NoError} \cup [kind : {"panic", "error"}, error : Errors]]
    /\ sent \subseteq [key : Key, at : 0..MaxTime]

Init ==
    /\ JwksInit
    /\ clock = 0
    /\ lastAlert = [k \in Key |-> Never]
    /\ failing = [w \in Workers |-> NoError]
    /\ sent = {}

\* Mutant of SendAlert: a suppressed alert starts the time anew.
SlidingAlert(key) ==
    /\ lastAlert' = [lastAlert EXCEPT ![key] = clock]
    /\ sent' = IF clock - lastAlert[key] < Throttle THEN sent
               ELSE sent \cup {[key |-> key, at |-> clock]}

\* Mutant of SendAlert: the time is not remembered.
EveryAlert(key) ==
    /\ sent' = sent \cup {[key |-> key, at |-> clock]}
    /\ UNCHANGED lastAlert

\* SendAlert decides under the lock, and delivers in a goroutine.
SendAlert(key) ==
    IF clock - lastAlert[key] < Throttle THEN UNCHANGED <<lastAlert, sent>>
    ELSE /\ lastAlert' = [lastAlert EXCEPT ![key] = clock]
         /\ sent' = sent \cup {[key |-> key, at |-> clock]}

-----------------------------------------------------------------------------
Answered(w) == look' = [look EXCEPT ![w] = NoLook]

\* A refused token is answered with 403, which is no internal error.
Refuse(w) ==
    /\ look[w].pc = "refused"
    /\ Answered(w)
    /\ UNCHANGED <<published, retired, keys, recent, alertVars>>

\* The handler of an accepted request.
Handle(w) ==
    /\ look[w].pc = "accepted" /\ failing[w] = NoError
    /\ \/ Answered(w) /\ UNCHANGED failing
       \/ \E e \in Errors, kind \in {"panic", "error"} :
              /\ failing' = [failing EXCEPT ![w] = [kind |-> kind, error |-> e]]
              /\ UNCHANGED look
    /\ UNCHANGED <<published, retired, keys, recent, clock, lastAlert, sent>>

\* The recover middleware turns the panic into an error.
Recover(w) ==
    /\ failing[w].kind = "panic"
    /\ SendAlert(<<"panic", failing[w].error>>)
    /\ failing' = [failing EXCEPT ![w].kind = "error"]
    /\ UNCHANGED <<jwksVars, clock>>

\* The default branch of the error handler, and the answer 500.
HandleError(w) ==
    /\ failing[w].kind = "error"
    /\ SendAlert(<<"error", failing[w].error>>)
    /\ failing' = [failing EXCEPT ![w] = NoError]
    /\ Answered(w)
    /\ UNCHANGED <<published, retired, keys, recent, clock>>

Tick ==
    /\ clock < MaxTime
    /\ clock' = clock + 1
    /\ UNCHANGED <<jwksVars, lastAlert, failing, sent>>

\* The process restarts, with everything it kept in memory lost.
Restart ==
    /\ keys' = {} /\ recent' = FALSE
    /\ look' = [w \in Workers |-> NoLook]
    /\ lastAlert' = [k \in Key |-> Never]
    /\ failing' = [w \in Workers |-> NoError]
    /\ sent' = {}
    /\ UNCHANGED <<published, retired, clock>>

Verify ==
    /\ \/ \E w \in Workers : LookUp(w) \/ \E kid \in Kids : GetKey(w, kid)
       \/ Provider
    /\ UNCHANGED alertVars

Next ==
    \/ Verify \/ Tick \/ Restart
    \/ \E w \in Workers : Refuse(w) \/ Handle(w) \/ Recover(w) \/ HandleError(w)

Spec == Init /\ [][Next]_vars

-----------------------------------------------------------------------------
\* However many requests fail at once, the operators get one alert of a kind
\* in Throttle ticks.
AlertsSpaced ==
    \A s, t \in sent : s.key = t.key /\ s # t =>
        s.at - t.at >= Throttle \/ t.at - s.at >= Throttle

\* What a step that hands a failure over finds or does.
Announced(w) ==
    \E s \in sent' : /\ s.key = <<failing[w].kind, failing[w].error>>
                    /\ clock - s.at < Throttle

HandsOver(w) == Recover(w) \/ HandleError(w)

HandedOverAnnounced == \A w \in Workers : HandsOver(w) => Announced(w)

\* No failure goes unreported because of the throttle: whenever one is handed
\* over, an alert for it was sent less than Throttle ticks before.
EveryFailureReported == [][HandedOverAnnounced]_vars

=============================================================================

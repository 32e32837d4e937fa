----------------------------- MODULE JwksCache ------------------------------
(***************************************************************************)
(* The cache of the identity provider's public keys that the auth          *)
(* middleware verifies tokens with.  Every request runs GetKey in its own  *)
(* goroutine; the lock is held for each access to the map and not over the *)
(* HTTP request in between, so fetched key sets may be installed in        *)
(* another order than they were fetched in.                                *)
(*                                                                         *)
(* A key is identified with its id: a token verifies under the key it was  *)
(* signed with and under no other.                                         *)
(***************************************************************************)
EXTENDS Integers, FiniteSets

CONSTANTS
    Kids,       \* key ids
    Workers     \* requests that can be in progress at once

VARIABLES
    published,  \* the keys the provider serves
    retired,    \* the keys it served once and will not serve again
    keys,       \* JWKSCache.keys
    recent,     \* time.Since(lastFetch) < 1 hour
    look        \* per request: how far GetKey is

jwksVars == <<published, retired, keys, recent, look>>

-----------------------------------------------------------------------------
NoLook == [pc |-> "none"]

\* A request looks for kid; cached says that it was in the map at first, steady
\* that the provider has served it ever since.
Look ==
    [pc : {"fetch", "install", "pick", "accepted", "refused"}, kid : Kids,
     cached : BOOLEAN, steady : BOOLEAN, fetched : SUBSET Kids]

JwksTypeOK ==
    /\ published \subseteq Kids /\ retired \subseteq Kids
    /\ keys \subseteq Kids /\ recent \in BOOLEAN
    /\ look \in [Workers -> {NoLook} \cup Look]

JwksInit ==
    /\ published \in SUBSET Kids \ {{}}
    /\ retired = {}
    /\ keys = {}
    /\ recent = FALSE
    /\ look = [w \in Workers |-> NoLook]

LookAt(w, pc) == look' = [look EXCEPT ![w].pc = pc]

\* The first part of GetKey: a key that was fetched within the hour is used.
GetKey(w, kid) ==
    /\ look[w] = NoLook
    /\ look' = [look EXCEPT ![w] =
           [pc |-> IF kid \in keys /\ recent THEN "accepted" ELSE "fetch", kid |-> kid,
            cached |-> kid \in keys, steady |-> kid \in published, fetched |-> {}]]
    /\ UNCHANGED <<published, retired, keys, recent>>

\* refresh: the provider answers.
Fetch(w) ==
    /\ look[w].pc = "fetch"
    /\ look' = [look EXCEPT ![w] = [@ EXCEPT !.pc = "install", !.fetched = published]]
    /\ UNCHANGED <<published, retired, keys, recent>>

\* Mutant of FetchFails: a failed refresh refuses the token.
RefuseOnError(w) ==
    /\ look[w].pc = "fetch"
    /\ LookAt(w, "refused")
    /\ UNCHANGED <<published, retired, keys, recent>>

\* The provider does not answer, or answers with no key that can be read: the
\* key from the map is used if there was one.
FetchFails(w) ==
    /\ look[w].pc = "fetch"
    /\ LookAt(w, IF look[w].cached THEN "accepted" ELSE "refused")
    /\ UNCHANGED <<published, retired, keys, recent>>

\* The end of refresh.
Install(w) ==
    /\ look[w].pc = "install"
    /\ keys' = look[w].fetched
    /\ recent' = TRUE
    /\ LookAt(w, "pick")
    /\ UNCHANGED <<published, retired>>

\* The end of GetKey.  Without the key itself it returns another one, which
\* the token does not verify under, or an error.
Pick(w) ==
    /\ look[w].pc = "pick"
    /\ look' = [look EXCEPT ![w] =
           [@ EXCEPT !.pc = IF look[w].kid \in keys THEN "accepted" ELSE "refused",
                     !.fetched = {}]]
    /\ UNCHANGED <<published, retired, keys, recent>>

\* An hour passes.  A fetch takes ten seconds at most.
Expire ==
    /\ recent
    /\ \A w \in Workers : look[w].pc # "install"
    /\ recent' = FALSE
    /\ UNCHANGED <<published, retired, keys, look>>

\* The provider adds a key, or retires one while it has another.
Rotate ==
    /\ \E kid \in Kids \ retired :
        IF kid \in published
        THEN published # {kid} /\ published' = published \ {kid} /\ retired' = retired \cup {kid}
        ELSE published' = published \cup {kid} /\ retired' = retired
    /\ look' = [w \in Workers |->
           IF look[w] = NoLook THEN NoLook
           ELSE [look[w] EXCEPT !.steady = @ /\ look[w].kid \in published']]
    /\ UNCHANGED <<keys, recent>>

LookUp(w) == Fetch(w) \/ FetchFails(w) \/ Install(w) \/ Pick(w)

Provider == Expire \/ Rotate

-----------------------------------------------------------------------------
\* A session goes on: a token whose key was in the map when its request came,
\* and which the provider never stops serving, is not refused, whichever
\* other requests refresh the map meanwhile and whether or not the provider
\* answers.  That a slow fetch does not install old keys over it rests on the
\* timeout of a fetch being shorter than the hour.
SessionsGoOn ==
    \A w \in Workers :
        look[w].pc = "refused" /\ look[w].cached => ~look[w].steady

=============================================================================

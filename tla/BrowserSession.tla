--------------------------- MODULE BrowserSession ---------------------------
(* The web client's sign-in: the token pair that every tab of a browser      *)
(* reads and writes in localStorage, the calls of lib/api-client.ts that     *)
(* carry it, and the refresh a tab runs when a call is answered 401.         *)
(*                                                                           *)
(* A pair is a number: an access token and the refresh token issued with     *)
(* it.  The server's side of refresh, logout and logout-all is one step      *)
(* each; RefreshSessions has their detail.  The platform (staff) token, which *)
(* has no refresh token, and the pages' query caches are left out.           *)
EXTENDS Integers, Sequences, FiniteSets

CONSTANTS
    Tabs,       \* open tabs of one browser
    Users,      \* the people who sign in on it
    ApiCalls,   \* API calls under way at one time
    MaxPairs,   \* bound: pairs the server issues
    MaxTroubles \* bound: refreshes refused or lost, and pairs that the server ended

ASSUME BrowserAssumption == MaxPairs \in Nat /\ MaxTroubles \in Nat

VARIABLES
    owner,      \* whose each issued pair is
    live,       \* pairs whose refresh token is not revoked
    expired,    \* pairs whose access token has run out
    store,      \* the pair in localStorage, 0 if none
    flight,     \* each tab's refreshPromise
    calls,      \* what each API call is doing
    entry,      \* the pair a tab's sign-in was answered with, not yet stored
    lost,       \* refreshes refused or lost so far
    session,    \* history: the pairs of the session the user has begun and not ended
    barred,     \* history: pairs whose session the server ended unasked by this browser
    reused,     \* history: pairs whose refresh token the server took for stolen, those
                \* apart whose session it had ended itself
    blame       \* history: what overlapped

browserVars == <<owner, live, expired, store, flight, calls, entry, lost,
          session, barred, reused, blame>>
server == <<owner, live, expired, barred, reused>>

Pairs == 1..Len(owner)
Kinds == {"data", "logout", "logoutAll"}
Blames == {"tabs", "crossed"}

NoFlight == [stage |-> "none", pair |-> 0]
NoCall == [stage |-> "none"]

(* The stages of a flight: the request is out, the server has answered it    *)
(* with pair, or the refresh has failed.                                     *)
Flights == [stage : {"none", "sent", "rotated", "failed"}, pair : 0..MaxPairs]

(* token is the pair the call was sent with, fresh whether its access token  *)
(* was good then, refresh the refresh token a logout carries in its body.    *)
Call == [stage : {"sent", "served", "waiting"}, tab : Tabs, kind : Kinds,
         token : 0..MaxPairs, refresh : 0..MaxPairs, fresh : BOOLEAN,
         retried : BOOLEAN]

BrowserTypeOK ==
    /\ owner \in Seq(Users) /\ Len(owner) <= MaxPairs
    /\ live \subseteq Pairs /\ expired \subseteq Pairs
    /\ store \in {0} \cup Pairs /\ session \subseteq Pairs
    /\ flight \in [Tabs -> Flights]
    /\ calls \in [ApiCalls -> {NoCall} \cup Call]
    /\ entry \in [Tabs -> {0} \cup Pairs]
    /\ lost \in Nat
    /\ barred \subseteq Pairs /\ reused \subseteq 0..MaxPairs
    /\ blame \subseteq Blames

BrowserInit ==
    /\ owner = <<>> /\ live = {} /\ expired = {} /\ store = 0
    /\ flight = [t \in Tabs |-> NoFlight]
    /\ calls = [r \in ApiCalls |-> NoCall]
    /\ entry = [t \in Tabs |-> 0]
    /\ lost = 0 /\ session = {} /\ blame = {}
    /\ barred = {} /\ reused = {}

InFlight(t) == flight[t].stage # "none"
Leaving(r) == calls[r].stage # "none" /\ calls[r].kind # "data"
Aside(S) == IF S # {} THEN blame \cup {"crossed"} ELSE blame

OwnedBy(u) == {p \in Pairs : owner[p] = u}

Troubled == lost + Cardinality(barred) < MaxTroubles

------------------------------------------------------------------------------
(* Signing in: any form that ends with a session, on any tab.                *)

(* The server issues a pair.                                                 *)
SignIn(t, u) ==
    /\ entry[t] = 0 /\ Len(owner) < MaxPairs
    /\ owner' = Append(owner, u)
    /\ live' = live \cup {Len(owner')}
    /\ entry' = [entry EXCEPT ![t] = Len(owner')]
    /\ UNCHANGED <<expired, store, flight, calls, lost, session, barred, reused,
                   blame>>

(* The answer arrives: the new pair replaces whatever was stored.            *)
Enter(t) ==
    /\ entry[t] # 0
    /\ store' = entry[t]
    /\ session' = {entry[t]}
    /\ entry' = [entry EXCEPT ![t] = 0]
    /\ blame' = Aside({s \in Tabs : InFlight(s)} \cup {r \in ApiCalls : Leaving(r)})
    /\ UNCHANGED <<server, flight, calls, lost>>

(* The stored access token runs out.                                         *)
Expire(p) ==
    /\ p = store
    /\ expired' = expired \cup {p}
    /\ UNCHANGED <<owner, live, store, flight, calls, entry, lost,
                   session, barred, reused, blame>>

------------------------------------------------------------------------------
(* The server ends a person's sessions without a refresh or a logout of this *)
(* browser having a part in it.  A new password, here (a data call, after    *)
(* which the tokens stay in the store) or anywhere, a reset, a suspension, a *)
(* logout of all sessions made elsewhere revoke the refresh tokens; a        *)
(* removal from the workspace deletes their rows.  Which of the two it was   *)
(* is left open until a refresh presents one.                                *)
EndSessions(u) ==
    /\ live \cap OwnedBy(u) # {} /\ Troubled
    /\ live' = live \ OwnedBy(u)
    /\ barred' = barred \cup (live \cap OwnedBy(u))
    /\ UNCHANGED <<owner, expired, store, flight, calls, entry, lost, session,
                   reused, blame>>

------------------------------------------------------------------------------
(* API calls.                                                                *)

Sent(t, kind, token, body, again) ==
    [stage |-> "sent", tab |-> t, kind |-> kind, token |-> token,
     refresh |-> body, fresh |-> token # 0 /\ token \notin expired,
     retried |-> again]

(* A page or a mutation calls the API with the stored access token; logout   *)
(* and logout-all put the stored refresh token in the body.                  *)
Ask(r, t, kind) ==
    /\ calls[r].stage = "none" /\ store # 0
    /\ calls' = [calls EXCEPT ![r] =
                    Sent(t, kind, store, IF kind = "data" THEN 0 ELSE store, FALSE)]
    /\ UNCHANGED <<server, store, flight, entry, lost, session, blame>>

\* Mutant of Left: the tokens are cleared only when the server has answered.
LeftServed(c) == IF c.kind # "data" /\ c.stage = "served" THEN 0 ELSE store

(* What the end of a call does to its tab: logout and logout-all clear the   *)
(* tokens whatever became of the request, a data call leaves them.           *)
Left(c) == IF c.kind = "data" THEN store ELSE 0

Return(r, kept) ==
    /\ calls' = [calls EXCEPT ![r] = NoCall]
    /\ store' = kept
    /\ IF calls[r].kind = "data"
       THEN UNCHANGED <<session, blame>>
       ELSE /\ session' = {}
            /\ blame' = Aside({t \in Tabs : InFlight(t)})
    /\ UNCHANGED <<server, flight, entry, lost>>

(* The server carries out a logout, which needs no access token and revokes  *)
(* the refresh token in its body.                                            *)
Logout(r) ==
    /\ calls[r].stage = "sent" /\ calls[r].kind = "logout"
    /\ live' = live \ {calls[r].refresh}
    /\ calls' = [calls EXCEPT ![r].stage = "served"]
    /\ blame' = Aside({t \in Tabs : InFlight(t)})
    /\ UNCHANGED <<owner, expired, store, flight, entry, lost, session, barred,
                   reused>>

(* The server carries out a logout-all: every session of the user ends.      *)
LogoutAll(r) ==
    /\ calls[r].stage = "sent" /\ calls[r].kind = "logoutAll" /\ calls[r].fresh
    /\ live' = live \ OwnedBy(owner[calls[r].token])
    /\ calls' = [calls EXCEPT ![r].stage = "served"]
    /\ blame' = Aside({t \in Tabs : InFlight(t) \/ entry[t] # 0})
    /\ UNCHANGED <<owner, expired, store, flight, entry, lost, session, barred,
                   reused>>

(* A call is answered, or the network fails it: either way it is over.       *)
EndCall(r) ==
    /\ \/ calls[r].stage = "served"
       \/ calls[r].stage = "sent" /\ (calls[r].kind # "data" \/ calls[r].fresh)
    /\ Return(r, Left(calls[r]))

\* Mutant of TryRefresh: every call answered 401 starts a refresh of its own.
TryRefreshEach(t) ==
    /\ flight' = [flight EXCEPT ![t] = [stage |-> "sent", pair |-> store]]
    /\ UNCHANGED blame

(* tryRefresh: the tab's first call to be answered 401 starts a refresh with *)
(* the stored refresh token, and later ones wait for the same promise.       *)
TryRefresh(t) ==
    IF InFlight(t)
    THEN UNCHANGED <<flight, blame>>
    ELSE /\ flight' = [flight EXCEPT ![t] = [stage |-> "sent", pair |-> store]]
         /\ blame' = blame
                \cup {b \in {"tabs"} : \E s \in Tabs \ {t} : InFlight(s)}
                \cup {b \in {"crossed"} :
                        \E q \in ApiCalls : calls[q].stage = "served"}

Rejected(r) ==
    /\ calls[r].stage = "sent" /\ calls[r].kind # "logout"
    /\ calls[r].token = 0 \/ calls[r].token \in expired

(* A first 401 with a refresh token in the store: the call waits.            *)
Refused(r) ==
    /\ Rejected(r) /\ ~calls[r].retried /\ store # 0
    /\ calls' = [calls EXCEPT ![r].stage = "waiting"]
    /\ TryRefresh(calls[r].tab)
    /\ UNCHANGED <<server, store, entry, lost, session>>

(* A first 401 with none clears the tokens, a second one does not; the call  *)
(* throws.                                                                   *)
Throw(r) ==
    /\ Rejected(r) /\ (calls[r].retried \/ store = 0)
    /\ Return(r, IF calls[r].retried THEN Left(calls[r]) ELSE 0)

------------------------------------------------------------------------------
(* A tab's refresh.                                                          *)

(* The server exchanges a live refresh token for a new pair, and takes a     *)
(* revoked one for a theft: every session of its owner ends.                 *)
Rotate(t) ==
    /\ flight[t].stage = "sent" /\ flight[t].pair \in live /\ Len(owner) < MaxPairs
    /\ owner' = Append(owner, owner[flight[t].pair])
    /\ live' = (live \ {flight[t].pair}) \cup {Len(owner')}
    /\ flight' = [flight EXCEPT ![t] = [stage |-> "rotated", pair |-> Len(owner')]]
    /\ session' = IF flight[t].pair \in session
                  THEN session \cup {Len(owner')} ELSE session
    /\ UNCHANGED <<expired, store, calls, entry, lost, barred, reused, blame>>

Reuse(t) ==
    /\ flight[t].stage = "sent" /\ flight[t].pair \notin live
    /\ live' = live \ OwnedBy(owner[flight[t].pair])
    /\ flight' = [flight EXCEPT ![t].stage = "failed"]
    /\ reused' = reused \cup ({flight[t].pair} \ barred)
    /\ blame' = Aside({s \in Tabs : entry[s] # 0})
    /\ UNCHANGED <<owner, expired, store, calls, entry, lost, session, barred>>

(* The server finds no row, or refuses for another reason, or its answer     *)
(* never arrives.  At MaxPairs it refuses every exchange.                    *)
Fail(t) ==
    /\ \/ /\ flight[t].stage \in {"sent", "rotated"} /\ Troubled
          /\ lost' = lost + 1
       \/ /\ flight[t].stage = "sent" /\ Len(owner) = MaxPairs
          /\ flight[t].pair \in live
          /\ lost' = lost
       \/ /\ flight[t].stage = "sent" /\ flight[t].pair \in barred
          /\ lost' = lost
    /\ flight' = [flight EXCEPT ![t].stage = "failed"]
    /\ UNCHANGED <<server, store, calls, entry, session, blame>>

\* Mutant of Waiters: only one of the waiting calls is resumed.
WaitersOne(t) ==
    LET all == {r \in ApiCalls : calls[r].stage = "waiting" /\ calls[r].tab = t}
    IN  IF all = {} THEN {} ELSE {CHOOSE r \in all : TRUE}

Waiters(t) == {r \in ApiCalls : calls[r].stage = "waiting" /\ calls[r].tab = t}

(* The promise settles.  With a new pair: it is stored, and every waiting    *)
(* call is sent again with it.  refreshPromise is cleared a timer tick       *)
(* later: a call refused within that tick is sent again at once where here   *)
(* it starts another refresh.                                                *)
Refreshed(t) ==
    /\ flight[t].stage = "rotated"
    /\ store' = flight[t].pair
    /\ flight' = [flight EXCEPT ![t] = NoFlight]
    /\ calls' = [r \in ApiCalls |->
                    IF r \in Waiters(t)
                    THEN Sent(t, calls[r].kind, store', calls[r].refresh, TRUE)
                    ELSE calls[r]]
    /\ UNCHANGED <<server, entry, lost, session, blame>>

(* Without one: every waiting call clears the tokens and throws.             *)
SignedOut(t) ==
    /\ flight[t].stage = "failed"
    /\ store' = 0
    /\ flight' = [flight EXCEPT ![t] = NoFlight]
    /\ calls' = [r \in ApiCalls |-> IF r \in Waiters(t) THEN NoCall ELSE calls[r]]
    /\ session' = IF flight[t].pair \in session
                       \/ \E r \in Waiters(t) : calls[r].kind # "data"
                  THEN {} ELSE session
    /\ UNCHANGED <<server, entry, lost, blame>>

------------------------------------------------------------------------------

BrowserNext ==
    \/ \E t \in Tabs, u \in Users : SignIn(t, u)
    \/ \E t \in Tabs : Enter(t)
    \/ \E p \in Pairs \ expired : Expire(p)
    \/ \E u \in Users : EndSessions(u)
    \/ \E r \in ApiCalls, t \in Tabs, kind \in Kinds : Ask(r, t, kind)
    \/ \E r \in ApiCalls : Logout(r) \/ LogoutAll(r) \/ EndCall(r)
    \/ \E r \in ApiCalls : Refused(r) \/ Throw(r)
    \/ \E t \in Tabs : Rotate(t) \/ Reuse(t) \/ Fail(t)
    \/ \E t \in Tabs : Refreshed(t) \/ SignedOut(t)

BrowserSpec == BrowserInit /\ [][BrowserNext]_browserVars

------------------------------------------------------------------------------
(* One refresh at a time is enough within a tab: the server takes the        *)
(* browser for a thief, which ends all the user's sessions, only over a pair *)
(* whose session it had ended itself, unless two tabs refreshed at once, an  *)
(* answer was lost, or a logout or a sign-in crossed a refresh.              *)
(* (api-client.ts 49-80; a tab knows only its own refreshPromise.)           *)
ReuseExplained == reused = {} \/ blame # {} \/ lost > 0

(* What the browser holds is the session the user began and has not ended:   *)
(* nothing after a logout or a failed refresh, and otherwise a pair of that  *)
(* session, which can still be refreshed unless the server ended it or a     *)
(* refresh or a logout that spends it is under way.  (A refresh's tokens     *)
(* stored after a logout, or a failed refresh's clearTokens after a new      *)
(* sign-in, break it: 127-130 and 69 act whatever the store then holds.)     *)
StoreIsSession ==
    blame = {} =>
        /\ (store = 0) = (session = {})
        /\ store # 0 => /\ store \in session
                        /\ \/ store \in live \cup barred
                           \/ \E t \in Tabs : InFlight(t)
                           \/ \E r \in ApiCalls : calls[r].stage = "served"

(* No call waits for a refresh nobody is running: a call that was answered   *)
(* 401 has its tab's promise, which will resume it.                          *)
WaitersHaveFlight == \A t \in Tabs : Waiters(t) # {} => InFlight(t)
=============================================================================

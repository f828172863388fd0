----------------------------- MODULE Sessions ------------------------------
(***************************************************************************)
(* The agent's session cache: sessionHandler, sessionResponseWriter and    *)
(* Cache (src/agent/sessions/sessions.go), with the response counts that   *)
(* its handlers and NewResponseForwarder (src/agent/utils/utils.go) make.  *)
(*                                                                         *)
(* A browser is given one session cookie; the backend's own cookies stay   *)
(* in a cookie jar per session, in an LRU cache.  A request looks its jar  *)
(* up twice: before it is forwarded, to restore the cookies, and when the  *)
(* header of the response is written, to keep those it sets.  Looking up   *)
(* is not under the lock of the cache; adding a jar is.                    *)
(*                                                                         *)
(* A request stands for the cookie its response sets, and the session that *)
(* it creates has its number.  Session cookies outlive the agent, whose    *)
(* cache is empty when it starts: a browser may come with a session from   *)
(* before, which has the browser's name.                                   *)
(***************************************************************************)
EXTENDS Metrics, Sequences, SequencesExt

CONSTANTS
    Browsers,     \* clients that keep a session cookie
    Returning,    \* those that have one from before the agent was started
    MaxRequests,  \* bound: requests
    CacheLimit    \* cookieCacheLimit

ASSUME LimitAssumption == MaxRequests \in Nat /\ CacheLimit \in Nat \ {0}

Requests == 1 .. MaxRequests

\* The session ID of a request without a session cookie.
NoSession == 0

SessionIDs == Requests \cup Browsers \cup {NoSession}

ASSUME BrowsersAssumption ==
    Returning \subseteq Browsers /\ Browsers \cap (Requests \cup {NoSession}) = {}

\* The jar that a request creates when its first or second look-up misses.
Jars == Requests \X {"first", "second"}

VARIABLES
    cookie,    \* the session cookie of each browser
    browser,   \* who made each request
    pc,        \* the goroutine of each request
    sid,       \* its session ID
    jar,       \* the jar it works with
    cache,     \* the LRU cache: <<session ID, jar>>, the one used last in front
    cookies,   \* what is in each jar
    restored,  \* the cookies a request was forwarded with
    owed,      \* those set in its session by requests that were over before it began
    set,       \* requests whose response set a cookie
    forgotten, \* session IDs that have been evicted
    replaced   \* those whose jar was replaced by another while it was in the cache

cacheVars == <<cache, cookies, forgotten, replaced>>
vars      == <<metricVars, crashed, cookie, browser, pc, sid, jar, cacheVars, restored, owed, set>>

Init ==
    /\ MetricsInit
    /\ cookie = [b \in Browsers |-> IF b \in Returning THEN b ELSE NoSession]
    /\ browser \in [Requests -> Browsers]
    /\ pc = [r \in Requests |-> "new"]
    /\ sid = [r \in Requests |-> NoSession]
    /\ jar = [r \in Requests |-> <<r, "first">>]
    /\ cache = <<>>
    /\ cookies = [j \in Jars |-> {}]
    /\ restored = [r \in Requests |-> {}]
    /\ owed = [r \in Requests |-> {}]
    /\ set = {}
    /\ forgotten = {}
    /\ replaced = {}

\* The step after each of the two look-ups, and the jar made there.
After == [get1 |-> "restore", get2 |-> "set"]

\* A defect, as those below: one empty jar is made for all that miss.
SharedJar(r) == <<1, "first">>

NewJar(r) == <<r, IF pc[r] \in {"get1", "add1"} THEN "first" ELSE "second">>

\* The place of a session in the cache, where it has at most one entry.
InCache(s) == \E k \in 1 .. Len(cache) : cache[k][1] = s
Place(s)   == CHOOSE k \in 1 .. Len(cache) : cache[k][1] = s
Without(s) == IF InCache(s) THEN RemoveAt(cache, Place(s)) ELSE cache

-----------------------------------------------------------------------------
(* Defects: what some definitions below would be with a plausible mistake.  *)
(* They show that the properties at the end can fail; nothing else uses     *)
(* them.                                                                   *)

\* The jar of the first look-up is used again.
SetInFirstJar(r) ==
    /\ pc[r] = "set"
    /\ cookies' = [cookies EXCEPT ![<<r, "first">>] = @ \cup {r}]
    /\ set' = set \cup {r}
    /\ pc' = [pc EXCEPT ![r] = "send"]
    /\ UNCHANGED <<metricVars, crashed, cookie, browser, sid, jar, cache, forgotten, replaced, restored,
                   owed>>

\* The cache has no limit, and no jar is replaced.
AddUnlimited(r) ==
    /\ pc[r] \in {"add1", "add2"}
    /\ cache' = <<<<sid[r], NewJar(r)>>>> \o cache
    /\ jar' = [jar EXCEPT ![r] = NewJar(r)]
    /\ pc' = [pc EXCEPT ![r] = IF pc[r] = "add1" THEN "restore" ELSE "set"]
    /\ UNCHANGED <<metricVars, crashed, cookie, browser, sid, cookies, restored, owed, set, forgotten,
                   replaced>>

-----------------------------------------------------------------------------
(* cachedCookieJar *)

\* lru.Cache.Get, without the lock: a hit moves the entry to the front.
Get(r) ==
    /\ pc[r] \in {"get1", "get2"}
    /\ IF InCache(sid[r])
       THEN LET found == cache[Place(sid[r])]
            IN  /\ cache' = <<found>> \o Without(sid[r])
                /\ jar' = [jar EXCEPT ![r] = found[2]]
                /\ pc' = [pc EXCEPT ![r] = After[@]]
       ELSE /\ pc' = [pc EXCEPT ![r] = IF @ = "get1" THEN "add1" ELSE "add2"]
            /\ UNCHANGED <<cache, jar>>
    /\ UNCHANGED <<metricVars, crashed, cookie, browser, sid, cookies, restored, owed, set, forgotten,
                   replaced>>

\* lru.Cache.Add of an empty jar: it replaces the jar of the session if there
\* is one by now, and evicts the entry that was used least recently.
Add(r) ==
    /\ pc[r] \in {"add1", "add2"}
    /\ LET added == <<<<sid[r], NewJar(r)>>>> \o Without(sid[r])
           over  == Len(added) > CacheLimit
       IN  /\ cache' = IF over THEN Front(added) ELSE added
           /\ forgotten' = IF over THEN forgotten \cup {Last(added)[1]} ELSE forgotten
           /\ replaced' = IF InCache(sid[r]) THEN replaced \cup {sid[r]} ELSE replaced
    /\ jar' = [jar EXCEPT ![r] = NewJar(r)]
    /\ pc' = [pc EXCEPT ![r] = IF @ = "add1" THEN "restore" ELSE "set"]
    /\ UNCHANGED <<metricVars, crashed, cookie, browser, sid, cookies, restored, owed, set>>

\* A map that is read while it is written may end the program.
CacheRace ==
    /\ \E r, q \in Requests : pc[r] \in {"get1", "get2"} /\ pc[q] \in {"add1", "add2"}
    /\ crashed' = TRUE
    /\ UNCHANGED <<metricVars, cookie, browser, pc, sid, jar, cacheVars, restored, owed, set>>

-----------------------------------------------------------------------------
(* sessionHandler.ServeHTTP *)

\* extractSessionID.
Begin(r) ==
    /\ pc[r] = "new"
    /\ \A q \in 1 .. r - 1 : pc[q] # "new"
    /\ sid' = [sid EXCEPT ![r] = cookie[browser[r]]]
    /\ owed' = [owed EXCEPT ![r] = {q \in set : /\ pc[q] \in {"count", "done"}
                                                /\ sid[q] = cookie[browser[r]]}]
    /\ pc' = [pc EXCEPT ![r] = "get1"]
    /\ UNCHANGED <<metricVars, crashed, cookie, browser, jar, cacheVars, restored, set>>

\* restoreSession; the wrapped handler runs.
Restore(r) ==
    /\ pc[r] = "restore"
    /\ restored' = [restored EXCEPT ![r] = cookies[jar[r]]]
    /\ pc' = [pc EXCEPT ![r] = "header"]
    /\ UNCHANGED <<metricVars, crashed, cookie, browser, sid, jar, cacheVars, owed, set>>

\* WriteHeader makes a session ID unless there is one.
SessionID(r) == IF sid[r] = NoSession THEN r ELSE sid[r]

WriteHeader(r) ==
    /\ pc[r] = "header"
    /\ sid' = [sid EXCEPT ![r] = SessionID(r)]
    /\ pc' = [pc EXCEPT ![r] = "get2"]
    /\ UNCHANGED <<metricVars, crashed, cookie, browser, jar, cacheVars, restored, owed, set>>

SetCookies(r) ==
    /\ pc[r] = "set"
    /\ cookies' = [cookies EXCEPT ![jar[r]] = @ \cup {r}]
    /\ set' = set \cup {r}
    /\ pc' = [pc EXCEPT ![r] = "send"]
    /\ UNCHANGED <<metricVars, crashed, cookie, browser, sid, jar, cache, forgotten, replaced, restored,
                   owed>>

\* There were no cookies to intercept.
NoCookies(r) ==
    /\ pc[r] = "set"
    /\ pc' = [pc EXCEPT ![r] = "send"]
    /\ UNCHANGED <<metricVars, crashed, cookie, browser, sid, jar, cacheVars, restored, owed, set>>

\* The response reaches its browser, with a session cookie if it made one.
Respond(r) ==
    /\ pc[r] = "send"
    /\ cookie' = IF sid[r] = r THEN [cookie EXCEPT ![browser[r]] = r] ELSE cookie
    /\ pc' = [pc EXCEPT ![r] = "count"]
    /\ UNCHANGED <<metricVars, crashed, browser, sid, jar, cacheVars, restored, owed, set>>

\* The response forwarder counts it, in a goroutine of its own.  (Write counts
\* a response for which WriteHeader was not called; ReverseProxy calls it.)
CountResponse(r, code) ==
    /\ pc[r] = "count"
    /\ WriteResponseCodeMetric(code)
    /\ pc' = [pc EXCEPT ![r] = "done"]
    /\ UNCHANGED <<crashed, cookie, browser, sid, jar, cacheVars, restored, owed, set>>

-----------------------------------------------------------------------------
MetricsTurn == MetricsStep /\ UNCHANGED <<crashed, cookie, browser, pc, sid, jar, cacheVars, restored, owed, set>>

\* A loop over a map that is written meanwhile may end the program.
MetricsRace ==
    /\ epc = "emit"
    /\ \E r \in Requests : pc[r] = "count"
    /\ crashed' = TRUE
    /\ UNCHANGED <<metricVars, cookie, browser, pc, sid, jar, cacheVars, restored, owed, set>>

RequestStep(r) ==
    \/ Begin(r) \/ Get(r) \/ Add(r) \/ Restore(r) \/ WriteHeader(r) \/ SetCookies(r) \/ NoCookies(r)
    \/ Respond(r) \/ \E c \in Codes : CountResponse(r, c)

Next == ~crashed /\ ((\E r \in Requests : RequestStep(r)) \/ MetricsTurn \/ CacheRace \/ MetricsRace)

Spec == Init /\ [][Next]_vars

-----------------------------------------------------------------------------
(* Properties *)

TypeOK ==
    /\ MetricsTypeOK
    /\ cookie \in [Browsers -> SessionIDs]
    /\ browser \in [Requests -> Browsers]
    /\ pc \in [Requests -> {"new", "get1", "add1", "restore", "header", "get2", "add2", "set",
                            "send", "count", "done"}]
    /\ sid \in [Requests -> SessionIDs]
    /\ jar \in [Requests -> Jars]
    /\ cache \in Seq(SessionIDs \X Jars)
    /\ Len(cache) <= CacheLimit /\ \A k, l \in 1 .. Len(cache) : cache[k][1] = cache[l][1] => k = l
    /\ cookies \in [Jars -> SUBSET Requests]
    /\ restored \in [Requests -> SUBSET Requests]
    /\ owed \in [Requests -> SUBSET Requests]
    /\ set \subseteq Requests
    /\ forgotten \subseteq SessionIDs /\ replaced \subseteq SessionIDs

\* A request is forwarded with cookies that were set for its own browser only:
\* the jar that requests without a session share stays empty, and no jar
\* changes its session (sessions.go:93-115 and 155-168).
Isolation == \A r \in Requests : \A q \in restored[r] : browser[q] = browser[r]

\* Sessions whose cookies may be lost: evicted ones, and those from before the
\* start of the agent, two requests of which may miss the cache together, so that
\* the second jar replaces the first (sessions.go:219-228).
Unsettled == forgotten \cup (replaced \cap Browsers)

\* A cookie is restored in every request of its session that begins after the
\* response that set it, unless the session is unsettled.  A session that was
\* made since the start has one jar until it is evicted, although its look-ups
\* are not under the lock.
CookiesKept ==
    \A r \in Requests :
      pc[r] \notin {"new", "get1", "add1", "restore"} /\ sid[r] \notin Unsettled
        => owed[r] \subseteq restored[r]
=============================================================================

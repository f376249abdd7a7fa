--------------------------- MODULE BrowserSession ---------------------------
(***************************************************************************)
(* One pairing with Chrome (brokers/quotex/pairing.py): the operator's     *)
(* browser is launched on a profile that persists, and until the time is   *)
(* up its DevTools port is polled for a session cookie of the venue or, if *)
(* there is none, for the token of the page in front.  The session caught  *)
(* is written beside the old file and put in its place.                    *)
(*                                                                         *)
(* Time passes in the calls only, each of which has its own limit.  The    *)
(* operator works in Chrome between any two of them.                       *)
(***************************************************************************)
EXTENDS Integers

CONSTANTS
  SessionNames,  \* session cookies in order of preference: naturals, the exact
                 \* spellings before the others
  OtherNames,    \* the venue's other cookies
  CookieValues, NoToken,
  Profiles,      \* what the profile may hold to begin with
  WaitTimeout,   \* of wait_for_session
  MaxList,       \* longest /json/list
  MaxAsk,        \* longest search for the browser's socket
  MaxRead,       \* longest exchange over DevTools
  PollPause      \* poll

Cookie == [name : SessionNames \cup OtherNames, value : CookieValues, venue : BOOLEAN]
Tabs   == {"venue", "other"}

ASSUME BrowserAssumption ==
  /\ SessionNames \subseteq Nat /\ SessionNames \cap OtherNames = {}
  /\ NoToken \notin CookieValues
  /\ Profiles \subseteq SUBSET Cookie
  /\ {WaitTimeout, MaxList, MaxAsk, MaxRead, PollPause} \subseteq Nat

VARIABLES
  chrome,    \* is Chrome up, and the tab DevTools lists for it
  profile,   \* Chrome's cookies
  tokens,    \* the token each tab's page holds
  fresh,     \* history: has the operator logged in since Chrome was launched
  step,      \* where the attempt is
  waited,    \* time since it began to wait
  target,    \* the socket of this poll: a tab or the browser
  jar,       \* the venue's cookies read in this poll, a value to a name
  caught,    \* the session
  paired,    \* qx_session.json
  before     \* history: paired, when the attempt began

chromeVars == <<chrome, profile, tokens, fresh>>
pollVars   == <<step, waited, target, jar, caught>>
browserVars == <<chromeVars, pollVars, paired, before>>

NoCatch == [source |-> "none", ssid |-> NoToken, jar |-> {}]

---------------------------------------------------------------------------
(* What a poll makes of Chrome's answers. *)

\* The first cookie of a name counts, and the order of the answer is Chrome's.
Jars(cookies) ==
  {cs \in SUBSET {c \in cookies : c.venue} :
     /\ \A c \in cs, d \in cs : c.name = d.name => c = d
     /\ \A c \in cookies : c.venue => \E d \in cs : d.name = c.name}

Catches == [source : {"cookie", "token"}, ssid : CookieValues, jar : SUBSET Cookie]

Preferred(cs) ==
  {c \in cs : /\ c.name \in SessionNames
              /\ \A d \in cs : d.name \in SessionNames => c.name <= d.name}

\* extract_session: a session cookie with the whole jar of the venue, else
\* the token with it.
FromCookie(cs) ==
  {[source |-> "cookie", ssid |-> c.value, jar |-> cs] : c \in Preferred(cs)}

FromToken(cs, token) == [source |-> "token", ssid |-> token, jar |-> cs]

---------------------------------------------------------------------------
(* The operator. *)

OpenChrome ==
  /\ ~chrome.up /\ step \notin {"idle", "returned", "failed"}
  /\ chrome' \in [up : {TRUE}, tab : Tabs \cup {"none"}]
  /\ UNCHANGED <<profile, tokens, fresh, pollVars, paired, before>>

BrowseTo(tab) ==
  /\ chrome.up /\ chrome' = [chrome EXCEPT !.tab = tab]
  /\ UNCHANGED <<profile, tokens, fresh, pollVars, paired, before>>

\* A login leaves a cookie under one of the names, the page's token, or both.
LogIn(name, v) ==
  /\ chrome.up /\ chrome.tab = "venue" /\ fresh' = TRUE
  /\ \/ /\ profile' = {c \in profile : c.name # name}
                        \cup {[name |-> name, value |-> v, venue |-> TRUE]}
        /\ tokens' \in {tokens, [tokens EXCEPT !["venue"] = v]}
     \/ UNCHANGED profile /\ tokens' = [tokens EXCEPT !["venue"] = v]
  /\ UNCHANGED <<chrome, pollVars, paired, before>>

QuitChrome ==
  /\ chrome.up /\ chrome' = [up |-> FALSE, tab |-> "none"]
  /\ UNCHANGED <<profile, tokens, fresh, pollVars, paired, before>>

---------------------------------------------------------------------------
(* pair_session. *)

\* launch_chrome: no binary is a failure before anything waits.
LaunchChrome ==
  /\ step \in {"idle", "returned", "failed"}
  /\ step' \in {"poll", "failed"}
  /\ waited' = 0 /\ caught' = NoCatch /\ jar' = {} /\ target' = "none"
  /\ fresh' = FALSE /\ before' = paired
  /\ UNCHANGED <<chrome, profile, tokens, paired>>

Takes(limit) == \E d \in 0..limit : waited' = waited + d

\* The head of wait_for_session's loop.
PollChrome ==
  /\ step = "poll"
  /\ step' = IF waited < WaitTimeout THEN "list" ELSE "failed"
  /\ UNCHANGED <<chromeVars, waited, target, jar, caught, paired, before>>

\* devtools_page_ws: a tab of the venue, else any; a port that does not answer
\* lists nothing.
ListTabs ==
  /\ step = "list" /\ Takes(MaxList)
  /\ \/ /\ chrome.up /\ chrome.tab # "none"
        /\ step' = "cookies" /\ target' = chrome.tab
     \/ step' = "ask" /\ UNCHANGED target
  /\ UNCHANGED <<chromeVars, jar, caught, paired, before>>

\* devtools_browser_ws: tried until its own limit.
AskBrowser ==
  /\ step = "ask" /\ Takes(MaxAsk)
  /\ \/ chrome.up /\ step' = "cookies" /\ target' = "browser"
     \/ step' = "pause" /\ UNCHANGED target
  /\ UNCHANGED <<chromeVars, jar, caught, paired, before>>

\* cdp_cookies: the first answer that holds a list is taken, also an empty
\* one, and no answer in time is none.  A socket that does not connect ends
\* the poll.
ReadCookies ==
  /\ step = "cookies" /\ Takes(MaxRead)
  /\ \/ \E cookies \in {profile, {}} : \E cs \in Jars(cookies) :
          /\ chrome.up \/ cs = {}
          /\ jar' = cs
          /\ IF Preferred(cs) = {}
               THEN step' = "token" /\ UNCHANGED caught
               ELSE step' = "save" /\ caught' \in FromCookie(cs)
     \/ ~chrome.up /\ step' = "pause" /\ UNCHANGED <<jar, caught>>
  /\ UNCHANGED <<chromeVars, target, paired, before>>

\* cdp_page_token: best effort, on the socket of this poll; the browser's has
\* no page.
ReadToken ==
  /\ step = "token" /\ Takes(MaxRead)
  /\ \/ /\ chrome.up /\ target \in Tabs /\ tokens[target] # NoToken
        /\ caught' = FromToken(jar, tokens[target]) /\ step' = "save"
     \/ step' = "pause" /\ UNCHANGED caught
  /\ UNCHANGED <<chromeVars, target, jar, paired, before>>

RestPoll ==
  /\ step = "pause" /\ step' = "poll" /\ waited' = waited + PollPause
  /\ UNCHANGED <<chromeVars, target, jar, caught, paired, before>>

\* save_session: a file that cannot be written fails the pairing and leaves
\* the old one.
SaveSession ==
  /\ step = "save"
  /\ \/ step' = "returned" /\ paired' = caught
     \/ step' = "failed" /\ UNCHANGED paired
  /\ UNCHANGED <<chromeVars, waited, target, jar, caught, before>>

---------------------------------------------------------------------------

BrowserInit ==
  /\ chrome = [up |-> FALSE, tab |-> "none"] /\ profile \in Profiles
  /\ tokens \in [Tabs -> CookieValues \cup {NoToken}] /\ tokens["venue"] = NoToken
  /\ fresh = FALSE /\ step = "idle" /\ waited = 0 /\ target = "none" /\ jar = {}
  /\ caught = NoCatch /\ paired = NoCatch /\ before = NoCatch

BrowserNext ==
  \/ OpenChrome \/ (\E tab \in Tabs : BrowseTo(tab)) \/ QuitChrome
  \/ (\E name \in SessionNames, v \in CookieValues : LogIn(name, v))
  \/ LaunchChrome \/ PollChrome \/ ListTabs \/ AskBrowser
  \/ ReadCookies \/ ReadToken \/ RestPoll \/ SaveSession

BrowserSpec == BrowserInit /\ [][BrowserNext]_browserVars

---------------------------------------------------------------------------
(* Properties. *)

BrowserTypeOK ==
  /\ chrome \in [up : BOOLEAN, tab : Tabs \cup {"none"}]
  /\ profile \subseteq Cookie /\ tokens \in [Tabs -> CookieValues \cup {NoToken}]
  /\ fresh \in BOOLEAN
  /\ step \in {"idle", "poll", "list", "ask", "cookies", "token", "pause", "save",
               "returned", "failed"}
  /\ waited \in Nat /\ target \in Tabs \cup {"none", "browser"}
  /\ jar \subseteq Cookie
  /\ {caught, paired, before} \subseteq Catches \cup {NoCatch}

\* A session is of one reading: the best cookie of the jar it is sent with, or
\* a token where that jar held none ("A lone session cookie reads as a bare
\* script", extract_session).
OneReading ==
  \A s \in {caught, paired} :
    /\ s.source = "cookie" => s \in FromCookie(s.jar)
    /\ s.source = "token" => Preferred(s.jar) = {}
    /\ \A c \in s.jar : c.venue

\* The file is the session that pairing returned, or what it was before: a
\* failure of any step leaves it alone (save_session).
FileFollows ==
  /\ step = "returned" => paired = caught /\ paired.source # "none"
  /\ step # "returned" => paired = before

\* A wait ends in its time and one poll more, whatever hangs (wait_for_session).
EndsInTime ==
  waited <= WaitTimeout + MaxList + MaxAsk + MaxRead + MaxRead + PollPause

PairingServes == OneReading /\ FileFollows /\ EndsInTime

\* "Poll Chrome until the human's login lands a session" (wait_for_session):
\* TLC refutes it (README), the cookie an old login left in the profile is
\* taken before the operator has logged in.
LoginLands == step = "returned" => fresh

\* "the trade page's window.settings.token": TLC refutes it (README), without
\* a tab of the venue the token of any other page is taken.
TradePageToken == caught.source = "token" => target = "venue"

===========================================================================

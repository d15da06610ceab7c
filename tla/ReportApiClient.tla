-------------------------- MODULE ReportApiClient --------------------------
(* The chat UI as a client of the report API.  Every chat message POSTs a   *)
(* report, follows its event stream for a while and GETs the outcome; all   *)
(* sessions share one ReportAPIClient and its token pair.  A call that is   *)
(* answered 401 refreshes or logs in and is sent once more.                 *)
(*                                                                          *)
(* Coroutines interleave where they await the network: between the parts of *)
(* a call, the shared tokens may have been replaced by another message, or  *)
(* have expired.  A token just issued is good for the request that follows  *)
(* (15 minutes against HTTP timeouts of 30 seconds).                        *)
EXTENDS Naturals, FiniteSets

CONSTANTS
    Messages,     \* the chat messages, each with its own idempotency key
    MaxExpiries   \* bound: expirations of a stored token

VARIABLES
    access,    \* _access_token: "none", "good" or "expired"
    refresh,   \* _refresh_token, likewise
    account,   \* the demo user exists
    call,      \* which call a message is making
    pc,        \* what it is waiting for
    sent,      \* the token of its request on its way: the "shared" one, one
               \* just obtained for it ("own"), one that has "expired", "no"
    job,       \* the server's job for the message
    outcome,   \* what the user was told
    expiries

tokens == <<access, refresh>>
clientVars ==
    <<access, refresh, account, call, pc, sent, job, outcome, expiries>>

ClientInit ==
    /\ access = "none" /\ refresh = "none" /\ account = TRUE
    /\ call = [m \in Messages |-> "create"]
    /\ pc = [m \in Messages |-> "typing"]
    /\ sent = [m \in Messages |-> "no"]
    /\ job = [m \in Messages |-> "none"]
    /\ outcome = [m \in Messages |-> "pending"]
    /\ expiries = 0

----------------------------------------------------------------------------
(* A call begins: without a token it logs in first, else it sends the       *)
(* stored one.                                                              *)
Begin(m, what) ==
    /\ call' = [call EXCEPT ![m] = what]
    /\ pc' = [pc EXCEPT ![m] = IF access = "none" THEN "login" ELSE "answer"]
    /\ sent' = [sent EXCEPT ![m] = IF access = "expired" THEN "expired" ELSE "shared"]

(* handle_query returns with a message to the user. *)
Tell(m, what) ==
    /\ pc' = [pc EXCEPT ![m] = "over"]
    /\ outcome' = [outcome EXCEPT ![m] = what]
    /\ sent' = [sent EXCEPT ![m] = "no"]
    /\ UNCHANGED call

Say(m) ==
    /\ pc[m] = "typing"
    /\ Begin(m, "create")
    /\ UNCHANGED <<tokens, account, job, outcome, expiries>>

\* Mutant of LogsIn: the request is sent with the header built before.
LogsInOldHeader(m) ==
    /\ pc[m] \in {"login", "relogin"}
    /\ account
    /\ access' = "good" /\ refresh' = "good"
    /\ pc' = [pc EXCEPT ![m] = IF pc[m] = "login" THEN "answer" ELSE "answer again"]
    /\ UNCHANGED <<sent, account, call, job, outcome, expiries>>

(* POST /auth/login succeeds: both tokens are replaced, and the request is  *)
(* sent with the new one.                                                   *)
LogsIn(m) ==
    /\ pc[m] \in {"login", "relogin"}
    /\ account
    /\ access' = "good" /\ refresh' = "good"
    /\ pc' = [pc EXCEPT ![m] = IF pc[m] = "login" THEN "answer" ELSE "answer again"]
    /\ sent' = [sent EXCEPT ![m] = "own"]
    /\ UNCHANGED <<account, call, job, outcome, expiries>>

(* POST /auth/login is answered 401. *)
LoginRefused(m) ==
    /\ pc[m] \in {"login", "relogin"}
    /\ ~account
    /\ Tell(m, "unauthorized")
    /\ UNCHANGED <<tokens, account, job, expiries>>

(* POST /auth/refresh succeeds: only the access token is replaced. *)
Refreshes(m) ==
    /\ pc[m] = "refresh"
    /\ refresh = "good" /\ account
    /\ access' = "good"
    /\ pc' = [pc EXCEPT ![m] = "answer again"]
    /\ sent' = [sent EXCEPT ![m] = "own"]
    /\ UNCHANGED <<refresh, account, call, job, outcome, expiries>>

(* Any refusal of it, for its token or by a 4xx or 5xx of another cause,    *)
(* turns into a login.                                                      *)
RefreshRefused(m) ==
    /\ pc[m] = "refresh"
    /\ pc' = [pc EXCEPT ![m] = "relogin"]
    /\ UNCHANGED <<tokens, account, call, sent, job, outcome, expiries>>

Awaiting(m) == pc[m] \in {"answer", "answer again"}

(* The token m sent passes get_current_user. *)
Authorized(m) == account /\ sent[m] # "expired"

(* A first 401 leads to a refresh: whoever has sent an access token has a   *)
(* refresh token, so that the code's login in its place is never reached.   *)
FirstRefusal(m) ==
    /\ pc[m] = "answer"
    /\ ~Authorized(m)
    /\ pc' = [pc EXCEPT ![m] = "refresh"]
    /\ UNCHANGED <<tokens, account, call, sent, job, outcome, expiries>>

(* A second one is final.  stream_report's comes as _StreamUnauthorized,    *)
(* which its except clause does not guard a second time; the user hears     *)
(* that the API could not be reached.                                       *)
SecondRefusal(m) ==
    /\ pc[m] = "answer again"
    /\ ~Authorized(m)
    /\ Tell(m, IF call[m] = "stream" THEN "stream unauthorized" ELSE "unauthorized")
    /\ UNCHANGED <<tokens, account, job, expiries>>

(* Any other 4xx or 5xx (429, 503, ...), to a call or to a login, raises    *)
(* ReportAPIError at once.                                                  *)
Rejected(m) ==
    /\ \/ Awaiting(m) /\ Authorized(m)
       \/ pc[m] \in {"login", "relogin"}
    /\ Tell(m, "rejected")
    /\ UNCHANGED <<tokens, account, job, expiries>>

(* The server executes the POST: ReportAccepted, under m's idempotency key. *)
Post(m) ==
    /\ Awaiting(m) /\ call[m] = "create"
    /\ Authorized(m)
    /\ job' = [job EXCEPT ![m] = IF @ = "none" THEN "running" ELSE @]

(* A request of any call is not answered, or the stream breaks: httpx       *)
(* raises, and nothing is sent again.  The POST may have been executed.     *)
NoAnswer(m) ==
    /\ pc[m] \notin {"typing", "over"}
    /\ Post(m) \/ UNCHANGED job
    /\ Tell(m, "unreachable")
    /\ UNCHANGED <<tokens, account, expiries>>

Accepted(m) ==
    /\ Post(m)
    /\ Begin(m, "stream")
    /\ UNCHANGED <<tokens, account, outcome, expiries>>

StreamOpens(m) ==
    /\ Awaiting(m) /\ call[m] = "stream"
    /\ Authorized(m)
    /\ pc' = [pc EXCEPT ![m] = "events"]
    /\ sent' = [sent EXCEPT ![m] = "no"]
    /\ UNCHANGED <<tokens, account, call, job, outcome, expiries>>

(* The status event of a job that has ended, or the end of the body. *)
StreamEnds(m) ==
    /\ pc[m] = "events"
    /\ Begin(m, "get")
    /\ UNCHANGED <<tokens, account, job, outcome, expiries>>

\* Mutant of TimesOut: the timeout covers the opening of the stream only.
TimesOutOpening(m) ==
    /\ call[m] = "stream" /\ pc[m] \notin {"events", "over"}
    /\ Begin(m, "get")
    /\ UNCHANGED <<tokens, account, job, outcome, expiries>>

(* wait_for cancels stream_report after REPORT_POLL_TIMEOUT_SECONDS,        *)
(* wherever it is.                                                          *)
TimesOut(m) ==
    /\ call[m] = "stream" /\ pc[m] # "over"
    /\ Begin(m, "get")
    /\ UNCHANGED <<tokens, account, job, outcome, expiries>>

Verdict(status) ==
    CASE status = "completed" -> "report"
      [] status = "failed"    -> "failed"
      [] OTHER                -> "still running"

Got(m) ==
    /\ Awaiting(m) /\ call[m] = "get"
    /\ Authorized(m)
    /\ Tell(m, Verdict(job[m]))
    /\ UNCHANGED <<tokens, account, job, expiries>>

----------------------------------------------------------------------------
(* The server's side: a job ends (of one that ends after its message, no    *)
(* session hears); the stored token expires, and with it     *)
(* some of the shared ones that are on their way; a refresh token expires;  *)
(* the user is deleted.                                                     *)
JobEnds(m) ==
    /\ job[m] = "running" /\ pc[m] # "over"
    /\ \E end \in {"completed", "failed"} : job' = [job EXCEPT ![m] = end]
    /\ UNCHANGED <<tokens, account, call, pc, sent, outcome, expiries>>

AccessExpires ==
    /\ access = "good" /\ expiries < MaxExpiries
    /\ expiries' = expiries + 1
    /\ access' = "expired"
    /\ \E late \in SUBSET {m \in Messages : sent[m] = "shared"} :
         sent' = [m \in Messages |-> IF m \in late THEN "expired" ELSE sent[m]]
    /\ UNCHANGED <<refresh, account, call, pc, job, outcome>>

RefreshExpires ==
    /\ refresh = "good"
    /\ refresh' = "expired"
    /\ UNCHANGED <<access, account, call, pc, sent, job, outcome, expiries>>

UserDeleted ==
    /\ account
    /\ account' = FALSE
    /\ UNCHANGED <<tokens, call, pc, sent, job, outcome, expiries>>

(* A message beyond these, of whichever session, logs in or refreshes: it is *)
(* the same user, and the same token pair.                                  *)
OthersRenew ==
    /\ account
    /\ access # "good" \/ refresh # "good"
    /\ access' = "good" /\ refresh' = "good"
    /\ UNCHANGED <<account, call, pc, sent, job, outcome, expiries>>

Proceed(m) ==
    \/ LogsIn(m) \/ LoginRefused(m) \/ Refreshes(m) \/ RefreshRefused(m)
    \/ FirstRefusal(m) \/ SecondRefusal(m) \/ Rejected(m)
    \/ Accepted(m) \/ StreamOpens(m) \/ Got(m)

ClientStep(m) ==
    \/ Say(m) \/ Proceed(m) \/ NoAnswer(m) \/ StreamEnds(m) \/ TimesOut(m)

ServerStep ==
    \/ \E m \in Messages : JobEnds(m)
    \/ AccessExpires \/ RefreshExpires \/ UserDeleted

ClientNext == (\E m \in Messages : ClientStep(m)) \/ ServerStep \/ OthersRenew

ClientSpec == ClientInit /\ [][ClientNext]_clientVars

----------------------------------------------------------------------------
(* "A second 401 after that means the credentials themselves are bad, not   *)
(* just stale" (report_api_client.py:178-180): whatever other messages do   *)
(* to the shared tokens, no expired token makes a call fail.                *)
UnauthorizedMeansNoUser ==
    \A m \in Messages : outcome[m] \in {"unauthorized", "stream unauthorized"} => ~account
=============================================================================

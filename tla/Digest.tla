-------------------------------- MODULE Digest --------------------------------
(***************************************************************************)
(* The GitHub digest: the runs of scripts/gh_daily_digest.py, each a       *)
(* process that tests the day's stamp, sends, and writes the stamp; and    *)
(* one paginated listing of GitHubClient (src/github/client.py), with the  *)
(* retries of _request.                                                    *)
(*                                                                         *)
(* The two do not meet: with --no-mock the script calls methods and        *)
(* keywords that the client does not have, and raises before any request.  *)
(***************************************************************************)
EXTENDS Integers, Sequences, FiniteSets

CONSTANTS
    Procs,          \* the runs of the script
    Days,           \* the Kyiv days, 1..n
    MaxRetries,     \* attempts of one request
    MaxPages,       \* pages of one listing
    MaxSleep,       \* max_sleep_on_reset
    Backoff(_),     \* _calc_backoff of an attempt
    Resets,         \* X-RateLimit-Reset, as seconds from now
    RetryAfters     \* the numbers a Retry-After header may hold

ASSUME DigestAssumption ==
    /\ Days \subseteq Nat /\ MaxRetries \in Nat \ {0} /\ MaxPages \in Nat \ {0}
    /\ MaxSleep \in Nat /\ Resets \subseteq Int /\ RetryAfters \subseteq Nat

(* backoff_factor * 2^(attempt - 1); the jitter is less than the first step. *)
ASSUME BackoffAssumption ==
    \A a \in 1..MaxRetries : Backoff(a) \in Nat /\ Backoff(a) <= Backoff(MaxRetries)

VARIABLES
    today,      \* the Kyiv day
    proc,       \* each run of the script
    stamps,     \* the days that have a stamp file
    completed,  \* history: the days whose stamp some run has written
    chat,       \* history: the runs whose digest reached the chat
    req         \* the listing: its page, attempt, sleep and what it has

stampVars == <<today, proc, stamps, completed, chat>>
digestVars == <<stampVars, req>>

Idle == [pc |-> "idle", day |-> 0, send |-> FALSE, force |-> FALSE, seen |-> {}]

DigestInit ==
    /\ today = 1
    /\ proc = [p \in Procs |-> Idle]
    /\ stamps = {} /\ completed = {} /\ chat = {}
    /\ req = [pc |-> "asking", page |-> 1, attempt |-> 1, sleep |-> 0, asked |-> 0, got |-> {}]

-----------------------------------------------------------------------------
(* main up to the report: the arguments, the day (today's unless --date), the *)
(* mock events and the text.  Real mode raises TypeError in list_commits.     *)
StartRun(p) ==
    /\ proc[p].pc = "idle"
    /\ \E day \in Days, send, force, mock \in BOOLEAN :
         proc' = [proc EXCEPT ![p] =
            [Idle EXCEPT !.pc = IF ~mock THEN "raised" ELSE IF send THEN "checking" ELSE "done",
                         !.day = day, !.send = send, !.force = force]]
    /\ UNCHANGED <<today, stamps, completed, chat, req>>

(* _should_send_today, unless --force. *)
CheckStamp(p) ==
    /\ proc[p].pc = "checking"
    /\ proc' = [proc EXCEPT ![p].pc = IF proc[p].force \/ proc[p].day \notin stamps
                                      THEN "sending" ELSE "skipped",
                            ![p].seen = completed]
    /\ UNCHANGED <<today, stamps, completed, chat, req>>

(* _send_telegram: one POST.  Missing credentials, an answer that is not 2xx,  *)
(* not JSON or not ok, and a lost answer end the run with status 2; the digest *)
(* may be in the chat all the same.                                            *)
SendDigest(p) ==
    /\ proc[p].pc = "sending"
    /\ \E reached, ok \in BOOLEAN :
         /\ ok => reached
         /\ chat' = IF reached THEN chat \cup {p} ELSE chat
         /\ proc' = [proc EXCEPT ![p].pc = IF ok THEN "marking" ELSE "error"]
    /\ UNCHANGED <<today, stamps, completed, req>>

\* Mutant: the stamp is that of today, not of the digest's day.
Mark_Today(p) ==
    /\ proc[p].pc = "marking"
    /\ proc' = [proc EXCEPT ![p].pc = "done"]
    /\ stamps' = stamps \cup {today}
    /\ completed' = completed \cup {proc[p].day}
    /\ UNCHANGED <<today, chat, req>>

(* _mark_sent_today; when the file cannot be written the run ends with 2. *)
Mark(p) ==
    /\ proc[p].pc = "marking"
    /\ \/ /\ proc' = [proc EXCEPT ![p].pc = "done"]
          /\ stamps' = stamps \cup {proc[p].day}
          /\ completed' = completed \cup {proc[p].day}
       \/ /\ proc' = [proc EXCEPT ![p].pc = "error"]
          /\ UNCHANGED <<stamps, completed>>
    /\ UNCHANGED <<today, chat, req>>

Crash(p) ==
    /\ proc[p].pc \in {"checking", "sending", "marking"}
    /\ proc' = [proc EXCEPT ![p].pc = "dead"]
    /\ UNCHANGED <<today, stamps, completed, chat, req>>

Midnight ==
    /\ today + 1 \in Days
    /\ today' = today + 1
    /\ UNCHANGED <<proc, stamps, completed, chat, req>>

-----------------------------------------------------------------------------
(* _request and the loop of list_commits, list_pulls and list_tags.  One      *)
(* answer per action; a sleep is part of the answer that causes it.           *)
Retry(sleep, asked) ==
    req' = [req EXCEPT !.pc = "asking", !.attempt = @ + 1, !.sleep = sleep, !.asked = asked]
Raise == req' = [req EXCEPT !.pc = "raised"]
HasAttempts == req.attempt < MaxRetries
Asking == req.pc = "asking" /\ UNCHANGED stampVars

(* 2xx: a full page, and the next one is asked for; a short page, the last; an *)
(* empty one, or no list at all.                                               *)
NextPage ==
    /\ Asking
    /\ \/ req' = [req EXCEPT !.got = @ \cup {req.page}, !.attempt = 1, !.sleep = 0,
                             !.page = @ + 1,
                             !.pc = IF req.page < MaxPages THEN "asking" ELSE "listed"]
       \/ req' = [req EXCEPT !.got = @ \cup {req.page}, !.pc = "short"]
       \/ req' = [req EXCEPT !.pc = "short"]

(* An exception of the transport. *)
TransportError ==
    /\ Asking
    /\ IF HasAttempts THEN Retry(Backoff(req.attempt), 0) ELSE Raise

(* 429 and 5xx: what Retry-After asks for, however long, or the backoff. *)
Retryable ==
    /\ Asking
    /\ IF HasAttempts
       THEN \/ \E s \in RetryAfters : Retry(s, s)
            \/ Retry(Backoff(req.attempt), 0)
       ELSE Raise

(* A 403 whose remaining quota is 0 or unknown: until the reset, at most       *)
(* max_sleep_on_reset, or the backoff when the reset has passed.               *)
RateLimited ==
    /\ Asking
    /\ IF HasAttempts
       THEN \E r \in Resets :
              LET delay == IF r < 0 THEN 0 ELSE IF r > MaxSleep THEN MaxSleep ELSE r
              IN Retry(IF delay = 0 THEN Backoff(req.attempt) ELSE delay, 0)
       ELSE Raise

\* Mutant: a page that cannot be had ends the listing.
Refused_Ends == Asking /\ req' = [req EXCEPT !.pc = "listed", !.page = @ + 1]

(* Any other status: raise_for_status. *)
Refused == Asking /\ Raise

DigestNext ==
    \/ \E p \in Procs : StartRun(p) \/ CheckStamp(p) \/ SendDigest(p) \/ Mark(p) \/ Crash(p)
    \/ Midnight
    \/ NextPage \/ TransportError \/ Retryable \/ RateLimited \/ Refused

DigestSpec == DigestInit /\ [][DigestNext]_digestVars

-----------------------------------------------------------------------------
(* The daily throttle: once a run has written the stamp of a day, no run that   *)
(* checks after it sends that day's digest again, unless forced to; on whatever *)
(* day it runs.  Two runs that overlap, a crash, a lost answer or a stamp that  *)
(* cannot be written may send it twice (gh_daily_digest.py:245-250).            *)
SentOncePerDay ==
    \A p \in chat : ~proc[p].force => proc[p].day \notin proc[p].seen

(* A listing that returns has every page up to its end: no page that failed is  *)
(* left out, and it ends early only at a short page.  It asks for a page at     *)
(* most MaxRetries times, and sleeps longer than the reset's cap and the last   *)
(* backoff only when Retry-After says so (client.py:108-142, 171-180).          *)
ListingFaithful ==
    /\ req.pc = "listed" => req.got = 1..MaxPages
    /\ req.pc = "short" => req.got \in {1..(req.page - 1), 1..req.page}
    /\ req.attempt \in 1..MaxRetries
    /\ req.sleep > MaxSleep /\ req.sleep > Backoff(MaxRetries) => req.asked = req.sleep
=============================================================================

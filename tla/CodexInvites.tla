---------------------------- MODULE CodexInvites ----------------------------
(***************************************************************************)
(* Single-use invite links to sign a Codex account in (codex_invites.py and *)
(* the /codex/onboard handlers of auth_proxy.py).  Whoever opens the link   *)
(* starts a device sign-in, and the page polls its status: at most one poll *)
(* per interval asks the provider, and when the user has approved, the      *)
(* handler exchanges the code, stores the account and marks the invite used. *)
(* Each operation on the invite file is one step; the calls to the provider *)
(* are awaited in between, and an admin may revoke or reissue the link.     *)
(*                                                                         *)
(* Simplifications: one account name; a link is a number, reissued links    *)
(* are new ones; the provider approves each device code once; the interval  *)
(* is one unit of time.                                                    *)
(***************************************************************************)
EXTENDS Integers, FiniteSets

CONSTANTS Links, Visits,
          LinkTTL, CodeTTL, \* INVITE_TTL_S, DEVICE_CODE_TTL_S
          CallTime,         \* longest time from a grant to the stored account
          MaxCodes, MaxTime \* bounds: device codes, the clock

VARIABLES now,
          invite,  \* _invites.json: the record of each link, or NoInvite
          codes,   \* device codes handed out so far
          spent,   \* device codes that were exchanged
          visit,   \* each request of the sign-in page
          stored,  \* ghost: when each link stored its first and last account
          faulted  \* ghost: links whose account was stored by a handler that died
                   \* before it marked them

ghosts == <<stored, faulted>>
vars == <<now, invite, codes, spent, visit, ghosts>>

NoInvite == [code |-> 0, started |-> -1, polled |-> -1, used |-> FALSE, expires |-> -1]
Idle == [at |-> "idle"]
NotStored == [first |-> -1, last |-> -1]

Init == /\ now = 0 /\ invite = [l \in Links |-> NoInvite] /\ codes = 0 /\ spent = {}
        /\ visit = [v \in Visits |-> Idle]
        /\ stored = [l \in Links |-> NotStored] /\ faulted = {}

(***************************************************************************)
(* CodexInviteStore                                                        *)
(***************************************************************************)
Known(l) == invite[l] # NoInvite

\* status_of, for a link that is known.
Status(l) ==
    CASE invite[l].used -> "used"
      [] ~invite[l].used /\ now > invite[l].expires -> "expired"
      [] OTHER -> IF invite[l].code # 0 /\ now - invite[l].started <= CodeTTL
                  THEN "awaiting" ELSE "pending"

Live(l) == Known(l) /\ Status(l) \in {"awaiting", "pending"}

\* create: one pending link per name, and used ones are kept.
Create(l) ==
    /\ ~Known(l)
    /\ invite' = [m \in Links |->
          IF m = l THEN [NoInvite EXCEPT !.expires = now + LinkTTL]
          ELSE IF invite[m].used THEN invite[m] ELSE NoInvite]
    /\ \A v \in Visits : visit[v].at # "idle" => visit[v].link # l
    /\ stored[l] = NotStored
    /\ UNCHANGED <<now, codes, spent, visit, ghosts>>

Revoke(l) == /\ Known(l) /\ invite' = [invite EXCEPT ![l] = NoInvite]
             /\ UNCHANGED <<now, codes, spent, visit, ghosts>>

\* _mutate: nothing happens to a link that is gone.
Mutated(l, new) == invite' = IF Known(l) THEN [invite EXCEPT ![l] = new] ELSE invite

Cleared(l) == [invite[l] EXCEPT !.code = 0, !.started = -1, !.polled = -1]

(***************************************************************************)
(* The sign-in page                                                        *)
(***************************************************************************)
Go(v, step) == visit' = [visit EXCEPT ![v] = step]

\* /start: the code is asked for, and put into the invite as it is then.
Start(v, l) ==
    /\ visit[v] = Idle /\ Live(l) /\ codes < MaxCodes
    /\ Go(v, [at |-> "starting", link |-> l])
    /\ UNCHANGED <<now, invite, codes, spent, ghosts>>

Started(v) ==
    /\ visit[v].at = "starting" /\ codes < MaxCodes
    /\ codes' = codes + 1 /\ Go(v, Idle)
    /\ LET l == visit[v].link IN
       Mutated(l, [invite[l] EXCEPT !.code = codes', !.started = now, !.polled = -1])
    /\ UNCHANGED <<now, spent, ghosts>>

\* A device code that timed out is cleared, so that a fresh one can be started.
Timed(l) == /\ Known(l) /\ Status(l) = "pending" /\ invite[l].code # 0
            /\ Mutated(l, Cleared(l)) /\ UNCHANGED <<now, codes, spent, visit, ghosts>>

\* due_for_poll
Due(l) == invite[l].polled = -1 \/ now - invite[l].polled >= 1

Good(l) == Known(l) /\ Status(l) = "awaiting"

Poll(v, l) ==
    /\ visit[v] = Idle /\ Good(l) /\ Due(l)
    /\ Mutated(l, [invite[l] EXCEPT !.polled = now])
    /\ Go(v, [at |-> "polling", link |-> l, code |-> invite[l].code, since |-> now])
    /\ UNCHANGED <<now, codes, spent, ghosts>>

NotApproved(v) == /\ visit[v].at = "polling" /\ Go(v, Idle)
                  /\ UNCHANGED <<now, invite, codes, spent, ghosts>>

\* The provider fails, or the code was exchanged before.
PollFails(v) ==
    /\ visit[v].at = "polling" /\ Go(v, Idle)
    /\ Mutated(visit[v].link, Cleared(visit[v].link))
    /\ UNCHANGED <<now, codes, spent, ghosts>>

\* Approved and exchanged: the account is stored, and the router reloaded.
Connected(v) ==
    /\ visit[v].at = "polling" /\ visit[v].code \notin spent
    /\ spent' = spent \cup {visit[v].code}
    /\ stored' = [stored EXCEPT ![visit[v].link] =
                     [first |-> IF @ = NotStored THEN now ELSE @.first, last |-> now]]
    /\ Go(v, [visit[v] EXCEPT !.at = "marking"])
    /\ UNCHANGED <<now, invite, codes, faulted>>

\* Mutant of Mark: the mark is forgotten.
Forget(l) == invite[l]

Mark(l) == [invite[l] EXCEPT !.used = TRUE]

MarkUsed(v) ==
    /\ visit[v].at = "marking" /\ Go(v, Idle)
    /\ Mutated(visit[v].link, Mark(visit[v].link))
    /\ UNCHANGED <<now, codes, spent, ghosts>>

Marking(l) == \E v \in Visits : visit[v].at = "marking" /\ visit[v].link = l

\* The ingress restarts: its requests are gone, the invites are kept.
Crash == /\ visit # [v \in Visits |-> Idle] /\ visit' = [v \in Visits |-> Idle]
         /\ faulted' = faulted \cup {l \in Links : Marking(l)}
         /\ UNCHANGED <<now, invite, codes, spent, stored>>

\* No call outlives its timeout.
Tick == /\ now < MaxTime /\ now' = now + 1
        /\ \A v \in Visits : visit[v].at \in {"polling", "marking"} =>
                               now - visit[v].since < CallTime
        /\ UNCHANGED <<invite, codes, spent, visit, ghosts>>

Next == \/ Tick \/ Crash
        \/ \E l \in Links : Create(l) \/ Revoke(l) \/ Timed(l)
        \/ \E v \in Visits, l \in Links : Start(v, l) \/ Poll(v, l)
        \/ \E v \in Visits : \/ Started(v) \/ NotApproved(v) \/ PollFails(v)
                             \/ Connected(v) \/ MarkUsed(v)

Spec == Init /\ [][Next]_vars

TypeOK == /\ now \in 0..MaxTime /\ codes \in 0..MaxCodes /\ spent \subseteq 1..codes
          /\ \A l \in Links : invite[l].code \in 0..codes

(* "Single-use invite links": whatever polls of the page overlap, and        *)
(* whatever links are revoked, reissued or run out, the accounts of one link *)
(* are all stored within two calls of the first (codex_onboard_status marks  *)
(* the invite used only after the reload it awaits, and polls of two device  *)
(* codes of one link may overlap) - unless the ingress died before the mark. *)
UsedOnceUnlessOverlapping == \A l \in Links \ faulted :
    stored[l].last - stored[l].first <= 2 * CallTime
=============================================================================
